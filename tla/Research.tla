------------------------------ MODULE Research ------------------------------
(***************************************************************************)
(* The data commands: "research fundamentals" reads two documents of SEC   *)
(* EDGAR through a file cache, a rate limiter and retries and derives the  *)
(* fundamentals from them; "universe build" and the start of "run-window"  *)
(* ask the market about each asset and build the universe of a track.      *)
(*                                                                         *)
(* A worker runs one command at a time.  Workers of one process share its  *)
(* rate limiter, workers of one JsonFileCache its lock, and all of them    *)
(* the files.  A tick of time is half a second, the unit of the backoff;   *)
(* a file is its age, counted up to its time to live.                      *)
(***************************************************************************)
EXTENDS Universe

CONSTANTS
  Workers, Processes, Caches,
  Tickers, CompanyFacts,    \* the two cache keys
  Torn,                     \* a file that is not one whole JSON document
  Ttl,                      \* ticks a document of each key is kept
  Window, MaxRps,           \* the limiter: MaxRps requests in Window ticks
  MaxRetries,
  MaxRuns,                  \* bound: commands one worker runs
  MaxCrashes,               \* bound: processes killed
  Settings,                 \* who works where, on what, over which files that
                            \* earlier commands left, in which world:
  Setup(_), Company(_), Market(_),
  Today, StaleDays,
  CannedUniverse            \* _CANNED_TRACK_UNIVERSE with its fallback

Keys == {Tickers, CompanyFacts}

F == INSTANCE Fundamentals

ASSUME ResearchAssumption ==
  /\ Ttl \in [Keys -> Nat \ {0}] /\ Window \in Nat \ {0}
  /\ MaxRps \in Nat \ {0} /\ MaxRetries \in Nat
  /\ IsFiniteSet(Caches) /\ IsFiniteSet(Workers)
  /\ None # Torn /\ None \notin Nat /\ Torn \notin Nat
  /\ None \notin Workers \union {"tmp", "path", "gone"}
  /\ \A s \in Settings : /\ Setup(s).proc \in [Workers -> Processes]
                         /\ Setup(s).cache \in [Workers -> Caches]
                         /\ Setup(s).left \in [Keys -> {None, Torn}]
                         /\ \A w \in Workers : LET c == Setup(s).command[w] IN
                              c.kind # "fundamentals" => c.limit \in Nat

\* Alpaca lists an asset once.
Quoted(q) == /\ q.price \in Nat \union {None} /\ q.cap \in Nat \union {None}
             /\ q.bars \in Seq(Nat)
ASSUME MarketAssumption ==
  /\ None \notin Int \union Bands
  /\ \A s \in Settings : LET m == Market(s) IN
       /\ m \in Seq(Range(m))
       /\ \A i \in DOMAIN m : m[i].symbol \in Nat /\ Quoted(m[i].quote)
       /\ \A i, j \in DOMAIN m : m[i].symbol = m[j].symbol => i = j

\* A tag belongs to one of the two taxonomies.
ASSUME FilingsAssumption ==
  \A s \in Settings : LET facts == Company(s).facts IN
    /\ DOMAIN facts.gaap \intersect DOMAIN facts.dei = {}
    /\ \A namespace \in {facts.gaap, facts.dei} : \A t \in DOMAIN namespace :
         /\ namespace[t] \in Seq(Range(namespace[t]))
         /\ \A i \in DOMAIN namespace[t] : namespace[t][i].end \in Nat \union {None}

VARIABLES
  setup, company, market,   \* one of the settings; never change
  pc, runs, crashes,
  key,       \* the document each worker is after
  attempt,   \* _get_json's counter
  wait,      \* ticks of backoff left
  payload,   \* age of the record a worker writes, or None
  handle,    \* where the file a worker has open is: "tmp", "path", "gone"
  path, tmp, \* the files of each key
  lock,      \* of each cache
  stamps,    \* ages of the requests each limiter remembers
  answers,   \* snapshots a build has so far
  asked,     \* assets it has asked about
  result,    \* what the last command of each worker printed
  why,       \* history: why it failed
  bad,       \* history: attempts of the fetch the server did not serve
  sent       \* history: requests of each process at each age below Window

world   == <<setup, company, market>>
files   == <<path, tmp, lock>>
history == <<why, bad, sent>>
fetch   == <<key, attempt, wait, payload, handle>>
build   == <<answers, asked>>
vars    == <<world, runs, crashes, pc, fetch, files, stamps, build, result, history>>

Running(w)  == pc[w] \notin {"idle", "done", "failed", "dead"}
CacheOf(w)  == setup.cache[w]
ProcOf(w)   == setup.proc[w]
Command(w)  == setup.command[w]
Set(f, w, v) == [f EXCEPT ![w] = v]
Go(w, at)   == pc' = Set(pc, w, at)

Init ==
  /\ \E s \in Settings : setup = Setup(s) /\ company = Company(s) /\ market = Market(s)
  /\ pc = [w \in Workers |-> "idle"] /\ runs = [w \in Workers |-> 0] /\ crashes = 0
  /\ key = [w \in Workers |-> Tickers]
  /\ attempt = [w \in Workers |-> 0] /\ wait = [w \in Workers |-> 0]
  /\ payload = [w \in Workers |-> None] /\ handle = [w \in Workers |-> None]
  /\ path = setup.left /\ tmp = [k \in Keys |-> None]
  /\ lock = [c \in Caches |-> None]
  /\ stamps = [p \in Processes |-> <<>>]
  /\ answers = [w \in Workers |-> <<>>] /\ asked = [w \in Workers |-> 0]
  /\ result = [w \in Workers |-> None] /\ why = [w \in Workers |-> None]
  /\ bad = [w \in Workers |-> 0]
  /\ sent = [p \in Processes |-> [t \in 0..Window-1 |-> 0]]

Fail(w, reason) ==
  Go(w, "failed") /\ why' = Set(why, w, reason)

-----------------------------------------------------------------------------
(***************************************************************************)
(* The file cache.                                                         *)
(***************************************************************************)
\* Mutant: no lock.
LockFree_Always(c) == TRUE

LockFree(c) == lock[c] = None

\* Whoever has the file open keeps writing to it, wherever it has gone.
Moved(k, w) ==
  handle' = [v \in Workers |->
    CASE v = w -> None
      [] v # w /\ key[v] = k /\ handle[v] = "tmp"  -> "path"
      [] v # w /\ key[v] = k /\ handle[v] = "path" -> "gone"
      [] OTHER -> handle[v]]

\* get: a fresh record is served, a torn file is unlinked, the rest is a miss.
Hit(k) == path[k] \notin {None, Torn} /\ path[k] < Ttl[k]

Served(w, age) ==
  IF key[w] = Tickers
  THEN IF company.listed
       THEN key' = Set(key, w, CompanyFacts) /\ Go(w, "lookup") /\ UNCHANGED why
       ELSE Fail(w, "unlisted") /\ UNCHANGED key
  ELSE Go(w, "derive") /\ UNCHANGED <<key, why>>

Lookup(w) ==
  /\ pc[w] = "lookup"
  /\ attempt' = Set(attempt, w, 0) /\ bad' = Set(bad, w, 0)
  /\ IF Hit(key[w]) THEN Served(w, path[key[w]])
     ELSE Go(w, IF path[key[w]] = Torn THEN "unlink" ELSE "acquire")
          /\ UNCHANGED <<key, why>>
  /\ UNCHANGED <<world, runs, crashes, wait, payload, handle, files, stamps, build, result, sent>>

\* By then the name may belong to another file.
Unlink(w) ==
  /\ pc[w] = "unlink" /\ LockFree(CacheOf(w))
  /\ path' = Set(path, key[w], None)
  /\ handle' = [v \in Workers |-> IF key[v] = key[w] /\ handle[v] = "path"
                                  THEN "gone" ELSE handle[v]]
  /\ Go(w, "acquire")
  /\ UNCHANGED <<world, runs, crashes, key, attempt, wait, payload, tmp, lock,
                 stamps, build, result, history>>

\* put: the record is dated first, then written aside and renamed.
OpenTmp(w) ==
  /\ pc[w] = "put" /\ LockFree(CacheOf(w))
  /\ lock' = Set(lock, CacheOf(w), w)
  /\ tmp' = Set(tmp, key[w], Torn) /\ handle' = Set(handle, w, "tmp")
  /\ Go(w, "write")
  /\ UNCHANGED <<world, runs, crashes, key, attempt, wait, payload, path,
                 stamps, build, result, history>>

\* Over what somebody else has written, the shorter record leaves a tail.
Written(old, age) == IF old = Torn THEN {age} ELSE {age, Torn}

WriteTmp(w) ==
  /\ pc[w] = "write" /\ Go(w, "rename")
  /\ handle' = Set(handle, w, None)
  /\ CASE handle[w] = "tmp"  -> /\ \E f \in Written(tmp[key[w]], payload[w]) :
                                     tmp' = Set(tmp, key[w], f)
                                /\ UNCHANGED path
       [] handle[w] = "path" -> /\ \E f \in Written(path[key[w]], payload[w]) :
                                     path' = Set(path, key[w], f)
                                /\ UNCHANGED tmp
       [] OTHER              -> UNCHANGED <<path, tmp>>
  /\ UNCHANGED <<world, runs, crashes, key, attempt, wait, payload, lock,
                 stamps, build, result, history>>

Rename(w) ==
  /\ pc[w] = "rename"
  /\ lock' = Set(lock, CacheOf(w), None)
  /\ payload' = Set(payload, w, None)
  /\ IF tmp[key[w]] = None
     THEN Fail(w, "tmp") /\ UNCHANGED <<path, tmp, handle, key>>
     ELSE /\ path' = Set(path, key[w], tmp[key[w]]) /\ tmp' = Set(tmp, key[w], None)
          /\ Moved(key[w], w) /\ Served(w, payload[w])
  /\ UNCHANGED <<world, runs, crashes, attempt, wait, stamps, build, result, bad, sent>>

-----------------------------------------------------------------------------
(***************************************************************************)
(* _get_json: the limiter, the server and the retries.                     *)
(***************************************************************************)
\* The deque without the requests at its left end that are too old.
Expired(ages, age) == Max({n \in 0..Len(ages) : \A i \in 1..n : ages[i] >= age})

\* Mutants: a request is forgotten a tick early, or never.
Recent_Early(ages) == SubSeq(ages, Expired(ages, Window - 1) + 1, Len(ages))
Recent_All(ages)   == ages

Recent(ages) == SubSeq(ages, Expired(ages, Window) + 1, Len(ages))

\* Mutant: one attempt too few.
Exhausted_Early(n) == n >= MaxRetries - 1

Exhausted(n) == n >= MaxRetries

Acquire(w) ==
  LET p == ProcOf(w) IN
  /\ pc[w] = "acquire"
  /\ Len(Recent(stamps[p])) < MaxRps
  /\ stamps' = Set(stamps, p, Append(Recent(stamps[p]), 0))
  /\ Go(w, "granted")
  /\ UNCHANGED <<world, runs, crashes, fetch, files, build, result, history>>

\* However long after acquire() has returned.
Send(w) ==
  /\ pc[w] = "granted" /\ Go(w, "sent")
  /\ sent' = [sent EXCEPT ![ProcOf(w)][0] = @ + 1]
  /\ UNCHANGED <<world, runs, crashes, fetch, files, stamps, build, result, why, bad>>

Answered(w) ==
  /\ pc[w] = "sent" /\ Go(w, "put")
  /\ payload' = Set(payload, w, 0)
  /\ UNCHANGED <<world, runs, crashes, key, attempt, wait, handle, files, stamps,
                 build, result, history>>

\* A transport error, 429 or 5xx.
NotServed(w) ==
  /\ pc[w] = "sent"
  /\ bad' = Set(bad, w, bad[w] + 1)
  /\ IF Exhausted(attempt[w])
     THEN Fail(w, "server") /\ UNCHANGED <<attempt, wait>>
     ELSE /\ wait' = Set(wait, w, 2 ^ attempt[w])
          /\ attempt' = Set(attempt, w, attempt[w] + 1)
          /\ Go(w, "backoff") /\ UNCHANGED why
  /\ UNCHANGED <<world, runs, crashes, key, payload, handle, files, stamps,
                 build, result, sent>>

\* Any other status, or no JSON object.
Refused(w) ==
  /\ pc[w] = "sent" /\ Fail(w, "refused")
  /\ UNCHANGED <<world, runs, crashes, fetch, files, stamps, build, result, bad, sent>>

WakeUp(w) ==
  /\ pc[w] = "backoff" /\ wait[w] = 0 /\ Go(w, "acquire")
  /\ UNCHANGED <<world, runs, crashes, fetch, files, stamps, build, result, history>>

-----------------------------------------------------------------------------
(***************************************************************************)
(* The commands.                                                           *)
(***************************************************************************)
Assets == TradableOf(market)

\* The price of a fundamentals command is asked for first; a universe needs
\* settings, and run-window does without them.
Begin(w) ==
  /\ ~Running(w) /\ pc[w] # "dead" /\ runs[w] < MaxRuns
  /\ runs' = Set(runs, w, runs[w] + 1)
  /\ key' = Set(key, w, Tickers) /\ why' = Set(why, w, None)
  /\ answers' = Set(answers, w, <<>>) /\ asked' = Set(asked, w, 0)
  /\ result' = Set(result, w, None)
  /\ Go(w, IF Command(w).kind = "fundamentals" THEN "price" ELSE "settings")
  /\ UNCHANGED <<world, crashes, attempt, wait, payload, handle, files, stamps, bad, sent>>

Price(w) ==
  /\ pc[w] = "price"
  /\ \/ Go(w, "lookup") /\ UNCHANGED why
     \/ Fail(w, "market")
  /\ UNCHANGED <<world, runs, crashes, fetch, files, stamps, build, result, bad, sent>>

\* What it prints is F!Derive of these.
DeriveFundamentals(w) ==
  /\ pc[w] = "derive"
  /\ result' = Set(result, w, [facts |-> company.facts, price |-> company.price])
  /\ Go(w, "done")
  /\ UNCHANGED <<world, runs, crashes, fetch, files, stamps, build, history>>

Canned(w) ==
  /\ result' = Set(result, w, [canned |-> CannedUniverse])
  /\ Go(w, "done") /\ UNCHANGED why

\* A build raises KeyError for a track without a policy before it loads.
LoadSettings(w) ==
  LET c == Command(w) IN
  /\ pc[w] = "settings"
  /\ \/ /\ c.fake \/ c.track \notin DOMAIN DefaultPolicies
        /\ IF c.kind = "window" THEN Canned(w)
           ELSE Fail(w, "policy") /\ UNCHANGED result
     \/ /\ ~c.fake
        /\ IF c.kind = "window" THEN Canned(w)
           ELSE Fail(w, "settings") /\ UNCHANGED result
     \/ /\ ~c.fake /\ c.track \in DOMAIN DefaultPolicies
        /\ \/ Go(w, "assets") /\ UNCHANGED <<why, result>>
           \/ Fail(w, "market") /\ UNCHANGED result
  /\ UNCHANGED <<world, runs, crashes, fetch, files, stamps, build, bad, sent>>

\* The live provider leaves out what it has no source for yet.
SnapshotOf(asset) ==
  LET q == asset.quote IN
  [price |-> q.price, adv |-> AdvUsd(q.bars, 20),
   cap   |-> IF setup.provider = "live" THEN None ELSE q.cap,
   news  |-> IF setup.provider = "live" THEN None ELSE q.news,
   filed |-> IF setup.provider = "live" THEN None ELSE q.filed]

Snapshots(known, asset) ==
  [s \in DOMAIN known \union {asset.symbol} |->
     IF s = asset.symbol THEN SnapshotOf(asset) ELSE known[s]]

\* One asset after the other; an exception, or no price, leaves it out.
AskAsset(w) ==
  LET asset == Assets[asked[w] + 1] IN
  /\ pc[w] = "assets" /\ asked[w] < Len(Assets)
  /\ asked' = Set(asked, w, asked[w] + 1)
  /\ \/ asset.quote.price # None
        /\ answers' = Set(answers, w, Snapshots(answers[w], asset))
     \/ UNCHANGED answers
  /\ UNCHANGED <<world, runs, crashes, pc, fetch, files, stamps, result, history>>

BuildUniverse(w) ==
  /\ pc[w] = "assets"
  /\ \E assets \in {Assets} :
       /\ asked[w] = Len(assets)
       /\ result' = Set(result, w, Build(assets, answers[w],
                          DefaultPolicies[Command(w).track], Command(w).limit))
  /\ Go(w, "done")
  /\ UNCHANGED <<world, runs, crashes, fetch, files, stamps, build, history>>

-----------------------------------------------------------------------------
(* Time and crashes.                                                       *)
Aged(file, k) == IF file \in {None, Torn} THEN file ELSE Min({file + 1, Ttl[k]})

Tick ==
  /\ path' = [k \in Keys |-> Aged(path[k], k)]
  /\ tmp'  = [k \in Keys |-> Aged(tmp[k], k)]
  /\ payload' = [w \in Workers |-> Aged(payload[w], key[w])]
  /\ wait' = [w \in Workers |-> Max({0, wait[w] - 1})]
  /\ stamps' = [p \in Processes |->
       [i \in DOMAIN stamps[p] |-> Min({stamps[p][i] + 1, Window})]]
  /\ sent' = [p \in Processes |-> [t \in 0..Window-1 |->
       IF t = 0 THEN 0 ELSE sent[p][t-1]]]
  /\ UNCHANGED <<world, runs, crashes, pc, key, attempt, handle, lock, build,
                 result, why, bad>>

\* Its locks, open files and limiter go with it; the files stay.
Crash(p) ==
  LET gone == {w \in Workers : ProcOf(w) = p} IN
  /\ crashes < MaxCrashes /\ crashes' = crashes + 1
  /\ \E w \in gone : Running(w)
  /\ pc' = [w \in Workers |-> IF w \in gone THEN "dead" ELSE pc[w]]
  /\ handle' = [w \in Workers |-> IF w \in gone THEN None ELSE handle[w]]
  /\ payload' = [w \in Workers |-> IF w \in gone THEN None ELSE payload[w]]
  /\ lock' = [c \in Caches |-> IF lock[c] \in gone THEN None ELSE lock[c]]
  /\ stamps' = Set(stamps, p, <<>>)
  /\ UNCHANGED <<world, runs, key, attempt, wait, path, tmp, build, result, history>>

Step(w) ==
  \/ Lookup(w) \/ Unlink(w) \/ OpenTmp(w) \/ WriteTmp(w) \/ Rename(w)
  \/ Acquire(w) \/ Send(w) \/ Answered(w) \/ NotServed(w) \/ Refused(w) \/ WakeUp(w)
  \/ Price(w) \/ DeriveFundamentals(w) \/ LoadSettings(w) \/ AskAsset(w) \/ BuildUniverse(w)

Next == Tick \/ (\E w \in Workers : Begin(w) \/ Step(w)) \/ (\E p \in Processes : Crash(p))

Spec == Init /\ [][Next]_vars
\* Threads run on, every request is answered or times out, and time passes.
FairSpec == Spec /\ WF_vars(Tick) /\ \A w \in Workers : WF_vars(Step(w))

-----------------------------------------------------------------------------
(***************************************************************************)
(* Properties.                                                             *)
(***************************************************************************)
Ages(n) == 0..n
TypeOK ==
  /\ runs \in [Workers -> 0..MaxRuns] /\ crashes \in 0..MaxCrashes
  /\ pc \in [Workers -> {"idle", "price", "lookup", "unlink", "acquire",
               "granted", "sent", "backoff", "put", "write", "rename", "derive", "settings", "assets",
               "done", "failed", "dead"}]
  /\ key \in [Workers -> Keys] /\ attempt \in [Workers -> 0..MaxRetries]
  /\ wait \in [Workers -> 0..2^MaxRetries]
  /\ handle \in [Workers -> {None, "tmp", "path", "gone"}]
  /\ \A k \in Keys : {path[k], tmp[k]} \subseteq {None, Torn} \union Ages(Ttl[k])
  /\ \A w \in Workers : payload[w] \in {None} \union Ages(Ttl[key[w]])
  /\ lock \in [Caches -> {None} \union Workers]
  /\ stamps \in [Processes -> BoundedSeq(Ages(Window), MaxRps)]
  /\ bad \in [Workers -> 0..MaxRetries+1]

\* Caches the workers of this setup use.
InUse == {CacheOf(w) : w \in {v \in Workers : Command(v).kind = "fundamentals"}}

\* As long as one cache object is used, no reader and no crash ever finds a
\* file that is not whole, but for those it found there (cache.py:5-6).
OnlyWhole ==
  Cardinality(InUse) = 1 => \A k \in Keys : path[k] = Torn => setup.left[k] = Torn

\* Whatever its threads ask for at once, a process sends at most MaxRps
\* requests in any Window, and one more of each thread that was held up
\* between the limiter and the request (sec_edgar.py:79-93,254-256).
Threads(p) == {w \in Workers : ProcOf(w) = p}
LimiterHonoured ==
  \A p \in Processes :
    MapThenSumSet(LAMBDA t : sent[p][t], 0..Window-1) <= MaxRps + Cardinality(Threads(p))

\* A command gives up a document only after all its attempts, or after an
\* answer that no retry changes; what it has fetched it loses only to a
\* worker with another cache object (cache.py:12-13).
FailuresExplained ==
  \A w \in Workers : pc[w] = "failed" =>
    CASE why[w] = "server" -> bad[w] = MaxRetries + 1
      [] why[w] = "tmp"    -> Cardinality(InUse) > 1
      [] OTHER -> TRUE

\* What the lock of one cache object and the retries are there for: a document
\* is read whole or fetched again, and is given up for a reason only.
DocumentsServed == OnlyWhole /\ FailuresExplained

\* A value of the summary that rests on one fact is that fact, and no newer
\* one was filed under its tag for the same kind of period
\* (fundamentals.py:3-6).
FactsOf(t) == IF t \in DOMAIN company.facts.gaap THEN company.facts.gaap[t]
              ELSE company.facts.dei[t]
PeriodOf(e) == <<e.fp, e.spans /\ e.fp \notin {None, "FY"}>>
Grounded(v) ==
  v # None => \E t \in v.tags : \E i \in DOMAIN FactsOf(t) :
    LET e == FactsOf(t)[i] IN
    /\ v.tags = {t} /\ e.end = v.asOf /\ e.val = v.value
    /\ \A j \in DOMAIN FactsOf(t) :
         LET f == FactsOf(t)[j]
         IN  PeriodOf(f) = PeriodOf(e) /\ f.end # None => f.end <= e.end

Derived(w) == pc[w] = "done" /\ Command(w).kind = "fundamentals"
Summary(w) == F!Derive(result[w].facts, result[w].price, Today)

FundamentalsGrounded ==
  \A w \in Workers : Derived(w) =>
    LET summary == Summary(w) IN
    /\ Grounded(summary.shares) /\ Grounded(summary.revenue)
    /\ Grounded(summary.income) /\ Grounded(summary.equity)

\* A derived value is never dated later than a fact it rests on, however
\* many values it was put together from (fundamentals.py:99,229).
DatedByOldest ==
  \A w \in Workers : Derived(w) =>
    \A v \in {Summary(w).debt, Summary(w).ratio, Summary(w).cap} \ {None} :
      \A t \in v.tags : v.asOf <= F!Newest(F!InstantEntries(FactsOf(t))).end

\* Every value of a summary can be traced to the facts it was made of, and is
\* not dated after them, in whatever order filings and amendments came.
SummaryTraceable == FundamentalsGrounded /\ DatedByOldest

\* The universe printed is the most liquid of the assets that were answered
\* for and that the track's policy allows, at most `limit` of them
\* (universe.py:119-172, the bounds of the bands at universe_policy.py:22-27).
CapBounds == [mega |-> <<200000, None>>, large |-> <<10000, 200000>>,
              mid |-> <<2000, 10000>>, small |-> <<300, 2000>>,
              micro |-> <<50, 300>>, nano |-> <<0, 50>>]
Fits(snap, asset, policy) ==
  /\ InstrumentOf(asset) \in policy.instruments
  /\ snap.price >= policy.floor /\ snap.adv >= policy.minAdv
  /\ snap.cap # None
  /\ \E b \in policy.bands :
       /\ snap.cap > CapBounds[b][1]
       /\ CapBounds[b][2] # None => snap.cap <= CapBounds[b][2]

Built(w) == pc[w] = "done" /\ Command(w).kind # "fundamentals"
            /\ "candidates" \in DOMAIN result[w]

UniverseIsTop ==
  \A w \in Workers : Built(w) =>
    LET policy == DefaultPolicies[Command(w).track]
        asset(s) == CHOOSE a \in Range(Assets) : a.symbol = s
        fitting == {s \in DOMAIN answers[w] : Fits(answers[w][s], asset(s), policy)}
        served  == Range(result[w].candidates)
    IN  /\ served \subseteq fitting
        /\ Cardinality(served) = Min({Command(w).limit, Cardinality(fitting)})
        /\ \A s \in served, t \in fitting \ served : answers[w][s].adv >= answers[w][t].adv

\* Every tradable asset is counted once, as a candidate or under the first
\* rule that kept it out (universe.py:129-163).
CountsAddUp ==
  \A w \in Workers : Built(w) =>
    MapThenSumSet(LAMBDA k : result[w].counts[k], Counted) = Len(Assets)

\* The universe and the rejections beside it partition the assets, and the
\* cut takes none that a better one was cut for.
UniverseSound == UniverseIsTop /\ CountsAddUp

\* A command that has begun ends, unless its process is killed.
CommandsEnd == \A w \in Workers : Running(w) ~> ~Running(w)

\* A track that may hold every market cap is served the liquid assets it was
\* answered for (live.py:61-64: the filter rejects "anything that doesn't
\* have a band when the track's policy requires one").
BandNotRequiredServed ==
  \A w \in Workers : Built(w) =>
    LET policy == DefaultPolicies[Command(w).track] IN
    /\ policy.bands = Bands
    /\ \E i \in DOMAIN Assets :
         LET s == Assets[i].symbol IN
         /\ InstrumentOf(Assets[i]) \in policy.instruments /\ s \in DOMAIN answers[w]
         /\ answers[w][s].price >= policy.floor /\ answers[w][s].adv >= policy.minAdv
    => result[w].candidates # <<>>
=============================================================================
