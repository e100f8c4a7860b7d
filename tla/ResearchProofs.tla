--------------------------- MODULE ResearchProofs ---------------------------
(***************************************************************************)
(* Proofs about the data commands, for every number of workers, processes  *)
(* and caches, every window of the limiter, every number of retries, every *)
(* market and every company's filings.                                     *)
(*                                                                         *)
(* Part 1: what a process sends to SEC EDGAR and what a reader finds in a   *)
(* file, from one inductive invariant, IInv.                               *)
(*                                                                         *)
(* Part 2: the universe a command prints.  What Build makes of any assets  *)
(* and snapshots is proved first (BuildIsTop, BuildCounts); UniverseInv    *)
(* says that a command builds from what it was answered.                   *)
(*                                                                         *)
(* Part 3: the summary a command prints, again what Derive makes of any    *)
(* filings first (DeriveSound), then that a command derives from those of  *)
(* its company (SummaryInv).                                               *)
(***************************************************************************)
EXTENDS Research, DataLemmas

-----------------------------------------------------------------------------
(* The inductive invariant.                                                *)

PCs == {"idle", "price", "lookup", "unlink", "acquire", "granted", "sent", "backoff", "put", "write",
        "rename", "derive", "settings", "assets", "done", "failed", "dead"}
Files == Nat \cup {None, Torn}
Reasons == {None, "unlisted", "server", "refused", "market", "policy", "settings", "tmp"}

WorldOK == /\ setup.proc \in [Workers -> Processes]
           /\ setup.cache \in [Workers -> Caches]
           /\ setup.left \in [Keys -> {None, Torn}]

ShapeOK ==
  /\ pc \in [Workers -> PCs]
  /\ key \in [Workers -> Keys]
  /\ attempt \in [Workers -> Nat] /\ bad \in [Workers -> Nat]
  /\ payload \in [Workers -> Nat \cup {None}]
  /\ handle \in [Workers -> {None, "tmp", "path", "gone"}]
  /\ path \in [Keys -> Files] /\ tmp \in [Keys -> Files]
  /\ lock \in [Caches -> Workers \cup {None}]
  /\ stamps \in [Processes -> Seq(0..Window)]
  /\ sent \in [Processes -> [0..Window-1 -> Nat]]

\* Only a fundamentals command has to do with documents.
Fetching == {"price", "lookup", "unlink", "acquire", "granted", "sent", "backoff", "put", "write",
             "rename", "derive"}
KindOK == \A w \in Workers : pc[w] \in Fetching => Command(w).kind = "fundamentals"

\* What a worker has tried.
RetriesOK ==
  \A w \in Workers : pc[w] \in {"unlink", "acquire", "granted", "sent", "backoff"} =>
    bad[w] = attempt[w] /\ attempt[w] <= MaxRetries

\* A worker has its cache's lock from the file it opens to the rename.
LockOK ==
  \A w \in Workers :
    /\ pc[w] \in {"write", "rename"} => lock[CacheOf(w)] = w
    /\ pc[w] \in {"put", "write", "rename"} => payload[w] \in Nat

\* While one cache object is used, an open file is the one aside, and of its
\* writer alone.
FilesOK ==
  Cardinality(InUse) = 1 =>
    /\ \A w \in Workers :
         /\ handle[w] # None => pc[w] = "write" /\ handle[w] = "tmp"
         /\ pc[w] = "write" => handle[w] = "tmp" /\ tmp[key[w]] = Torn
         /\ pc[w] = "rename" => tmp[key[w]] \in Nat
    /\ \A k \in Keys : path[k] = Torn => setup.left[k] = Torn

\* A thread has passed the limiter and has not sent its request yet.
Held(p) == {w \in Threads(p) : pc[w] = "granted"}
Younger(ages, n) == Cardinality(PlacesIn(ages, 0..n-1))

\* `ages` is what the limiter remembers, or remembered when its process was
\* killed, and `seen` is what was sent.  Of the last n ticks, no more was sent
\* than was granted in them, but for one request of each thread that is not
\* held up now.
Tells(ages, seen, histogram, held, threads) ==
  /\ Len(ages) <= MaxRps
  /\ \A t \in 0..Window-1 : histogram[t] = Cardinality(Places(seen, t))
  /\ \A n \in 0..Window : Younger(seen, n) + held <= Younger(ages, n) + threads
Alive(p) == \E w \in Workers : ProcOf(w) = p /\ pc[w] # "dead"
LimiterOK ==
  \A p \in Processes : \E ages, seen \in Seq(0..Window) :
    /\ Tells(ages, seen, sent[p], Cardinality(Held(p)), Cardinality(Threads(p)))
    /\ Alive(p) => ages = stamps[p]

\* Who has given up had its reason.
WhyOK == FailuresExplained
ReasonsOK == why \in [Workers -> Reasons]

IInv == /\ WorldOK /\ ShapeOK /\ KindOK /\ RetriesOK /\ LockOK /\ FilesOK
        /\ LimiterOK /\ WhyOK /\ ReasonsOK

-----------------------------------------------------------------------------
(* The world never changes, and time and age are numbers.                  *)

\* Which worker belongs where is fixed (the settings of a run).
LEMMA WorldStays ==
  ASSUME [Next]_vars
  PROVE  setup' = setup
BY ZenonT(30), SMTT(30) DEF Next, Step, Tick, Begin, Crash, Lookup, Unlink, OpenTmp, WriteTmp, Rename, Acquire, Send,
       Answered, NotServed, Refused, WakeUp, Price, DeriveFundamentals, LoadSettings, AskAsset,
       BuildUniverse, vars, world

\* A file grows older and stays what it is.
LEMMA AgedFile ==
  ASSUME NEW k \in Keys, NEW file \in Files
  PROVE  /\ Aged(file, k) \in Files
         /\ Aged(file, k) = Torn <=> file = Torn
         /\ Aged(file, k) = None <=> file = None
<1>1. CASE file \in {None, Torn}
  BY <1>1 DEF Aged
<1>2. CASE file \notin {None, Torn}
  <2>1. file \in Nat /\ file + 1 \in Int /\ Ttl[k] \in Nat /\ Ttl[k] \in Int
    BY <1>2, ResearchAssumption DEF Files
  <2>2. Aged(file, k) = IF file + 1 <= Ttl[k] THEN file + 1 ELSE Ttl[k]
    BY <1>2, <2>1, MinOfTwo DEF Aged
  <2>3. Aged(file, k) \in Nat
    BY <2>1, <2>2
  <2> QED
    BY <1>2, <2>3, ResearchAssumption DEF Files
<1> QED
  BY <1>1, <1>2

\* Where the workers are, after each step of one of them.
LEMMA PcShape ==
  ASSUME ShapeOK, [Next]_vars
  PROVE  pc' \in [Workers -> PCs]
<1> USE DEF ShapeOK, PCs
<1>1. ASSUME NEW w \in Workers, Step(w) \/ Begin(w) PROVE pc' \in [Workers -> PCs]
  <2>1. CASE Begin(w) \/ Lookup(w) \/ Unlink(w) \/ OpenTmp(w) \/ WriteTmp(w) \/ Rename(w)
    BY ZenonT(30), <2>1 DEF Begin, Lookup, Served, Unlink, OpenTmp, WriteTmp, Rename, Fail, Go, Set
  <2>2. CASE Acquire(w) \/ Send(w) \/ Answered(w) \/ NotServed(w) \/ Refused(w) \/ WakeUp(w)
    BY ZenonT(30), <2>2 DEF Acquire, Send, Answered, NotServed, Refused, WakeUp, Fail, Go, Set
  <2>3. CASE Price(w) \/ DeriveFundamentals(w) \/ LoadSettings(w) \/ AskAsset(w) \/ BuildUniverse(w)
    BY ZenonT(30), <2>3 DEF Price, DeriveFundamentals, LoadSettings, AskAsset, BuildUniverse, Canned, Fail, Go, Set
  <2> QED
    BY <1>1, <2>1, <2>2, <2>3 DEF Step
<1>2. CASE Tick
  BY <1>2 DEF Tick
<1>3. ASSUME NEW p \in Processes, Crash(p) PROVE pc' \in [Workers -> PCs]
  BY <1>3 DEF Crash
<1>4. CASE UNCHANGED vars
  BY <1>4 DEF vars
<1> QED
  BY <1>1, <1>2, <1>3, <1>4 DEF Next

\* The documents workers are after, and their attempts.
LEMMA FetchShape ==
  ASSUME WorldOK, ShapeOK, [Next]_vars
  PROVE  /\ key' \in [Workers -> Keys]
         /\ attempt' \in [Workers -> Nat] /\ bad' \in [Workers -> Nat]
<1> DEFINE Good == /\ key' \in [Workers -> Keys]
                   /\ attempt' \in [Workers -> Nat] /\ bad' \in [Workers -> Nat]
<1> USE DEF ShapeOK, Keys
<1>1. ASSUME NEW w \in Workers, Step(w) \/ Begin(w) PROVE Good
  <2>1. CASE Begin(w)
    BY <2>1 DEF Begin, Set
  <2>2. CASE Lookup(w)
    BY <2>2 DEF Lookup, Served, Fail, Set
  <2>4. CASE Unlink(w) \/ OpenTmp(w) \/ WriteTmp(w)
    BY <2>4 DEF Unlink, OpenTmp, WriteTmp, history
  <2>5. CASE Rename(w)
    BY <2>5 DEF Rename, Served, Fail, Set
  <2>6. CASE NotServed(w)
    BY <2>6 DEF NotServed, Set
  <2>7. CASE Acquire(w) \/ Send(w) \/ Answered(w) \/ Refused(w) \/ WakeUp(w)
    BY <2>7 DEF Acquire, Send, Answered, Refused, WakeUp, fetch, history
  <2>3. CASE Price(w) \/ DeriveFundamentals(w) \/ LoadSettings(w) \/ AskAsset(w) \/ BuildUniverse(w)
    BY <2>3 DEF Price, DeriveFundamentals, LoadSettings, AskAsset, BuildUniverse, Canned, Fail,
                Set, fetch, history
  <2> QED
    BY <1>1, <2>1, <2>2, <2>3, <2>4, <2>5, <2>6, <2>7 DEF Step
<1>2. CASE Tick
  BY <1>2 DEF Tick
<1>3. ASSUME NEW p \in Processes, Crash(p) PROVE Good
  BY <1>3 DEF Crash, history
<1>4. CASE UNCHANGED vars
  BY <1>4 DEF vars, fetch, history
<1> QED
  BY <1>1, <1>2, <1>3, <1>4 DEF Next

\* The files, the locks, and what workers have in hand.
LEMMA FileShape ==
  ASSUME WorldOK, ShapeOK, LockOK, [Next]_vars
  PROVE  /\ payload' \in [Workers -> Nat \cup {None}]
         /\ handle' \in [Workers -> {None, "tmp", "path", "gone"}]
         /\ path' \in [Keys -> Files] /\ tmp' \in [Keys -> Files]
         /\ lock' \in [Caches -> Workers \cup {None}]
<1> DEFINE Good == /\ payload' \in [Workers -> Nat \cup {None}]
                   /\ handle' \in [Workers -> {None, "tmp", "path", "gone"}]
                   /\ path' \in [Keys -> Files] /\ tmp' \in [Keys -> Files]
                   /\ lock' \in [Caches -> Workers \cup {None}]
<1>0. /\ payload \in [Workers -> Nat \cup {None}] /\ pc \in [Workers -> PCs]
      /\ handle \in [Workers -> {None, "tmp", "path", "gone"}]
      /\ path \in [Keys -> Files] /\ tmp \in [Keys -> Files]
      /\ lock \in [Caches -> Workers \cup {None}] /\ key \in [Workers -> Keys]
  BY DEF ShapeOK
<1>1. ASSUME NEW w \in Workers, Step(w) \/ Begin(w) PROVE Good
  <2>0. CacheOf(w) \in Caches /\ {None, Torn} \subseteq Files /\ Nat \subseteq Files
    BY DEF WorldOK, CacheOf, Files
  <2>1. CASE Unlink(w) \/ OpenTmp(w)
    BY <1>0, <2>0, <2>1 DEF Unlink, OpenTmp, Set
  <2>2. CASE WriteTmp(w)
    <3>1. payload[w] \in Nat
      BY <2>2 DEF WriteTmp, LockOK
    <3>2. \A old \in Files : Written(old, payload[w]) \subseteq Files
      BY <2>0, <3>1 DEF Written
    <3>3. path' \in [Keys -> Files] /\ tmp' \in [Keys -> Files]
      <4>1. tmp[key[w]] \in Files /\ path[key[w]] \in Files
        BY <1>0
      <4>2. CASE handle[w] = "tmp"
        BY <1>0, <2>2, <3>2, <4>1, <4>2 DEF WriteTmp, Set
      <4>3. CASE handle[w] = "path"
        BY <1>0, <2>2, <3>2, <4>1, <4>3 DEF WriteTmp, Set
      <4>4. CASE handle[w] \notin {"tmp", "path"}
        BY <1>0, <2>2, <4>4 DEF WriteTmp
      <4> QED
        BY <4>2, <4>3, <4>4
    <3> QED
      BY <1>0, <2>2, <3>3 DEF WriteTmp, Set
  <2>3. CASE Rename(w)
    BY <1>0, <2>0, <2>3 DEF Rename, Moved, Set
  <2>4. CASE Begin(w) \/ Lookup(w) \/ Acquire(w) \/ Send(w) \/ Answered(w) \/ NotServed(w) \/ Refused(w) \/ WakeUp(w)
    BY <1>0, <2>4 DEF Begin, Lookup, Acquire, Send, Answered, NotServed, Refused, WakeUp, Set, fetch, files
  <2>5. CASE Price(w) \/ DeriveFundamentals(w) \/ LoadSettings(w) \/ AskAsset(w) \/ BuildUniverse(w)
    BY <1>0, <2>5 DEF Price, DeriveFundamentals, LoadSettings, AskAsset, BuildUniverse, fetch, files
  <2> QED
    BY <1>1, <2>1, <2>2, <2>3, <2>4, <2>5 DEF Step
<1>2. CASE Tick
  <2>1. \A k \in Keys : Aged(path[k], k) \in Files /\ Aged(tmp[k], k) \in Files
    BY <1>0, AgedFile
  <2>2. ASSUME NEW w \in Workers PROVE Aged(payload[w], key[w]) \in Nat \cup {None}
    <3>1. payload[w] \in Files /\ payload[w] # Torn /\ key[w] \in Keys
      BY <1>0, ResearchAssumption DEF Files
    <3> QED
      BY <3>1, AgedFile DEF Files
  <2> QED
    BY <1>0, <1>2, <2>1, <2>2 DEF Tick
<1>3. ASSUME NEW p \in Processes, Crash(p) PROVE Good
  BY <1>0, <1>3 DEF Crash
<1>4. CASE UNCHANGED vars
  BY <1>0, <1>4 DEF vars, fetch, files
<1> QED
  BY <1>1, <1>2, <1>3, <1>4 DEF Next

\* What the limiter remembers has at most the ages of its window.
LEMMA RecentFacts ==
  ASSUME NEW ages \in Seq(0..Window)
  PROVE  /\ Recent(ages) \in Seq(0..Window) /\ Len(Recent(ages)) <= Len(ages)
         /\ \A n \in 0..Window : Younger(Recent(ages), n) = Younger(ages, n)
<1> DEFINE n == Expired(ages, Window)
           Old == {m \in 0..Len(ages) : \A i \in 1..m : ages[i] >= Window}
<1>1. 0 \in Old /\ Len(ages) \in Nat
  OBVIOUS
<1>2. n \in Old
  BY <1>1, Greatest DEF Expired
<1> HIDE DEF n
<1>3. n \in 0..Len(ages) /\ \A i \in 1..n : ages[i] >= Window
  BY <1>2
<1>4. ASSUME NEW k \in 0..Window
      PROVE  /\ SubSeq(ages, n + 1, Len(ages)) \in Seq(0..Window)
             /\ Len(SubSeq(ages, n + 1, Len(ages))) = Len(ages) - n
             /\ Younger(SubSeq(ages, n + 1, Len(ages)), k) = Younger(ages, k)
  <2>1. Window \in Nat
    BY ResearchAssumption
  <2> DEFINE X == 0..k-1
  <2>2. \A i \in 1..n : ages[i] \notin X
    <3> TAKE i \in 1..n
    <3>1. ages[i] >= Window /\ ages[i] \in 0..Window
      BY <1>1, <1>3, <2>1
    <3> QED
      BY <2>1, <3>1
  <2> HIDE DEF X
  <2>3. /\ SubSeq(ages, n + 1, Len(ages)) \in Seq(0..Window)
        /\ Len(SubSeq(ages, n + 1, Len(ages))) = Len(ages) - n
        /\ Cardinality(PlacesIn(SubSeq(ages, n + 1, Len(ages)), X)) = Cardinality(PlacesIn(ages, X))
    BY <1>3, <2>2, SuffixPlacesIn
  <2> QED
    BY <2>3 DEF Younger, X
<1>5. 0 \in 0..Window
  BY ResearchAssumption
<1>6. Recent(ages) = SubSeq(ages, n + 1, Len(ages))
  BY DEF Recent, n
<1>7. Len(ages) - n <= Len(ages)
  BY <1>1, <1>3
<1> QED
  BY <1>4, <1>5, <1>6, <1>7

\* How many of the ages are below a number.
LEMMA YoungerFacts ==
  ASSUME NEW ages \in Seq(0..Window), NEW n \in 0..Window
  PROVE  /\ Younger(ages, n) \in Nat /\ Younger(ages, 0) = 0 /\ Younger(ages, n) <= Len(ages)
         /\ Append(ages, 0) \in Seq(0..Window)
         /\ Younger(Append(ages, 0), n) = Younger(ages, n) + IF n = 0 THEN 0 ELSE 1
<1> DEFINE X == 0..n-1
           Z == 0..Window
<1>1. 0 \in Z /\ (0 \in X <=> n # 0) /\ n \in Nat
  BY ResearchAssumption
<1>2. PlacesIn(ages, 0..0-1) = {} /\ Cardinality({}) = 0
  BY FS_EmptySet DEF PlacesIn
<1>3. PlacesIn(ages, X) \in SUBSET (1..Len(ages)) /\ Len(ages) \in Nat
  BY DEF PlacesIn
<1>4. ages \in Seq(Z)
  OBVIOUS
<1> HIDE DEF X, Z
<1>5. /\ Cardinality(PlacesIn(ages, X)) \in Nat
      /\ Cardinality(PlacesIn(Append(ages, 0), X)) = Cardinality(PlacesIn(ages, X)) + IF 0 \in X THEN 1 ELSE 0
  BY <1>1, <1>4, PlacesInFinite, AppendPlacesIn
<1>6. Append(ages, 0) \in Seq(Z)
  BY <1>1, <1>4
<1>7. Cardinality(PlacesIn(ages, X)) <= Len(ages)
  <2>1. IsFiniteSet(1..Len(ages)) /\ Cardinality(1..Len(ages)) = IF 1 > Len(ages) THEN 0 ELSE Len(ages) - 1 + 1
    BY SMTT(30), <1>3, FS_Interval
  <2>2. Cardinality(1..Len(ages)) = Len(ages)
    BY <1>3, <2>1
  <2> QED
    BY <1>3, <2>1, <2>2, FS_Subset
<1> QED
  BY <1>1, <1>2, <1>5, <1>6, <1>7 DEF Younger, X, Z

\* A tick makes every age one more, up to the window.
LEMMA OlderFacts ==
  ASSUME NEW ages \in Seq(0..Window)
  PROVE  LET older == [i \in DOMAIN ages |-> Min({ages[i] + 1, Window})] IN
         /\ older \in Seq(0..Window) /\ Len(older) = Len(ages)
         /\ Cardinality(Places(older, 0)) = 0
         /\ \A t \in 1..Window-1 : Cardinality(Places(older, t)) = Cardinality(Places(ages, t - 1))
         /\ \A n \in 1..Window : Younger(older, n) = Younger(ages, n - 1)
<1> DEFINE older == [i \in DOMAIN ages |-> Min({ages[i] + 1, Window})]
<1>1. Window \in Nat /\ Window > 0 /\ DOMAIN ages = 1..Len(ages) /\ Len(ages) \in Nat
      /\ \A i \in DOMAIN ages : ages[i] \in 0..Window
  BY ResearchAssumption
<1>2. ASSUME NEW i \in DOMAIN ages
      PROVE  /\ Min({ages[i] + 1, Window}) = IF ages[i] + 1 <= Window THEN ages[i] + 1 ELSE Window
             /\ Min({ages[i] + 1, Window}) \in 1..Window
  <2>1. ages[i] + 1 \in Int /\ Window \in Int /\ ages[i] \in 0..Window
    BY <1>1
  <2>2. Min({ages[i] + 1, Window}) = IF ages[i] + 1 <= Window THEN ages[i] + 1 ELSE Window
    BY <2>1, MinOfTwo
  <2> QED
    BY <1>1, <2>1, <2>2
<1>3. older \in Seq(0..Window) /\ Len(older) = Len(ages) /\ DOMAIN older = DOMAIN ages
  <2>1. 1..Window \subseteq 0..Window
    BY <1>1
  <2>2. older \in [1..Len(ages) -> 0..Window]
    BY <1>1, <1>2, <2>1
  <2> QED
    BY <1>1, <2>2
<1>4. \A i \in DOMAIN ages : older[i] = Min({ages[i] + 1, Window})
  OBVIOUS
<1> HIDE DEF older
<1>5. Places(older, 0) = {}
  <2>1. ASSUME NEW i \in DOMAIN ages PROVE older[i] # 0
    <3>1. older[i] \in 1..Window
      BY <1>2, <1>4
    <3> QED
      BY <1>1, <3>1
  <2> QED
    BY <1>3, <2>1 DEF Places
<1>6. ASSUME NEW t \in 1..Window-1 PROVE Places(older, t) = Places(ages, t - 1)
  <2>1. ASSUME NEW i \in DOMAIN ages PROVE older[i] = t <=> ages[i] = t - 1
    <3>1. /\ older[i] = IF ages[i] + 1 <= Window THEN ages[i] + 1 ELSE Window
          /\ ages[i] \in 0..Window
      BY <1>1, <1>2, <1>4
    <3>2. t \in Int /\ t < Window /\ ages[i] \in Int /\ Window \in Int
      BY <1>1, <3>1
    <3> QED
      BY <3>1, <3>2
  <2> QED
    BY <1>3, <2>1 DEF Places
<1>7. Cardinality(Places(older, 0)) = 0
  BY <1>5, FS_EmptySet
<1>8. ASSUME NEW n \in 1..Window PROVE PlacesIn(older, 0..n-1) = PlacesIn(ages, 0..(n-1)-1)
  <2>1. ASSUME NEW i \in DOMAIN ages PROVE older[i] \in 0..n-1 <=> ages[i] \in 0..(n-1)-1
    <3>1. /\ older[i] = IF ages[i] + 1 <= Window THEN ages[i] + 1 ELSE Window
          /\ ages[i] \in 0..Window
      BY <1>1, <1>2, <1>4
    <3>2. n \in Int /\ n <= Window /\ ages[i] \in Int /\ Window \in Int /\ ages[i] >= 0
      BY <1>1, <3>1
    <3> QED
      BY <3>1, <3>2
  <2> QED
    BY <1>3, <2>1 DEF PlacesIn
<1> QED
  BY <1>3, <1>6, <1>7, <1>8 DEF older, Younger

\* A killed worker is never seen again.
LEMMA DeadStays ==
  ASSUME ShapeOK, [Next]_vars, NEW v \in Workers, pc[v] = "dead"
  PROVE  pc'[v] = "dead"
<1> USE DEF ShapeOK
<1>1. ASSUME NEW w \in Workers, Step(w) \/ Begin(w) PROVE pc'[v] = "dead"
  <2>1. CASE Begin(w) \/ Lookup(w) \/ Unlink(w) \/ OpenTmp(w) \/ WriteTmp(w) \/ Rename(w)
    BY <2>1 DEF Begin, Lookup, Served, Unlink, OpenTmp, WriteTmp, Rename, Fail, Go, Set
  <2>2. CASE Acquire(w) \/ Send(w) \/ Answered(w) \/ NotServed(w) \/ Refused(w) \/ WakeUp(w)
    BY <2>2 DEF Acquire, Send, Answered, NotServed, Refused, WakeUp, Fail, Go, Set
  <2>3. CASE Price(w) \/ DeriveFundamentals(w) \/ LoadSettings(w) \/ AskAsset(w) \/ BuildUniverse(w)
    BY <2>3 DEF Price, DeriveFundamentals, LoadSettings, AskAsset, BuildUniverse, Canned, Fail, Go, Set
  <2> QED
    BY <1>1, <2>1, <2>2, <2>3 DEF Step
<1>2. CASE Tick \/ UNCHANGED vars
  BY <1>2 DEF Tick, vars
<1>3. ASSUME NEW p \in Processes, Crash(p) PROVE pc'[v] = "dead"
  BY <1>3 DEF Crash
<1> QED
  BY <1>1, <1>2, <1>3 DEF Next

\* Held threads are some of a process's threads.
LEMMA HeldFacts ==
  ASSUME NEW p
  PROVE  /\ IsFiniteSet(Threads(p)) /\ IsFiniteSet(Held(p))
         /\ Cardinality(Threads(p)) \in Nat /\ Cardinality(Held(p)) \in Nat
         /\ Cardinality(Held(p)) <= Cardinality(Threads(p))
<1>1. IsFiniteSet(Workers) /\ Threads(p) \in SUBSET Workers /\ Held(p) \in SUBSET Threads(p)
  BY ResearchAssumption DEF Threads, Held
<1>2. IsFiniteSet(Threads(p))
  BY <1>1, FS_Subset
<1> QED
  BY <1>1, <1>2, FS_Subset, FS_CardinalityType

SameHeld == \A v \in Workers : pc'[v] = "granted" <=> pc[v] = "granted"

\* Nobody else touches the limiter, or what it has let through.
LEMMA LimiterUse ==
  ASSUME ShapeOK, [Next]_vars
  PROVE  \/ \E w \in Workers : Acquire(w) \/ Send(w)
         \/ Tick
         \/ \E p \in Processes : Crash(p)
         \/ UNCHANGED <<stamps, sent>> /\ SameHeld
<1>1. ASSUME NEW w \in Workers, Step(w) \/ Begin(w), ~Acquire(w), ~Send(w)
      PROVE  UNCHANGED <<stamps, sent>>
  BY <1>1 DEF Step, Begin, Lookup, Unlink, OpenTmp, WriteTmp, Rename, Answered, NotServed,
     Refused, WakeUp, Price, DeriveFundamentals, LoadSettings, AskAsset, BuildUniverse, history
<1>2. ASSUME NEW w \in Workers, Step(w) \/ Begin(w), ~Acquire(w), ~Send(w)
      PROVE  SameHeld
  <2> USE DEF ShapeOK, SameHeld
  <2>1. CASE Begin(w) \/ Lookup(w) \/ Unlink(w) \/ OpenTmp(w) \/ WriteTmp(w) \/ Rename(w)
    BY <2>1 DEF Begin, Running, Lookup, Served, Unlink, OpenTmp, WriteTmp, Rename, Fail, Go, Set
  <2>2. CASE Answered(w) \/ NotServed(w) \/ Refused(w) \/ WakeUp(w)
    BY <2>2 DEF Answered, NotServed, Refused, WakeUp, Fail, Go, Set
  <2>3. CASE Price(w) \/ DeriveFundamentals(w) \/ LoadSettings(w) \/ AskAsset(w) \/ BuildUniverse(w)
    BY <2>3 DEF Price, DeriveFundamentals, LoadSettings, AskAsset, BuildUniverse, Canned, Fail, Go, Set
  <2> QED
    BY <1>2, <2>1, <2>2, <2>3 DEF Step
<1>3. UNCHANGED vars => UNCHANGED <<stamps, sent>> /\ SameHeld
  BY DEF vars, history, SameHeld
<1> QED
  BY <1>1, <1>2, <1>3 DEF Next

\* One more request in a histogram.
LEMMA SentOnce ==
  ASSUME sent \in [Processes -> [0..Window-1 -> Nat]], NEW p \in Processes,
         sent' = [sent EXCEPT ![p][0] = @ + 1]
  PROVE  /\ sent'[p] \in [0..Window-1 -> Nat] /\ sent' \in [Processes -> [0..Window-1 -> Nat]]
         /\ \A o \in Processes : o # p => sent'[o] = sent[o]
         /\ \A t \in 0..Window-1 : sent'[p][t] = sent[p][t] + IF 0 = t THEN 1 ELSE 0
<1> DEFINE g == sent[p]
           more == [g EXCEPT ![0] = @ + 1]
<1>1. g \in [0..Window-1 -> Nat] /\ 0 \in 0..Window-1
  BY ResearchAssumption
<1> HIDE DEF g
<1>2. more \in [0..Window-1 -> Nat]
  BY <1>1
<1>3. \A t \in 0..Window-1 : more[t] = g[t] + IF 0 = t THEN 1 ELSE 0
  BY <1>1
<1>4. sent' = [sent EXCEPT ![p] = more]
  BY DEF g
<1> HIDE DEF more
<1>5. sent'[p] = more /\ sent' \in [Processes -> [0..Window-1 -> Nat]]
      /\ \A o \in Processes : o # p => sent'[o] = sent[o]
  BY <1>2, <1>4
<1> QED
  BY <1>2, <1>3, <1>5 DEF g

\* What the limiter tells of a process after each step.
LEMMA LimiterStep ==
  ASSUME WorldOK, ShapeOK, LimiterOK, [Next]_vars
  PROVE  /\ stamps' \in [Processes -> Seq(0..Window)]
         /\ sent' \in [Processes -> [0..Window-1 -> Nat]]
         /\ LimiterOK'
<1>0. /\ stamps \in [Processes -> Seq(0..Window)]
      /\ sent \in [Processes -> [0..Window-1 -> Nat]]
      /\ \A p \in Processes : Alive(p)' => Alive(p)
  <2>1. ASSUME NEW p \in Processes, Alive(p)' PROVE Alive(p)
    <3>1. PICK w \in Workers : ProcOf(w)' = p /\ pc'[w] # "dead"
      BY <2>1 DEF Alive
    <3>2. ProcOf(w) = p
      BY <3>1, WorldStays DEF ProcOf
    <3> QED
      BY <3>1, <3>2, DeadStays DEF Alive
  <2> QED
    BY <2>1 DEF ShapeOK
<1> DEFINE Told(p, ages, seen) ==
             Tells(ages, seen, sent[p], Cardinality(Held(p)), Cardinality(Threads(p)))
<1>a. ASSUME NEW p \in Processes
      PROVE  /\ Threads(p)' = Threads(p)
             /\ Cardinality(Threads(p)) \in Nat /\ IsFiniteSet(Held(p))
             /\ Cardinality(Held(p)) \in Nat /\ Cardinality(Held(p)) <= Cardinality(Threads(p))
             /\ IsFiniteSet(Held(p)')
             /\ Cardinality(Held(p)') \in Nat /\ Cardinality(Held(p)') <= Cardinality(Threads(p))
  <2>1. Threads(p)' = Threads(p)
    BY WorldStays DEF Threads, ProcOf
  <2>2. Held(p)' \in SUBSET Threads(p)
    BY <2>1 DEF Held
  <2> QED
    BY <2>1, <2>2, HeldFacts, FS_Subset, FS_CardinalityType
\* A process of which nothing has changed.
<1>b. ASSUME NEW p \in Processes, sent'[p] = sent[p], Alive(p)' => stamps'[p] = stamps[p],
             Held(p)' = Held(p)
      PROVE  \E ages, seen \in Seq(0..Window) : Told(p, ages, seen)' /\ (Alive(p)' => ages = stamps'[p])
  <2>1. PICK ages \in Seq(0..Window), seen \in Seq(0..Window) :
           Told(p, ages, seen) /\ (Alive(p) => ages = stamps[p])
    BY DEF LimiterOK
  <2>2. Threads(p)' = Threads(p) /\ (Alive(p)' => ages = stamps'[p])
    BY <1>0, <1>a, <1>b, <2>1
  <2>3. Told(p, ages, seen)'
    BY <1>b, <2>1, <2>2 DEF Tells, Younger
  <2> QED
    BY <2>2, <2>3
<1>1. ASSUME NEW w \in Workers, Acquire(w)
      PROVE  /\ stamps' \in [Processes -> Seq(0..Window)]
             /\ sent' \in [Processes -> [0..Window-1 -> Nat]]
             /\ LimiterOK'
  <2>p. PICK p \in Processes : p = ProcOf(w)
    BY DEF WorldOK, ProcOf
  <2>r. PICK r : r = Recent(stamps[p])
    OBVIOUS
  <2>q. PICK q : q = Append(r, 0)
    OBVIOUS
  <2>1. /\ pc[w] = "acquire" /\ Len(r) < MaxRps
        /\ stamps' = [stamps EXCEPT ![p] = q] /\ sent' = sent
        /\ pc' = [pc EXCEPT ![w] = "granted"]
    BY <1>1, <2>p, <2>r, <2>q DEF Acquire, Set, Go, history
  <2>2. Alive(p)
    BY <2>1, <2>p DEF Alive
  <2>3. PICK seen \in Seq(0..Window) : Told(p, stamps[p], seen)
    BY <2>1, <2>2 DEF LimiterOK
  <2>4. /\ Held(p)' = Held(p) \cup {w} /\ w \notin Held(p)
        /\ \A o \in Processes : o # p => Held(o)' = Held(o)
    <3>1. \A o \in Processes : Threads(o)' = Threads(o)
      BY <1>a
    <3> QED
      BY <2>1, <2>p, <3>1 DEF Held, Threads, ShapeOK
  <2>5. r \in Seq(0..Window) /\ \A n \in 0..Window : Younger(r, n) = Younger(stamps[p], n)
    BY <1>0, <2>r, RecentFacts
  <2>6. /\ q \in Seq(0..Window) /\ Len(q) = Len(r) + 1 /\ Len(r) \in Nat
        /\ \A n \in 0..Window : Younger(q, n) = Younger(stamps[p], n) + IF n = 0 THEN 0 ELSE 1
    <3>1. 0 \in 0..Window
      BY ResearchAssumption
    <3>2. q \in Seq(0..Window) /\ Len(q) = Len(r) + 1 /\ Len(r) \in Nat
      BY <2>5, <2>q, <3>1, AppendProperties
    <3>3. ASSUME NEW n \in 0..Window
          PROVE  Younger(q, n) = Younger(stamps[p], n) + IF n = 0 THEN 0 ELSE 1
      <4>1. r \in Seq(0..Window) /\ Younger(r, n) = Younger(stamps[p], n)
        BY <2>5
      <4>2. Younger(Append(r, 0), n) = Younger(r, n) + IF n = 0 THEN 0 ELSE 1
        BY <4>1, YoungerFacts
      <4> QED
        BY <2>q, <4>1, <4>2
    <3> QED
      BY <3>2, <3>3
  <2>7. Len(q) <= MaxRps
    BY <2>1, <2>6, ResearchAssumption
  <2>8. Cardinality(Held(p)') = Cardinality(Held(p)) + 1
    BY <1>a, <2>1, <2>4, FS_AddElement
  <2>9. ASSUME NEW n \in 0..Window
        PROVE  Younger(seen, n) + Cardinality(Held(p)') <= Younger(q, n) + Cardinality(Threads(p))
    <3>1. /\ Younger(seen, n) \in Nat /\ Younger(q, n) \in Nat /\ Younger(stamps[p], n) \in Nat
          /\ Younger(seen, 0) = 0
      BY <1>0, <2>1, <2>6, YoungerFacts
    <3>2. /\ Younger(seen, n) + Cardinality(Held(p)) <= Younger(stamps[p], n) + Cardinality(Threads(p))
          /\ Younger(q, n) = Younger(stamps[p], n) + IF n = 0 THEN 0 ELSE 1
      BY <2>3, <2>6 DEF Tells
    <3>3. /\ Cardinality(Held(p)') \in Nat /\ Cardinality(Held(p)) \in Nat
          /\ Cardinality(Held(p)') <= Cardinality(Threads(p)) /\ Cardinality(Threads(p)) \in Nat
      BY <1>a, <2>1
    <3>4. CASE n = 0
      BY <3>1, <3>3, <3>4
    <3>5. CASE n # 0
      BY <2>8, <3>1, <3>2, <3>3, <3>5
    <3> QED
      BY <3>4, <3>5
  <2>10. Told(p, q, seen)'
    <3>1. Threads(p)' = Threads(p) /\ sent'[p] = sent[p]
      BY <1>a, <2>1
    <3> QED
      BY <2>3, <2>7, <2>9, <3>1 DEF Tells, Younger
  <2>11. ASSUME NEW o \in Processes
         PROVE  \E ages, n \in Seq(0..Window) : Told(o, ages, n)' /\ (Alive(o)' => ages = stamps'[o])
    <3>1. CASE o = p
      BY <1>0, <2>1, <2>6, <2>10, <3>1
    <3>2. CASE o # p
      BY <1>0, <1>b, <2>1, <2>4, <3>2
    <3> QED
      BY <3>1, <3>2
  <2>12. LimiterOK'
    BY <2>11 DEF LimiterOK
  <2> QED
    BY <1>0, <2>1, <2>6, <2>12
<1>2. ASSUME NEW w \in Workers, Send(w)
      PROVE  /\ stamps' \in [Processes -> Seq(0..Window)]
             /\ sent' \in [Processes -> [0..Window-1 -> Nat]]
             /\ LimiterOK'
  <2>p. PICK p \in Processes : p = ProcOf(w)
    BY DEF WorldOK, ProcOf
  <2>1. /\ pc[w] = "granted"
        /\ stamps' = stamps /\ sent' = [sent EXCEPT ![p][0] = @ + 1]
        /\ pc' = [pc EXCEPT ![w] = "sent"]
    BY <1>2, <2>p DEF Send, Set, Go
  <2>2. PICK ages \in Seq(0..Window), seen \in Seq(0..Window) :
           Told(p, ages, seen) /\ (Alive(p) => ages = stamps[p])
    BY <2>1 DEF LimiterOK
  <2>3. /\ Held(p)' = Held(p) \ {w} /\ w \in Held(p)
        /\ \A o \in Processes : o # p => Held(o)' = Held(o)
    <3>1. \A o \in Processes : Threads(o)' = Threads(o)
      BY <1>a
    <3> QED
      BY <2>1, <2>p, <3>1 DEF Held, Threads, ShapeOK
  <2>4. /\ sent'[p] \in [0..Window-1 -> Nat] /\ sent' \in [Processes -> [0..Window-1 -> Nat]]
        /\ \A o \in Processes : o # p => sent'[o] = sent[o]
        /\ \A t \in 0..Window-1 : sent'[p][t] = sent[p][t] + IF 0 = t THEN 1 ELSE 0
    BY <1>0, <2>1, SentOnce
  <2> DEFINE q == Append(seen, 0)
  <2>5. /\ q \in Seq(0..Window)
        /\ \A n \in 0..Window : Younger(q, n) = Younger(seen, n) + IF n = 0 THEN 0 ELSE 1
    <3>1. 0 \in 0..Window
      BY ResearchAssumption
    <3> QED
      BY <3>1, YoungerFacts
  <2>6. \A t \in 0..Window-1 : Cardinality(Places(q, t)) = Cardinality(Places(seen, t))
                                                            + IF 0 = t THEN 1 ELSE 0
    <3> TAKE t \in 0..Window-1
    <3> DEFINE Z == 0..Window
    <3>1. seen \in Seq(Z) /\ 0 \in Z
      BY ResearchAssumption
    <3> HIDE DEF Z
    <3> QED
      BY <3>1, AppendPlaces
  <2> HIDE DEF q
  <2>7. Cardinality(Held(p)') = Cardinality(Held(p)) - 1
    <3>1. Cardinality(Held(p) \ {w}) = IF w \in Held(p) THEN Cardinality(Held(p)) - 1
                                                        ELSE Cardinality(Held(p))
      BY <1>a, <2>1, FS_RemoveElement
    <3> QED
      BY <2>3, <3>1
  <2>8. ASSUME NEW n \in 0..Window
        PROVE  Younger(q, n) + Cardinality(Held(p)') <= Younger(ages, n) + Cardinality(Threads(p))
    <3>1. /\ Younger(seen, n) \in Nat /\ Younger(q, n) \in Nat /\ Younger(ages, n) \in Nat
      BY <2>5, YoungerFacts
    <3>2. /\ Younger(seen, n) + Cardinality(Held(p)) <= Younger(ages, n) + Cardinality(Threads(p))
          /\ Younger(q, n) = Younger(seen, n) + IF n = 0 THEN 0 ELSE 1
      BY <2>2, <2>5 DEF Tells
    <3>3. /\ Cardinality(Held(p)') \in Nat /\ Cardinality(Held(p)) \in Nat
          /\ Cardinality(Threads(p)) \in Nat
      BY <1>a, <2>1
    <3> QED
      BY <2>7, <3>1, <3>2, <3>3
  <2>9. Told(p, ages, q)'
    <3>1. Threads(p)' = Threads(p)
      BY <1>a, <2>1
    <3>2. \A t \in 0..Window-1 : sent'[p][t] = Cardinality(Places(q, t))
      BY <2>2, <2>4, <2>6 DEF Tells
    <3>3. Len(ages) <= MaxRps
      BY <2>2 DEF Tells
    <3> QED
      BY <2>8, <3>1, <3>2, <3>3 DEF Tells, Younger
  <2>10. ASSUME NEW o \in Processes
         PROVE  \E a, n \in Seq(0..Window) : Told(o, a, n)' /\ (Alive(o)' => a = stamps'[o])
    <3>1. CASE o = p
      BY <1>0, <2>1, <2>2, <2>5, <2>9, <3>1
    <3>2. CASE o # p
      BY <1>0, <1>b, <2>1, <2>3, <2>4, <3>2
    <3> QED
      BY <3>1, <3>2
  <2>11. LimiterOK'
    BY <2>10 DEF LimiterOK
  <2> QED
    BY <1>0, <2>1, <2>4, <2>11
<1>3. CASE Tick
  <2>1. /\ stamps' = [p \in Processes |-> [i \in DOMAIN stamps[p] |-> Min({stamps[p][i] + 1, Window})]]
        /\ sent' = [p \in Processes |-> [t \in 0..Window-1 |-> IF t = 0 THEN 0 ELSE sent[p][t-1]]]
        /\ pc' = pc
    BY <1>3 DEF Tick
  <2>2. \A t \in 0..Window-1 : t # 0 => t - 1 \in 0..Window-1 /\ t \in 1..Window-1
    BY ResearchAssumption
  <2>3. sent' \in [Processes -> [0..Window-1 -> Nat]]
    BY <1>0, <2>1, <2>2
  <2>4. ASSUME NEW p \in Processes PROVE stamps'[p] \in Seq(0..Window)
    BY <1>0, <2>1, OlderFacts
  <2>5. ASSUME NEW p \in Processes
        PROVE  \E ages, seen \in Seq(0..Window) : Told(p, ages, seen)' /\ (Alive(p)' => ages = stamps'[p])
    <3>1. PICK a \in Seq(0..Window), q \in Seq(0..Window) :
             Told(p, a, q) /\ (Alive(p) => a = stamps[p])
      BY DEF LimiterOK
    <3> DEFINE later(x) == [i \in DOMAIN x |-> Min({x[i] + 1, Window})]
               b == later(a)
               r == later(q)
    <3>2. /\ b \in Seq(0..Window) /\ Len(b) = Len(a)
          /\ \A n \in 1..Window : Younger(b, n) = Younger(a, n - 1)
      BY OlderFacts
    <3>3. /\ r \in Seq(0..Window)
          /\ Cardinality(Places(r, 0)) = 0
          /\ \A t \in 1..Window-1 : Cardinality(Places(r, t)) = Cardinality(Places(q, t - 1))
          /\ \A n \in 1..Window : Younger(r, n) = Younger(q, n - 1)
      BY OlderFacts
    <3>4. Alive(p)' => b = stamps'[p]
      BY <1>0, <2>1, <3>1
    <3> HIDE DEF b, r
    <3>5. \A t \in 0..Window-1 : sent'[p][t] = Cardinality(Places(r, t))
      <4> TAKE t \in 0..Window-1
      <4>1. CASE t = 0
        BY <2>1, <3>3, <4>1
      <4>2. CASE t # 0
        BY <2>1, <2>2, <3>1, <3>3, <4>2 DEF Tells
      <4> QED
        BY <4>1, <4>2
    <3>6. Held(p)' = Held(p) /\ Threads(p)' = Threads(p)
      BY <1>a, <2>1 DEF Held
    <3>7. ASSUME NEW n \in 0..Window
          PROVE  Younger(r, n) + Cardinality(Held(p)) <= Younger(b, n) + Cardinality(Threads(p))
      <4>1. Cardinality(Held(p)) \in Nat /\ Cardinality(Threads(p)) \in Nat
            /\ Cardinality(Held(p)) <= Cardinality(Threads(p))
        BY <1>a
      <4>2. CASE n = 0
        <5>1. Younger(r, 0) = 0 /\ Younger(b, 0) = 0
          BY <3>2, <3>3, <3>7, YoungerFacts
        <5> QED
          BY <4>1, <4>2, <5>1
      <4>3. CASE n # 0
        <5>1. n \in 1..Window /\ n - 1 \in 0..Window
          BY <4>3, ResearchAssumption
        <5>2. Younger(q, n - 1) + Cardinality(Held(p)) <= Younger(a, n - 1) + Cardinality(Threads(p))
          BY <3>1, <5>1 DEF Tells
        <5> QED
          BY <3>2, <3>3, <5>1, <5>2
      <4> QED
        BY <4>2, <4>3
    <3>8. Told(p, b, r)'
      <4>1. Len(b) <= MaxRps
        BY <3>1, <3>2 DEF Tells
      <4> QED
        BY <3>5, <3>6, <3>7, <4>1 DEF Tells, Younger
    <3> QED
      BY <3>2, <3>3, <3>4, <3>8
  <2>6. LimiterOK'
    BY <2>5 DEF LimiterOK
  <2> QED
    BY <2>1, <2>3, <2>4, <2>6
<1>4. ASSUME NEW c \in Processes, Crash(c)
      PROVE  /\ stamps' \in [Processes -> Seq(0..Window)]
             /\ sent' \in [Processes -> [0..Window-1 -> Nat]]
             /\ LimiterOK'
  <2>1. /\ stamps' = [stamps EXCEPT ![c] = <<>>] /\ sent' = sent
        /\ pc' = [w \in Workers |-> IF ProcOf(w) = c THEN "dead" ELSE pc[w]]
    BY <1>4 DEF Crash, Set, history
  <2>2. ~Alive(c)' /\ Held(c)' = {} /\ \A o \in Processes : o # c => Held(o)' = Held(o)
    <3>1. setup' = setup
      BY WorldStays
    <3> QED
      BY <2>1, <3>1 DEF Alive, ProcOf, Held, Threads
  <2>3. ASSUME NEW p \in Processes
        PROVE  \E ages, seen \in Seq(0..Window) : Told(p, ages, seen)' /\ (Alive(p)' => ages = stamps'[p])
    <3>1. CASE p # c
      BY <1>0, <1>b, <2>1, <2>2, <3>1
    <3>2. CASE p = c
      <4>1. PICK ages \in Seq(0..Window), seen \in Seq(0..Window) : Told(c, ages, seen)
        BY DEF LimiterOK
      <4>2. /\ Cardinality(Held(c)') = 0 /\ Cardinality(Held(c)) \in Nat
            /\ Cardinality(Threads(c)) \in Nat /\ Threads(c)' = Threads(c)
        BY <1>a, <2>2, FS_EmptySet
      <4>3. ASSUME NEW n \in 0..Window
            PROVE  Younger(seen, n) + 0 <= Younger(ages, n) + Cardinality(Threads(c))
        <5>1. Younger(seen, n) \in Nat /\ Younger(ages, n) \in Nat
          BY YoungerFacts
        <5>2. Younger(seen, n) + Cardinality(Held(c)) <= Younger(ages, n) + Cardinality(Threads(c))
          BY <4>1 DEF Tells
        <5> QED
          BY <4>2, <5>1, <5>2
      <4>4. Told(c, ages, seen)'
        BY <2>1, <4>1, <4>2, <4>3 DEF Tells, Younger
      <4> QED
        BY <2>2, <3>2, <4>4
    <3> QED
      BY <3>1, <3>2
  <2>4. LimiterOK'
    BY <2>3 DEF LimiterOK
  <2>5. <<>> \in Seq(0..Window)
    OBVIOUS
  <2> QED
    BY <1>0, <2>1, <2>4, <2>5
<1>5. CASE UNCHANGED <<stamps, sent>> /\ SameHeld
  <2>1. ASSUME NEW p \in Processes PROVE Held(p)' = Held(p)
    BY <1>5, <1>a DEF Held, Threads, SameHeld
  <2>2. LimiterOK'
    BY <1>0, <1>5, <1>b, <2>1 DEF LimiterOK
  <2> QED
    BY <1>0, <1>5, <2>2
<1> QED
  BY <1>1, <1>2, <1>3, <1>4, <1>5, LimiterUse

\* The limit holds while the limiter tells the truth.
LEMMA LimitKept ==
  ASSUME LimiterOK
  PROVE  LimiterHonoured
<1> SUFFICES ASSUME NEW p \in Processes
             PROVE  MapThenSumSet(LAMBDA t : sent[p][t], 0..Window-1) <= MaxRps + Cardinality(Threads(p))
  BY DEF LimiterHonoured
<1>1. PICK ages \in Seq(0..Window), q \in Seq(0..Window) :
         Tells(ages, q, sent[p], Cardinality(Held(p)), Cardinality(Threads(p)))
  BY DEF LimiterOK
<1> DEFINE I == DOMAIN q
           S == 0..Window-1
           f == sent[p]
<1>2. I = 1..Len(q) /\ Len(q) \in Nat /\ Window - 1 \in Int /\ Window \in 0..Window
  BY ResearchAssumption
<1>3. IsFiniteSet(I) /\ IsFiniteSet(S)
  <2>1. IsFiniteSet(1..Len(q)) /\ IsFiniteSet(0..Window-1)
    BY <1>2, FS_Interval
  <2> QED
    BY <1>2, <2>1
<1>4. \A x \in S : f[x] = Cardinality(Places(q, x))
  BY <1>1 DEF Tells
<1> HIDE DEF S, f
<1>5. SumOver(f, S) = Cardinality(PlacesIn(q, S))
  BY <1>3, <1>4, SumOfCounts
<1>6. SumOver(f, S) = Younger(q, Window)
  BY <1>5 DEF Younger, S
<1>7. /\ Younger(q, Window) \in Nat /\ Younger(ages, Window) \in Nat /\ Younger(ages, Window) <= Len(ages)
      /\ Len(ages) \in Nat
  BY <1>2, YoungerFacts
<1>8. /\ Younger(q, Window) + Cardinality(Held(p)) <= Younger(ages, Window) + Cardinality(Threads(p))
      /\ Len(ages) <= MaxRps
  BY <1>1, <1>2 DEF Tells
<1>9. Cardinality(Held(p)) \in Nat /\ Cardinality(Threads(p)) \in Nat
  BY HeldFacts
<1>10. SumOver(f, S) <= MaxRps + Cardinality(Threads(p))
  BY <1>6, <1>7, <1>8, <1>9, ResearchAssumption
<1> QED
  BY <1>10 DEF f, S, SumOver

-----------------------------------------------------------------------------
(* What a worker has tried, and why it gave up.                            *)

\* Only fundamentals lead to a document.
LEMMA KindStep ==
  ASSUME ShapeOK, KindOK, [Next]_vars
  PROVE  KindOK'
<1> USE DEF ShapeOK, Fetching
<1> SUFFICES ASSUME NEW v \in Workers, pc'[v] \in Fetching PROVE Command(v).kind = "fundamentals"
  BY WorldStays DEF KindOK, Command
<1>1. CASE pc[v] \in Fetching
  BY <1>1 DEF KindOK
<1>2. ASSUME NEW w \in Workers, Step(w) \/ Begin(w), pc[v] \notin Fetching
      PROVE  Command(v).kind = "fundamentals"
  <2>1. CASE Begin(w)
    BY <1>2, <2>1 DEF Begin, Go, Set
  <2>2. CASE Lookup(w) \/ Unlink(w) \/ OpenTmp(w) \/ WriteTmp(w) \/ Rename(w)
    BY <1>2, <2>2 DEF Lookup, Served, Unlink, OpenTmp, WriteTmp, Rename, Fail, Go, Set
  <2>3. CASE Acquire(w) \/ Send(w) \/ Answered(w) \/ NotServed(w) \/ Refused(w) \/ WakeUp(w)
    BY <1>2, <2>3 DEF Acquire, Send, Answered, NotServed, Refused, WakeUp, Fail, Go, Set
  <2>4. CASE Price(w) \/ DeriveFundamentals(w) \/ LoadSettings(w) \/ AskAsset(w) \/ BuildUniverse(w)
    BY <1>2, <2>4 DEF Price, DeriveFundamentals, LoadSettings, AskAsset, BuildUniverse, Canned,
                      Fail, Go, Set
  <2> QED
    BY <1>2, <2>1, <2>2, <2>3, <2>4 DEF Step
<1>3. CASE Tick \/ UNCHANGED vars
  BY <1>1, <1>3 DEF Tick, vars
<1>4. ASSUME NEW p \in Processes, Crash(p), pc[v] \notin Fetching
      PROVE  Command(v).kind = "fundamentals"
  BY <1>4 DEF Crash
<1> QED
  BY <1>1, <1>2, <1>3, <1>4 DEF Next

\* A step of one worker leaves another one's attempts alone.
LEMMA OthersTry ==
  ASSUME ShapeOK, ReasonsOK,
         NEW w \in Workers, Step(w) \/ Begin(w), NEW v \in Workers, v # w
  PROVE  /\ pc'[v] = pc[v] /\ attempt'[v] = attempt[v] /\ bad'[v] = bad[v] /\ why'[v] = why[v]
         /\ payload'[v] = payload[v] /\ key'[v] = key[v]
<1> USE DEF ShapeOK, ReasonsOK
<1>1. CASE Begin(w) \/ Lookup(w)
  BY <1>1 DEF Begin, Lookup, Served, Fail, Go, Set
<1>2. CASE Unlink(w) \/ OpenTmp(w) \/ WriteTmp(w)
  BY <1>2 DEF Unlink, OpenTmp, WriteTmp, Go, Set, history
<1>3. CASE Rename(w)
  BY <1>3 DEF Rename, Served, Fail, Go, Set
<1>4. CASE NotServed(w)
  BY <1>4 DEF NotServed, Fail, Go, Set
<1>5. CASE Acquire(w) \/ Send(w) \/ Answered(w) \/ Refused(w) \/ WakeUp(w)
  BY <1>5 DEF Acquire, Send, Answered, Refused, WakeUp, Fail, Go, Set, fetch, history
<1>6. CASE Price(w) \/ DeriveFundamentals(w) \/ LoadSettings(w) \/ AskAsset(w) \/ BuildUniverse(w)
  BY <1>6 DEF Price, DeriveFundamentals, LoadSettings, AskAsset, BuildUniverse, Canned,
              Fail, Go, Set, fetch, history
<1> QED
  BY <1>1, <1>2, <1>3, <1>4, <1>5, <1>6 DEF Step

\* Why a command may give up.
LEMMA WhyShape ==
  ASSUME ShapeOK, ReasonsOK, [Next]_vars
  PROVE  ReasonsOK'
<1> USE DEF Reasons, ReasonsOK
<1>1. ASSUME NEW w \in Workers, Step(w) \/ Begin(w) PROVE why' \in [Workers -> Reasons]
  <2>1. CASE Begin(w) \/ Lookup(w)
    BY <2>1 DEF Begin, Lookup, Served, Fail, Set
  <2>2. CASE Unlink(w) \/ OpenTmp(w) \/ WriteTmp(w)
    BY <2>2 DEF Unlink, OpenTmp, WriteTmp, history
  <2>3. CASE Rename(w)
    BY <2>3 DEF Rename, Served, Fail, Set
  <2>4. CASE NotServed(w)
    BY <2>4 DEF NotServed, Fail, Set
  <2>5. CASE Acquire(w) \/ Send(w) \/ Answered(w) \/ Refused(w) \/ WakeUp(w)
    BY <2>5 DEF Acquire, Send, Answered, Refused, WakeUp, Fail, Set, history
  <2>6. CASE Price(w) \/ DeriveFundamentals(w) \/ LoadSettings(w) \/ AskAsset(w) \/ BuildUniverse(w)
    BY <2>6 DEF Price, DeriveFundamentals, LoadSettings, AskAsset, BuildUniverse, Canned,
                Fail, Set, history
  <2> QED
    BY <1>1, <2>1, <2>2, <2>3, <2>4, <2>5, <2>6 DEF Step
<1>2. CASE Tick
  BY <1>2 DEF Tick
<1>3. ASSUME NEW p \in Processes, Crash(p) PROVE why' \in [Workers -> Reasons]
  BY <1>3 DEF Crash, history
<1>4. CASE UNCHANGED vars
  BY <1>4 DEF vars, history
<1> QED
  BY <1>1, <1>2, <1>3, <1>4 DEF Next

\* A worker gives up when its attempts are used up, and says so; it loses
\* its file to a worker of another cache object only.
LEMMA RetriesStep ==
  ASSUME WorldOK, ShapeOK, KindOK, RetriesOK, FilesOK, WhyOK, ReasonsOK, [Next]_vars
  PROVE  RetriesOK' /\ WhyOK'
<1> DEFINE Tried(v) == pc[v] \in {"unlink", "acquire", "granted", "sent", "backoff"} =>
                         bad[v] = attempt[v] /\ attempt[v] <= MaxRetries
           Gave(v) == pc[v] = "failed" =>
                        /\ why[v] = "server" => bad[v] = MaxRetries + 1
                        /\ why[v] = "tmp" => Cardinality(InUse) > 1
<1>1. RetriesOK <=> \A v \in Workers : Tried(v)
  BY DEF RetriesOK
<1>2. WhyOK <=> \A v \in Workers : Gave(v)
  BY DEF WhyOK, FailuresExplained
<1>3. RetriesOK' <=> \A v \in Workers : Tried(v)'
  BY DEF RetriesOK
<1>4. InUse' = InUse
  BY WorldStays DEF InUse, CacheOf, Command
<1>5. WhyOK' <=> \A v \in Workers : Gave(v)'
  BY DEF WhyOK, FailuresExplained
<1> SUFFICES ASSUME NEW v \in Workers PROVE Tried(v)' /\ Gave(v)'
  BY <1>3, <1>5
<1>6. Tried(v) /\ Gave(v) /\ MaxRetries \in Nat /\ attempt[v] \in Nat /\ bad[v] \in Nat
  BY <1>1, <1>2, ResearchAssumption DEF ShapeOK
<1>7. CASE pc'[v] = pc[v] /\ attempt'[v] = attempt[v] /\ bad'[v] = bad[v] /\ why'[v] = why[v]
  BY <1>4, <1>6, <1>7
<1>8. ASSUME Step(v) \/ Begin(v) PROVE Tried(v)' /\ Gave(v)'
  <2> USE DEF ShapeOK, ReasonsOK
  <2>1. CASE Begin(v) \/ Lookup(v)
    BY <1>6, <2>1 DEF Begin, Lookup, Served, Fail, Go, Set
  <2>2. CASE Unlink(v) \/ OpenTmp(v) \/ WriteTmp(v)
    BY <1>6, <2>2 DEF Unlink, OpenTmp, WriteTmp, Go, Set, history
  <2>3. CASE Rename(v)
    <3>1. tmp[key[v]] = None => Cardinality(InUse) > 1
      <4> SUFFICES ASSUME tmp[key[v]] = None PROVE Cardinality(InUse) > 1
        OBVIOUS
      <4>1. pc[v] = "rename"
        BY <2>3 DEF Rename
      <4>2. Cardinality(InUse) # 1
        BY <4>1, ResearchAssumption DEF FilesOK
      <4>3. CacheOf(v) \in InUse
        BY <4>1 DEF KindOK, Fetching, InUse
      <4>4. IsFiniteSet(InUse)
        <5>1. InUse \in SUBSET Caches
          BY DEF InUse, CacheOf, WorldOK
        <5> QED
          BY <5>1, ResearchAssumption, FS_Subset
      <4>5. Cardinality(InUse) \in Nat /\ Cardinality(InUse) # 0
        BY <4>3, <4>4, FS_CardinalityType, FS_EmptySet
      <4> QED
        BY <4>2, <4>5
    <3>2. pc'[v] \in {"lookup", "derive", "failed"}
      BY <2>3 DEF Rename, Served, Fail, Go, Set
    <3>3. pc'[v] = "failed" => why'[v] = "unlisted" \/ (why'[v] = "tmp" /\ tmp[key[v]] = None)
      BY <2>3 DEF Rename, Served, Fail, Go, Set
    <3> QED
      BY <1>4, <3>1, <3>2, <3>3
  <2>4. CASE NotServed(v)
    <3>1. bad'[v] = bad[v] + 1 /\ pc[v] = "sent"
      BY <2>4 DEF NotServed, Set
    <3>2. \/ Exhausted(attempt[v]) /\ pc'[v] = "failed"
          \/ ~Exhausted(attempt[v]) /\ pc'[v] = "backoff" /\ attempt'[v] = attempt[v] + 1
      BY <2>4 DEF NotServed, Fail, Go, Set
    <3>3. pc'[v] = "failed" => why'[v] = "server"
      BY <2>4 DEF NotServed, Fail, Go, Set
    <3> QED
      BY <1>6, <3>1, <3>2, <3>3 DEF Exhausted
  <2>5. CASE Acquire(v) \/ Send(v) \/ Answered(v) \/ Refused(v) \/ WakeUp(v)
    BY <1>6, <2>5 DEF Acquire, Send, Answered, Refused, WakeUp, Fail, Go, Set, fetch, history
  <2>6. CASE Price(v) \/ DeriveFundamentals(v) \/ LoadSettings(v) \/ AskAsset(v) \/ BuildUniverse(v)
    BY <1>6, <2>6 DEF Price, DeriveFundamentals, LoadSettings, AskAsset, BuildUniverse, Canned,
                Fail, Go, Set, fetch, history
  <2> QED
    BY <1>8, <2>1, <2>2, <2>3, <2>4, <2>5, <2>6 DEF Step
<1>9. ASSUME NEW w \in Workers, Step(w) \/ Begin(w), w # v PROVE Tried(v)' /\ Gave(v)'
  BY <1>7, <1>9, OthersTry
<1>10. CASE Tick
  BY <1>7, <1>10 DEF Tick
<1>11. ASSUME NEW p \in Processes, Crash(p) PROVE Tried(v)' /\ Gave(v)'
  BY <1>4, <1>6, <1>11 DEF Crash, history, ShapeOK
<1>12. CASE UNCHANGED vars
  BY <1>7, <1>12 DEF vars, fetch, history
<1> QED
  BY <1>8, <1>9, <1>10, <1>11, <1>12 DEF Next

-----------------------------------------------------------------------------
(* The lock, and the files it guards.                                      *)

\* A worker in the middle of a write has the lock, and a record to write.
LEMMA LockStep ==
  ASSUME WorldOK, ShapeOK, LockOK, ReasonsOK, [Next]_vars
  PROVE  LockOK'
<1> DEFINE Holds(v) == /\ pc[v] \in {"write", "rename"} => lock[CacheOf(v)] = v
                       /\ pc[v] \in {"put", "write", "rename"} => payload[v] \in Nat
<1>1. LockOK <=> \A v \in Workers : Holds(v)
  BY DEF LockOK
<1>2. LockOK' <=> \A v \in Workers : Holds(v)'
  BY DEF LockOK
<1> SUFFICES ASSUME NEW v \in Workers PROVE Holds(v)'
  BY <1>2
<1>3. /\ Holds(v) /\ CacheOf(v)' = CacheOf(v) /\ CacheOf(v) \in Caches
      /\ lock \in [Caches -> Workers \cup {None}] /\ None \notin Workers
      /\ pc \in [Workers -> PCs] /\ payload \in [Workers -> Nat \cup {None}]
  BY <1>1, WorldStays, ResearchAssumption DEF CacheOf, WorldOK, ShapeOK
<1>4. CASE pc'[v] = pc[v] /\ payload'[v] = payload[v] /\ lock'[CacheOf(v)] = lock[CacheOf(v)]
  BY <1>3, <1>4
<1>5. CASE pc'[v] \notin {"put", "write", "rename"}
  BY <1>5
<1>6. ASSUME Step(v) \/ Begin(v), pc'[v] \in {"put", "write", "rename"} PROVE Holds(v)'
  <2>1. CASE Begin(v) \/ Lookup(v) \/ Unlink(v)
    BY <1>3, <1>6, <2>1 DEF Begin, Lookup, Served, Unlink, Fail, Go, Set
  <2>2. CASE OpenTmp(v)
    BY <1>3, <2>2 DEF OpenTmp, Go, Set
  <2>3. CASE WriteTmp(v)
    BY <1>3, <2>3 DEF WriteTmp, Go, Set
  <2>4. CASE Rename(v)
    BY <1>3, <1>6, <2>4 DEF Rename, Served, Fail, Go, Set
  <2>5. CASE Acquire(v) \/ Send(v) \/ NotServed(v) \/ Refused(v) \/ WakeUp(v)
    BY <1>3, <1>6, <2>5 DEF Acquire, Send, NotServed, Refused, WakeUp, Fail, Go, Set
  <2>6. CASE Answered(v)
    BY <1>3, <2>6 DEF Answered, Go, Set
  <2>7. CASE Price(v) \/ DeriveFundamentals(v) \/ LoadSettings(v) \/ AskAsset(v) \/ BuildUniverse(v)
    BY <1>3, <1>6, <2>7 DEF Price, DeriveFundamentals, LoadSettings, AskAsset, BuildUniverse,
                            Canned, Fail, Go, Set, fetch, files
  <2> QED
    BY <1>6, <2>1, <2>2, <2>3, <2>4, <2>5, <2>6, <2>7 DEF Step
<1>7. ASSUME NEW w \in Workers, Step(w) \/ Begin(w), w # v PROVE Holds(v)'
  <2>1. pc'[v] = pc[v] /\ payload'[v] = payload[v]
    BY <1>7, OthersTry
  <2>2. CASE OpenTmp(w)
    <3>1. lock' = [lock EXCEPT ![CacheOf(w)] = w] /\ lock[CacheOf(w)] = None
      BY <2>2 DEF OpenTmp, Set, LockFree
    <3>2. lock[CacheOf(v)] = v => lock'[CacheOf(v)] = v
      BY <1>3, <3>1
    <3> QED
      BY <1>3, <2>1, <3>2
  <2>3. CASE Rename(w)
    <3>1. lock' = [lock EXCEPT ![CacheOf(w)] = None] /\ lock[CacheOf(w)] = w
      BY <1>1, <2>3 DEF Rename, Set
    <3>2. lock[CacheOf(v)] = v => lock'[CacheOf(v)] = v
      BY <1>3, <1>7, <3>1
    <3> QED
      BY <1>3, <2>1, <3>2
  <2>4. ASSUME ~OpenTmp(w), ~Rename(w) PROVE lock' = lock
    BY <1>7, <2>4 DEF Step, Begin, Lookup, Unlink, WriteTmp, Acquire, Send, Answered, NotServed, Refused,
       WakeUp, Price, DeriveFundamentals, LoadSettings, AskAsset, BuildUniverse, files
  <2> QED
    BY <1>4, <2>1, <2>2, <2>3, <2>4
<1>8. CASE Tick
  <2>1. pc' = pc /\ lock' = lock /\ payload'[v] = Aged(payload[v], key[v])
    BY <1>8 DEF Tick
  <2>2. payload[v] \in Nat => Aged(payload[v], key[v]) \in Nat
    <3> SUFFICES ASSUME payload[v] \in Nat PROVE Aged(payload[v], key[v]) \in Nat
      OBVIOUS
    <3>1. payload[v] \in Files /\ payload[v] # None /\ payload[v] # Torn /\ key[v] \in Keys
      BY ResearchAssumption DEF Files, ShapeOK
    <3> QED
      BY <3>1, AgedFile DEF Files
  <2> QED
    BY <1>3, <2>1, <2>2
<1>9. ASSUME NEW p \in Processes, Crash(p) PROVE Holds(v)'
  <2>1. CASE ProcOf(v) = p
    BY <1>5, <1>9, <2>1 DEF Crash, ShapeOK
  <2>2. CASE ProcOf(v) # p
    <3>1. pc'[v] = pc[v] /\ payload'[v] = payload[v]
      BY <1>3, <1>9, <2>2 DEF Crash
    <3>2. lock[CacheOf(v)] = v => lock'[CacheOf(v)] = v
      BY <1>3, <1>9, <2>2 DEF Crash
    <3> QED
      BY <1>3, <3>1, <3>2
  <2> QED
    BY <2>1, <2>2
<1>10. CASE UNCHANGED vars
  BY <1>4, <1>10 DEF vars, fetch, files
<1> QED
  BY <1>5, <1>6, <1>7, <1>8, <1>9, <1>10 DEF Next

\* With one cache object, one worker at a time writes.
LEMMA OneWriter ==
  ASSUME WorldOK, KindOK, LockOK, Cardinality(InUse) = 1,
         NEW v \in Workers, NEW w \in Workers, pc[v] \in Fetching, pc[w] \in Fetching
  PROVE  /\ CacheOf(v) = CacheOf(w)
         /\ pc[v] \in {"write", "rename"} /\ pc[w] \in {"write", "rename"} => v = w
         /\ pc[v] \in {"write", "rename"} => ~LockFree(CacheOf(w))
<1>1. CacheOf(v) \in InUse /\ CacheOf(w) \in InUse
  BY DEF KindOK, InUse
<1>2. InUse \in SUBSET Caches
  BY DEF InUse, CacheOf, WorldOK
<1>3. IsFiniteSet(InUse)
  BY <1>2, ResearchAssumption, FS_Subset
<1>4. \E c : InUse = {c}
  BY <1>3, FS_Singleton
<1>5. CacheOf(v) = CacheOf(w)
  BY <1>1, <1>4
<1> QED
  BY <1>5, ResearchAssumption DEF LockOK, LockFree

\* While one cache object is used, nobody writes to a file but the worker that
\* has it open, and a name is given to whole files only.
LEMMA FilesStep ==
  ASSUME WorldOK, ShapeOK, KindOK, LockOK, FilesOK, ReasonsOK, [Next]_vars
  PROVE  FilesOK'
<1> DEFINE Mine(v) == /\ handle[v] # None => pc[v] = "write" /\ handle[v] = "tmp"
                      /\ pc[v] = "write" => handle[v] = "tmp" /\ tmp[key[v]] = Torn
                      /\ pc[v] = "rename" => tmp[key[v]] \in Nat
           Left(k) == path[k] = Torn => setup.left[k] = Torn
           Good == (\A v \in Workers : Mine(v)') /\ (\A k \in Keys : Left(k)')
<1>1. InUse' = InUse /\ setup' = setup
  BY WorldStays DEF InUse, CacheOf, Command
<1> SUFFICES ASSUME Cardinality(InUse) = 1 PROVE Good
  BY <1>1 DEF FilesOK
<1>2. (\A v \in Workers : Mine(v)) /\ (\A k \in Keys : Left(k))
  BY DEF FilesOK
<1>3. /\ handle \in [Workers -> {None, "tmp", "path", "gone"}] /\ pc \in [Workers -> PCs]
      /\ path \in [Keys -> Files] /\ tmp \in [Keys -> Files] /\ key \in [Workers -> Keys]
      /\ None # Torn /\ None \notin Nat /\ Torn \notin Nat /\ None \notin {"tmp", "path", "gone"}
  BY ResearchAssumption DEF ShapeOK
<1>4. ASSUME handle' = handle, path' = path, tmp' = tmp,
             \A v \in Workers : \/ pc'[v] \notin {"write", "rename"} /\ pc[v] # "write"
                                \/ pc'[v] = pc[v] /\ key'[v] = key[v]
      PROVE  Good
  BY <1>1, <1>2, <1>4
<1>5. ASSUME NEW w \in Workers, Step(w) \/ Begin(w) PROVE Good
  <2>1. \A v \in Workers : v # w => pc'[v] = pc[v] /\ key'[v] = key[v]
    BY <1>5, OthersTry
  <2>2. \A v \in Workers : v # w /\ pc[w] \in {"write", "rename"} =>
          handle[v] = None /\ pc[v] \notin {"write", "rename"}
    <3> SUFFICES ASSUME NEW v \in Workers, v # w, pc[w] \in {"write", "rename"}
                 PROVE  handle[v] = None /\ pc[v] \notin {"write", "rename"}
      OBVIOUS
    <3>1. pc[v] \notin {"write", "rename"}
      BY OneWriter DEF Fetching
    <3> QED
      BY <1>2, <3>1
  <2>3. CASE Unlink(w)
    <3>1. handle' = handle
      <4>1. \A v \in Workers : handle[v] # "path"
        BY <1>2, <1>3
      <4> QED
        BY <1>3, <2>3, <4>1 DEF Unlink
    <3>2. /\ path' = [path EXCEPT ![key[w]] = None] /\ tmp' = tmp /\ key' = key
          /\ pc'[w] = "acquire" /\ pc[w] = "unlink"
      BY <1>3, <2>3 DEF Unlink, Set, Go
    <3> QED
      BY <1>1, <1>2, <1>3, <2>1, <3>1, <3>2
  <2>4. CASE OpenTmp(w)
    <3>1. /\ handle' = [handle EXCEPT ![w] = "tmp"] /\ tmp' = [tmp EXCEPT ![key[w]] = Torn]
          /\ path' = path /\ key' = key /\ pc[w] = "put" /\ pc'[w] = "write" /\ LockFree(CacheOf(w))
      BY <1>3, <2>4 DEF OpenTmp, Set, Go
    <3>2. \A v \in Workers : pc[v] \notin {"write", "rename"}
      BY <3>1, OneWriter DEF Fetching
    <3> QED
      BY <1>1, <1>2, <1>3, <2>1, <3>1, <3>2
  <2>5. CASE WriteTmp(w)
    <3>1. handle[w] = "tmp" /\ tmp[key[w]] = Torn /\ payload[w] \in Nat /\ pc[w] = "write"
      BY <1>2, <2>5 DEF WriteTmp, LockOK
    <3>2. /\ handle' = [handle EXCEPT ![w] = None]
          /\ tmp' = [tmp EXCEPT ![key[w]] = payload[w]]
          /\ path' = path /\ key' = key /\ pc'[w] = "rename"
      BY <1>3, <2>5, <3>1 DEF WriteTmp, Written, Set, Go
    <3> QED
      BY <1>1, <1>2, <1>3, <2>1, <2>2, <3>1, <3>2
  <2>6. CASE Rename(w)
    <3>1. tmp[key[w]] \in Nat /\ pc[w] = "rename" /\ handle[w] = None
      BY <1>2, <2>6 DEF Rename
    <3>2. /\ path' = [path EXCEPT ![key[w]] = tmp[key[w]]]
          /\ pc'[w] \in {"lookup", "derive", "failed"}
      BY <1>3, <2>6, <3>1 DEF Rename, Set, Served, Fail, Go
    <3>3. \A v \in Workers : handle'[v] = None
      BY <1>3, <2>2, <2>6, <3>1 DEF Rename, Moved
    <3> QED
      BY <1>1, <1>2, <1>3, <2>1, <2>2, <3>1, <3>2, <3>3
  <2>7. CASE Lookup(w) \/ Begin(w) \/ Answered(w) \/ WakeUp(w)
    <3>1. handle' = handle /\ path' = path /\ tmp' = tmp
      BY <2>7 DEF Lookup, Begin, Answered, WakeUp, files, fetch
    <3>2. pc'[w] \notin {"write", "rename"} /\ pc[w] # "write"
      BY <1>3, <2>7 DEF Lookup, Begin, Answered, WakeUp, Running, Served, Fail, Go, Set
    <3>3. \A v \in Workers : \/ pc'[v] \notin {"write", "rename"} /\ pc[v] # "write"
                             \/ pc'[v] = pc[v] /\ key'[v] = key[v]
      BY <2>1, <3>2
    <3> QED
      BY <1>4, <3>1, <3>3
  <2>8. CASE Acquire(w) \/ Send(w) \/ NotServed(w) \/ Refused(w) \/ Price(w) \/ DeriveFundamentals(w)
             \/ LoadSettings(w) \/ AskAsset(w) \/ BuildUniverse(w)
    <3>1. handle' = handle /\ path' = path /\ tmp' = tmp
      BY <2>8 DEF Acquire, Send, NotServed, Refused, Price, DeriveFundamentals, LoadSettings, AskAsset,
                  BuildUniverse, files, fetch
    <3>2. pc'[w] \notin {"write", "rename"} /\ pc[w] # "write"
      BY <1>3, <2>8 DEF Acquire, Send, NotServed, Refused, Price, DeriveFundamentals, LoadSettings,
                        AskAsset, BuildUniverse, Canned, Fail, Go, Set
    <3>3. \A v \in Workers : \/ pc'[v] \notin {"write", "rename"} /\ pc[v] # "write"
                             \/ pc'[v] = pc[v] /\ key'[v] = key[v]
      BY <2>1, <3>2
    <3> QED
      BY <1>4, <3>1, <3>3
  <2> QED
    BY <1>5, <2>3, <2>4, <2>5, <2>6, <2>7, <2>8 DEF Step
<1>6. CASE Tick
  <2>1. /\ pc' = pc /\ key' = key /\ handle' = handle
        /\ \A k \in Keys : path'[k] = Aged(path[k], k) /\ tmp'[k] = Aged(tmp[k], k)
    BY <1>6 DEF Tick
  <2>2. ASSUME NEW k \in Keys
        PROVE  /\ path'[k] = Torn <=> path[k] = Torn
               /\ tmp'[k] = Torn <=> tmp[k] = Torn
               /\ tmp[k] \in Nat => tmp'[k] \in Nat
    <3>1. /\ path'[k] = Torn <=> path[k] = Torn
          /\ tmp'[k] = Torn <=> tmp[k] = Torn
          /\ tmp'[k] = None <=> tmp[k] = None
          /\ tmp'[k] \in Files
      BY <1>3, <2>1, AgedFile
    <3> QED
      BY <1>3, <3>1 DEF Files
  <2> QED
    BY <1>1, <1>2, <1>3, <2>1, <2>2
<1>7. ASSUME NEW p \in Processes, Crash(p) PROVE Good
  <2>1. /\ path' = path /\ tmp' = tmp /\ key' = key
        /\ \A v \in Workers : IF ProcOf(v) = p THEN pc'[v] = "dead" /\ handle'[v] = None
                              ELSE pc'[v] = pc[v] /\ handle'[v] = handle[v]
    BY <1>7 DEF Crash
  <2> QED
    BY <1>1, <1>2, <2>1
<1>8. CASE UNCHANGED vars
  BY <1>4, <1>8 DEF vars, files, fetch
<1> QED
  BY <1>5, <1>6, <1>7, <1>8 DEF Next

-----------------------------------------------------------------------------
(* The theorems.                                                           *)

\* A run begins with no request sent and with the files earlier ones left.
LEMMA InitInv ==
  ASSUME Init PROVE IInv
<1>1. WorldOK
  BY ResearchAssumption DEF Init, WorldOK
<1>2. \A p \in Processes : stamps[p] = <<>> /\ stamps[p] \in Seq(0..Window)
  BY DEF Init
<1>3. ShapeOK
  <2>1. 0 \in Nat /\ {None, Torn} \subseteq Files /\ None \in Nat \cup {None}
    BY DEF Files
  <2>2. path \in [Keys -> Files] /\ tmp \in [Keys -> Files]
    BY <1>1, <2>1 DEF Init, WorldOK
  <2>3. stamps \in [Processes -> Seq(0..Window)]
    BY <1>2 DEF Init
  <2>4. /\ pc \in [Workers -> PCs] /\ key \in [Workers -> Keys]
        /\ attempt \in [Workers -> Nat] /\ bad \in [Workers -> Nat]
        /\ payload \in [Workers -> Nat \cup {None}]
        /\ handle \in [Workers -> {None, "tmp", "path", "gone"}]
        /\ lock \in [Caches -> Workers \cup {None}]
    BY DEF Init, PCs, Keys
  <2>5. sent \in [Processes -> [0..Window-1 -> Nat]]
    BY DEF Init
  <2> QED
    BY <2>2, <2>3, <2>4, <2>5 DEF ShapeOK
<1>4. KindOK /\ RetriesOK /\ LockOK /\ WhyOK /\ ReasonsOK
  BY DEF Init, KindOK, Fetching, RetriesOK, LockOK, WhyOK, FailuresExplained, ReasonsOK, Reasons
<1>5. FilesOK
  BY DEF Init, FilesOK
<1>6. LimiterOK
  <2> SUFFICES ASSUME NEW p \in Processes
               PROVE  Tells(stamps[p], stamps[p], sent[p], Cardinality(Held(p)), Cardinality(Threads(p)))
    BY <1>2 DEF LimiterOK
  <2>1. Len(stamps[p]) = 0 /\ DOMAIN stamps[p] = {}
    BY <1>2
  <2>2. \A t \in 0..Window-1 : Places(stamps[p], t) = {} /\ sent[p][t] = 0
    BY <2>1 DEF Init, Places
  <2>3. Cardinality({}) = 0 /\ 0 <= MaxRps
    BY FS_EmptySet, ResearchAssumption
  <2>4. \A n \in 0..Window : Younger(stamps[p], n) \in Nat
    BY <1>2, YoungerFacts
  <2>5. Cardinality(Held(p)) = 0 /\ Cardinality(Threads(p)) \in Nat
    <3>1. Held(p) = {}
      BY DEF Init, Held, Threads
    <3> QED
      BY <2>3, <3>1, HeldFacts
  <2>6. \A n \in 0..Window : Younger(stamps[p], n) + Cardinality(Held(p))
                              <= Younger(stamps[p], n) + Cardinality(Threads(p))
    BY <2>4, <2>5
  <2>7. \A t \in 0..Window-1 : sent[p][t] = Cardinality(Places(stamps[p], t))
    BY <2>2, <2>3
  <2> QED
    BY <2>1, <2>3, <2>6, <2>7 DEF Tells
<1> QED
  BY <1>1, <1>3, <1>4, <1>5, <1>6 DEF IInv

\* Every step keeps the invariant.
LEMMA StepInv ==
  ASSUME IInv, [Next]_vars PROVE IInv'
<1> USE DEF IInv
<1>1. WorldOK'
  BY WorldStays DEF WorldOK
<1>2. stamps' \in [Processes -> Seq(0..Window)] /\ sent' \in [Processes -> [0..Window-1 -> Nat]]
      /\ LimiterOK'
  BY LimiterStep
<1>3. ShapeOK'
  BY <1>2, PcShape, FetchShape, FileShape DEF ShapeOK
<1>4. KindOK' /\ RetriesOK' /\ WhyOK' /\ LockOK' /\ FilesOK' /\ ReasonsOK'
  BY KindStep, RetriesStep, LockStep, FilesStep, WhyShape
<1> QED
  BY <1>1, <1>2, <1>3, <1>4

\* The invariant holds of every state of the data commands.
THEOREM Invariance == Spec => []IInv
<1>1. Init => IInv
  BY InitInv
<1>2. IInv /\ [Next]_vars => IInv'
  BY StepInv
<1> QED
  BY <1>1, <1>2, PTL DEF Spec

\* A process sends at most MaxRps requests in any Window and one more of each
\* of its threads, however long they are held up between the limiter and the
\* request, and whenever it is killed.
THEOREM LimiterKept == Spec => []LimiterHonoured
<1>1. IInv => LimiterHonoured
  BY LimitKept DEF IInv
<1> QED
  BY <1>1, Invariance, PTL

\* While one cache object is used, no reader and no crash finds a file that is
\* not whole, unless an earlier run left it so; and a document is given up for
\* a reason only.
THEOREM DocumentsAreServed == Spec => []DocumentsServed
<1>1. IInv => DocumentsServed
  BY DEF IInv, FilesOK, WhyOK, DocumentsServed, OnlyWhole
<1> QED
  BY <1>1, Invariance, PTL

-----------------------------------------------------------------------------
(* The universe.  First what the rules say of one asset.                   *)

\* The average dollar volume of numbers is a number.
LEMMA AdvTyped ==
  ASSUME NEW bars \in Seq(Nat), NEW days \in Nat
  PROVE  AdvUsd(bars, days) \in Nat
<1> DEFINE q == LastBars(bars, days)
           n == Len(q)
           Plus == [p \in Nat \X Nat |-> p[1] + p[2]]
           Steps(g) == g = [s \in SUBSET DOMAIN q |->
                              IF s = {} THEN 0 ELSE g[s \ {Max(s)}] + q[Max(s)]]
           G == CHOOSE g : Steps(g)
           T == {k \in Nat : k <= n => G[1..k] \in Nat}
<1>1. q \in Seq(Nat)
  <2> DEFINE from == Max({1, Len(bars) - days + 1})
             to == Len(bars)
  <2>1. from \in Int /\ from >= 1 /\ to \in Nat
    <3> DEFINE a == Len(bars) - days + 1
    <3>1. a \in Int
      OBVIOUS
    <3> HIDE DEF a
    <3>2. CASE a >= 1
      <4>0. {1, a} \in SUBSET Int /\ a \in {1, a} /\ \A y \in {1, a} : a >= y
        BY <3>1, <3>2
      <4>1. Max({1, a}) = a
        BY <4>0, MaxIs
      <4> QED
        BY <3>1, <3>2, <4>1 DEF a
    <3>3. CASE ~(a >= 1)
      <4>0. {1, a} \in SUBSET Int /\ 1 \in {1, a} /\ \A y \in {1, a} : 1 >= y
        BY <3>1, <3>3
      <4>1. Max({1, a}) = 1
        BY <4>0, MaxIs
      <4> QED
        BY <4>1 DEF a
    <3> QED
      BY <3>2, <3>3
  <2> HIDE DEF from
  <2>2. \A i \in from..to : bars[i] \in Nat
    BY <2>1
  <2> HIDE DEF to
  <2>3. SubSeq(bars, from, to) \in Seq(Nat)
    BY <2>1, <2>2, SubSeqProperties
  <2> QED
    BY <2>3 DEF LastBars, from, to
<1> HIDE DEF q
<1>2. n \in Nat /\ DOMAIN q = 1..n /\ \A i \in 1..n : q[i] \in Nat
  BY <1>1
<1>3. AdvUsd(bars, days) = IF q = <<>> THEN 0 ELSE G[DOMAIN q] \div n
  BY DEF AdvUsd, q, FoldLeft, MapThenFoldSet
<1>4. PICK g \in [SUBSET DOMAIN q -> Nat] : FoldsUp(g, Plus, 0, q, n)
  <2>1. Plus \in [Nat \X Nat -> Nat] /\ 0 \in Nat
    OBVIOUS
  <2> HIDE DEF Plus
  <2> QED
    BY <1>1, <2>1, FoldExists
<1>5. Steps(g)
  <2>1. ASSUME NEW s \in SUBSET (1..n)
        PROVE  g[s] = IF s = {} THEN 0 ELSE g[s \ {Max(s)}] + q[Max(s)]
    <3>1. g[s] = IF s = {} THEN 0 ELSE Plus[<<g[s \ {Max(s)}], q[Max(s)]>>]
      BY <1>4 DEF FoldsUp
    <3>2. CASE s = {}
      BY <3>1, <3>2
    <3>3. CASE s # {}
      <4>1. s \in SUBSET (0..n)
        OBVIOUS
      <4>2. Max(s) \in s
        BY <1>2, <3>3, <4>1, Greatest
      <4>3. g[s \ {Max(s)}] \in Nat /\ q[Max(s)] \in Nat
        BY <1>2, <1>4, <4>2
      <4> QED
        BY <3>1, <3>3, <4>3
    <3> QED
      BY <3>2, <3>3
  <2> QED
    BY <1>2, <1>4, <2>1
<1>6. Steps(G)
  <2> HIDE DEF Steps
  <2> QED
    BY <1>5
<1>7. \A s \in SUBSET (1..n) : G[s] = IF s = {} THEN 0 ELSE G[s \ {Max(s)}] + q[Max(s)]
  BY <1>2, <1>6
<1> HIDE DEF G, Steps, Plus
<1>8. 0 \in T
  <2>1. 1..0 = {} /\ 1..0 \in SUBSET (1..n)
    OBVIOUS
  <2>2. G[1..0] = 0
    BY <1>7, <2>1
  <2> QED
    BY <2>2
<1>9. ASSUME NEW k \in Nat, k \in T PROVE k + 1 \in T
  <2> SUFFICES ASSUME k + 1 <= n PROVE G[1..k + 1] \in Nat
    OBVIOUS
  <2>1. G[1..k] \in Nat /\ k + 1 \in 1..n /\ k + 1 \in Nat \ {0} /\ (k + 1) - 1 = k
    BY <1>2, <1>9
  <2>2. Max(1..k + 1) = k + 1 /\ (1..k + 1) \ {k + 1} = 1..(k + 1) - 1 /\ 1..k + 1 # {}
    BY <2>1, LastPlace
  <2>3. 1..k + 1 \in SUBSET (1..n)
    BY <1>2, <2>1
  <2>4. G[1..k + 1] = G[1..k] + q[k + 1]
    BY <1>7, <2>1, <2>2, <2>3
  <2> QED
    BY <1>2, <2>1, <2>4
<1> HIDE DEF T
<1>10. n \in T
  BY <1>2, <1>8, <1>9, Induction
<1>11. G[DOMAIN q] \in Nat
  BY <1>2, <1>10 DEF T
<1>12. q # <<>> => n > 0
  BY <1>1
<1> HIDE DEF n
<1>13. q # <<>> => G[DOMAIN q] \div n \in Nat
  <2> SUFFICES ASSUME q # <<>> PROVE G[DOMAIN q] \div n \in Nat
    OBVIOUS
  <2> DEFINE m == G[DOMAIN q]
  <2>1. m \in Nat /\ n \in Nat /\ n > 0
    BY <1>2, <1>11, <1>12
  <2> HIDE DEF m
  <2>2. m \div n \in Int /\ m \div n >= 0
    BY <2>1, SMTT(30)
  <2> QED
    BY <2>2 DEF m
<1> QED
  BY <1>3, <1>13

\* What the policies have in common.
LEMMA PolicyTyped ==
  ASSUME NEW t \in DOMAIN DefaultPolicies
  PROVE  LET p == DefaultPolicies[t] IN
         p.minAdv \in Nat /\ p.floor \in Nat /\ p.bands \subseteq Bands
<1>1. t \in {"conservative", "balanced", "aggressive", "concentrated", "yolo", "quant_signal",
             "random_baseline", "benchmark"}
  BY DEF DefaultPolicies
<1> QED
  BY <1>1 DEF DefaultPolicies, Plain, Policy, Bands, LargeBands

\* The band of a market cap is the one whose bounds it is between.
LEMMA BandIs ==
  ASSUME NEW cap \in Nat \cup {None}, NEW bands \in SUBSET Bands
  PROVE  BandOf(cap) \in bands <=>
           cap # None /\ \E b \in bands : /\ cap > CapBounds[b][1]
                                          /\ CapBounds[b][2] # None => cap <= CapBounds[b][2]
<1>1. None \notin Int /\ None \notin Bands
  BY MarketAssumption
<1>2. CASE cap = None
  BY <1>1, <1>2 DEF BandOf
<1>3. CASE cap \in Nat
  <2> DEFINE In(b) == /\ cap > CapBounds[b][1]
                      /\ CapBounds[b][2] # None => cap <= CapBounds[b][2]
  <2>0. cap # None
    BY <1>1, <1>3
  <2>1. /\ In("mega") <=> cap > 200000
        /\ In("large") <=> cap > 10000 /\ cap <= 200000
        /\ In("mid") <=> cap > 2000 /\ cap <= 10000
        /\ In("small") <=> cap > 300 /\ cap <= 2000
        /\ In("micro") <=> cap > 50 /\ cap <= 300
        /\ In("nano") <=> cap > 0 /\ cap <= 50
    BY <1>1, <1>3 DEF CapBounds
  <2> HIDE DEF In
  <2>2. \A b \in Bands : In(b) <=> BandOf(cap) = b
    BY <1>1, <1>3, <2>0, <2>1 DEF Bands, BandOf
  <2>3. BandOf(cap) \in bands <=> \E b \in bands : In(b)
    BY <2>2
  <2> QED
    BY <2>0, <2>3 DEF In
<1> QED
  BY <1>2, <1>3

\* The rules admit an asset exactly if it fits the policy.
LEMMA VerdictFits ==
  ASSUME NEW t \in DOMAIN DefaultPolicies, NEW asset, NEW snap,
         snap.price \in Nat, snap.adv \in Nat, snap.cap \in Nat \cup {None}
  PROVE  /\ Evaluate(asset, snap, DefaultPolicies[t]) \in Counted
         /\ Evaluate(asset, snap, DefaultPolicies[t]) \in Buckets
              <=> Fits(snap, asset, DefaultPolicies[t])
<1> DEFINE p == DefaultPolicies[t]
<1>1. p.minAdv \in Nat /\ p.floor \in Nat /\ p.bands \subseteq Bands
  BY PolicyTyped
<1> HIDE DEF p
<1>2. BandOf(snap.cap) \in p.bands <=>
        snap.cap # None /\ \E b \in p.bands : /\ snap.cap > CapBounds[b][1]
                                              /\ CapBounds[b][2] # None => snap.cap <= CapBounds[b][2]
  BY <1>1, BandIs
<1>3. Fits(snap, asset, p) <=> /\ InstrumentOf(asset) \in p.instruments
                               /\ ~(snap.price < p.floor) /\ ~(snap.adv < p.minAdv)
                               /\ BandOf(snap.cap) \in p.bands
  BY <1>1, <1>2 DEF Fits
<1>4. Evaluate(asset, snap, p) \in Counted
  BY DEF Evaluate, Counted, Buckets
<1>5. Evaluate(asset, snap, p) \in Buckets <=> Fits(snap, asset, p)
  BY <1>3 DEF Evaluate, Buckets
<1> QED
  BY <1>4, <1>5 DEF p

-----------------------------------------------------------------------------
(* One build.                                                              *)

\* The snapshots a build has are numbers.
SnapsOf(assets, snaps) ==
  \A i \in DOMAIN assets : assets[i].symbol \in DOMAIN snaps =>
    LET s == snaps[assets[i].symbol] IN
    s.price \in Nat /\ s.adv \in Nat /\ s.cap \in Nat \cup {None}

Distinct(assets) ==
  /\ \A i \in DOMAIN assets : assets[i].symbol \in Nat
  /\ \A i, j \in DOMAIN assets : assets[i].symbol = assets[j].symbol => i = j

\* The symbols of the assets that were answered for and fit the policy.
Fitting(assets, snaps, policy) ==
  {assets[i].symbol : i \in {j \in DOMAIN assets :
     /\ assets[j].symbol \in DOMAIN snaps
     /\ Fits(snaps[assets[j].symbol], assets[j], policy)}}

\* Every asset has one key, and it is a bucket exactly if it fits.
LEMMA KeysAre ==
  ASSUME NEW S, NEW assets \in Seq(S), NEW snaps, SnapsOf(assets, snaps),
         NEW t \in DOMAIN DefaultPolicies, NEW i \in DOMAIN assets
  PROVE  LET found == KeyOf(assets[i], snaps, DefaultPolicies[t]) IN
         /\ found \in Counted
         /\ found \in Buckets <=> /\ assets[i].symbol \in DOMAIN snaps
                                  /\ Fits(snaps[assets[i].symbol], assets[i], DefaultPolicies[t])
<1>1. CASE assets[i].symbol \in DOMAIN snaps
  <2> DEFINE s == snaps[assets[i].symbol]
  <2>1. s.price \in Nat /\ s.adv \in Nat /\ s.cap \in Nat \cup {None}
    BY <1>1 DEF SnapsOf
  <2>2. KeyOf(assets[i], snaps, DefaultPolicies[t]) = Evaluate(assets[i], s, DefaultPolicies[t])
    BY <1>1 DEF KeyOf
  <2> HIDE DEF s
  <2>3. /\ Evaluate(assets[i], s, DefaultPolicies[t]) \in Counted
        /\ Evaluate(assets[i], s, DefaultPolicies[t]) \in Buckets
              <=> Fits(s, assets[i], DefaultPolicies[t])
    BY <2>1, VerdictFits
  <2> QED
    BY <1>1, <2>2, <2>3 DEF s
<1>2. CASE assets[i].symbol \notin DOMAIN snaps
  <2>1. KeyOf(assets[i], snaps, DefaultPolicies[t]) = "missing_snapshot"
    BY <1>2 DEF KeyOf
  <2> QED
    BY <1>2, <2>1 DEF Counted, Buckets
<1> QED
  BY <1>1, <1>2

\* The candidates are the most liquid that fit, as many as the limit allows.
LEMMA BuildIsTop ==
  ASSUME NEW S, NEW assets \in Seq(S), Distinct(assets), NEW snaps, SnapsOf(assets, snaps),
         NEW t \in DOMAIN DefaultPolicies, NEW limit \in Nat
  PROVE  LET fit    == Fitting(assets, snaps, DefaultPolicies[t])
             served == Range(Build(assets, snaps, DefaultPolicies[t], limit).candidates)
         IN  /\ served \subseteq fit
             /\ Cardinality(served) = Min({limit, Cardinality(fit)})
             /\ \A s \in served, u \in fit \ served : snaps[s].adv >= snaps[u].adv
<1> DEFINE policy == DefaultPolicies[t]
           fit == Fitting(assets, snaps, policy)
           R == {p \in fit \X fit : Ahead(snaps, p[1], p[2])}
           ordered == SortedBy(fit, R)
           n == Cardinality(fit)
           m == Min({limit, n})
           served == SubSeq(ordered, 1, m)
<1>1. DOMAIN assets = 1..Len(assets) /\ Len(assets) \in Nat
  OBVIOUS
<1>2. \A i \in DOMAIN assets : KeyOf(assets[i], snaps, policy) \in Buckets <=>
        /\ assets[i].symbol \in DOMAIN snaps
        /\ Fits(snaps[assets[i].symbol], assets[i], policy)
  BY KeysAre
<1> HIDE DEF policy
<1>3. {assets[i].symbol : i \in {j \in DOMAIN assets : KeyOf(assets[j], snaps, policy) \in Buckets}} = fit
  BY <1>2 DEF Fitting
<1>4. IsFiniteSet(fit)
  <2> DEFINE I == {j \in DOMAIN assets : /\ assets[j].symbol \in DOMAIN snaps
                                         /\ Fits(snaps[assets[j].symbol], assets[j], policy)}
             f == [i \in I |-> assets[i].symbol]
  <2>1. IsFiniteSet(I)
    <3>1. IsFiniteSet(DOMAIN assets)
      BY <1>1, FS_Interval
    <3>2. I \in SUBSET DOMAIN assets
      OBVIOUS
    <3> QED
      BY <3>1, <3>2, FS_Subset
  <2>2. f \in Surjection(I, fit)
    BY DEF Surjection, Fitting
  <2> QED
    BY <2>1, <2>2, FS_Surjection
<1>5. \A s \in fit : s \in Nat /\ snaps[s].adv \in Nat
  BY DEF Fitting, SnapsOf, Distinct
<1> HIDE DEF fit
<1>6. \A a, b \in fit : <<a, b>> \in R <=> Ahead(snaps, a, b)
  OBVIOUS
<1> HIDE DEF R
<1>7. StrictOrder(fit, R)
  <2>1. \A x, y \in fit : <<x, y>> \in R <=> \/ snaps[x].adv > snaps[y].adv
                                             \/ snaps[x].adv = snaps[y].adv /\ x < y
    BY <1>6 DEF Ahead
  <2>2. \A x \in fit : <<x, x>> \notin R
    BY <1>5, <2>1
  <2>3. ASSUME NEW x \in fit, NEW y \in fit
        PROVE  x = y \/ <<x, y>> \in R \/ <<y, x>> \in R
    <3>1. /\ x \in Nat /\ y \in Nat /\ snaps[x].adv \in Nat /\ snaps[y].adv \in Nat
      BY <1>5
    <3>2. /\ <<x, y>> \in R <=> \/ snaps[x].adv > snaps[y].adv
                                \/ snaps[x].adv = snaps[y].adv /\ x < y
          /\ <<y, x>> \in R <=> \/ snaps[y].adv > snaps[x].adv
                                \/ snaps[y].adv = snaps[x].adv /\ y < x
      BY <2>1
    <3> QED
      BY <3>1, <3>2
  <2>4. ASSUME NEW x \in fit, NEW y \in fit, NEW z \in fit, <<x, y>> \in R, <<y, z>> \in R
        PROVE  <<x, z>> \in R
    BY SMTT(30), <1>5, <2>1, <2>4
  <2> QED
    BY <2>2, <2>3, <2>4 DEF StrictOrder
<1>8. Sorted(fit, LAMBDA a, b : Ahead(snaps, a, b)) = ordered
  <2>1. \A x \in fit : {y \in fit : Ahead(snaps, y, x)} = Below(fit, R, x)
    BY <1>6 DEF Below
  <2>2. \A x \in fit : 1 + Cardinality({y \in fit : Ahead(snaps, y, x)}) = PlaceBy(fit, R, x)
    BY <2>1 DEF PlaceBy
  <2>3. Sorted(fit, LAMBDA a, b : Ahead(snaps, a, b)) =
          [i \in 1..Cardinality(fit) |->
             CHOOSE x \in fit : 1 + Cardinality({y \in fit : Ahead(snaps, y, x)}) = i]
    BY DEF Sorted, PlaceIn
  <2>4. \A i : (CHOOSE x \in fit : 1 + Cardinality({y \in fit : Ahead(snaps, y, x)}) = i)
                 = CHOOSE x \in fit : PlaceBy(fit, R, x) = i
    BY <2>2
  <2> QED
    BY <2>3, <2>4 DEF SortedBy
<1>9. /\ ordered \in Seq(fit) /\ Len(ordered) = n /\ DOMAIN ordered = 1..n /\ n \in Nat
      /\ \A x \in fit : \E i \in 1..n : ordered[i] = x
      /\ \A i, j \in 1..n : i < j => <<ordered[i], ordered[j]>> \in R
      /\ \A i, j \in 1..n : ordered[i] = ordered[j] => i = j
  <2>1. n \in Nat
    BY <1>4, FS_CardinalityType
  <2>2. /\ ordered \in Seq(fit) /\ Len(ordered) = n /\ DOMAIN ordered = 1..n
        /\ \A x \in fit : \E i \in DOMAIN ordered : ordered[i] = x
        /\ \A i, j \in DOMAIN ordered : i < j => <<ordered[i], ordered[j]>> \in R
        /\ \A i, j \in DOMAIN ordered : ordered[i] = ordered[j] => i = j
    BY <1>4, <1>7, SortedSequence
  <2> HIDE DEF ordered, n
  <2> QED
    BY <2>1, <2>2
<1>10. Build(assets, snaps, policy, limit).candidates = served
  <2>1. Build(assets, snaps, policy, limit).candidates =
          LET o == Sorted(fit, LAMBDA a, b : Ahead(snaps, a, b))
          IN  SubSeq(o, 1, Min({limit, Len(o)}))
    BY <1>3 DEF Build
  <2> QED
    BY <1>8, <1>9, <2>1
<1>11. m \in Nat /\ m <= n
  BY <1>9, MinOfTwo
<1> HIDE DEF ordered, n, m
<1>12. served \in Seq(fit) /\ DOMAIN served = 1..m /\ \A i \in 1..m : served[i] = ordered[i]
  <2>1. \A i \in 1..m : ordered[i] \in fit
    BY <1>9, <1>11
  <2>2. /\ served \in Seq(fit) /\ Len(served) = (IF 1 <= m THEN m - 1 + 1 ELSE 0)
        /\ \A i \in 1..m - 1 + 1 : served[i] = ordered[1 + i - 1]
    BY <1>11, <2>1, SubSeqProperties
  <2> HIDE DEF served
  <2>3. Len(served) = m
    BY <1>11, <2>2
  <2>4. \A i \in 1..m : served[i] = ordered[i]
    <3> TAKE i \in 1..m
    <3>1. i \in 1..m - 1 + 1 /\ 1 + i - 1 = i
      BY <1>11
    <3> QED
      BY <2>2, <3>1
  <2> QED
    BY <2>2, <2>3, <2>4
<1> HIDE DEF served
<1>13. Range(served) = {ordered[i] : i \in 1..m}
  BY <1>12 DEF Range
<1>14. \A i \in 1..m : i \in 1..n /\ ordered[i] \in fit
  BY <1>9, <1>11
<1>15. Cardinality(Range(served)) = m
  <2> DEFINE f == [i \in 1..m |-> ordered[i]]
             Q == Range(served)
  <2>1. f \in Surjection(1..m, Q)
    BY <1>13 DEF Surjection
  <2>2. \A i, j \in 1..m : f[i] = f[j] => i = j
    BY <1>9, <1>14
  <2>3. f \in Injection(1..m, Q)
    <3>1. f \in [1..m -> Q]
      BY <2>1 DEF Surjection
    <3> HIDE DEF f
    <3> QED
      BY <2>2, <3>1 DEF Injection, IsInjective
  <2>4. IsFiniteSet(1..m) /\ Cardinality(1..m) = m
    BY <1>11, FS_Interval
  <2> HIDE DEF f, Q
  <2>5. IsFiniteSet(Q) /\ Cardinality(Q) <= m /\ Cardinality(Q) \in Nat
    BY <2>1, <2>4, FS_Surjection, FS_CardinalityType
  <2>6. m <= Cardinality(Q)
    BY <2>3, <2>4, <2>5, FS_Injection
  <2> QED
    BY <1>11, <2>5, <2>6 DEF Q
<1>16. \A s \in Range(served), u \in fit \ Range(served) : snaps[s].adv >= snaps[u].adv
  <2> TAKE s \in Range(served), u \in fit \ Range(served)
  <2>1. PICK i \in 1..m : s = ordered[i]
    BY <1>13
  <2>2. PICK j \in 1..n : u = ordered[j]
    BY <1>9
  <2>3. j \notin 1..m
    BY <1>13, <2>2
  <2>4. i < j /\ i \in 1..n /\ s \in fit /\ u \in fit
    BY <1>9, <1>11, <1>14, <2>1, <2>2, <2>3
  <2>5. <<s, u>> \in R
    BY <1>9, <2>1, <2>2, <2>4
  <2>6. \/ snaps[s].adv > snaps[u].adv
        \/ snaps[s].adv = snaps[u].adv
    BY <1>6, <2>4, <2>5 DEF Ahead
  <2> QED
    BY <1>5, <2>4, <2>6
<1>17. Range(served) \subseteq fit
  BY <1>13, <1>14
<1> QED
  BY <1>10, <1>15, <1>16, <1>17 DEF policy, fit, m, n

\* Each asset is counted under its key, and once.
LEMMA BuildCounts ==
  ASSUME NEW S, NEW assets \in Seq(S), NEW snaps, SnapsOf(assets, snaps),
         NEW t \in DOMAIN DefaultPolicies, NEW limit,
         NEW b, b = Build(assets, snaps, DefaultPolicies[t], limit)
  PROVE  SumOver([k \in Counted |-> b.counts[k]], Counted) = Len(assets)
<1> DEFINE policy == DefaultPolicies[t]
           I == DOMAIN assets
           h == [i \in I |-> KeyOf(assets[i], snaps, policy)]
           f == [k \in Counted |-> b.counts[k]]
<1>1. I = 1..Len(assets) /\ Len(assets) \in Nat
  OBVIOUS
<1>2. \A i \in I : h[i] \in Counted
  BY KeysAre
<1>3. \A k \in Counted : b.counts[k] = Cardinality({i \in I : KeyOf(assets[i], snaps, policy) = k})
  BY DEF Build
<1> HIDE DEF policy
<1>4. \A k \in Counted : f[k] = Cardinality(Places(h, k))
  <2> TAKE k \in Counted
  <2>1. Places(h, k) = {i \in I : KeyOf(assets[i], snaps, policy) = k}
    BY DEF Places
  <2> QED
    BY <1>3, <2>1
<1>5. PlacesIn(h, Counted) = I /\ DOMAIN h = I
  BY <1>2 DEF PlacesIn
<1>6. IsFiniteSet(I) /\ Cardinality(I) = Len(assets)
  <2> DEFINE m == Len(assets)
  <2>1. m \in Nat /\ I = 1..m
    BY <1>1
  <2> HIDE DEF m, I
  <2>2. IsFiniteSet(1..m) /\ Cardinality(1..m) = IF 1 > m THEN 0 ELSE m - 1 + 1
    BY <2>1, FS_Interval
  <2> QED
    BY <2>1, <2>2 DEF m
<1>7. IsFiniteSet(Counted)
  <2> DEFINE A1 == {"missing_snapshot"}
             A2 == A1 \cup {"rejected_instrument"}
             A3 == A2 \cup {"rejected_price_floor"}
             A4 == A3 \cup {"rejected_adv_floor"}
             A5 == A4 \cup {"rejected_cap_band"}
             B1 == {"core"}
             B2 == B1 \cup {"hidden_gem"}
  <2>2. IsFiniteSet(A1) /\ IsFiniteSet(B1)
    BY FS_Singleton
  <2>3. Counted = A5 \cup B2
    BY DEF Counted, Buckets
  <2> HIDE DEF A1, B1
  <2>4. IsFiniteSet(A2) /\ IsFiniteSet(B2)
    BY <2>2, FS_AddElement
  <2> HIDE DEF A2, B2
  <2>5. IsFiniteSet(A3)
    BY <2>4, FS_AddElement
  <2> HIDE DEF A3
  <2>6. IsFiniteSet(A4)
    BY <2>5, FS_AddElement
  <2> HIDE DEF A4
  <2>7. IsFiniteSet(A5)
    BY <2>6, FS_AddElement
  <2> HIDE DEF A5
  <2> QED
    BY <2>3, <2>4, <2>7, FS_Union
<1> HIDE DEF f, h, I
<1>8. SumOver(f, Counted) = Cardinality(I)
  BY <1>4, <1>5, <1>6, <1>7, SumOfCounts
<1> QED
  BY <1>6, <1>8 DEF f

-----------------------------------------------------------------------------
(* The universe of a track, along a run.                                   *)

\* The tradable assets of a market of the assumption.
LEMMA AssetsAre ==
  ASSUME NEW s \in Settings, market = Market(s)
  PROVE  /\ Assets \in Seq(Range(market)) /\ Distinct(Assets)
         /\ \A i \in DOMAIN Assets : Quoted(Assets[i].quote)
<1> DEFINE I == {i \in DOMAIN market : market[i].tradable}
           S == Range(market)
<1>1. Assets = Chosen(market, I)
  BY DEF Assets, TradableOf, Only, Chosen, InOrder
<1>2. market \in Seq(S) /\ I \in SUBSET DOMAIN market
  BY MarketAssumption
<1>3. \A i \in DOMAIN market : market[i].symbol \in Nat /\ Quoted(market[i].quote)
  BY MarketAssumption
<1>4. \A i, j \in DOMAIN market : market[i].symbol = market[j].symbol => i = j
  BY MarketAssumption
<1> HIDE DEF S, I
<1>5. Assets \in Seq(S) /\ DOMAIN Assets = 1..Len(Assets)
  BY <1>1, <1>2, ChosenElements
<1>6. PICK p \in [DOMAIN Assets -> I] :
        /\ \A k \in DOMAIN Assets : Assets[k] = market[p[k]]
        /\ \A k, l \in DOMAIN Assets : k < l => p[k] < p[l]
  BY <1>1, <1>2, ChosenElements
<1>7. \A k \in DOMAIN Assets : p[k] \in DOMAIN market
  BY <1>2, <1>6
<1>8. \A k, l \in DOMAIN Assets : p[k] = p[l] => k = l
  <2> TAKE k, l \in DOMAIN Assets
  <2>1. k \in Int /\ l \in Int /\ p[k] \in Int /\ p[l] \in Int
    <3>1. DOMAIN market \subseteq Int
      BY <1>2
    <3> QED
      BY <1>5, <1>7, <3>1
  <2>2. (k < l => p[k] < p[l]) /\ (l < k => p[l] < p[k])
    BY <1>6
  <2> QED
    BY <2>1, <2>2
<1>9. Distinct(Assets)
  <2>1. \A i \in DOMAIN Assets : Assets[i].symbol \in Nat
    BY <1>3, <1>6, <1>7
  <2>2. \A i, j \in DOMAIN Assets : Assets[i].symbol = Assets[j].symbol => i = j
    BY <1>4, <1>6, <1>7, <1>8
  <2> QED
    BY <2>1, <2>2 DEF Distinct
<1>10. \A i \in DOMAIN Assets : Quoted(Assets[i].quote)
  BY <1>3, <1>6, <1>7
<1> QED
  BY <1>5, <1>9, <1>10 DEF S

\* What a command knows of the market: snapshots of assets that have a price;
\* and what it has built, it built from all of them.
MarketOK == \E s \in Settings : setup = Setup(s) /\ market = Market(s)
TablesOK == DOMAIN answers = Workers /\ DOMAIN result = Workers /\ asked \in [Workers -> Nat]
HasPolicy(w) == Command(w).track \in DOMAIN DefaultPolicies
Answer(w, s) == \E i \in DOMAIN Assets : /\ Assets[i].symbol = s
                                         /\ Assets[i].quote.price # None
                                         /\ answers[w][s] = SnapshotOf(Assets[i])
Builds(w) ==
  /\ \A s \in DOMAIN answers[w] : Answer(w, s)
  /\ pc[w] = "assets" => HasPolicy(w)
  /\ Built(w) =>
       /\ HasPolicy(w)
       /\ result[w] = Build(Assets, answers[w], DefaultPolicies[Command(w).track],
                            Command(w).limit)
UniverseInv == MarketOK /\ TablesOK /\ \A w \in Workers : Builds(w)

\* The world of a run is fixed.
LEMMA MarketStays ==
  ASSUME [Next]_vars
  PROVE  setup' = setup /\ market' = market
BY ZenonT(30), SMTT(30) DEF Next, Step, Tick, Begin, Crash, Lookup, Unlink, OpenTmp, WriteTmp, Rename, Acquire, Send,
       Answered, NotServed, Refused, WakeUp, Price, DeriveFundamentals, LoadSettings, AskAsset,
       BuildUniverse, vars, world

\* The tables have an entry of every worker, and a step of one worker leaves
\* another one's alone.
LEMMA TablesStep ==
  ASSUME TablesOK, [Next]_vars
  PROVE  TablesOK'
<1> USE DEF TablesOK
<1>1. ASSUME NEW w \in Workers, Step(w) \/ Begin(w) PROVE TablesOK'
  <2>1. CASE Lookup(w) \/ Unlink(w) \/ OpenTmp(w) \/ WriteTmp(w) \/ Rename(w)
    BY <2>1 DEF Lookup, Unlink, OpenTmp, WriteTmp, Rename, build
  <2>2. CASE Acquire(w) \/ Send(w) \/ Answered(w) \/ NotServed(w) \/ Refused(w) \/ WakeUp(w) \/ Price(w)
    BY <2>2 DEF Acquire, Send, Answered, NotServed, Refused, WakeUp, Price, build
  <2>3. CASE DeriveFundamentals(w) \/ LoadSettings(w) \/ BuildUniverse(w)
    BY <2>3 DEF DeriveFundamentals, LoadSettings, BuildUniverse, Canned, build, Set
  <2>4. CASE AskAsset(w)
    BY <2>4 DEF AskAsset, Set
  <2>5. CASE Begin(w)
    BY <2>5 DEF Begin, Set
  <2> QED
    BY <1>1, <2>1, <2>2, <2>3, <2>4, <2>5 DEF Step
<1>2. CASE Tick
  BY <1>2 DEF Tick, build
<1>3. ASSUME NEW p \in Processes, Crash(p) PROVE TablesOK'
  BY <1>3 DEF Crash, build
<1>4. CASE UNCHANGED vars
  BY <1>4 DEF vars, build
<1> QED
  BY <1>1, <1>2, <1>3, <1>4 DEF Next

LEMMA OthersBuild ==
  ASSUME TablesOK, NEW w \in Workers, Step(w) \/ Begin(w), NEW v \in Workers, v # w
  PROVE  answers'[v] = answers[v] /\ result'[v] = result[v]
<1> USE DEF TablesOK
<1>1. CASE Lookup(w) \/ Unlink(w) \/ OpenTmp(w) \/ WriteTmp(w) \/ Rename(w)
  BY <1>1 DEF Lookup, Unlink, OpenTmp, WriteTmp, Rename, build
<1>2. CASE Acquire(w) \/ Send(w) \/ Answered(w) \/ NotServed(w) \/ Refused(w) \/ WakeUp(w) \/ Price(w)
  BY <1>2 DEF Acquire, Send, Answered, NotServed, Refused, WakeUp, Price, build
<1>3. CASE DeriveFundamentals(w) \/ LoadSettings(w) \/ BuildUniverse(w)
  BY <1>3 DEF DeriveFundamentals, LoadSettings, BuildUniverse, Canned, build, Set
<1>4. CASE AskAsset(w) \/ Begin(w)
  BY <1>4 DEF AskAsset, Begin, Set
<1> QED
  BY <1>1, <1>2, <1>3, <1>4 DEF Step

LEMMA BuildsStep ==
  ASSUME ShapeOK, ReasonsOK, KindOK, UniverseInv, [Next]_vars,
         NEW v \in Workers
  PROVE  Builds(v)'
<1> USE DEF ShapeOK
<1>1. TablesOK /\ Builds(v)
  BY DEF UniverseInv
<1>2. /\ Assets' = Assets /\ Command(v)' = Command(v)
      /\ \A i : SnapshotOf(Assets[i])' = SnapshotOf(Assets[i])
  BY MarketStays DEF Assets, Command, SnapshotOf
<1>3. ASSUME answers'[v] = answers[v], result'[v] = result[v],
             pc'[v] = pc[v] \/ pc'[v] \notin {"assets", "done"}
      PROVE  Builds(v)'
  <2>1. \A s \in DOMAIN answers[v] : Answer(v, s) => Answer(v, s)'
    BY <1>2, <1>3 DEF Answer
  <2>2. \A s \in DOMAIN answers'[v] : Answer(v, s)'
    BY <1>1, <1>3, <2>1 DEF Builds
  <2>3. (pc[v] = "assets")' => HasPolicy(v)'
    BY <1>1, <1>2, <1>3 DEF Builds, HasPolicy
  <2>4. Built(v)' => Built(v)
    BY <1>2, <1>3 DEF Built
  <2> QED
    BY <1>1, <1>2, <1>3, <2>2, <2>3, <2>4 DEF Builds, HasPolicy
<1>4. CASE Lookup(v) \/ Unlink(v) \/ OpenTmp(v) \/ WriteTmp(v) \/ Rename(v)
  <2>1. answers' = answers /\ result' = result
    BY <1>4 DEF Lookup, Unlink, OpenTmp, WriteTmp, Rename, build
  <2>2. pc'[v] \notin {"assets", "done"}
    BY <1>4 DEF Lookup, Served, Unlink, OpenTmp, WriteTmp, Rename, Fail, Go, Set
  <2> QED
    BY <1>3, <2>1, <2>2
<1>5. CASE Acquire(v) \/ Send(v) \/ Answered(v) \/ NotServed(v) \/ Refused(v) \/ WakeUp(v) \/ Price(v)
  <2>1. answers' = answers /\ result' = result
    BY <1>5 DEF Acquire, Send, Answered, NotServed, Refused, WakeUp, Price, build
  <2>2. pc'[v] \notin {"assets", "done"}
    BY <1>5 DEF Acquire, Send, Answered, NotServed, Refused, WakeUp, Price, Fail, Go, Set
  <2> QED
    BY <1>3, <2>1, <2>2
<1>6. ASSUME answers'[v] = answers[v], pc'[v] = "done", ~Built(v)' PROVE Builds(v)'
  <2>1. \A s \in DOMAIN answers[v] : Answer(v, s) => Answer(v, s)'
    BY <1>2, <1>6 DEF Answer
  <2>2. \A s \in DOMAIN answers'[v] : Answer(v, s)'
    BY <1>1, <1>6, <2>1 DEF Builds
  <2> QED
    BY <1>6, <2>2 DEF Builds
<1>7. CASE DeriveFundamentals(v)
  <2>1. answers' = answers /\ pc'[v] = "done" /\ pc[v] = "derive"
    BY <1>7 DEF DeriveFundamentals, build, Go, Set
  <2>2. ~Built(v)'
    BY <1>2, <2>1 DEF KindOK, Fetching, Built
  <2> QED
    BY <1>6, <2>1, <2>2
<1>8. CASE LoadSettings(v)
  <2>1. answers' = answers
    BY <1>8 DEF LoadSettings, build
  <2>2. CASE pc'[v] = "failed" /\ result' = result
    BY <1>3, <2>1, <2>2
  <2>3. CASE pc'[v] = "done" /\ result'[v] = [canned |-> CannedUniverse]
    <3>1. DOMAIN result'[v] = {"canned"}
      BY <2>3
    <3>2. ~Built(v)'
      BY <3>1 DEF Built
    <3> QED
      BY <1>6, <2>1, <2>3, <3>2
  <2>4. CASE pc'[v] = "assets" /\ HasPolicy(v)
    <3>1. \A s \in DOMAIN answers[v] : Answer(v, s) => Answer(v, s)'
      BY <1>2, <2>1 DEF Answer
    <3>2. \A s \in DOMAIN answers'[v] : Answer(v, s)'
      BY <1>1, <2>1, <3>1 DEF Builds
    <3>3. ~Built(v)' /\ HasPolicy(v)'
      BY <1>2, <2>4 DEF Built, HasPolicy
    <3> QED
      BY <3>2, <3>3 DEF Builds
  <2> QED
    BY <1>1, <1>8, <2>2, <2>3, <2>4 DEF LoadSettings, Canned, Fail, Go, Set, TablesOK, HasPolicy
<1>9. CASE AskAsset(v)
  <2> DEFINE asset == Assets[asked[v] + 1]
  <2>1. /\ pc[v] = "assets" /\ pc'[v] = "assets" /\ asked[v] < Len(Assets)
        /\ \/ /\ asset.quote.price # None
              /\ answers'[v] = Snapshots(answers[v], asset)
           \/ answers'[v] = answers[v]
    BY <1>1, <1>9 DEF AskAsset, Set, TablesOK
  <2>2. asked[v] + 1 \in DOMAIN Assets
    <3>1. Assets \in Seq(Range(market))
      BY AssetsAre DEF UniverseInv, MarketOK
    <3>2. asked[v] \in Nat
      BY <1>1 DEF TablesOK
    <3> QED
      BY <2>1, <3>1, <3>2
  <2>3. ASSUME answers'[v] = Snapshots(answers[v], asset), asset.quote.price # None,
               NEW s \in DOMAIN answers'[v]
        PROVE  Answer(v, s)'
    <3>1. /\ s \in DOMAIN answers[v] \/ s = asset.symbol
          /\ answers'[v][s] = IF s = asset.symbol THEN SnapshotOf(asset) ELSE answers[v][s]
      BY <2>3 DEF Snapshots
    <3>2. CASE s = asset.symbol
      BY <1>2, <2>2, <2>3, <3>1, <3>2 DEF Answer
    <3>3. CASE s # asset.symbol
      <4>1. Answer(v, s)
        BY <1>1, <3>1, <3>3 DEF Builds
      <4>2. answers'[v][s] = answers[v][s]
        BY <3>1, <3>3
      <4> QED
        BY <1>2, <4>1, <4>2 DEF Answer
    <3> QED
      BY <3>2, <3>3
  <2>4. ASSUME answers'[v] = answers[v], NEW s \in DOMAIN answers'[v] PROVE Answer(v, s)'
    <3>1. Answer(v, s)
      BY <1>1, <2>4 DEF Builds
    <3> QED
      BY <1>2, <2>4, <3>1 DEF Answer
  <2>5. HasPolicy(v)' /\ ~Built(v)'
    BY <1>1, <1>2, <2>1 DEF Builds, HasPolicy, Built
  <2> QED
    BY <2>1, <2>3, <2>4, <2>5 DEF Builds
<1>10. CASE BuildUniverse(v)
  <2>1. /\ pc[v] = "assets" /\ pc'[v] = "done" /\ answers' = answers
        /\ result'[v] = Build(Assets, answers[v], DefaultPolicies[Command(v).track],
                              Command(v).limit)
    BY <1>1, <1>10 DEF BuildUniverse, build, Go, Set, TablesOK
  <2>2. \A s \in DOMAIN answers'[v] : Answer(v, s)'
    <3>1. \A s \in DOMAIN answers[v] : Answer(v, s) => Answer(v, s)'
      BY <1>2, <2>1 DEF Answer
    <3> QED
      BY <1>1, <2>1, <3>1 DEF Builds
  <2>3. HasPolicy(v) /\ HasPolicy(v)'
    BY <1>1, <1>2, <2>1 DEF Builds, HasPolicy
  <2>4. result'[v] = Build(Assets', answers'[v], DefaultPolicies[Command(v)'.track],
                           Command(v)'.limit)
    BY <1>2, <2>1
  <2>5. (pc[v] = "assets")' => HasPolicy(v)'
    BY <2>3
  <2> QED
    BY <2>2, <2>3, <2>4, <2>5 DEF Builds
<1>11. CASE Begin(v)
  <2>1. /\ answers'[v] = <<>> /\ pc'[v] \in {"price", "settings"}
    BY <1>1, <1>11 DEF Begin, Go, Set, TablesOK
  <2>2. DOMAIN answers'[v] = {}
    BY <2>1
  <2>3. ~Built(v)'
    BY <2>1 DEF Built
  <2> QED
    BY <2>1, <2>2, <2>3 DEF Builds
<1>12. ASSUME NEW w \in Workers, Step(w) \/ Begin(w), w # v PROVE Builds(v)'
  <2>1. pc'[v] = pc[v]
    BY <1>12, OthersTry
  <2> QED
    BY <1>1, <1>3, <1>12, <2>1, OthersBuild
<1>13. CASE Tick \/ UNCHANGED vars
  <2>1. answers' = answers /\ result' = result /\ pc' = pc
    BY <1>13 DEF Tick, vars, build
  <2> QED
    BY <1>3, <2>1
<1>14. ASSUME NEW p \in Processes, Crash(p) PROVE Builds(v)'
  <2>1. answers' = answers /\ result' = result
    BY <1>14 DEF Crash, build
  <2>2. pc'[v] = pc[v] \/ pc'[v] = "dead"
    BY <1>14 DEF Crash
  <2> QED
    BY <1>3, <2>1, <2>2
<1>15. ASSUME Step(v) PROVE Builds(v)'
  BY <1>4, <1>5, <1>7, <1>8, <1>9, <1>10, <1>15 DEF Step
<1> QED
  BY <1>11, <1>12, <1>13, <1>14, <1>15 DEF Next

\* What a built universe looks like.
LEMMA BuiltSound ==
  ASSUME UniverseInv PROVE UniverseSound
<1>1. PICK s \in Settings : setup = Setup(s) /\ market = Market(s)
  BY DEF UniverseInv, MarketOK
<1>2. /\ Assets \in Seq(Range(market)) /\ Distinct(Assets)
      /\ \A i \in DOMAIN Assets : Quoted(Assets[i].quote)
  BY <1>1, AssetsAre
<1>3. ASSUME NEW w \in Workers, Built(w)
      PROVE  /\ HasPolicy(w) /\ Command(w).limit \in Nat
             /\ result[w] = Build(Assets, answers[w], DefaultPolicies[Command(w).track],
                                  Command(w).limit)
             /\ SnapsOf(Assets, answers[w])
  <2>1. Builds(w)
    BY DEF UniverseInv
  <2>2. Command(w).limit \in Nat
    BY <1>1, <1>3, ResearchAssumption DEF Built, Command
  <2>3. ASSUME NEW i \in DOMAIN Assets, Assets[i].symbol \in DOMAIN answers[w]
        PROVE  LET snap == answers[w][Assets[i].symbol] IN
               snap.price \in Nat /\ snap.adv \in Nat /\ snap.cap \in Nat \cup {None}
    <3>1. PICK j \in DOMAIN Assets : /\ Assets[j].symbol = Assets[i].symbol
                                     /\ Assets[j].quote.price # None
                                     /\ answers[w][Assets[i].symbol] = SnapshotOf(Assets[j])
      BY <2>1, <2>3 DEF Builds, Answer
    <3>2. Quoted(Assets[j].quote)
      BY <1>2
    <3>3. AdvUsd(Assets[j].quote.bars, 20) \in Nat
      BY <3>2, AdvTyped DEF Quoted
    <3> QED
      BY <3>1, <3>2, <3>3 DEF SnapshotOf, Quoted
  <2> QED
    BY <1>3, <2>1, <2>2, <2>3 DEF Builds, SnapsOf
<1>4. ASSUME NEW w \in Workers, Built(w)
      PROVE  LET policy == DefaultPolicies[Command(w).track]
                 asset(sym) == CHOOSE a \in Range(Assets) : a.symbol = sym
             IN  {sym \in DOMAIN answers[w] : Fits(answers[w][sym], asset(sym), policy)}
                   = Fitting(Assets, answers[w], policy)
  <2> DEFINE policy == DefaultPolicies[Command(w).track]
             asset(sym) == CHOOSE a \in Range(Assets) : a.symbol = sym
  <2>1. \A i \in DOMAIN Assets : asset(Assets[i].symbol) = Assets[i]
    <3> TAKE i \in DOMAIN Assets
    <3>1. Assets[i] \in Range(Assets)
      BY DEF Range
    <3>2. \A a \in Range(Assets) : a.symbol = Assets[i].symbol => a = Assets[i]
      BY <1>2 DEF Range, Distinct
    <3> QED
      BY <3>1, <3>2
  <2>2. \A sym \in DOMAIN answers[w] : \E i \in DOMAIN Assets : Assets[i].symbol = sym
    BY DEF UniverseInv, Builds, Answer
  <2> HIDE DEF policy, asset
  <2>3. {sym \in DOMAIN answers[w] : Fits(answers[w][sym], asset(sym), policy)}
          = Fitting(Assets, answers[w], policy)
    BY <2>1, <2>2 DEF Fitting
  <2> QED
    BY <2>3 DEF policy, asset
<1>5. UniverseIsTop
  <2> SUFFICES ASSUME NEW w \in Workers, Built(w)
               PROVE  LET policy == DefaultPolicies[Command(w).track]
                          asset(sym) == CHOOSE a \in Range(Assets) : a.symbol = sym
                          fitting == {sym \in DOMAIN answers[w] :
                                        Fits(answers[w][sym], asset(sym), policy)}
                          served  == Range(result[w].candidates)
                      IN  /\ served \subseteq fitting
                          /\ Cardinality(served) = Min({Command(w).limit, Cardinality(fitting)})
                          /\ \A a \in served, b \in fitting \ served :
                               answers[w][a].adv >= answers[w][b].adv
    BY DEF UniverseIsTop
  <2> DEFINE fit == Fitting(Assets, answers[w], DefaultPolicies[Command(w).track])
             served == Range(result[w].candidates)
  <2>1. /\ served \subseteq fit
        /\ Cardinality(served) = Min({Command(w).limit, Cardinality(fit)})
        /\ \A a \in served, b \in fit \ served : answers[w][a].adv >= answers[w][b].adv
    <3> DEFINE t == Command(w).track
               l == Command(w).limit
               snaps == answers[w]
               S == Range(market)
    <3>1. /\ t \in DOMAIN DefaultPolicies /\ l \in Nat /\ SnapsOf(Assets, snaps)
          /\ result[w] = Build(Assets, snaps, DefaultPolicies[t], l)
      BY <1>3 DEF HasPolicy
    <3>2. Assets \in Seq(S) /\ Distinct(Assets)
      BY <1>2
    <3> HIDE DEF t, l, snaps, S
    <3>3. LET f == Fitting(Assets, snaps, DefaultPolicies[t])
              top == Range(Build(Assets, snaps, DefaultPolicies[t], l).candidates)
          IN  /\ top \subseteq f
              /\ Cardinality(top) = Min({l, Cardinality(f)})
              /\ \A a \in top, b \in f \ top : snaps[a].adv >= snaps[b].adv
      BY <3>1, <3>2, BuildIsTop
    <3> QED
      BY <3>1, <3>3 DEF t, l, snaps
  <2> QED
    BY <1>4, <2>1
<1>6. CountsAddUp
  <2> SUFFICES ASSUME NEW w \in Workers, Built(w)
               PROVE  MapThenSumSet(LAMBDA k : result[w].counts[k], Counted) = Len(Assets)
    BY DEF CountsAddUp
  <2> QED
    <3> DEFINE t == Command(w).track
               l == Command(w).limit
               snaps == answers[w]
               S == Range(market)
               b == result[w]
    <3>1. /\ t \in DOMAIN DefaultPolicies /\ SnapsOf(Assets, snaps)
          /\ b = Build(Assets, snaps, DefaultPolicies[t], l)
      BY <1>3 DEF HasPolicy
    <3>2. Assets \in Seq(S)
      BY <1>2
    <3> HIDE DEF t, l, snaps, S, b
    <3> DEFINE f == [k \in Counted |-> b.counts[k]]
               Sums(g) == g = [z \in SUBSET Counted |-> IF z = {} THEN 0
                                 ELSE b.counts[CHOOSE x \in z : TRUE]
                                        + g[z \ {CHOOSE x \in z : TRUE}]]
               g1 == CHOOSE g : Sums(g)
               g2 == CHOOSE g : SumsUp(g, f, Counted)
    <3>3. SumOver(f, Counted) = Len(Assets)
      BY <3>1, <3>2, BuildCounts
    <3>4. MapThenSumSet(LAMBDA k : b.counts[k], Counted) = g1[Counted]
      BY DEF MapThenSumSet, MapThenFoldSet
    <3>5. SumOver(f, Counted) = g2[Counted]
      BY DEF SumOver, MapThenSumSet, MapThenFoldSet, SumsUp
    <3>6. ASSUME NEW g PROVE Sums(g) <=> SumsUp(g, f, Counted)
      BY DEF SumsUp
    <3> HIDE DEF f, Sums
    <3>7. g1 = g2
      BY <3>6
    <3>8. MapThenSumSet(LAMBDA k : b.counts[k], Counted) = Len(Assets)
      BY <3>3, <3>4, <3>5, <3>7
    <3> QED
      BY <3>8 DEF b
<1> QED
  BY <1>5, <1>6 DEF UniverseSound

\* The universe a command prints is made of the most liquid assets that were
\* answered for and fit the track's policy, as many as its limit allows, and
\* every tradable asset is counted once.
THEOREM UniverseIsSound == Spec => []UniverseSound
<1>1. Init => UniverseInv
  <2> SUFFICES ASSUME Init PROVE UniverseInv
    OBVIOUS
  <2>1. MarketOK
    BY DEF Init, MarketOK
  <2>2. TablesOK
    BY DEF Init, TablesOK
  <2>3. ASSUME NEW w \in Workers PROVE Builds(w)
    <3>1. DOMAIN answers[w] = {} /\ pc[w] = "idle"
      BY DEF Init
    <3>2. ~Built(w)
      BY <3>1 DEF Built
    <3> QED
      BY <3>1, <3>2 DEF Builds
  <2> QED
    BY <2>1, <2>2, <2>3 DEF UniverseInv
<1>2. IInv /\ UniverseInv /\ [Next]_vars => UniverseInv'
  <2> SUFFICES ASSUME IInv, UniverseInv, [Next]_vars PROVE UniverseInv'
    OBVIOUS
  <2>1. MarketOK'
    BY MarketStays DEF UniverseInv, MarketOK
  <2>2. TablesOK'
    BY TablesStep DEF UniverseInv
  <2>3. \A w \in Workers : Builds(w)'
    BY BuildsStep DEF IInv
  <2> QED
    BY <2>1, <2>2, <2>3 DEF UniverseInv
<1>3. UniverseInv => UniverseSound
  BY BuiltSound
<1> QED
  BY <1>1, <1>2, <1>3, Invariance, PTL DEF Spec

-----------------------------------------------------------------------------
(* What a summary rests on.                                                *)

\* The entries of a tag, dated or not.
Typed(e) == /\ e \in Seq(Range(e))
            /\ \A i \in DOMAIN e : e[i].end \in Nat \cup {None}

\* The newest entry is one of them, and none of them is newer.
LEMMA NewestIs ==
  ASSUME NEW e, Typed(e), e # <<>>
  PROVE  \E i \in DOMAIN e : /\ F!Newest(e) = e[i]
                             /\ \A j \in DOMAIN e : F!Sortable(e[j]) <= F!Sortable(e[i])
<1> DEFINE k == [i \in DOMAIN e |-> F!Sortable(e[i])]
           T == {i \in DOMAIN e : \A j \in DOMAIN e : k[j] <= k[i]}
           D == DOMAIN e
           R == {p \in D \X D : k[p[1]] < k[p[2]] \/ (k[p[1]] = k[p[2]] /\ p[1] < p[2])}
<1>1. DOMAIN e = 1..Len(e) /\ Len(e) \in Nat /\ Len(e) # 0
  BY DEF Typed
<1>2. \A i \in DOMAIN e : k[i] \in Int
  BY DEF Typed, F!Sortable
<1> HIDE DEF k
<1>3. StrictOrder(D, R)
  <2>1. \A x, y \in D : <<x, y>> \in R <=> (k[x] < k[y] \/ (k[x] = k[y] /\ x < y))
    OBVIOUS
  <2>2. \A x \in D : x \in Int /\ k[x] \in Int
    BY <1>1, <1>2
  <2> HIDE DEF R, D
  <2>3. \A x \in D : <<x, x>> \notin R
    BY <2>1, <2>2
  <2>4. ASSUME NEW x \in D, NEW y \in D PROVE x = y \/ <<x, y>> \in R \/ <<y, x>> \in R
    <3>1. <<x, y>> \in R <=> (k[x] < k[y] \/ (k[x] = k[y] /\ x < y))
      BY <2>1
    <3>2. <<y, x>> \in R <=> (k[y] < k[x] \/ (k[y] = k[x] /\ y < x))
      BY <2>1
    <3>3. x \in Int /\ y \in Int /\ k[x] \in Int /\ k[y] \in Int
      BY <2>2
    <3> QED
      BY <3>1, <3>2, <3>3
  <2>5. ASSUME NEW x \in D, NEW y \in D, NEW z \in D, <<x, y>> \in R, <<y, z>> \in R
        PROVE  <<x, z>> \in R
    <3>1. k[x] < k[y] \/ (k[x] = k[y] /\ x < y)
      BY <2>1, <2>5
    <3>2. k[y] < k[z] \/ (k[y] = k[z] /\ y < z)
      BY <2>1, <2>5
    <3>3. <<x, z>> \in R <=> (k[x] < k[z] \/ (k[x] = k[z] /\ x < z))
      BY <2>1
    <3>4. /\ x \in Int /\ y \in Int /\ z \in Int
          /\ k[x] \in Int /\ k[y] \in Int /\ k[z] \in Int
      BY <2>2
    <3> QED
      BY <3>1, <3>2, <3>3, <3>4
  <2> QED
    BY <2>3, <2>4, <2>5 DEF StrictOrder
<1>4. \E i \in D : \A j \in D : k[j] <= k[i]
  <2>1. IsFiniteSet(D) /\ D # {}
    <3>1. IsFiniteSet(1..Len(e)) /\ 1 \in 1..Len(e)
      BY <1>1, FS_Interval
    <3> QED
      BY <1>1, <3>1
  <2>2. PICK i \in D : \A j \in D : <<i, j>> \notin R
    <3> HIDE DEF R, D
    <3> QED
      BY <1>3, <2>1, LastOf
  <2>3. ASSUME NEW j \in D PROVE k[j] <= k[i]
    <3>1. ~(k[i] < k[j]) /\ k[i] \in Int /\ k[j] \in Int
      BY <1>2, <2>2
    <3> QED
      BY <3>1
  <2> QED
    BY <2>3
<1>5. T \in SUBSET Nat /\ T # {}
  BY <1>1, <1>4
<1>6. PICK l \in T : \A y \in T : l <= y
  BY <1>5, Least
<1>7. F!Min(T) = l
  <2>1. \A x \in T : (\A y \in T : x <= y) => x = l
    BY <1>5, <1>6
  <2> HIDE DEF T
  <2>2. (CHOOSE x \in T : \A y \in T : x <= y) = l
    BY <1>6, <2>1
  <2> QED
    BY <2>2 DEF F!Min
<1>8. T = {x \in DOMAIN e : \A j \in DOMAIN e : F!Sortable(e[j]) <= F!Sortable(e[x])}
  BY DEF k
<1>9. F!Newest(e) = e[l]
  BY <1>7, <1>8 DEF F!Newest
<1>10. l \in DOMAIN e /\ \A j \in DOMAIN e : F!Sortable(e[j]) <= F!Sortable(e[l])
  BY <1>6, <1>8
<1> QED
  BY <1>9, <1>10

\* The newest of some of the entries, when it is dated.
LEMMA NewestAmong ==
  ASSUME NEW e, Typed(e), NEW I \in SUBSET DOMAIN e, Chosen(e, I) # <<>>,
         F!Newest(Chosen(e, I)).end # None
  PROVE  \E i \in I : /\ e[i] = F!Newest(Chosen(e, I)) /\ e[i].end \in Nat
                      /\ \A j \in I : e[j].end # None => e[j].end <= e[i].end
<1> DEFINE c == Chosen(e, I)
<1>1. /\ c \in Seq(Range(e))
      /\ \E p \in [DOMAIN c -> I] : /\ \A k \in DOMAIN c : c[k] = e[p[k]]
                                    /\ \A i \in I : \E k \in DOMAIN c : p[k] = i
  <2>1. e \in Seq(Range(e)) /\ I \in SUBSET DOMAIN e
    BY DEF Typed
  <2> QED
    BY <2>1, ChosenElements
<1>2. PICK p \in [DOMAIN c -> I] : /\ \A k \in DOMAIN c : c[k] = e[p[k]]
                                   /\ \A i \in I : \E k \in DOMAIN c : p[k] = i
  BY <1>1
<1>3. c # <<>> /\ F!Newest(c).end # None
  OBVIOUS
<1> HIDE DEF c
<1>4. Typed(c)
  <2>1. \A k \in DOMAIN c : p[k] \in DOMAIN e /\ c[k] = e[p[k]]
    BY <1>2
  <2>2. \A k \in DOMAIN c : c[k] \in Range(c) /\ c[k].end \in Nat \cup {None}
    BY <2>1 DEF Typed, Range
  <2>3. c \in Seq(Range(c))
    BY <1>1, <2>2
  <2> QED
    BY <2>2, <2>3 DEF Typed
<1>5. PICK k \in DOMAIN c : /\ F!Newest(c) = c[k]
                            /\ \A j \in DOMAIN c : F!Sortable(c[j]) <= F!Sortable(c[k])
  BY <1>3, <1>4, NewestIs
<1>6. p[k] \in I /\ e[p[k]] = F!Newest(c) /\ e[p[k]].end \in Nat
  BY <1>2, <1>3, <1>5 DEF Typed
<1>7. ASSUME NEW j \in I, e[j].end # None PROVE e[j].end <= e[p[k]].end
  <2>1. PICK l \in DOMAIN c : p[l] = j
    BY <1>2
  <2>2. c[l] = e[j] /\ c[k] = e[p[k]] /\ F!Sortable(c[l]) <= F!Sortable(c[k])
    BY <1>2, <1>5, <2>1
  <2> QED
    BY <1>3, <1>5, <1>7, <2>2 DEF F!Sortable
<1> QED
  BY <1>6, <1>7 DEF c

\* Which entries of a tag are of the kind asked for.
Instants(e) == {i \in DOMAIN e : e[i].fp \in {None, "FY"} \/ (e[i].end # None /\ ~e[i].spans)}
Dated(e) == {i \in DOMAIN e : e[i].end # None}
Annuals(e) == {i \in DOMAIN e : e[i].fp = "FY"}

LEMMA KindsAre ==
  ASSUME NEW e
  PROVE  /\ F!InstantEntries(e) = IF Chosen(e, Instants(e)) # <<>> THEN Chosen(e, Instants(e))
                                  ELSE Chosen(e, Dated(e))
         /\ F!AnnualEntries(e) = Chosen(e, Annuals(e))
<1> DEFINE A == F!Only(e, LAMBDA x : x.fp \in {None, "FY"} \/ (x.end # None /\ ~x.spans))
           B == F!Only(e, LAMBDA x : x.end # None)
           C == F!Only(e, LAMBDA x : x.fp = "FY")
<1>1. A = Chosen(e, Instants(e))
  BY DEF F!Only, F!Sorted, F!PlaceIn, F!Cardinality, Cardinality, Chosen, InOrder, Sorted, PlaceIn, Instants
<1>2. B = Chosen(e, Dated(e))
  BY DEF F!Only, F!Sorted, F!PlaceIn, F!Cardinality, Cardinality, Chosen, InOrder, Sorted, PlaceIn, Dated
<1>3. C = Chosen(e, Annuals(e))
  BY DEF F!Only, F!Sorted, F!PlaceIn, F!Cardinality, Cardinality, Chosen, InOrder, Sorted, PlaceIn, Annuals
<1>4. F!InstantEntries(e) = (IF A # <<>> THEN A ELSE B) /\ F!AnnualEntries(e) = C
  BY DEF F!InstantEntries, F!AnnualEntries
<1> HIDE DEF A, B, C
<1> QED
  BY <1>1, <1>2, <1>3, <1>4

\* The newest entry of a kind of a tag is one of the tag's, and no entry for
\* the same kind of period is newer.
NewestFor(e, n) ==
  /\ n.end \in Nat
  /\ \E i \in DOMAIN e : e[i] = n
  /\ \A j \in DOMAIN e : PeriodOf(e[j]) = PeriodOf(n) /\ e[j].end # None => e[j].end <= n.end

LEMMA SamePeriod ==
  ASSUME NEW d, NEW n, PeriodOf(d) = PeriodOf(n)
  PROVE  /\ d.fp = n.fp
         /\ n.fp \notin {None, "FY"} => (d.spans <=> n.spans)
<1>1. d.fp = n.fp /\ (d.spans /\ d.fp \notin {None, "FY"}) = (n.spans /\ n.fp \notin {None, "FY"})
  BY DEF PeriodOf
<1> QED
  BY <1>1

LEMMA InstantNewest ==
  ASSUME NEW e, Typed(e), F!InstantEntries(e) # <<>>, F!Newest(F!InstantEntries(e)).end # None
  PROVE  NewestFor(e, F!Newest(F!InstantEntries(e)))
<1>1. ASSUME NEW I \in SUBSET DOMAIN e, F!InstantEntries(e) = Chosen(e, I),
             \A i \in I, j \in DOMAIN e :
               PeriodOf(e[j]) = PeriodOf(e[i]) /\ e[j].end # None => j \in I
      PROVE  NewestFor(e, F!Newest(F!InstantEntries(e)))
  <2> DEFINE n == F!Newest(Chosen(e, I))
  <2>1. PICK i \in I : /\ e[i] = n /\ e[i].end \in Nat
                       /\ \A j \in I : e[j].end # None => e[j].end <= e[i].end
    BY <1>1, NewestAmong
  <2> HIDE DEF n
  <2>2. NewestFor(e, n)
    BY <1>1, <2>1 DEF NewestFor
  <2> QED
    BY <1>1, <2>2 DEF n
<1>2. CASE Chosen(e, Instants(e)) # <<>>
  <2>1. Instants(e) \in SUBSET DOMAIN e
    BY DEF Instants
  <2>2. \A i \in Instants(e), j \in DOMAIN e :
          PeriodOf(e[j]) = PeriodOf(e[i]) /\ e[j].end # None => j \in Instants(e)
    BY SamePeriod DEF Instants
  <2>3. F!InstantEntries(e) = Chosen(e, Instants(e))
    BY <1>2, KindsAre
  <2> QED
    BY <1>1, <2>1, <2>2, <2>3
<1>3. CASE ~(Chosen(e, Instants(e)) # <<>>)
  <2>1. Dated(e) \in SUBSET DOMAIN e
    BY DEF Dated
  <2>2. \A i \in Dated(e), j \in DOMAIN e :
          PeriodOf(e[j]) = PeriodOf(e[i]) /\ e[j].end # None => j \in Dated(e)
    BY DEF Dated
  <2>3. F!InstantEntries(e) = Chosen(e, Dated(e))
    BY <1>3, KindsAre
  <2> QED
    BY <1>1, <2>1, <2>2, <2>3
<1> QED
  BY <1>2, <1>3

LEMMA AnnualNewest ==
  ASSUME NEW e, Typed(e), F!AnnualEntries(e) # <<>>, F!Newest(F!AnnualEntries(e)).end # None
  PROVE  NewestFor(e, F!Newest(F!AnnualEntries(e)))
<1> DEFINE I == Annuals(e)
           n == F!Newest(Chosen(e, I))
<1>1. F!AnnualEntries(e) = Chosen(e, I)
  BY KindsAre
<1>2. I \in SUBSET DOMAIN e
  BY DEF Annuals
<1>3. PICK i \in I : /\ e[i] = n /\ e[i].end \in Nat
                     /\ \A j \in I : e[j].end # None => e[j].end <= e[i].end
  BY <1>1, <1>2, NewestAmong
<1> HIDE DEF n
<1>4. \A j \in DOMAIN e : PeriodOf(e[j]) = PeriodOf(n) => j \in I
  BY <1>3, SamePeriod DEF Annuals
<1> HIDE DEF I
<1>5. NewestFor(e, n)
  BY <1>2, <1>3, <1>4 DEF NewestFor
<1> QED
  BY <1>1, <1>5 DEF n

\* What is picked is the newest chosen entry of one of the tags.
Of(v, t, n) == v.tags = {t} /\ v.asOf = n.end /\ v.value = n.val
Picked(v, chosen, t) ==
  chosen[t] # <<>> /\ F!Newest(chosen[t]).end # None /\ Of(v, t, F!Newest(chosen[t]))

LEMMA PickIs ==
  ASSUME NEW chosen, NEW tags, DOMAIN tags \subseteq Nat, NEW confidence, NEW warnings, NEW v,
         v = F!PickFirst(chosen, tags, confidence, warnings), v # None
  PROVE  \E t \in DOMAIN chosen : Picked(v, chosen, t)
<1> DEFINE Usable(t) == /\ t \in DOMAIN chosen /\ chosen[t] # <<>>
                        /\ None \notin {F!Newest(chosen[t]).end, F!Newest(chosen[t]).val}
           usable == {i \in DOMAIN tags : Usable(tags[i])}
           t == tags[F!Min(usable)]
<1>1. v = IF usable = {} THEN None
          ELSE F!Value(F!Newest(chosen[t]).val, F!Newest(chosen[t]).end, {t}, confidence, warnings)
  BY DEF F!PickFirst
<1>2. usable # {} /\ usable \in SUBSET Nat
  <2>1. DOMAIN tags \subseteq Nat
    OBVIOUS
  <2>2. usable \subseteq DOMAIN tags
    OBVIOUS
  <2> HIDE DEF usable, t
  <2> QED
    BY <1>1, <2>1, <2>2
<1>3. \E x \in usable : \A y \in usable : x <= y
  <2> HIDE DEF usable
  <2> QED
    BY <1>2, Least
<1>4. F!Min(usable) \in usable
  <2> HIDE DEF usable
  <2> QED
    BY <1>3 DEF F!Min
<1>5. Usable(t)
  BY <1>4
<1>6. v = F!Value(F!Newest(chosen[t]).val, F!Newest(chosen[t]).end, {t}, confidence, warnings)
  <2> HIDE DEF usable, t
  <2> QED
    BY <1>1, <1>2
<1> HIDE DEF usable, t
<1>7. t \in DOMAIN chosen /\ Picked(v, chosen, t)
  BY <1>5, <1>6 DEF Picked, Of, F!Value
<1> QED
  BY <1>7

\* The filings of a run, and which facts belong to a namespace.
CompanyOK == \E s \in Settings : company = Company(s)
Facts == company.facts
Spaces == {Facts.gaap, Facts.dei}

LEMMA FilingsAre ==
  ASSUME CompanyOK, NEW space \in Spaces, NEW t \in DOMAIN space
  PROVE  Typed(space[t]) /\ FactsOf(t) = space[t]
<1>1. PICK s \in Settings : company = Company(s)
  BY DEF CompanyOK
<1>2. /\ DOMAIN Facts.gaap \cap DOMAIN Facts.dei = {}
      /\ \A x \in DOMAIN space : /\ space[x] \in Seq(Range(space[x]))
                                 /\ \A i \in DOMAIN space[x] : space[x][i].end \in Nat \cup {None}
  BY <1>1, FilingsAssumption DEF Facts, Spaces
<1>3. FactsOf(t) = space[t]
  BY <1>2 DEF FactsOf, Facts, Spaces
<1> QED
  BY <1>2, <1>3 DEF Typed

\* A value of one tag is a fact; a value is no newer than any of its facts.
Newest(t) == F!Newest(F!InstantEntries(FactsOf(t)))
Sourced(v) ==
  v # None => /\ v.asOf \in Nat
              /\ \A t \in v.tags : Newest(t).end \in Nat /\ v.asOf <= Newest(t).end

LEMMA OneFact ==
  ASSUME NEW t, NEW n, NewestFor(FactsOf(t), n), NEW v, Of(v, t, n)
  PROVE  Grounded(v)
<1> DEFINE e == FactsOf(t)
<1>1. v.tags = {t} /\ v.asOf = n.end /\ v.value = n.val
  BY DEF Of
<1>2. PICK i \in DOMAIN e : e[i] = n
  BY DEF NewestFor
<1>3. \A j \in DOMAIN e : PeriodOf(e[j]) = PeriodOf(e[i]) /\ e[j].end # None => e[j].end <= e[i].end
  BY <1>2 DEF NewestFor
<1> QED
  BY <1>1, <1>2, <1>3 DEF Grounded

LEMMA InstantSound ==
  ASSUME CompanyOK, NEW space \in Spaces, NEW tags, DOMAIN tags \subseteq Nat
  PROVE  Grounded(F!Instantaneous(space, tags)) /\ Sourced(F!Instantaneous(space, tags))
<1> DEFINE chosen == [t \in DOMAIN space |-> F!InstantEntries(space[t])]
           v == F!Instantaneous(space, tags)
<1>1. v = F!PickFirst(chosen, tags, "high", {}) /\ DOMAIN chosen = DOMAIN space
  BY DEF F!Instantaneous
<1>2. SUFFICES ASSUME v # None PROVE Grounded(v) /\ Sourced(v)
  BY DEF Grounded, Sourced
<1>3. PICK t \in DOMAIN space : Picked(v, chosen, t)
  <2> HIDE DEF chosen, v
  <2> QED
    BY <1>1, <1>2, PickIs
<1>4. Typed(space[t]) /\ FactsOf(t) = space[t] /\ chosen[t] = F!InstantEntries(FactsOf(t))
  BY FilingsAre
<1> HIDE DEF chosen, v
<1>5. NewestFor(FactsOf(t), Newest(t))
  BY <1>3, <1>4, InstantNewest DEF Newest, Picked
<1>6. Of(v, t, Newest(t))
  BY <1>3, <1>4 DEF Newest, Picked
<1>7. Sourced(v)
  <2>1. Newest(t).end \in Nat
    BY <1>5 DEF NewestFor
  <2> QED
    BY <1>6, <2>1 DEF Sourced, Of
<1> QED
  BY <1>5, <1>6, <1>7, OneFact

LEMMA AnnualSound ==
  ASSUME CompanyOK, NEW space \in Spaces, NEW tags, DOMAIN tags \subseteq Nat
  PROVE  Grounded(F!TrailingTTM(space, tags))
<1> DEFINE chosen == [t \in DOMAIN space |-> F!AnnualEntries(space[t])]
           v == F!TrailingTTM(space, tags)
<1>1. v = F!PickFirst(chosen, tags, "medium", {"proxy_fy"}) /\ DOMAIN chosen = DOMAIN space
  BY DEF F!TrailingTTM
<1>2. SUFFICES ASSUME v # None PROVE Grounded(v)
  BY DEF Grounded
<1>3. PICK t \in DOMAIN space : Picked(v, chosen, t)
  <2> HIDE DEF chosen, v
  <2> QED
    BY <1>1, <1>2, PickIs
<1>4. Typed(space[t]) /\ FactsOf(t) = space[t] /\ chosen[t] = F!AnnualEntries(FactsOf(t))
  BY FilingsAre
<1> HIDE DEF chosen, v
<1>5. NewestFor(FactsOf(t), F!Newest(chosen[t]))
  BY <1>3, <1>4, AnnualNewest DEF Picked
<1> QED
  BY <1>3, <1>5, OneFact DEF Picked

\* Values that are no newer than their facts make one that is no newer than
\* the facts of both.
LEMMA OlderSound ==
  ASSUME NEW a, NEW b, a # None, b # None, Sourced(a), Sourced(b), NEW v,
         v.asOf = F!Older(a, b), v.tags = a.tags \cup b.tags
  PROVE  Sourced(v)
<1>1. a.asOf \in Nat /\ b.asOf \in Nat
  BY DEF Sourced
<1>2. F!Older(a, b) = IF a.asOf <= b.asOf THEN a.asOf ELSE b.asOf
  <2>1. F!Older(a, b) = Min({a.asOf, b.asOf})
    BY DEF F!Older, F!Min, Min
  <2>2. Min({a.asOf, b.asOf}) = IF a.asOf <= b.asOf THEN a.asOf ELSE b.asOf
    BY <1>1, MinOfTwo
  <2> QED
    BY <2>1, <2>2
<1>3. v.asOf \in Nat /\ v.asOf <= a.asOf /\ v.asOf <= b.asOf
  BY <1>1, <1>2
<1>4. ASSUME NEW t \in v.tags PROVE Newest(t).end \in Nat /\ v.asOf <= Newest(t).end
  <2>1. Newest(t).end \in Nat /\ (a.asOf <= Newest(t).end \/ b.asOf <= Newest(t).end)
    BY DEF Sourced
  <2> QED
    BY <1>1, <1>3, <2>1
<1> QED
  BY <1>3, <1>4 DEF Sourced

\* Every value derived from the filings, whatever the price and the day.
LEMMA DeriveSound ==
  ASSUME CompanyOK, NEW price, NEW today
  PROVE  LET v == F!Derive(Facts, price, today) IN
         /\ Grounded(v.shares) /\ Grounded(v.revenue) /\ Grounded(v.income) /\ Grounded(v.equity)
         /\ Sourced(v.debt) /\ Sourced(v.ratio) /\ Sourced(v.cap)
<1> DEFINE dei == F!Instantaneous(Facts.dei, F!SharesOut)
           gaap == F!Instantaneous(Facts.gaap, F!SharesOut)
           shares == IF dei # None THEN dei ELSE gaap
           long == F!Instantaneous(Facts.gaap, F!DebtLong)
           short == F!Instantaneous(Facts.gaap, F!DebtShort)
           debt == F!CombineSum(long, short)
           equity == F!Instantaneous(Facts.gaap, F!Equity)
           revenue == F!TrailingTTM(Facts.gaap, F!Revenue)
           income == F!TrailingTTM(Facts.gaap, F!NetIncome)
           ratio == F!DebtToEquity(debt, equity)
           cap == F!MarketCap(shares, price, today)
           v == F!Derive(Facts, price, today)
<1>1. v = [shares |-> shares, debt |-> debt, equity |-> equity, revenue |-> revenue,
           income |-> income, ratio |-> ratio, cap |-> cap]
  BY DEF F!Derive
<1>2. Facts.gaap \in Spaces /\ Facts.dei \in Spaces
  BY DEF Spaces
<1>3. /\ DOMAIN F!SharesOut \subseteq Nat /\ DOMAIN F!DebtLong \subseteq Nat
      /\ DOMAIN F!DebtShort \subseteq Nat /\ DOMAIN F!Equity \subseteq Nat
      /\ DOMAIN F!Revenue \subseteq Nat /\ DOMAIN F!NetIncome \subseteq Nat
  BY DEF F!SharesOut, F!DebtLong, F!DebtShort, F!Equity, F!Revenue, F!NetIncome
<1>4. /\ Grounded(dei) /\ Sourced(dei) /\ Grounded(gaap) /\ Sourced(gaap)
      /\ Sourced(long) /\ Sourced(short) /\ Grounded(equity) /\ Sourced(equity)
  BY <1>2, <1>3, InstantSound
<1>5. Grounded(revenue) /\ Grounded(income)
  BY <1>2, <1>3, AnnualSound
<1> HIDE DEF dei, gaap, long, short, equity, revenue, income, v
<1>6. Grounded(shares) /\ Sourced(shares)
  BY <1>4
<1> HIDE DEF shares
<1>7. Sourced(debt)
  <2>1. CASE long = None \/ short = None
    BY <1>4, <2>1 DEF F!CombineSum
  <2>2. CASE long # None /\ short # None
    <3>1. debt.asOf = F!Older(long, short) /\ debt.tags = long.tags \cup short.tags
      BY <2>2 DEF F!CombineSum, F!Value
    <3> HIDE DEF debt
    <3> QED
      BY <1>4, <2>2, <3>1, OlderSound
  <2> QED
    BY <2>1, <2>2
<1> HIDE DEF debt
<1>8. Sourced(ratio)
  <2>1. CASE ratio = None
    BY <2>1 DEF Sourced
  <2>2. CASE ratio # None
    <3>1. /\ debt # None /\ equity # None
          /\ ratio.asOf = F!Older(debt, equity) /\ ratio.tags = debt.tags \cup equity.tags
      BY <2>2 DEF F!DebtToEquity, F!Value
    <3> HIDE DEF ratio
    <3> QED
      BY <1>4, <1>7, <3>1, OlderSound
  <2> QED
    BY <2>1, <2>2
<1>9. Sourced(cap)
  <2>1. CASE cap = None
    BY <2>1 DEF Sourced
  <2>2. CASE cap # None
    <3>1. shares # None /\ cap.asOf = shares.asOf /\ cap.tags = shares.tags
      BY <2>2 DEF F!MarketCap, F!Value
    <3> HIDE DEF cap
    <3> QED
      BY <1>6, <3>1 DEF Sourced
  <2> QED
    BY <2>1, <2>2
<1> HIDE DEF ratio, cap
<1> QED
  BY <1>1, <1>4, <1>5, <1>6, <1>7, <1>8, <1>9 DEF v

\* What a command that has derived fundamentals keeps of the company.
Kept == [facts |-> company.facts, price |-> company.price]
Sums(w) ==
  /\ pc[w] \in {"settings", "assets"} => Command(w).kind # "fundamentals"
  /\ Derived(w) => result[w] = Kept
SummaryInv == CompanyOK /\ TablesOK /\ \A w \in Workers : Sums(w)

LEMMA CompanyStays ==
  ASSUME [Next]_vars
  PROVE  company' = company
BY ZenonT(30), SMTT(30) DEF Next, Step, Tick, Begin, Crash, Lookup, Unlink, OpenTmp, WriteTmp, Rename, Acquire, Send,
       Answered, NotServed, Refused, WakeUp, Price, DeriveFundamentals, LoadSettings, AskAsset,
       BuildUniverse, vars, world

LEMMA SumsStep ==
  ASSUME ShapeOK, ReasonsOK, KindOK, SummaryInv, [Next]_vars, NEW v \in Workers
  PROVE  Sums(v)'
<1> USE DEF ShapeOK
<1>1. TablesOK /\ Sums(v)
  BY DEF SummaryInv
<1>2. Command(v)' = Command(v) /\ Kept' = Kept
  BY MarketStays, CompanyStays DEF Command, Kept
<1>3. ASSUME result'[v] = result[v], pc'[v] = pc[v] PROVE Sums(v)'
  BY <1>1, <1>2, <1>3 DEF Sums, Derived
<1>4. ASSUME pc'[v] \notin {"settings", "assets", "done"} PROVE Sums(v)'
  BY <1>4 DEF Sums, Derived
<1>5. CASE Lookup(v) \/ Unlink(v) \/ OpenTmp(v) \/ WriteTmp(v) \/ Rename(v)
  <2>1. pc'[v] \notin {"settings", "assets", "done"}
    BY <1>5 DEF Lookup, Served, Unlink, OpenTmp, WriteTmp, Rename, Fail, Go, Set
  <2> QED
    BY <1>4, <2>1
<1>6. CASE Acquire(v) \/ Send(v) \/ Answered(v) \/ NotServed(v) \/ Refused(v) \/ WakeUp(v) \/ Price(v)
  <2>1. pc'[v] \notin {"settings", "assets", "done"}
    BY <1>6 DEF Acquire, Send, Answered, NotServed, Refused, WakeUp, Price, Fail, Go, Set
  <2> QED
    BY <1>4, <2>1
<1>7. CASE DeriveFundamentals(v)
  <2>1. pc'[v] = "done" /\ result'[v] = Kept
    BY <1>1, <1>7 DEF DeriveFundamentals, Go, Set, TablesOK, Kept
  <2> QED
    BY <1>2, <2>1 DEF Sums
<1>8. CASE LoadSettings(v) \/ BuildUniverse(v) \/ AskAsset(v)
  <2>1. pc[v] \in {"settings", "assets"}
    BY <1>8 DEF LoadSettings, BuildUniverse, AskAsset
  <2>2. Command(v)'.kind # "fundamentals"
    BY <1>1, <1>2, <2>1 DEF Sums
  <2> QED
    BY <2>2 DEF Sums, Derived
<1>9. CASE Begin(v)
  <2>1. pc'[v] = IF Command(v).kind = "fundamentals" THEN "price" ELSE "settings"
    BY <1>9 DEF Begin, Go, Set
  <2> QED
    BY <1>2, <2>1 DEF Sums, Derived
<1>10. ASSUME NEW w \in Workers, Step(w) \/ Begin(w), w # v PROVE Sums(v)'
  <2>1. pc'[v] = pc[v]
    BY <1>10, OthersTry
  <2> QED
    BY <1>1, <1>3, <1>10, <2>1, OthersBuild
<1>11. CASE Tick \/ UNCHANGED vars
  <2>1. result' = result /\ pc' = pc
    BY <1>11 DEF Tick, vars
  <2> QED
    BY <1>3, <2>1
<1>12. ASSUME NEW p \in Processes, Crash(p) PROVE Sums(v)'
  <2>1. result' = result /\ (pc'[v] = pc[v] \/ pc'[v] = "dead")
    BY <1>12 DEF Crash
  <2> QED
    BY <1>3, <1>4, <2>1
<1>13. ASSUME Step(v) PROVE Sums(v)'
  BY <1>5, <1>6, <1>7, <1>8, <1>13 DEF Step
<1> QED
  BY <1>9, <1>10, <1>11, <1>12, <1>13 DEF Next

LEMMA SummarySound ==
  ASSUME SummaryInv
  PROVE  SummaryTraceable
<1>1. ASSUME NEW w \in Workers, Derived(w)
      PROVE  Summary(w) = F!Derive(Facts, company.price, Today)
  <2>1. result[w] = [facts |-> company.facts, price |-> company.price]
    BY <1>1 DEF SummaryInv, Sums, Kept
  <2>2. result[w].facts = Facts /\ result[w].price = company.price
    BY <2>1 DEF Facts
  <2> QED
    BY <2>2 DEF Summary
<1>2. CompanyOK
  BY DEF SummaryInv
<1>3. ASSUME NEW w \in Workers, Derived(w)
      PROVE  /\ Grounded(Summary(w).shares) /\ Grounded(Summary(w).revenue)
             /\ Grounded(Summary(w).income) /\ Grounded(Summary(w).equity)
             /\ Sourced(Summary(w).debt) /\ Sourced(Summary(w).ratio) /\ Sourced(Summary(w).cap)
  BY <1>1, <1>2, <1>3, DeriveSound
<1>4. FundamentalsGrounded
  BY <1>3 DEF FundamentalsGrounded
<1>5. DatedByOldest
  <2> SUFFICES ASSUME NEW w \in Workers, Derived(w),
                      NEW v \in {Summary(w).debt, Summary(w).ratio, Summary(w).cap} \ {None},
                      NEW t \in v.tags
               PROVE  v.asOf <= F!Newest(F!InstantEntries(FactsOf(t))).end
    BY DEF DatedByOldest
  <2>1. v # None /\ Sourced(v)
    BY <1>3
  <2> QED
    BY <2>1 DEF Sourced, Newest
<1> QED
  BY <1>4, <1>5 DEF SummaryTraceable

\* Every value of a summary a command prints is the newest fact of its kind
\* that was filed under its tag, or is put together from such values and dated
\* no later than the oldest of them.
THEOREM SummariesTraceable == Spec => []SummaryTraceable
<1>1. Init => SummaryInv
  <2> SUFFICES ASSUME Init PROVE SummaryInv
    OBVIOUS
  <2>1. CompanyOK
    BY DEF Init, CompanyOK
  <2>2. TablesOK
    BY DEF Init, TablesOK
  <2>3. \A w \in Workers : Sums(w)
    BY DEF Init, Sums, Derived
  <2> QED
    BY <2>1, <2>2, <2>3 DEF SummaryInv
<1>2. IInv /\ SummaryInv /\ [Next]_vars => SummaryInv'
  <2> SUFFICES ASSUME IInv, SummaryInv, [Next]_vars PROVE SummaryInv'
    OBVIOUS
  <2>1. CompanyOK'
    BY CompanyStays DEF SummaryInv, CompanyOK
  <2>2. TablesOK'
    BY TablesStep DEF SummaryInv
  <2>3. \A w \in Workers : Sums(w)'
    BY SumsStep DEF IInv
  <2> QED
    BY <2>1, <2>2, <2>3 DEF SummaryInv
<1>3. SummaryInv => SummaryTraceable
  BY SummarySound
<1> QED
  BY <1>1, <1>2, <1>3, Invariance, PTL DEF Spec

=============================================================================
