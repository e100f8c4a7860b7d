------------------------------ MODULE Scoring -------------------------------
(***************************************************************************)
(* What the scoring commands make of the ledger: the reward of each agent  *)
(* (scoring/reward.py), the regret of a judge (scoring/judge_regret.py)    *)
(* and the leaderboard of the tracks (scoring/leaderboard.py), computed    *)
(* again at any time over a ledger that grows, and upserted by key.        *)
(*                                                                         *)
(* A ratio is a pair <<n, d>> with d > 0; a stored number is a ratio in    *)
(* units of 1/Scale.  Of Sharpe and Sortino the sign is kept, and whether  *)
(* they exist; their square roots are left out.                            *)
(***************************************************************************)
EXTENDS Lists, FiniteSetsExt

CONSTANTS
  None,          \* Python's None
  TrackList,     \* strategy tracks in the order the repository lists them
  StartEquity,   \* starting_equity_usd
  Equities,      \* equities a snapshot may have
  Windows,       \* leaderboard windows <<first day, last day>>
  LastDay,       \* bound: days of snapshots
  MaxPasses,     \* bound: snapshots that arrive while scores are computed
  FillsOf,       \* the fills of each track: [day, notional]
  Ledgers,       \* what the ledger may hold at first: [snaps, recs]
  Plans,         \* the judges' decisions: [run, track, judge, symbols]
  Runs, Dates,   \* arguments of the commands
  Returns,       \* realized returns, in units of 1/Scale
  Scale

Tracks == Range(TrackList)

Quotes == UNION {{r.quote, r.bench} : r \in UNION {l.recs : l \in Ledgers}}

ASSUME ScoringAssumption ==
  /\ TrackList \in Seq(Tracks) /\ None \notin Int /\ None \notin Int \X Int
  /\ Equities \subseteq Nat /\ Returns \subseteq Int /\ Scale \in Nat \ {0}
  /\ StartEquity \in Nat \ {0} /\ LastDay \in Nat
  /\ \A p \in Plans : p.track \in Tracks /\ p.run \in Runs
  /\ \A l \in Ledgers : /\ l.snaps \in [Tracks -> Seq([day : 1..LastDay, equity : Equities])]
                        /\ IsFiniteSet(l.recs)

VARIABLES
  snaps,    \* track_snapshots of each track: [day, equity] by captured_at
  recs,     \* recommendations
  prices,   \* what the price provider knows: realized return of each quote
  scores,   \* agent_scores by (agent, track, date); `from` is history
  regrets,  \* judge_regret by (judge, track, date); `from` is history
  board,    \* track_leaderboard by (window, track)
  passes

vars == <<snaps, recs, prices, scores, regrets, board, passes>>

\* A row whose key is there is rewritten.
Upserted(table, rows) ==
  [k \in DOMAIN table \union DOMAIN rows |-> IF k \in DOMAIN rows THEN rows[k] ELSE table[k]]

-----------------------------------------------------------------------------
(* Numbers.                                                                *)
Less(a, b) == a[1] * b[2] < b[1] * a[2]
Sign(n) == IF n > 0 THEN 1 ELSE IF n < 0 THEN -1 ELSE 0
Plus(a, b) == <<a[1] * b[2] + b[1] * a[2], a[2] * b[2]>>
Total(rs) == FoldLeft(Plus, <<0, 1>>, rs)
\* Decimal.quantize: n / d to the nearest unit, a half to the even one.
Nearest(n, d) == LET q == n \div d
                     r == 2 * (n % d)
                 IN  IF r > d \/ (r = d /\ q % 2 = 1) THEN q + 1 ELSE q
Quantized(q) == IF q = None THEN None ELSE Nearest(q[1] * Scale, q[2])

(* Rewards.                                                                *)
BuyActions  == {"buy", "buy_to_open_option"}
SellActions == {"sell", "short", "cover", "sell_to_open_option"}
Neutral     == {"hold", "avoid", "multi_leg"}

SignedExcess(action, own, bench) ==
  IF action \in BuyActions THEN own - bench
  ELSE IF action \in SellActions THEN bench - own ELSE 0

\* A recommendation whose price or benchmark is missing has no reward yet.
RecsOf(run) == {r \in recs : r.run = run}
PricedBy(known, r) == known[r.quote] # None /\ known[r.bench] # None
Rewarded(rs) == {r \in rs : PricedBy(prices, r)}
RewardBy(known, r) == SignedExcess(r.action, known[r.quote], known[r.bench])
RewardOf(r) == RewardBy(prices, r)
SumOf(rs)  == MapThenSumSet(RewardOf, rs)
Average(rs) == IF rs = {} THEN 0 ELSE Nearest(SumOf(rs), Cardinality(rs))

ScoreKey(r, date) == <<r.agent, r.track, date>>

ScoreRun(run, date) ==
  LET due  == Rewarded(RecsOf(run))
      of(k) == {r \in due : ScoreKey(r, date) = k}
  IN  /\ scores' = Upserted(scores,
           [k \in {ScoreKey(r, date) : r \in due} |->
              [reward |-> Average(of(k)), count |-> Cardinality(of(k)),
               from |-> <<run, prices>>]])
      /\ UNCHANGED <<snaps, recs, prices, regrets, board, passes>>

-----------------------------------------------------------------------------
(* Regret of the judge of one run and track.                               *)
Decided(run, track) == {p \in Plans : p.run = run /\ p.track = track}
AllRecs(run, track) == {r \in RecsOf(run) : r.track = track}

Selected(run, track) ==
  {r \in AllRecs(run, track) : r.action \notin {"hold", "avoid"}
                               /\ \E p \in Decided(run, track) : r.symbol \in p.symbols}

\* The best alternative is taken over all that were scored; regret is cut off at zero.
Best_OfSelected(run, track) ==
  Max({0} \cup {RewardOf(r) : r \in Rewarded(Selected(run, track))})
Best(run, track) == Max({RewardOf(r) : r \in Rewarded(AllRecs(run, track))})
Regret(best, selected) == Max({0, best - selected})

JudgeRegret(run, track, date) ==
  LET chosen == Rewarded(Selected(run, track))
      scored == Rewarded(AllRecs(run, track))
  IN  /\ Decided(run, track) # {} /\ scored # {}
      /\ \E p \in Decided(run, track) :
           regrets' = Upserted(regrets, [k \in {<<p.judge, track, date>>} |->
             [selected |-> Average(chosen), best |-> Best(run, track),
              regret |-> Regret(Best(run, track), Average(chosen)),
              count |-> Cardinality(scored), from |-> <<run, prices>>]])
      /\ UNCHANGED <<snaps, recs, prices, scores, board, passes>>

-----------------------------------------------------------------------------
(* The leaderboard.                                                        *)
Within(w, day) == w[1] <= day /\ day <= w[2]
Seen(t, w) == Only(snaps[t], LAMBDA s : Within(w, s.day))

\* _daily_snapshots: the equity of the latest snapshot of each day.
Daily(ss) ==
  LET last == Only([i \in DOMAIN ss |-> i],
                   LAMBDA i : i = Len(ss) \/ ss[i + 1].day > ss[i].day)
  IN  [k \in DOMAIN last |-> ss[last[k]].equity]

Change(old, new) == <<new - old, old>>

\* _daily_returns: a day after an equity of zero has no return.
DailyReturns_FromFirst(e) ==
  LET from == Only([i \in 1..(Len(e) - 1) |-> i], LAMBDA i : e[1] # 0)
  IN  [k \in DOMAIN from |-> Change(e[1], e[from[k] + 1])]
DailyReturns(e) ==
  LET from == Only([i \in 1..(Len(e) - 1) |-> i], LAMBDA i : e[i] # 0)
  IN  [k \in DOMAIN from |-> Change(e[from[k]], e[from[k] + 1])]

CumulativeReturn(e) == IF e[1] > 0 THEN Change(e[1], Last(e)) ELSE None

\* _max_drawdown: the peak so far, and the worst fall from it.
Fall(peak, now) == <<peak - now, peak>>
MaxDrawdown_DayByDay(e) ==
  LET step(d, now) ==
        [peak |-> now, worst |-> IF d.peak > 0 /\ Less(d.worst, Fall(d.peak, now))
                                 THEN Fall(d.peak, now) ELSE d.worst]
  IN  FoldLeft(step, [peak |-> 0, worst |-> <<0, 1>>], e).worst
MaxDrawdown(e) ==
  LET step(d, now) ==
        LET peak == Max({d.peak, now}) IN
        [peak |-> peak, worst |-> IF peak > 0 /\ Less(d.worst, Fall(peak, now))
                                  THEN Fall(peak, now) ELSE d.worst]
  IN  FoldLeft(step, [peak |-> 0, worst |-> <<0, 1>>], e).worst

\* _std is not zero.
Varies(rs) == \E i, j \in DOMAIN rs : Less(rs[i], rs[j])
Zero == <<0, 1>>

Turnover(t, w, ss) ==
  LET mine == {f \in FillsOf[t] : Within(w, f.day)}
      base == IF ss[1].equity = 0 THEN StartEquity ELSE ss[1].equity
  IN  IF mine = {} THEN None
      ELSE <<MapThenSumSet(LAMBDA f : f.notional, mine), base>>

Metrics(t, w) ==
  LET ss    == Seen(t, w)
      e     == Daily(ss)
      rets  == DailyReturns(e)
      downs == Only(rets, LAMBDA r : Less(r, Zero))
      cum   == CumulativeReturn(e)
      fall  == MaxDrawdown(e)
      ratio(values) == IF Len(rets) >= 2 /\ Varies(values) THEN Sign(Total(rets)[1]) ELSE None
  IN  [cum      |-> Quantized(cum),
       drawdown |-> Quantized(fall),
       sharpe   |-> ratio(rets),
       sortino  |-> ratio(downs),
       calmar   |-> IF fall[1] > 0 /\ cum # None
                    THEN Quantized(<<cum[1] * fall[2], cum[2] * fall[1]>>) ELSE None,
       winRate  |-> IF rets = <<>> THEN None
                    ELSE Quantized(<<Len(Only(rets, LAMBDA r : Less(Zero, r))), Len(rets)>>),
       turnover |-> Quantized(Turnover(t, w, ss))]

\* The sort key of persist_leaderboard: None last, the larger return first;
\* equal returns stay in the order of the tracks.
Ahead(a, b) == IF b = None THEN a # None ELSE a # None /\ a > b
Position(t) == CHOOSE i \in DOMAIN TrackList : TrackList[i] = t

Precedes(cum, u, t) == \/ Ahead(cum[u], cum[t])
                       \/ cum[u] = cum[t] /\ Position(u) < Position(t)
Rank(cum, t) == PlaceIn(DOMAIN cum, LAMBDA u, v : Precedes(cum, u, v), t)

\* upsert_leaderboard_entry: an entry that exists is rewritten.
Entry_KeepsRank(key, m, rank) ==
  [metrics |-> m, rank |-> IF key \in DOMAIN board THEN board[key].rank ELSE rank]
Entry(key, m, rank) == [metrics |-> m, rank |-> rank]

Leaderboard(w) ==
  LET ranked == {t \in Tracks : Seen(t, w) # <<>>}
      m      == [t \in ranked |-> Metrics(t, w)]
      cum    == [t \in ranked |-> m[t].cum]
  IN  /\ board' = Upserted(board, [k \in {w} \X ranked |->
                                     Entry(k, m[k[2]], Rank(cum, k[2]))])
      /\ UNCHANGED <<snaps, recs, prices, scores, regrets, passes>>

-----------------------------------------------------------------------------
(* The ledger goes on: a pass takes snapshots, a return becomes known.     *)
NewSnapshot(t, day, e) ==
  /\ passes < MaxPasses /\ recs = {}
  /\ snaps[t] # <<>> => Last(snaps[t]).day <= day
  /\ snaps' = [snaps EXCEPT ![t] = Append(@, [day |-> day, equity |-> e])]
  /\ passes' = passes + 1
  /\ UNCHANGED <<recs, prices, scores, regrets, board>>

PriceKnown(q, x) ==
  /\ recs # {} /\ prices[q] = None
  /\ prices' = [prices EXCEPT ![q] = x]
  /\ UNCHANGED <<snaps, recs, scores, regrets, board, passes>>

Init ==
  /\ \E l \in Ledgers : snaps = l.snaps /\ recs = l.recs
  /\ prices = [q \in Quotes |-> None]
  /\ scores = <<>> /\ regrets = <<>> /\ board = <<>>
  /\ passes = 0

Next ==
  \/ \E run \in Runs, date \in Dates : ScoreRun(run, date)
  \/ \E run \in Runs, t \in Tracks, date \in Dates : JudgeRegret(run, t, date)
  \/ \E w \in Windows : Leaderboard(w)
  \/ \E t \in Tracks, day \in 1..LastDay, e \in Equities : NewSnapshot(t, day, e)
  \/ \E q \in Quotes, x \in Returns : PriceKnown(q, x)

Spec == Init /\ [][Next]_vars

-----------------------------------------------------------------------------
\* Stored numbers are numbers, in the range their meaning allows.
TypeOK ==
  /\ \A k \in DOMAIN scores : scores[k].count > 0 /\ scores[k].reward \in Int
  /\ \A k \in DOMAIN regrets : regrets[k].count > 0 /\ regrets[k].regret \in Nat
  /\ \A k \in DOMAIN board : LET m == board[k].metrics IN
       /\ k \in Windows \X Tracks /\ board[k].rank \in 1..Len(TrackList)
       /\ m.drawdown \in 0..Scale /\ m.cum \in {None} \cup Int
       /\ m.winRate \in {None} \cup 0..Scale

(***************************************************************************)
(* However often a leaderboard is computed while snapshots arrive, the     *)
(* entries of a window are ranked 1..n without ties, and a larger return   *)
(* is never ranked behind a smaller or an unknown one.                     *)
(***************************************************************************)
Entries(w) == {t \in Tracks : <<w, t>> \in DOMAIN board}
RanksRanked ==
  \A w \in Windows :
    LET cum(t)  == board[<<w, t>>].metrics.cum
        rank(t) == board[<<w, t>>].rank
    IN  /\ {rank(t) : t \in Entries(w)} = 1..Cardinality(Entries(w))
        /\ \A t, u \in Entries(w) : Ahead(cum(t), cum(u)) => rank(t) < rank(u)

(***************************************************************************)
(* The drawdown computed with a running peak is the worst fall from any    *)
(* day to a later one, and the cumulative return is no loss worse than it. *)
(***************************************************************************)
DrawdownIsWorstFall ==
  \A t \in Tracks, w \in Windows :
    LET e     == Daily(Seen(t, w))
        days  == {p \in (DOMAIN e) \X (DOMAIN e) : p[1] <= p[2] /\ e[p[1]] > 0}
        falls == {Fall(e[p[1]], e[p[2]]) : p \in days}
        worst == MaxDrawdown(e)
    IN  e # <<>> =>
          /\ \A f \in falls : ~Less(worst, f)
          /\ worst = Zero \/ \E f \in falls : f[1] * worst[2] = worst[1] * f[2]
          /\ CumulativeReturn(e) # None => ~Less(worst, <<-CumulativeReturn(e)[1], e[1]>>)

(***************************************************************************)
(* The daily returns compound to the cumulative return, as long as the     *)
(* account was not at zero in between.                                     *)
(***************************************************************************)
ReturnsCompound ==
  \A t \in Tracks, w \in Windows :
    LET e    == Daily(Seen(t, w))
        rets == DailyReturns(e)
        grown == FoldLeft(LAMBDA a, r : <<a[1] * (r[1] + r[2]), a[2] * r[2]>>, <<1, 1>>, rets)
        cum  == CumulativeReturn(e)
    IN  e # <<>> /\ (\A i \in DOMAIN e : e[i] > 0) =>
          grown[1] * cum[2] = (cum[1] + cum[2]) * grown[2]

(***************************************************************************)
(* Three figures of one curve that are computed separately, drawdown,      *)
(* daily returns and cumulative return, are about the same curve, over     *)
(* every history of equities.                                              *)
(***************************************************************************)
MetricsAgree == DrawdownIsWorstFall /\ ReturnsCompound

(***************************************************************************)
(* The agents' scores and the judge's regret of one run agree when they    *)
(* were computed from the same prices: no agent's average beats the best   *)
(* recommendation, and once the scores of all its agents are there they    *)
(* count the same observations.                                            *)
(***************************************************************************)
ScoresMatchRegret ==
  \A k \in DOMAIN regrets :
    LET g     == regrets[k]
        keys  == {ScoreKey(r, k[3]) : r \in {q \in AllRecs(g.from[1], k[2]) : PricedBy(g.from[2], q)}}
        alike == {s \in keys \cap DOMAIN scores : scores[s].from = g.from}
    IN  /\ \A s \in alike : scores[s].reward <= g.best
        /\ alike = keys =>
             MapThenSumSet(LAMBDA s : scores[s].count, keys) = g.count

(***************************************************************************)
(* db/models.py:417-422 says of a score: "Multiple recommendations from    *)
(* the same agent on the same day collapse into one row".  So, when every  *)
(* run of a date has been scored with all prices known, the row counts all *)
(* recommendations of the agent on the track.  (It does not: the row is    *)
(* that of the run scored last.)                                           *)
(***************************************************************************)
AllKnown == \A q \in Quotes : prices[q] # None
ScoreCoversDay ==
  AllKnown => \A k \in DOMAIN scores :
    scores[k].from[2] = prices =>
      scores[k].count = Cardinality({r \in recs : <<r.agent, r.track>> = <<k[1], k[2]>>})

=============================================================================
