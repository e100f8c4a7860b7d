------------------------------ MODULE Baselines ------------------------------
(***************************************************************************)
(* The deterministic judges (agents/baselines.py), which take the place of *)
(* an LLM judge on the reference tracks.  Weights are in units of 0.0001,  *)
(* the precision the random baseline rounds to.                            *)
(***************************************************************************)
EXTENDS AgentSchemas, Lists

CONSTANTS
  QuantTop,     \* how many candidates the quant baseline takes, 5 in the code
  QuantWeight,  \* the weight of each, 2000 in the code
  RandomPicks,  \* how many the random baseline takes, 3 in the code
  Benchmark,    \* DEFAULT_BENCHMARK_SYMBOL
  SymbolRank    \* symbol -> its place in the order of strings

One == 10000

\* The random baseline's share, 1/n rounded half to even.
RandomShare(n) == LET q == One \div n
                      r == 2 * (One % n)
                  IN IF r > n \/ (r = n /\ q % 2 = 1) THEN q + 1 ELSE q

\* Rounding up may not take the picks above the whole equity: for 3 it does not.
ASSUME BaselineAssumption ==
  /\ QuantTop \in Nat \ {0} /\ RandomPicks \in Nat \ {0}
  /\ QuantWeight \in 1..One /\ QuantTop * QuantWeight <= One
  /\ \A n \in 1..RandomPicks : n * RandomShare(n) <= One
  /\ SymbolRank \in [DOMAIN SymbolRank -> Nat]
  /\ \A s, t \in DOMAIN SymbolRank : SymbolRank[s] = SymbolRank[t] => s = t

\* The items all baselines build: bought at the market for a share of equity.
\* An id is given to them last.
MarketBuy(track, symbol, instrument, weight, from) ==
  [id |-> None, track |-> track, symbol |-> symbol, instrument |-> instrument,
   side |-> "buy", notional |-> None, pct |-> weight, orderType |-> "market",
   limit |-> None, stop |-> None, legs |-> None, from |-> from]

BuyOf(track, rec, weight) ==
  MarketBuy(track, rec.symbol, rec.instrument, weight, {rec.id})

Eligible(recs) == Only(recs, LAMBDA r : r.action = "buy" /\ r.instrument \in Tradable)

FirstOf(s, n) == SubSeq(s, 1, IF Len(s) < n THEN Len(s) ELSE n)

\* Equal convictions are in the order of their symbols, and in council order
\* where those are equal too, which a stable sort leaves alone.
Earlier(recs, i, j) ==
  LET rank(k) == SymbolRank[recs[k].symbol]
  IN rank(i) < rank(j) \/ (rank(i) = rank(j) /\ i < j)

\* Mutant: the weakest conviction first.
Stronger_Ascending(recs, i, j) ==
  \/ recs[i].conviction < recs[j].conviction
  \/ recs[i].conviction = recs[j].conviction /\ Earlier(recs, i, j)

\* The sort key: -conviction and symbol.
Stronger(recs, i, j) ==
  \/ recs[i].conviction > recs[j].conviction
  \/ recs[i].conviction = recs[j].conviction /\ Earlier(recs, i, j)

\* QuantSignalAgent.run_local: the strongest convictions, equally weighted.
QuantItems(track, good) ==
  LET rank == Sorted(DOMAIN good, LAMBDA i, j : Stronger(good, i, j))
      top == FirstOf(rank, QuantTop)
  IN [i \in DOMAIN top |-> BuyOf(track, good[top[i]], QuantWeight)]

\* RandomBaselineAgent.run_local: the first candidates of a shuffle, equally
\* weighted.  Every shuffle is some seed's.
RandomItemSets(track, good) ==
  LET n == IF Len(good) < RandomPicks THEN Len(good) ELSE RandomPicks
      picks == {s \in [1..n -> DOMAIN good] : \A i, j \in 1..n : i # j => s[i] # s[j]}
  IN {[i \in 1..n |-> BuyOf(track, good[s[i]], RandomShare(n))] : s \in picks}

\* BenchmarkAgent.run_local: all of the equity in the index, whatever the
\* pair's symbol and whatever the council said.
BenchmarkItems(track) == <<MarketBuy(track, Benchmark, "etf", One, {})>>

\* The items each agent may decide on, of what is eligible.
ItemSets(kind, track, good) ==
  CASE kind = "quant_signal" -> {QuantItems(track, good)}
    [] kind = "random_baseline" -> RandomItemSets(track, good)
    [] kind = "benchmark" -> {BenchmarkItems(track)}

\* _decision, and the posture each agent gives it; a plan's ids are fresh.
BaselinePlans(kind, track, judge, recs) ==
  LET PlanWith(items) ==
        [id |-> None, track |-> track, judge |-> judge, items |-> items,
         posture |-> IF items = <<>> THEN "cash" ELSE "net_long"]
  IN {PlanWith(items) : items \in UNION {ItemSets(kind, track, good) : good \in {Eligible(recs)}}}

=============================================================================
