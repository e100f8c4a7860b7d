------------------------------ MODULE Universe ------------------------------
(***************************************************************************)
(* Which symbols a track may look at: the universe policies                *)
(* (data/universe_policy.py), the verdict on one asset and the list a      *)
(* build returns (data/universe.py).                                       *)
(*                                                                         *)
(* Prices are in tenths of a dollar, dollar volumes in units of $100,000,  *)
(* market caps in millions.  A policy is a record; a snapshot of an asset  *)
(* has price, adv, cap, filed (days since the last 8-K) and news, the last *)
(* three None when they are not known.                                     *)
(***************************************************************************)
EXTENDS Lists, FiniteSetsExt

CONSTANT None    \* Python's None

Bands       == {"mega", "large", "mid", "small", "micro", "nano"}
LargeBands  == {"mega", "large"}
Options     == {"option_single", "option_spread"}
Instruments == {"equity_long", "equity_short", "etf", "leveraged_etf"} \union Options

Policy(adv, price, bands, instruments, lowVis, news, recent) ==
  [minAdv |-> adv, floor |-> price, bands |-> bands, instruments |-> instruments,
   lowVis |-> lowVis, maxNews |-> news, catalyst |-> recent]

Plain(adv, price, bands, instruments) ==
  Policy(adv, price, bands, instruments, FALSE, 2, None)

DefaultPolicies ==
  [conservative    |-> Plain(250, 100, LargeBands, {"equity_long", "etf"}),
   balanced        |-> Plain(100, 50, LargeBands \union {"mid"},
                             {"equity_long", "etf", "option_single"}),
   aggressive      |-> Policy(20, 20, LargeBands \union {"mid", "small"},
                              Instruments, TRUE, 3, 14),
   concentrated    |-> Plain(100, 50, LargeBands \union {"mid"},
                             {"equity_long", "equity_short"} \union Options),
   yolo            |-> Policy(5, 5, Bands, Instruments, TRUE, 10, None),
   quant_signal    |-> Plain(50, 30, LargeBands \union {"mid", "small"},
                             {"equity_long", "equity_short", "etf"}),
   random_baseline |-> Plain(100, 50, LargeBands \union {"mid"}, {"equity_long", "etf"}),
   benchmark       |-> Plain(500, 200, LargeBands, {"etf"})]

-----------------------------------------------------------------------------
(* One asset.                                                              *)
BandOf(cap) ==
  IF cap = None \/ cap <= 0 THEN None
  ELSE IF cap > 200000 THEN "mega"
  ELSE IF cap > 10000 THEN "large"
  ELSE IF cap > 2000 THEN "mid"
  ELSE IF cap > 300 THEN "small"
  ELSE IF cap > 50 THEN "micro" ELSE "nano"

InstrumentOf(asset) ==
  IF asset.leveraged THEN "leveraged_etf" ELSE IF asset.etf THEN "etf" ELSE "equity_long"

IsLowVisibility(snap, policy, band) ==
  /\ band \in {"small", "micro", "nano"}
  /\ snap.news # None /\ snap.news < policy.maxNews
  /\ policy.catalyst # None => snap.filed # None /\ snap.filed <= policy.catalyst

\* The key a rejection is counted under, or the bucket of a candidate: the
\* first rule that applies.
Evaluate(asset, snap, policy) ==
  LET band == BandOf(snap.cap) IN
  IF InstrumentOf(asset) \notin policy.instruments THEN "rejected_instrument"
  ELSE IF snap.price < policy.floor THEN "rejected_price_floor"
  ELSE IF snap.adv < policy.minAdv THEN "rejected_adv_floor"
  ELSE IF band \notin policy.bands THEN "rejected_cap_band"
  ELSE IF policy.lowVis /\ IsLowVisibility(snap, policy, band) THEN "hidden_gem"
  ELSE "core"

-----------------------------------------------------------------------------
(* One build, over the tradable assets of the loader's list and the        *)
(* snapshots that came back, a function of some of the symbols.            *)
Buckets == {"core", "hidden_gem"}
Counted == Buckets \union {"missing_snapshot", "rejected_instrument",
             "rejected_price_floor", "rejected_adv_floor", "rejected_cap_band"}

TradableOf(list) == Only(list, LAMBDA a : a.tradable)

\* Mutant: an asset without a snapshot is not counted.
KeyOf_Uncounted(asset, snaps, policy) ==
  IF asset.symbol \in DOMAIN snaps THEN Evaluate(asset, snaps[asset.symbol], policy)
  ELSE "skipped"

KeyOf(asset, snaps, policy) ==
  IF asset.symbol \in DOMAIN snaps THEN Evaluate(asset, snaps[asset.symbol], policy)
  ELSE "missing_snapshot"

\* Mutant: the least liquid first.
Ahead_LessLiquid(snaps, a, b) ==
  \/ snaps[a].adv < snaps[b].adv
  \/ snaps[a].adv = snaps[b].adv /\ a < b

\* The more liquid first, then by symbol; a symbol is a number here, the
\* place of its name in the alphabet.
Ahead(snaps, a, b) ==
  \/ snaps[a].adv > snaps[b].adv
  \/ snaps[a].adv = snaps[b].adv /\ a < b

Build(assets, snaps, policy, limit) ==
  LET Key(i)   == KeyOf(assets[i], snaps, policy)
      admitted == {assets[i].symbol : i \in {j \in DOMAIN assets : Key(j) \in Buckets}}
      ordered  == Sorted(admitted, LAMBDA a, b : Ahead(snaps, a, b))
      served   == SubSeq(ordered, 1, Min({limit, Len(ordered)}))
  IN  [candidates |-> served,
       rejected   |-> Len(assets) - Len(served),
       counts     |-> [k \in Counted |-> Cardinality({i \in DOMAIN assets : Key(i) = k})]]

-----------------------------------------------------------------------------
(* The average dollar volume a snapshot carries, of the last `days` daily  *)
(* bars; no bars make it 0.                                                *)
LastBars(bars, days) == SubSeq(bars, Max({1, Len(bars) - days + 1}), Len(bars))
AdvUsd(bars, days) ==
  LET used == LastBars(bars, days)
  IN  IF used = <<>> THEN 0 ELSE FoldLeft(LAMBDA s, b : s + b, 0, used) \div Len(used)
=============================================================================
