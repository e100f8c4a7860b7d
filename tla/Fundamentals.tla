---------------------------- MODULE Fundamentals ----------------------------
(***************************************************************************)
(* What is derived from the facts a company has filed                      *)
(* (data/fundamentals.py).                                                 *)
(*                                                                         *)
(* Facts are two namespaces, dei and gaap: for some tags, the entries in   *)
(* the order filed, each with end (its date, or None), fp ("FY", "Q" or    *)
(* None), spans (whether it has a start) and val (None when unreadable).   *)
(* A derived value names the tags it rests on; a ratio is a pair.          *)
(***************************************************************************)
EXTENDS Lists, FiniteSetsExt

CONSTANTS None,       \* Python's None
          StaleDays   \* age at which shares outstanding are stale

SharesOut == <<"CommonStockSharesOutstanding", "EntityCommonStockSharesOutstanding">>
Revenue   == <<"Revenues", "RevenueFromContractWithCustomerExcludingAssessedTax",
               "SalesRevenueNet">>
NetIncome == <<"NetIncomeLoss">>
DebtLong  == <<"LongTermDebt", "LongTermDebtNoncurrent">>
DebtShort == <<"ShortTermBorrowings", "LongTermDebtCurrent">>
Equity    == <<"StockholdersEquity",
               "StockholdersEquityIncludingPortionAttributableToNoncontrollingInterest">>

Value(value, asOf, tags, confidence, warnings) ==
  [value |-> value, asOf |-> asOf, tags |-> tags,
   confidence |-> confidence, warnings |-> warnings]

-----------------------------------------------------------------------------
(* Picking one entry of one tag.  An entry without a date sorts first; of  *)
(* two with the same date the one filed first is taken.                    *)
Sortable(e) == IF e.end = None THEN -1 ELSE e.end

\* Mutant: the entry filed last.
Newest_Last(entries) == Last(entries)

Newest(entries) ==
  LET newest == {i \in DOMAIN entries :
                   \A j \in DOMAIN entries : Sortable(entries[j]) <= Sortable(entries[i])}
  IN  entries[Min(newest)]

InstantEntries(entries) ==
  LET instant == Only(entries, LAMBDA e :
                   e.fp \in {None, "FY"} \/ (e.end # None /\ ~e.spans))
  IN  IF instant # <<>> THEN instant
      ELSE Only(entries, LAMBDA e : e.end # None)

AnnualEntries(entries) == Only(entries, LAMBDA e : e.fp = "FY")

\* The first of the tags whose newest chosen entry can be read; chosen are
\* the entries of each tag that are of the right kind.
PickFirst(chosen, tags, confidence, warnings) ==
  LET Usable(t) == /\ t \in DOMAIN chosen /\ chosen[t] # <<>>
                   /\ None \notin {Newest(chosen[t]).end, Newest(chosen[t]).val}
      usable == {i \in DOMAIN tags : Usable(tags[i])}
  IN  IF usable = {} THEN None
      ELSE LET t == tags[Min(usable)]
               e == Newest(chosen[t])
           IN  Value(e.val, e.end, {t}, confidence, warnings)

Instantaneous(namespace, tags) ==
  PickFirst([t \in DOMAIN namespace |-> InstantEntries(namespace[t])], tags, "high", {})
TrailingTTM(namespace, tags) ==
  PickFirst([t \in DOMAIN namespace |-> AnnualEntries(namespace[t])], tags,
            "medium", {"proxy_fy"})

-----------------------------------------------------------------------------
(* Values made of two others.                                              *)
OrLow(warnings) == IF warnings = {} THEN "medium" ELSE "low"

\* Mutant: a combined value carries the newer date.
Older_Newer(a, b) == Max({a.asOf, b.asOf})

Older(a, b) == Min({a.asOf, b.asOf})

CombineSum(a, b) ==
  IF a = None THEN b
  ELSE IF b = None THEN a
  ELSE LET warnings == IF a.asOf = b.asOf THEN {} ELSE {"component_periods_differ"}
       IN  Value(a.value + b.value, Older(a, b), a.tags \union b.tags,
                 OrLow(warnings), warnings)

DebtToEquity(debt, equity) ==
  IF debt = None \/ equity = None THEN None
  ELSE IF equity.value = 0 THEN None
  ELSE LET warnings == IF debt.asOf = equity.asOf THEN {} ELSE {"debt_equity_periods_differ"}
       IN  Value(<<debt.value, equity.value>>, Older(debt, equity),
                 debt.tags \union equity.tags, OrLow(warnings), warnings)

MarketCap(shares, price, today) ==
  IF shares = None \/ price = None THEN None
  ELSE IF price <= 0 THEN None
  ELSE LET warnings == IF today - shares.asOf > StaleDays THEN {"shares_out_stale"} ELSE {}
       IN  Value(shares.value * price, shares.asOf, shares.tags,
                 OrLow(warnings), warnings)

Derive(facts, price, today) ==
  LET dei    == Instantaneous(facts.dei, SharesOut)
      shares == IF dei # None THEN dei ELSE Instantaneous(facts.gaap, SharesOut)
      debt   == CombineSum(Instantaneous(facts.gaap, DebtLong),
                           Instantaneous(facts.gaap, DebtShort))
      equity == Instantaneous(facts.gaap, Equity)
  IN  [shares |-> shares, debt |-> debt, equity |-> equity,
       revenue |-> TrailingTTM(facts.gaap, Revenue),
       income  |-> TrailingTTM(facts.gaap, NetIncome),
       ratio   |-> DebtToEquity(debt, equity),
       cap     |-> MarketCap(shares, price, today)]
=============================================================================
