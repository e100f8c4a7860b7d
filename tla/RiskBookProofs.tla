--------------------------- MODULE RiskBookProofs ---------------------------
(***************************************************************************)
(* Proofs about the risk gate over a growing book, for every policy, every *)
(* set of action items and every course of approvals and equity changes:   *)
(* the caps on sums of positions hold.                                     *)
(***************************************************************************)
EXTENDS RiskBook, DataLemmas

-----------------------------------------------------------------------------
(* The inductive invariant: a book has finitely many positions, and none   *)
(* of them is flat.                                                        *)

Book(held) == /\ IsFiniteSet(DOMAIN held) /\ held = [k \in DOMAIN held |-> held[k]]
              /\ \A k \in DOMAIN held : held[k] \in Int \ {0}
IInv == Book(positions) /\ TypeOK

-----------------------------------------------------------------------------
(* The exposures are sums of natural numbers.                              *)

Sizes(held) == [k \in DOMAIN held |-> Magnitude(held[k])]
Debts(held) == [k \in DOMAIN held |-> -held[k]]
Shorts(held)  == {k \in DOMAIN held : held[k] < 0}
Options(held) == {k \in DOMAIN held : k.option}

\* The numbers that are added up.
LEMMA SummandsAreNat ==
  ASSUME NEW held, Book(held)
  PROVE  /\ \A k \in DOMAIN held : Sizes(held)[k] \in Nat
         /\ \A k \in Shorts(held) : Debts(held)[k] \in Nat
         /\ IsFiniteSet(Shorts(held)) /\ IsFiniteSet(Options(held))
<1>1. Shorts(held) \in SUBSET DOMAIN held /\ Options(held) \in SUBSET DOMAIN held
  BY DEF Shorts, Options
<1>2. IsFiniteSet(Shorts(held)) /\ IsFiniteSet(Options(held))
  BY <1>1, FS_Subset DEF Book
<1> QED
  BY <1>2 DEF Book, Sizes, Debts, Shorts, Magnitude

\* Gross exposure is the sum of the sizes of all positions.
LEMMA GrossIsTotal ==
  ASSUME NEW held, Book(held)
  PROVE  GrossExposure(held) = TotalOf(Sizes(held), DOMAIN held)
<1> DEFINE S == DOMAIN held
           Sums(g) == g = [s \in SUBSET S |-> IF s = {} THEN 0
                             ELSE Magnitude(held[CHOOSE x \in s : TRUE]) + g[s \ {CHOOSE x \in s : TRUE}]]
           g1 == CHOOSE g : Sums(g)
<1>1. GrossExposure(held) = g1[S]
  BY DEF GrossExposure, MapThenSumSet, MapThenFoldSet
<1>2. ASSUME NEW g PROVE Sums(g) <=> SumsUp(g, Sizes(held), S)
  BY DEF SumsUp, Sizes
<1>3. SumsUp(g1, Sizes(held), S)
  <2>1. \E g : SumsUp(g, Sizes(held), S)
    BY SummandsAreNat, SumsAreTotals DEF Book
  <2> HIDE DEF Sums
  <2>2. \E g : Sums(g)
    BY <1>2, <2>1
  <2>3. Sums(g1)
    BY <2>2
  <2> QED
    BY <1>2, <2>3
<1> HIDE DEF g1
<1> QED
  BY <1>1, <1>3, SummandsAreNat, SumsAreTotals DEF Book

\* Short exposure is the sum of what the short positions owe.
LEMMA ShortIsTotal ==
  ASSUME NEW held, Book(held)
  PROVE  ShortExposure(held) = TotalOf(Debts(held), Shorts(held))
<1> DEFINE S == Shorts(held)
           Sums(g) == g = [s \in SUBSET S |-> IF s = {} THEN 0
                             ELSE -held[CHOOSE x \in s : TRUE] + g[s \ {CHOOSE x \in s : TRUE}]]
           g1 == CHOOSE g : Sums(g)
<1>1. ShortExposure(held) = g1[S]
  BY DEF ShortExposure, Shorts, MapThenSumSet, MapThenFoldSet
<1>2. ASSUME NEW g PROVE Sums(g) <=> SumsUp(g, Debts(held), S)
  BY DEF SumsUp, Debts, Shorts
<1>3. SumsUp(g1, Debts(held), S)
  <2>1. \E g : SumsUp(g, Debts(held), S)
    BY SummandsAreNat, SumsAreTotals
  <2> HIDE DEF Sums
  <2>2. \E g : Sums(g)
    BY <1>2, <2>1
  <2>3. Sums(g1)
    BY <2>2
  <2> QED
    BY <1>2, <2>3
<1> HIDE DEF g1
<1> QED
  BY <1>1, <1>3, SummandsAreNat, SumsAreTotals

\* Options notional is the sum of the sizes of the option positions.
LEMMA OptionsIsTotal ==
  ASSUME NEW held, Book(held)
  PROVE  OptionsNotional(held) = TotalOf(Sizes(held), Options(held))
<1> DEFINE S == Options(held)
           Sums(g) == g = [s \in SUBSET S |-> IF s = {} THEN 0
                             ELSE Magnitude(held[CHOOSE x \in s : TRUE]) + g[s \ {CHOOSE x \in s : TRUE}]]
           g1 == CHOOSE g : Sums(g)
<1>0. \A k \in S : k \in DOMAIN held
  BY DEF Options
<1>1. OptionsNotional(held) = g1[S]
  BY DEF OptionsNotional, Options, MapThenSumSet, MapThenFoldSet
<1>2. ASSUME NEW g PROVE Sums(g) <=> SumsUp(g, Sizes(held), S)
  BY DEF SumsUp, Sizes, Options
<1>3. SumsUp(g1, Sizes(held), S)
  <2>1. \E g : SumsUp(g, Sizes(held), S)
    BY <1>0, SummandsAreNat, SumsAreTotals
  <2> HIDE DEF Sums
  <2>2. \E g : Sums(g)
    BY <1>2, <2>1
  <2>3. Sums(g1)
    BY <2>2
  <2> QED
    BY <1>2, <2>3
<1> HIDE DEF g1
<1> QED
  BY <1>0, <1>1, <1>3, SummandsAreNat, SumsAreTotals

-----------------------------------------------------------------------------
(* What booking one filled order does to the book.                         *)

\* A sized item has a target that is not negative.
LEMMA TargetIsNat ==
  ASSUME NEW i \in Items, equity \in Int, ~Unsized(i, equity)
  PROVE  TargetNotional(i, equity) \in Nat
<1>1. i.amount \in Nat /\ i.sizing \in {"usd", "pct"}
  BY BookAssumption
<1>2. CASE i.sizing = "usd"
  BY <1>1, <1>2 DEF TargetNotional
<1>3. CASE i.sizing = "pct"
  <2>1. equity \in Nat
    BY <1>3 DEF Unsized
  <2>2. i.amount * equity \in Nat
    BY <1>1, <2>1
  <2>3. (i.amount * equity) \div 100 \in Nat
    BY <2>2
  <2> QED
    BY <1>3, <2>3 DEF TargetNotional
<1> QED
  BY <1>1, <1>2, <1>3

\* One position changes by the signed target, and is dropped when it is flat.
LEMMA Booking ==
  ASSUME Book(positions), NEW i \in Items, Signed(i) \in Int
  PROVE  LET k == KeyOf(i) IN
         /\ Book(Booked(i)) /\ ValueOf(k) \in Int
         /\ DOMAIN Booked(i) \ {k} = DOMAIN positions \ {k}
         /\ \A h \in DOMAIN positions \ {k} : Booked(i)[h] = positions[h]
         /\ k \in DOMAIN Booked(i) <=> ValueOf(k) + Signed(i) # 0
         /\ k \in DOMAIN Booked(i) => Booked(i)[k] = ValueOf(k) + Signed(i)
<1> DEFINE k == KeyOf(i)
           v == ValueOf(k) + Signed(i)
           D == DOMAIN positions
           open == [j \in D \cup {k} |-> IF j = k THEN v ELSE positions[j]]
           E == {h \in D \cup {k} : open[h] # 0}
           next == [j \in E |-> open[j]]
<1>1. ValueOf(k) \in Int /\ v \in Int
  BY DEF ValueOf, Book
<1>2. Booked(i) = next
  BY DEF Booked
<1>3. \A h \in D : positions[h] \in Int \ {0}
  BY DEF Book
<1> HIDE DEF k, v
<1>4. /\ E \ {k} = D \ {k} /\ (k \in E <=> v # 0)
      /\ \A h \in D \ {k} : next[h] = positions[h]
      /\ k \in E => next[k] = v
  BY <1>3
<1>5. \A h \in E : next[h] \in Int \ {0}
  BY <1>1, <1>3
<1>6. IsFiniteSet(E)
  <2>1. IsFiniteSet(D \cup {k}) /\ E \in SUBSET (D \cup {k})
    BY FS_AddElement DEF Book
  <2> HIDE DEF E
  <2> QED
    BY <2>1, FS_Subset
<1>7. DOMAIN next = E /\ next = [h \in E |-> next[h]]
  OBVIOUS
<1> HIDE DEF E, next
<1>8. Book(next)
  BY <1>5, <1>6, <1>7 DEF Book
<1> QED
  BY <1>1, <1>2, <1>4, <1>7, <1>8 DEF k, v

\* Gross exposure grows by the target at most.
LEMMA GrossGrows ==
  ASSUME Book(positions), NEW i \in Items, TargetNotional(i, equity) \in Nat
  PROVE  /\ GrossExposure(positions) \in Nat /\ GrossExposure(Booked(i)) \in Nat
         /\ GrossExposure(Booked(i)) <= GrossExposure(positions) + TargetNotional(i, equity)
<1> DEFINE n == TargetNotional(i, equity)
           k == KeyOf(i)
           old == positions
           new == Booked(i)
           v == ValueOf(k)
           d == Signed(i)
<1>1. d \in Int /\ (d = n \/ d = -n) /\ n \in Nat
  BY DEF Signed
<1>2. /\ Book(new) /\ v \in Int /\ DOMAIN new \ {k} = DOMAIN old \ {k}
      /\ \A h \in DOMAIN old \ {k} : new[h] = old[h]
      /\ k \in DOMAIN new => new[k] = v + d
  BY <1>1, Booking
<1>3. v = IF k \in DOMAIN old THEN old[k] ELSE 0
  BY DEF ValueOf
<1> HIDE DEF n, k, new, v, d
<1> DEFINE R == TotalOf(Sizes(old), DOMAIN old \ {k})
<1>4. TotalOf(Sizes(new), DOMAIN new \ {k}) = R
  <2>1. \A h \in DOMAIN old \ {k} : Sizes(new)[h] = Sizes(old)[h]
    BY <1>2 DEF Sizes
  <2> QED
    BY ZenonT(30), <1>2, <2>1, TotalAgrees
<1>5. /\ R \in Nat /\ GrossExposure(old) \in Nat
      /\ GrossExposure(old) = (IF k \in DOMAIN old THEN Sizes(old)[k] ELSE 0) + R
  <2> DEFINE f == Sizes(old)
             S == DOMAIN old
  <2>1. IsFiniteSet(S) /\ \A y \in S : f[y] \in Nat
    BY SummandsAreNat DEF Book
  <2>2. GrossExposure(old) = TotalOf(f, S)
    BY GrossIsTotal
  <2> HIDE DEF f, S
  <2>3. /\ TotalOf(f, S) \in Nat /\ TotalOf(f, S \ {k}) \in Nat
        /\ TotalOf(f, S) = (IF k \in S THEN f[k] ELSE 0) + TotalOf(f, S \ {k})
    BY <2>1, TotalWithout
  <2> QED
    BY <2>2, <2>3 DEF f, S
<1>6. /\ GrossExposure(new) \in Nat
      /\ GrossExposure(new) = (IF k \in DOMAIN new THEN Sizes(new)[k] ELSE 0) + R
  <2> DEFINE f == Sizes(new)
             S == DOMAIN new
  <2>1. IsFiniteSet(S) /\ \A y \in S : f[y] \in Nat
    BY <1>2, SummandsAreNat DEF Book
  <2>2. GrossExposure(new) = TotalOf(f, S)
    BY <1>2, GrossIsTotal
  <2> HIDE DEF f, S
  <2>3. /\ TotalOf(f, S) \in Nat /\ TotalOf(f, S \ {k}) \in Nat
        /\ TotalOf(f, S) = (IF k \in S THEN f[k] ELSE 0) + TotalOf(f, S \ {k})
    BY <2>1, TotalWithout
  <2> QED
    BY <1>4, <2>2, <2>3 DEF f, S
<1> HIDE DEF R
<1>7. (IF k \in DOMAIN old THEN Sizes(old)[k] ELSE 0) = Magnitude(v)
  BY <1>3 DEF Sizes, Magnitude
<1>8. (IF k \in DOMAIN new THEN Sizes(new)[k] ELSE 0) <= Magnitude(v) + n
  BY <1>1, <1>2 DEF Sizes, Magnitude
<1>9. Magnitude(v) \in Int /\ (IF k \in DOMAIN new THEN Sizes(new)[k] ELSE 0) \in Int
  BY <1>1, <1>2 DEF Sizes, Magnitude
<1> QED
  BY <1>1, <1>5, <1>6, <1>7, <1>8, <1>9 DEF n, new

\* Short exposure grows by the target of a sale at most, and not by a purchase.
LEMMA ShortGrows ==
  ASSUME Book(positions), NEW i \in Items, TargetNotional(i, equity) \in Nat
  PROVE  /\ ShortExposure(positions) \in Nat /\ ShortExposure(Booked(i)) \in Nat
         /\ ShortExposure(Booked(i)) <= ShortExposure(positions) + TargetNotional(i, equity)
         /\ i.side \in {"buy", "buy_to_cover"} => ShortExposure(Booked(i)) <= ShortExposure(positions)
<1> DEFINE n == TargetNotional(i, equity)
           k == KeyOf(i)
           old == positions
           new == Booked(i)
           v == ValueOf(k)
           d == Signed(i)
<1>1. /\ d \in Int /\ n \in Nat /\ (d = n \/ d = -n)
      /\ i.side \in {"buy", "buy_to_cover"} => d = n
  BY DEF Signed
<1>2. /\ Book(new) /\ v \in Int /\ DOMAIN new \ {k} = DOMAIN old \ {k}
      /\ \A h \in DOMAIN old \ {k} : new[h] = old[h]
      /\ k \in DOMAIN new => new[k] = v + d
      /\ k \in DOMAIN new <=> v + d # 0
  BY <1>1, Booking
<1>3. v = IF k \in DOMAIN old THEN old[k] ELSE 0
  BY DEF ValueOf
<1> HIDE DEF n, k, new, v, d
<1> DEFINE R == TotalOf(Debts(old), Shorts(old) \ {k})
           Owed(x) == IF x < 0 THEN -x ELSE 0
<1>4. TotalOf(Debts(new), Shorts(new) \ {k}) = R
  <2>1. Shorts(new) \ {k} = Shorts(old) \ {k}
    <3>1. ASSUME NEW h PROVE h \in Shorts(new) \ {k} <=> h \in Shorts(old) \ {k}
      BY <1>2 DEF Shorts
    <3> QED
      BY <3>1
  <2>2. \A h \in Shorts(old) \ {k} : Debts(new)[h] = Debts(old)[h]
    BY <1>2 DEF Debts, Shorts
  <2> QED
    BY <2>1, <2>2, TotalAgrees
<1>5. /\ R \in Nat /\ ShortExposure(old) \in Nat
      /\ ShortExposure(old) = (IF k \in Shorts(old) THEN Debts(old)[k] ELSE 0) + R
  <2> DEFINE f == Debts(old)
             S == Shorts(old)
  <2>1. IsFiniteSet(S) /\ \A y \in S : f[y] \in Nat
    BY SummandsAreNat
  <2>2. ShortExposure(old) = TotalOf(f, S)
    BY ShortIsTotal
  <2> HIDE DEF f, S
  <2>3. /\ TotalOf(f, S) \in Nat /\ TotalOf(f, S \ {k}) \in Nat
        /\ TotalOf(f, S) = (IF k \in S THEN f[k] ELSE 0) + TotalOf(f, S \ {k})
    BY <2>1, TotalWithout
  <2> QED
    BY <2>2, <2>3 DEF f, S
<1>6. /\ ShortExposure(new) \in Nat
      /\ ShortExposure(new) = (IF k \in Shorts(new) THEN Debts(new)[k] ELSE 0) + R
  <2> DEFINE f == Debts(new)
             S == Shorts(new)
  <2>1. IsFiniteSet(S) /\ \A y \in S : f[y] \in Nat
    BY <1>2, SummandsAreNat
  <2>2. ShortExposure(new) = TotalOf(f, S)
    BY <1>2, ShortIsTotal
  <2> HIDE DEF f, S
  <2>3. /\ TotalOf(f, S) \in Nat /\ TotalOf(f, S \ {k}) \in Nat
        /\ TotalOf(f, S) = (IF k \in S THEN f[k] ELSE 0) + TotalOf(f, S \ {k})
    BY <2>1, TotalWithout
  <2> QED
    BY <1>4, <2>2, <2>3 DEF f, S
<1> HIDE DEF R
<1>7. (IF k \in Shorts(old) THEN Debts(old)[k] ELSE 0) = Owed(v)
  BY <1>3 DEF Debts, Shorts
<1>8. (IF k \in Shorts(new) THEN Debts(new)[k] ELSE 0) = Owed(v + d)
  BY <1>1, <1>2 DEF Debts, Shorts
<1>9. ShortExposure(old) = Owed(v) + R /\ ShortExposure(new) = Owed(v + d) + R
  BY <1>5, <1>6, <1>7, <1>8
<1>10. /\ Owed(v + d) <= Owed(v) + n
       /\ i.side \in {"buy", "buy_to_cover"} => Owed(v + d) <= Owed(v)
       /\ Owed(v) \in Int /\ Owed(v + d) \in Int
  BY <1>1, <1>2
<1> HIDE DEF Owed
<1> QED
  BY <1>1, <1>5, <1>6, <1>9, <1>10 DEF n, new

\* Options notional grows by the target of an option at most.
LEMMA OptionsGrow ==
  ASSUME Book(positions), NEW i \in Items, TargetNotional(i, equity) \in Nat
  PROVE  /\ OptionsNotional(positions) \in Nat /\ OptionsNotional(Booked(i)) \in Nat
         /\ OptionsNotional(Booked(i)) <= OptionsNotional(positions) + TargetNotional(i, equity)
         /\ i.instrument # "option" => OptionsNotional(Booked(i)) = OptionsNotional(positions)
<1> DEFINE n == TargetNotional(i, equity)
           k == KeyOf(i)
           old == positions
           new == Booked(i)
           v == ValueOf(k)
           d == Signed(i)
<1>1. d \in Int /\ (d = n \/ d = -n) /\ n \in Nat
  BY DEF Signed
<1>2. /\ Book(new) /\ v \in Int /\ DOMAIN new \ {k} = DOMAIN old \ {k}
      /\ \A h \in DOMAIN old \ {k} : new[h] = old[h]
      /\ k \in DOMAIN new => new[k] = v + d
  BY <1>1, Booking
<1>3. /\ v = IF k \in DOMAIN old THEN old[k] ELSE 0
      /\ i.instrument # "option" => ~k.option
  BY DEF ValueOf, KeyOf
<1> HIDE DEF n, k, new, v, d
<1> DEFINE R == TotalOf(Sizes(old), Options(old) \ {k})
<1>4. TotalOf(Sizes(new), Options(new) \ {k}) = R
  <2>1. Options(new) \ {k} = Options(old) \ {k}
    <3>1. ASSUME NEW h PROVE h \in Options(new) \ {k} <=> h \in Options(old) \ {k}
      BY <1>2 DEF Options
    <3> QED
      BY <3>1
  <2>2. \A h \in Options(old) \ {k} : Sizes(new)[h] = Sizes(old)[h]
    BY <1>2 DEF Sizes, Options
  <2> QED
    BY <2>1, <2>2, TotalAgrees
<1>5. /\ R \in Nat /\ OptionsNotional(old) \in Nat
      /\ OptionsNotional(old) = (IF k \in Options(old) THEN Sizes(old)[k] ELSE 0) + R
  <2> DEFINE f == Sizes(old)
             S == Options(old)
  <2>1. IsFiniteSet(S) /\ \A y \in S : f[y] \in Nat
    BY SummandsAreNat DEF Options
  <2>2. OptionsNotional(old) = TotalOf(f, S)
    BY OptionsIsTotal
  <2> HIDE DEF f, S
  <2>3. /\ TotalOf(f, S) \in Nat /\ TotalOf(f, S \ {k}) \in Nat
        /\ TotalOf(f, S) = (IF k \in S THEN f[k] ELSE 0) + TotalOf(f, S \ {k})
    BY <2>1, TotalWithout
  <2> QED
    BY <2>2, <2>3 DEF f, S
<1>6. /\ OptionsNotional(new) \in Nat
      /\ OptionsNotional(new) = (IF k \in Options(new) THEN Sizes(new)[k] ELSE 0) + R
  <2> DEFINE f == Sizes(new)
             S == Options(new)
  <2>1. IsFiniteSet(S) /\ \A y \in S : f[y] \in Nat
    BY <1>2, SummandsAreNat DEF Options
  <2>2. OptionsNotional(new) = TotalOf(f, S)
    BY <1>2, OptionsIsTotal
  <2> HIDE DEF f, S
  <2>3. /\ TotalOf(f, S) \in Nat /\ TotalOf(f, S \ {k}) \in Nat
        /\ TotalOf(f, S) = (IF k \in S THEN f[k] ELSE 0) + TotalOf(f, S \ {k})
    BY <2>1, TotalWithout
  <2> QED
    BY <1>4, <2>2, <2>3 DEF f, S
<1> HIDE DEF R
<1>7. CASE k.option
  <2>1. (IF k \in Options(old) THEN Sizes(old)[k] ELSE 0) = Magnitude(v)
    BY <1>3, <1>7 DEF Sizes, Magnitude, Options
  <2>2. (IF k \in Options(new) THEN Sizes(new)[k] ELSE 0) <= Magnitude(v) + n
    BY <1>1, <1>2, <1>7 DEF Sizes, Magnitude, Options
  <2>3. Magnitude(v) \in Int /\ (IF k \in Options(new) THEN Sizes(new)[k] ELSE 0) \in Int
    BY <1>1, <1>2 DEF Sizes, Magnitude, Options
  <2> QED
    BY <1>1, <1>3, <1>5, <1>6, <1>7, <2>1, <2>2, <2>3 DEF n, new
<1>8. CASE ~k.option
  <2>1. k \notin Options(old) /\ k \notin Options(new)
    BY <1>8 DEF Options
  <2>2. OptionsNotional(new) = R /\ OptionsNotional(old) = R
    BY <1>5, <1>6, <2>1
  <2> QED
    BY <1>1, <1>5, <2>2 DEF n, new
<1> QED
  BY <1>7, <1>8

-----------------------------------------------------------------------------
(* The theorems.                                                           *)

\* An item the gate lets through: sized, and under every cap.
LEMMA Passed ==
  ASSUME IInv, NEW i \in Items, Trade(i), positions' # positions
  PROVE  /\ TargetNotional(i, equity) \in Nat /\ positions' = Booked(i)
         /\ ShortCodes(i, TargetNotional(i, equity), Portfolio, Policy) = {}
         /\ OptionCodes(i, TargetNotional(i, equity), Portfolio, Policy) = {}
         /\ GrossCodes(TargetNotional(i, equity), Portfolio, Policy) = {}
         /\ HoldingCodes(i, Portfolio, Policy) = {}
<1>1. verdict' = {} /\ positions' = Booked(i) /\ Evaluate(i, Portfolio, Policy) = {}
  BY DEF Trade
<1>2. ~Unsized(i, equity) /\ Portfolio.equity = equity
  BY <1>1 DEF Evaluate, Portfolio
<1>3. equity \in Int
  BY BookAssumption DEF IInv, TypeOK
<1>4. TargetNotional(i, equity) \in Nat
  BY <1>2, <1>3, TargetIsNat
<1> QED
  BY <1>1, <1>2, <1>4 DEF Evaluate

\* The invariant holds at first, of a book without positions.
LEMMA InitInv ==
  ASSUME Init PROVE IInv
<1>1. DOMAIN positions = {} /\ positions = [k \in DOMAIN positions |-> positions[k]]
  BY DEF Init, NoPositions
<1>2. IsFiniteSet(DOMAIN positions)
  BY <1>1, FS_EmptySet
<1> QED
  BY <1>1, <1>2 DEF Init, IInv, Book, TypeOK

\* The gate answers with codes.
LEMMA CodesOnly ==
  ASSUME NEW item, NEW pf, NEW policy
  PROVE  Evaluate(item, pf, policy) \subseteq Codes
BY DEF Evaluate, Codes, PositionCodes, ShortCodes, OptionCodes, LeverageCodes, GrossCodes, HoldingCodes

\* Every trade and every snapshot keeps the invariant.
LEMMA StepInv ==
  ASSUME IInv, [Next]_vars PROVE IInv'
<1>1. ASSUME NEW i \in Items, Trade(i) PROVE IInv'
  <2>1. verdict' \subseteq Codes /\ equity' = equity
    BY <1>1, CodesOnly DEF Trade
  <2>2. Book(positions')
    <3>1. CASE positions' = positions
      BY <3>1 DEF IInv
    <3>2. CASE positions' # positions
      <4>1. positions' = Booked(i) /\ Signed(i) \in Int
        BY <1>1, <3>2, Passed DEF Signed
      <4>2. Book(Booked(i))
        BY <4>1, Booking DEF IInv
      <4> QED
        BY <4>1, <4>2
    <3> QED
      BY <3>1, <3>2
  <2> QED
    BY <2>1, <2>2 DEF IInv, TypeOK, Book
<1>2. ASSUME NEW e \in Equities, Snapshot(e) PROVE IInv'
  BY <1>2 DEF Snapshot, IInv, TypeOK, Book
<1>3. CASE UNCHANGED vars
  BY <1>3 DEF vars, IInv, TypeOK, Book
<1> QED
  BY <1>1, <1>2, <1>3 DEF Next

\* The book of every course of approvals is one of finitely many positions,
\* none of them flat, under an equity and a verdict of the right types.
THEOREM Invariance == Spec => []IInv
<1>1. Init => IInv
  BY InitInv
<1>2. IInv /\ [Next]_vars => IInv'
  BY StepInv
<1> QED
  BY <1>1, <1>2, PTL DEF Spec

\* Every reachable book is well typed.
THEOREM TypeCorrect == Spec => []TypeOK
<1>1. IInv => TypeOK
  BY DEF IInv
<1> QED
  BY <1>1, Invariance, PTL

\* Only a trade changes the book.
LEMMA WhoTrades ==
  ASSUME [Next]_vars, positions' # positions
  PROVE  \E i \in Items : Trade(i)
BY DEF Next, Snapshot, vars

\* A trade leaves gross exposure under its cap.
LEMMA GrossCapped ==
  ASSUME IInv, [Next]_vars, positions' # positions
  PROVE  ~Over(GrossExposure(positions'), Policy.grossPct, equity)
<1>1. PICK i \in Items : Trade(i)
  BY WhoTrades
<1> DEFINE n == TargetNotional(i, equity)
           room == Policy.grossPct * equity
<1>2. n \in Nat /\ positions' = Booked(i) /\ GrossCodes(n, Portfolio, Policy) = {}
  BY <1>1, Passed
<1>3. 100 * (GrossExposure(positions) + n) <= room
  <2>1. ~Over(GrossExposure(positions) + n, Policy.grossPct, equity)
    BY <1>2 DEF GrossCodes, Portfolio
  <2>2. room \in Int /\ GrossExposure(positions) + n \in Int
    <3>1. Policy.grossPct \in Int /\ equity \in Int
      BY BookAssumption DEF IInv, TypeOK
    <3> QED
      BY <1>2, <3>1, GrossGrows DEF IInv
  <2> QED
    BY <2>1, <2>2 DEF Over
<1>4. /\ GrossExposure(positions) \in Nat /\ GrossExposure(Booked(i)) \in Nat
      /\ GrossExposure(Booked(i)) <= GrossExposure(positions) + n
  BY <1>2, GrossGrows DEF IInv
<1>5. room \in Int
  BY BookAssumption DEF IInv, TypeOK
<1> HIDE DEF n, room
<1>6. ~(100 * GrossExposure(Booked(i)) > room)
  BY <1>2, <1>3, <1>4, <1>5
<1> QED
  BY <1>2, <1>6 DEF Over, room

\* A short sale or a cover adds to the short exposure within its cap only.
LEMMA ShortCapped ==
  ASSUME IInv, NEW i \in Items, Trade(i), i.side \in ShortSides,
         ShortExposure(positions') > ShortExposure(positions)
  PROVE  ~Over(ShortExposure(positions'), Policy.shortPct, equity)
<1> DEFINE n == TargetNotional(i, equity)
           room == Policy.shortPct * equity
           old == ShortExposure(positions)
           new == ShortExposure(Booked(i))
<1>1. positions' # positions
  <2> SUFFICES ASSUME positions' = positions PROVE FALSE
    OBVIOUS
  <2>1. ShortExposure(positions) \in Nat
    BY ShortIsTotal, SummandsAreNat, UnitsFinite DEF IInv
  <2>2. ShortExposure(positions') = ShortExposure(positions)
    OBVIOUS
  <2> QED
    BY <2>1, <2>2
<1>2. n \in Nat /\ positions' = Booked(i) /\ ShortCodes(i, n, Portfolio, Policy) = {}
  BY <1>1, Passed
<1>3. old \in Nat /\ new \in Nat /\ new <= old + n
  BY <1>2, ShortGrows DEF IInv
<1>4. room \in Int
  BY BookAssumption DEF IInv, TypeOK
<1>5. ~Over(old + n, Policy.shortPct, equity)
  BY <1>2 DEF ShortCodes, Portfolio
<1>6. ~(100 * (old + n) > room)
  BY <1>5 DEF Over
<1> HIDE DEF n, room, old, new
<1>7. ~(100 * new > room)
  BY <1>2, <1>3, <1>4, <1>6
<1> QED
  BY <1>2, <1>7 DEF Over, room, new

\* Options notional grows within its cap only.
LEMMA OptionsCapped ==
  ASSUME IInv, [Next]_vars, OptionsNotional(positions') > OptionsNotional(positions)
  PROVE  ~Over(OptionsNotional(positions'), Policy.optionsPct, equity)
<1>1. positions' # positions
  <2> SUFFICES ASSUME positions' = positions PROVE FALSE
    OBVIOUS
  <2>1. \A k \in Options(positions) : Sizes(positions)[k] \in Nat
    BY SummandsAreNat DEF IInv, Options
  <2>2. OptionsNotional(positions) \in Nat
    BY <2>1, OptionsIsTotal, SummandsAreNat, UnitsFinite DEF IInv
  <2>3. OptionsNotional(positions') = OptionsNotional(positions)
    OBVIOUS
  <2> QED
    BY <2>2, <2>3
<1>2. PICK i \in Items : Trade(i)
  BY <1>1, WhoTrades
<1> DEFINE n == TargetNotional(i, equity)
           room == Policy.optionsPct * equity
           old == OptionsNotional(positions)
           new == OptionsNotional(Booked(i))
<1>3. n \in Nat /\ positions' = Booked(i) /\ OptionCodes(i, n, Portfolio, Policy) = {}
  BY <1>1, <1>2, Passed
<1>4. old \in Nat /\ new \in Nat /\ new <= old + n /\ (i.instrument # "option" => new = old)
  BY <1>3, OptionsGrow DEF IInv
<1>5. room \in Int
  BY BookAssumption DEF IInv, TypeOK
<1>6. i.instrument = "option"
  BY <1>3, <1>4
<1>7. ~Over(old + n, Policy.optionsPct, equity)
  BY <1>3, <1>6 DEF OptionCodes, Portfolio
<1>8. ~(100 * (old + n) > room)
  BY <1>7 DEF Over
<1> HIDE DEF n, room, old, new
<1>9. ~(100 * new > room)
  BY <1>3, <1>4, <1>5, <1>8
<1> QED
  BY <1>3, <1>9 DEF Over, room, new

\* A book has no more symbols than positions.
LEMMA SymbolsAreFew ==
  ASSUME NEW held, Book(held)
  PROVE  /\ IsFiniteSet(Symbols(held))
         /\ Cardinality(Symbols(held)) \in Nat /\ Cardinality(DOMAIN held) \in Nat
         /\ Cardinality(Symbols(held)) <= Cardinality(DOMAIN held)
<1> DEFINE of == [k \in DOMAIN held |-> k.symbol]
<1>1. of \in Surjection(DOMAIN held, Symbols(held))
  BY DEF Surjection, Symbols
<1>2. IsFiniteSet(DOMAIN held)
  BY DEF Book
<1> HIDE DEF of
<1>3. IsFiniteSet(Symbols(held)) /\ Cardinality(Symbols(held)) <= Cardinality(DOMAIN held)
  BY <1>1, <1>2, FS_Surjection
<1> QED
  BY <1>2, <1>3, FS_CardinalityType

\* A buy or a short sale opens no symbol beyond the limit.
LEMMA HoldingsCapped ==
  ASSUME IInv, NEW i \in Items, Trade(i), i.side \in {"buy", "sell_short"},
         ~(Symbols(positions') \subseteq Symbols(positions))
  PROVE  Cardinality(Symbols(positions')) <= Policy.maxHoldings
<1>1. positions' # positions
  OBVIOUS
<1>2. /\ positions' = Booked(i) /\ HoldingCodes(i, Portfolio, Policy) = {} /\ Signed(i) \in Int
  BY <1>1, Passed DEF Signed
<1>3. Book(positions) /\ DOMAIN Booked(i) \ {KeyOf(i)} = DOMAIN positions \ {KeyOf(i)}
  BY <1>2, Booking DEF IInv
<1>4. Symbols(positions') \subseteq Symbols(positions) \cup {i.symbol}
  <2>1. KeyOf(i).symbol = i.symbol
    BY DEF KeyOf
  <2>2. ASSUME NEW k \in DOMAIN positions' PROVE k \in DOMAIN positions \/ k = KeyOf(i)
    BY <1>2, <1>3
  <2> QED
    BY <2>1, <2>2 DEF Symbols
<1>5. ~Holds(positions, i.symbol) /\ i.symbol \notin Symbols(positions)
  BY <1>4 DEF Symbols, Holds
<1>6. Cardinality(DOMAIN positions) + 1 <= Policy.maxHoldings
  <2>1. ~(Cardinality(DOMAIN positions) + 1 > Policy.maxHoldings)
    BY <1>2, <1>5 DEF HoldingCodes, Portfolio
  <2> QED
    BY <1>3, <2>1, SymbolsAreFew, BookAssumption
<1> DEFINE S == Symbols(positions)
           T == Symbols(positions')
<1>7. /\ IsFiniteSet(S) /\ Cardinality(S) \in Nat /\ Cardinality(DOMAIN positions) \in Nat
      /\ Cardinality(S) <= Cardinality(DOMAIN positions)
  BY <1>3, SymbolsAreFew
<1>8. T \in SUBSET (S \cup {i.symbol}) /\ i.symbol \notin S
  BY <1>4, <1>5
<1> HIDE DEF S, T
<1>9. IsFiniteSet(S \cup {i.symbol}) /\ Cardinality(S \cup {i.symbol}) = Cardinality(S) + 1
  BY <1>7, <1>8, FS_AddElement
<1>10. IsFiniteSet(T) /\ Cardinality(T) <= Cardinality(S \cup {i.symbol})
  BY <1>8, <1>9, FS_Subset
<1>11. Cardinality(T) \in Nat
  BY <1>10, FS_CardinalityType
<1>12. Cardinality(T) <= Policy.maxHoldings
  BY <1>6, <1>7, <1>9, <1>10, <1>11, BookAssumption
<1> QED
  BY <1>12 DEF T

\* However many approvals and equity changes came before, a gate that is shown
\* the real positions keeps every cap of the policy at once.
THEOREM CapsAreKept == Spec => CapsHold
<1>1. IInv /\ [Next]_vars =>
        [positions' # positions => ~Over(GrossExposure(positions'), Policy.grossPct, equity)]_vars
  BY GrossCapped
<1>2. IInv /\ [Next]_vars =>
        [\A i \in Items :
           Trade(i) /\ i.side \in ShortSides
             /\ ShortExposure(positions') > ShortExposure(positions)
             => ~Over(ShortExposure(positions'), Policy.shortPct, equity)]_vars
  BY ShortCapped
<1>3. IInv /\ [Next]_vars =>
        [OptionsNotional(positions') > OptionsNotional(positions) =>
           ~Over(OptionsNotional(positions'), Policy.optionsPct, equity)]_vars
  BY OptionsCapped
<1>4. IInv /\ [Next]_vars =>
        [\A i \in Items :
           Trade(i) /\ i.side \in {"buy", "sell_short"}
             /\ ~(Symbols(positions') \subseteq Symbols(positions))
             => Cardinality(Symbols(positions')) <= Policy.maxHoldings]_vars
  BY HoldingsCapped
<1> QED
  BY <1>1, <1>2, <1>3, <1>4, Invariance, PTL
     DEF Spec, CapsHold, GrossSound, ShortSound, OptionsSound, HoldingsBounded

=============================================================================
