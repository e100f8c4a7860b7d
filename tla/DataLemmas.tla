----------------------------- MODULE DataLemmas -----------------------------
(***************************************************************************)
(* Facts about numbers and sequences that the proofs of several components *)
(* rest on.  The prover cannot instantiate an induction rule that takes a  *)
(* predicate, so Induction is stated for a set of numbers, and the set is  *)
(* built where it is used.                                                 *)
(***************************************************************************)
EXTENDS Lists, SequenceTheorems, FiniteSetTheorems, WellFoundedInduction, TLAPS

\* A set of numbers that is not empty has a least element.
LEMMA Least ==
  ASSUME NEW T \in SUBSET Nat, T # {}
  PROVE  \E x \in T : \A y \in T : x <= y
<1> DEFINE R == OpToRel(<, Nat)
<1>1. IsWellFoundedOn(R, Nat)
  BY NatLessThanWellFounded
<1>2. \A x, y \in Nat : y < x => <<y, x>> \in R
  BY DEF OpToRel
<1> HIDE DEF R
<1>3. PICK x \in T : \A y \in T : ~(<<y, x>> \in R)
  BY <1>1, WFMin
<1>4. \A y \in T : x <= y
  <2> TAKE y \in T
  <2>1. x \in Nat /\ y \in Nat /\ ~(y < x)
    BY <1>2, <1>3
  <2> QED
    BY <2>1
<1> QED
  BY <1>3, <1>4

\* A bounded set of numbers that is not empty has a greatest element.
LEMMA Greatest ==
  ASSUME NEW n \in Nat, NEW T \in SUBSET (0..n), T # {}
  PROVE  Max(T) \in T
<1> DEFINE U == {n - x : x \in T}
<1>1. U \in SUBSET Nat /\ U # {}
  <2>1. ASSUME NEW x \in T PROVE n - x \in Nat
    <3>1. x \in 0..n
      OBVIOUS
    <3> QED
      BY <3>1
  <2> QED
    BY <2>1
<1>2. PICK u \in U : \A v \in U : u <= v
  BY <1>1, Least
<1>3. PICK x \in T : u = n - x
  BY <1>2
<1>4. \A y \in T : x >= y
  <2> TAKE y \in T
  <2>1. n - y \in U
    OBVIOUS
  <2>2. u <= n - y /\ x \in 0..n /\ y \in 0..n
    BY <1>2, <2>1
  <2> QED
    BY <1>3, <2>2
<1> QED
  BY <1>3, <1>4 DEF Max

\* The greatest element, when it is known.
LEMMA MaxIs ==
  ASSUME NEW S \in SUBSET Int, NEW x \in S, \A y \in S : x >= y
  PROVE  Max(S) = x
<1>1. \A z \in S : (\A y \in S : z >= y) => z = x
  OBVIOUS
<1>2. (CHOOSE z \in S : \A y \in S : z >= y) = x
  BY <1>1
<1> QED
  BY <1>2 DEF Max

\* A set with 0 that has the successor of each of its numbers has them all.
LEMMA Induction ==
  ASSUME NEW T, 0 \in T, \A n \in Nat : n \in T => n + 1 \in T
  PROVE  \A n \in Nat : n \in T
<1> DEFINE Bad == {n \in Nat : n \notin T}
<1> SUFFICES Bad = {}
  OBVIOUS
<1> SUFFICES ASSUME Bad # {} PROVE FALSE
  OBVIOUS
<1>1. PICK n \in Bad : \A m \in Bad : n <= m
  <2>1. Bad \in SUBSET Nat
    OBVIOUS
  <2> QED
    BY <2>1, Least
<1>2. n \in Nat /\ n # 0 /\ n \notin T
  BY <1>1
<1>3. n - 1 \in Nat /\ (n - 1) + 1 = n /\ ~(n <= n - 1)
  BY <1>2
<1>4. n - 1 \in T
  BY <1>1, <1>3
<1> QED
  BY <1>2, <1>3, <1>4

\* What has been appended is in the sequence, and nothing is lost.
LEMMA RangeAppend ==
  ASSUME NEW S, NEW q \in Seq(S), NEW x \in S
  PROVE  /\ Append(q, x) \in Seq(S)
         /\ Range(Append(q, x)) = Range(q) \cup {x}
<1> DEFINE r == Append(q, x)
<1>1. /\ r \in Seq(S) /\ Len(q) \in Nat /\ Len(r) = Len(q) + 1
      /\ r[Len(q) + 1] = x /\ \A i \in 1..Len(q) : r[i] = q[i]
  BY AppendProperties
<1>2. DOMAIN r = 1..Len(r) /\ DOMAIN q = 1..Len(q)
  BY <1>1
<1> HIDE DEF r
<1>3. DOMAIN r = DOMAIN q \cup {Len(q) + 1}
  BY <1>1, <1>2
<1> QED
  <2>1. Range(r) = Range(q) \cup {x}
    BY <1>1, <1>2, <1>3 DEF Range
  <2> QED
    BY <1>1, <2>1 DEF r

\* Two sequences joined have the elements of both, and no other.
LEMMA ConcatElements ==
  ASSUME NEW S, NEW x \in Seq(S), NEW y \in Seq(S)
  PROVE  /\ x \o y \in Seq(S)
         /\ \A e : e \in ToSet(x \o y) <=> e \in ToSet(x) \/ e \in ToSet(y)
<1> DEFINE z == x \o y
<1>1. /\ z \in Seq(S) /\ Len(x) \in Nat /\ Len(y) \in Nat /\ Len(z) = Len(x) + Len(y)
      /\ \A i \in 1..Len(z) : z[i] = IF i <= Len(x) THEN x[i] ELSE y[i - Len(x)]
      /\ DOMAIN z = 1..Len(z) /\ DOMAIN x = 1..Len(x) /\ DOMAIN y = 1..Len(y)
  BY ConcatProperties
<1> HIDE DEF z
<1>2. ASSUME NEW i \in 1..Len(z) PROVE z[i] \in ToSet(x) \/ z[i] \in ToSet(y)
  <2>1. CASE i <= Len(x)
    BY <1>1, <2>1 DEF ToSet
  <2>2. CASE ~(i <= Len(x))
    <3>1. i - Len(x) \in 1..Len(y)
      BY <1>1, <2>2
    <3> QED
      BY <1>1, <2>2, <3>1 DEF ToSet
  <2> QED
    BY <2>1, <2>2
<1>3. ASSUME NEW i \in 1..Len(x) PROVE x[i] \in ToSet(z)
  <2>1. i \in 1..Len(z) /\ z[i] = x[i]
    BY <1>1
  <2> QED
    BY <1>1, <2>1 DEF ToSet
<1>4. ASSUME NEW i \in 1..Len(y) PROVE y[i] \in ToSet(z)
  <2>1. /\ Len(x) + i \in 1..Len(z) /\ ~(Len(x) + i <= Len(x)) /\ (Len(x) + i) - Len(x) = i
    BY <1>1
  <2>2. z[Len(x) + i] = y[i]
    BY <1>1, <2>1
  <2> QED
    BY <1>1, <2>1, <2>2 DEF ToSet
<1> QED
  BY <1>1, <1>2, <1>3, <1>4 DEF ToSet, z

-----------------------------------------------------------------------------
(* FlattenSeq: the recursive function in it exists, and its value is a     *)
(* sequence of elements of the sequences.                                  *)

Flattens(f, seqs, m) ==
  f = [i \in 1..m |-> IF i = 1 THEN seqs[i] ELSE f[i - 1] \o seqs[i]]

\* The function that FlattenSeq folds with exists, whatever the parts.
LEMMA FlattenExists ==
  ASSUME NEW seqs
  PROVE  \A m \in Nat : \E f : Flattens(f, seqs, m)
<1> DEFINE T == {m \in Nat : \E f : Flattens(f, seqs, m)}
<1>1. 0 \in T
  <2>1. Flattens([i \in 1..0 |-> 0], seqs, 0)
    BY DEF Flattens
  <2> QED
    BY <2>1
<1>2. ASSUME NEW m \in Nat, m \in T PROVE m + 1 \in T
  <2>1. PICK f : Flattens(f, seqs, m)
    BY <1>2
  <2> DEFINE g == [i \in 1..m + 1 |-> IF i = m + 1 THEN (IF i = 1 THEN seqs[i] ELSE f[i - 1] \o seqs[i])
                                                  ELSE f[i]]
  <2>2. ASSUME NEW i \in 1..m + 1
        PROVE  g[i] = IF i = 1 THEN seqs[i] ELSE g[i - 1] \o seqs[i]
    <3>1. CASE i = m + 1
      <4>1. i # 1 => i - 1 \in 1..m /\ i - 1 # m + 1 /\ i - 1 \in 1..m + 1
        BY <3>1
      <4> QED
        BY <3>1, <4>1
    <3>2. CASE i # m + 1
      <4>1. i \in 1..m /\ (i # 1 => i - 1 \in 1..m + 1 /\ i - 1 # m + 1)
        BY <3>2
      <4>2. f[i] = IF i = 1 THEN seqs[i] ELSE f[i - 1] \o seqs[i]
        BY <2>1, <4>1 DEF Flattens
      <4> QED
        BY <3>2, <4>1, <4>2
    <3> QED
      BY <3>1, <3>2
  <2>3. g = [i \in 1..m + 1 |-> g[i]]
    OBVIOUS
  <2> HIDE DEF g
  <2>4. g = [i \in 1..m + 1 |-> IF i = 1 THEN seqs[i] ELSE g[i - 1] \o seqs[i]]
    BY <2>2, <2>3
  <2>5. Flattens(g, seqs, m + 1)
    BY <2>4 DEF Flattens
  <2> QED
    BY <2>5
<1> HIDE DEF T
<1>3. \A m \in Nat : m \in T
  BY <1>1, <1>2, Induction
<1> QED
  BY <1>3 DEF T

\* The elements of a flattened sequence are those of its parts.
LEMMA FlattenElements ==
  ASSUME NEW S, NEW seqs \in Seq(Seq(S))
  PROVE  /\ FlattenSeq(seqs) \in Seq(S)
         /\ \A x : x \in ToSet(FlattenSeq(seqs)) <=> \E i \in DOMAIN seqs : x \in ToSet(seqs[i])
<1> DEFINE n == Len(seqs)
           f == CHOOSE f : Flattens(f, seqs, n)
           Part(x, m) == \E i \in 1..m : x \in ToSet(seqs[i])
           T == {m \in Nat : m \in 1..n => f[m] \in Seq(S) /\ \A x : x \in ToSet(f[m]) <=> Part(x, m)}
<1>1. n \in Nat /\ DOMAIN seqs = 1..n /\ \A i \in 1..n : seqs[i] \in Seq(S)
  OBVIOUS
<1>2. FlattenSeq(seqs) = IF n = 0 THEN seqs ELSE f[n]
  BY DEF FlattenSeq, Flattens
<1>3. Flattens(f, seqs, n)
  BY <1>1, FlattenExists
<1> HIDE DEF f
<1>4. \A i \in 1..n : f[i] = IF i = 1 THEN seqs[i] ELSE f[i - 1] \o seqs[i]
  BY <1>3 DEF Flattens
<1>5. 0 \in T
  BY <1>1
<1>6. ASSUME NEW m \in Nat, m \in T PROVE m + 1 \in T
  <2> DEFINE Sound(k) == k \in 1..n => f[k] \in Seq(S) /\ \A x : x \in ToSet(f[k]) <=> Part(x, k)
  <2>0. \A k \in Nat : k \in T <=> Sound(k)
    OBVIOUS
  <2> SUFFICES Sound(m + 1)
    <3> HIDE DEF Sound, T
    <3> QED
      BY <2>0, m + 1 \in Nat
  <2> SUFFICES ASSUME m + 1 \in 1..n
               PROVE  f[m + 1] \in Seq(S) /\ \A x : x \in ToSet(f[m + 1]) <=> Part(x, m + 1)
    OBVIOUS
  <2>1. seqs[m + 1] \in Seq(S) /\ (m + 1) - 1 = m
    BY <1>1
  <2>2. CASE m = 0
    <3>1. f[m + 1] = seqs[m + 1]
      BY <1>4, <2>2
    <3>2. \A x : Part(x, m + 1) <=> x \in ToSet(seqs[m + 1])
      BY <2>2
    <3> QED
      BY <2>1, <3>1, <3>2
  <2>3. CASE m # 0
    <3>1. m \in 1..n /\ m + 1 # 1
      BY <1>1, <2>3
    <3>2. f[m + 1] = f[m] \o seqs[m + 1] /\ f[m] \in Seq(S) /\ \A x : x \in ToSet(f[m]) <=> Part(x, m)
      BY <1>4, <1>6, <2>1, <3>1
    <3>3. f[m + 1] \in Seq(S) /\ \A x : x \in ToSet(f[m + 1]) <=> x \in ToSet(f[m]) \/ x \in ToSet(seqs[m + 1])
      BY <2>1, <3>2, ConcatElements
    <3>4. \A x : Part(x, m + 1) <=> Part(x, m) \/ x \in ToSet(seqs[m + 1])
      OBVIOUS
    <3> QED
      BY <3>2, <3>3, <3>4
  <2> QED
    BY <2>2, <2>3
<1> HIDE DEF T
<1>7. \A m \in Nat : m \in T
  BY <1>5, <1>6, Induction
<1>8. CASE n = 0
  BY <1>1, <1>2, <1>8 DEF ToSet
<1>9. CASE n # 0
  <2>1. n \in 1..n /\ n \in T
    BY <1>1, <1>7, <1>9
  <2> QED
    BY <1>1, <1>2, <1>9, <2>1 DEF T
<1> QED
  BY <1>8, <1>9

-----------------------------------------------------------------------------
(* Sums over sets.  MapThenSumSet folds with a recursive function on the   *)
(* subsets; what it computes is found by counting.                         *)

Places(q, x) == {i \in DOMAIN q : q[i] = x}
PlacesIn(q, S) == {i \in DOMAIN q : q[i] \in S}

SumOver(f, S) == MapThenSumSet(LAMBDA x : f[x], S)

SumsUp(g, f, S) ==
  g = [s \in SUBSET S |-> IF s = {} THEN 0
                          ELSE f[CHOOSE x \in s : TRUE] + g[s \ {CHOOSE x \in s : TRUE}]]

\* Counting the places of each member of a set, and adding up, counts the
\* places of the set: so the recursive function exists, and it is the count.
LEMMA CountsSumUp ==
  ASSUME NEW S, IsFiniteSet(S), NEW h, IsFiniteSet(DOMAIN h), NEW f,
         \A x \in S : f[x] = Cardinality(Places(h, x))
  PROVE  /\ \E g : SumsUp(g, f, S)
         /\ \A g : SumsUp(g, f, S) => g[S] = Cardinality(PlacesIn(h, S))
<1> USE DEF Places, PlacesIn
<1> DEFINE I == DOMAIN h
           On(s) == {i \in I : h[i] \in s}
           Count == [s \in SUBSET S |-> Cardinality(On(s))]
           x1(s) == CHOOSE x \in s : TRUE
<1>1. ASSUME NEW s \in SUBSET S, s # {}
      PROVE  Count[s] = f[x1(s)] + Count[s \ {x1(s)}]
  <2> DEFINE x == x1(s)
  <2>1. x \in s
    BY <1>1
  <2> HIDE DEF x
  <2> DEFINE r == {i \in I : h[i] = x}
  <2>2. On(s) = r \cup On(s \ {x}) /\ r \cap On(s \ {x}) = {}
    BY <2>1
  <2>3. r \in SUBSET I /\ On(s \ {x}) \in SUBSET I /\ s \ {x} \in SUBSET S
    OBVIOUS
  <2>4. IsFiniteSet(r) /\ IsFiniteSet(On(s \ {x}))
    BY <2>3, FS_Subset
  <2> DEFINE o == On(s \ {x})
  <2> HIDE DEF r, o
  <2>5. Cardinality(r \cup o) = Cardinality(r) + Cardinality(o)
    <3>1. Cardinality(r \cup o) = Cardinality(r) + Cardinality(o) - Cardinality(r \cap o)
      BY <2>4, FS_Union DEF o
    <3>2. Cardinality(r) \in Nat /\ Cardinality(o) \in Nat
      BY <2>4, FS_CardinalityType DEF o
    <3>3. r \cap o = {} /\ Cardinality({}) = 0
      BY <2>2, FS_EmptySet DEF o
    <3>4. Cardinality(r \cap o) = 0
      BY <3>3
    <3> QED
      BY <3>1, <3>2, <3>4
  <2>6. Cardinality(r) = f[x]
    BY <2>1 DEF r
  <2> QED
    BY <2>2, <2>3, <2>5, <2>6 DEF o, x
<1>2. SumsUp(Count, f, S)
  <2>1. Count[{}] = 0
    BY FS_EmptySet
  <2> HIDE DEF On
  <2>2. \A s \in SUBSET S : Count[s] = IF s = {} THEN 0 ELSE f[x1(s)] + Count[s \ {x1(s)}]
    BY <1>1, <2>1
  <2>3. Count = [s \in SUBSET S |-> Count[s]]
    OBVIOUS
  <2> HIDE DEF Count
  <2> QED
    BY <2>2, <2>3 DEF SumsUp
<1> SUFFICES ASSUME NEW g, SumsUp(g, f, S) PROVE g[S] = Count[S]
  BY <1>2
<1>3. SumsUp(g, f, S)
  OBVIOUS
<1>4. \A s \in SUBSET S : g[s] = IF s = {} THEN 0 ELSE f[x1(s)] + g[s \ {x1(s)}]
  BY <1>3 DEF SumsUp
<1> DEFINE T == {n \in Nat : \A s \in SUBSET S : Cardinality(s) = n => g[s] = Count[s]}
<1> HIDE DEF Count
<1>5. Count[{}] = 0
  BY FS_EmptySet DEF Count
<1>6. 0 \in T
  <2>1. ASSUME NEW s \in SUBSET S, Cardinality(s) = 0 PROVE g[s] = Count[s]
    <3>1. s = {}
      BY <2>1, FS_Subset, FS_EmptySet
    <3> QED
      BY <1>4, <1>5, <3>1
  <2> QED
    BY <2>1
<1>7. ASSUME NEW n \in Nat, n \in T PROVE n + 1 \in T
  <2>1. ASSUME NEW s \in SUBSET S, Cardinality(s) = n + 1 PROVE g[s] = Count[s]
    <3> DEFINE x == x1(s)
               r == s \ {x}
    <3>1. IsFiniteSet(s) /\ s # {}
      BY <2>1, FS_Subset, FS_EmptySet
    <3>2. x \in s /\ r \in SUBSET S
      BY <3>1
    <3> HIDE DEF x
    <3>3. Cardinality(r) = n
      <4>1. Cardinality(r) = IF x \in s THEN Cardinality(s) - 1 ELSE Cardinality(s)
        BY <3>1, FS_RemoveElement
      <4> QED
        BY <2>1, <3>2, <4>1
    <3>4. g[r] = Count[r]
      BY <1>7, <3>2, <3>3
    <3> QED
      BY ZenonT(30), <1>1, <1>4, <3>1, <3>4 DEF x
  <2> QED
    BY <2>1
<1> HIDE DEF T
<1>8. Cardinality(S) \in T
  BY <1>6, <1>7, Induction, FS_CardinalityType
<1> QED
  BY <1>2, <1>8 DEF T, Count

\* What SumOver computes of counts.
LEMMA SumOfCounts ==
  ASSUME NEW S, IsFiniteSet(S), NEW h, IsFiniteSet(DOMAIN h), NEW f,
         \A x \in S : f[x] = Cardinality(Places(h, x))
  PROVE  SumOver(f, S) = Cardinality(PlacesIn(h, S))
<1> DEFINE g == CHOOSE g : SumsUp(g, f, S)
<1>1. SumOver(f, S) = g[S]
  BY DEF SumOver, MapThenSumSet, MapThenFoldSet, SumsUp
<1>2. SumsUp(g, f, S)
  BY CountsSumUp
<1> HIDE DEF g
<1> QED
  BY <1>1, <1>2, CountsSumUp

\* A sum of natural numbers, as a count of its units.
Units(f, S) == {u \in S \X Nat : 1 <= u[2] /\ u[2] <= f[u[1]]}
TotalOf(f, S) == Cardinality(Units(f, S))

\* The units of one member are as many as its number.
LEMMA UnitsOfOne ==
  ASSUME NEW x, NEW f, f[x] \in Nat
  PROVE  IsFiniteSet(Units(f, {x})) /\ TotalOf(f, {x}) = f[x]
<1> DEFINE A == {x}
           Z == 1..f[x]
<1>1. Units(f, {x}) = A \X Z
  BY DEF Units
<1>2. IsFiniteSet(A) /\ Cardinality(A) = 1
  BY FS_Singleton
<1>3. IsFiniteSet(Z) /\ Cardinality(Z) = f[x]
  <2>1. f[x] \in Int /\ 1 \in Int
    OBVIOUS
  <2>2. IsFiniteSet(1..f[x]) /\ Cardinality(1..f[x]) = IF 1 > f[x] THEN 0 ELSE f[x] - 1 + 1
    BY <2>1, FS_Interval
  <2> QED
    BY <2>2
<1> HIDE DEF A, Z
<1>4. IsFiniteSet(A \X Z) /\ Cardinality(A \X Z) = Cardinality(A) * Cardinality(Z)
  BY <1>2, <1>3, FS_Product
<1>5. Cardinality(A) * Cardinality(Z) = f[x]
  BY <1>2, <1>3
<1>6. IsFiniteSet(Units(f, {x})) /\ Cardinality(Units(f, {x})) = f[x]
  BY <1>1, <1>4, <1>5
<1> QED
  BY <1>6 DEF TotalOf

\* Finitely many numbers have finitely many units.
LEMMA UnitsFinite ==
  ASSUME NEW S, IsFiniteSet(S), NEW f, \A x \in S : f[x] \in Nat
  PROVE  IsFiniteSet(Units(f, S)) /\ TotalOf(f, S) \in Nat
<1> DEFINE part == [x \in S |-> Units(f, {x})]
           Parts == {Units(f, {x}) : x \in S}
<1>1. part \in Surjection(S, Parts)
  BY DEF Surjection
<1>2. IsFiniteSet(Parts)
  BY <1>1, FS_Surjection
<1>3. \A P \in Parts : IsFiniteSet(P)
  BY UnitsOfOne
<1>4. Units(f, S) = UNION Parts
  BY DEF Units
<1> HIDE DEF Parts
<1>5. IsFiniteSet(Units(f, S))
  BY <1>2, <1>3, <1>4, FS_UNION
<1> QED
  BY <1>5, FS_CardinalityType DEF TotalOf

\* One number taken out of a sum.
LEMMA TotalWithout ==
  ASSUME NEW S, IsFiniteSet(S), NEW f, \A y \in S : f[y] \in Nat, NEW x
  PROVE  /\ TotalOf(f, S) \in Nat /\ TotalOf(f, S \ {x}) \in Nat
         /\ TotalOf(f, S) = (IF x \in S THEN f[x] ELSE 0) + TotalOf(f, S \ {x})
<1> DEFINE r == S \ {x}
<1>1. IsFiniteSet(r) /\ r \in SUBSET S
  BY FS_Subset
<1>2. IsFiniteSet(Units(f, r)) /\ TotalOf(f, r) \in Nat /\ TotalOf(f, S) \in Nat
  BY <1>1, UnitsFinite
<1>3. CASE x \in S
  <2>1. IsFiniteSet(Units(f, {x})) /\ TotalOf(f, {x}) = f[x]
    BY <1>3, UnitsOfOne
  <2>2. Units(f, S) = Units(f, {x}) \cup Units(f, r) /\ Units(f, {x}) \cap Units(f, r) = {}
    BY <1>3 DEF Units
  <2>3. Cardinality(Units(f, {x}) \cup Units(f, r))
          = Cardinality(Units(f, {x})) + Cardinality(Units(f, r)) - Cardinality({})
    BY ZenonT(30), <1>2, <2>1, <2>2, FS_Union
  <2>4. Cardinality({}) = 0 /\ f[x] \in Nat
    BY <1>3, FS_EmptySet
  <2> QED
    BY <1>2, <1>3, <2>1, <2>2, <2>3, <2>4 DEF TotalOf
<1>4. CASE x \notin S
  <2>1. S \ {x} = S
    BY <1>4
  <2>2. TotalOf(f, S \ {x}) = TotalOf(f, S)
    BY <2>1
  <2> QED
    BY <1>2, <1>4, <2>2
<1> QED
  BY <1>3, <1>4

\* A sum of the same numbers is the same.
LEMMA TotalAgrees ==
  ASSUME NEW S, NEW f, NEW g, \A x \in S : f[x] = g[x]
  PROVE  TotalOf(f, S) = TotalOf(g, S)
<1>1. Units(f, S) = Units(g, S)
  BY DEF Units
<1> QED
  BY <1>1 DEF TotalOf

\* The recursive function that adds up natural numbers exists, and its value
\* is their sum.
LEMMA SumsAreTotals ==
  ASSUME NEW S, IsFiniteSet(S), NEW f, \A x \in S : f[x] \in Nat
  PROVE  /\ \E g : SumsUp(g, f, S)
         /\ \A g : SumsUp(g, f, S) => g[S] = TotalOf(f, S)
<1> DEFINE h == [u \in Units(f, S) |-> u[1]]
<1>1. DOMAIN h = Units(f, S) /\ IsFiniteSet(DOMAIN h)
  BY UnitsFinite
<1>2. ASSUME NEW x \in S PROVE f[x] = Cardinality(Places(h, x))
  <2>1. Places(h, x) = Units(f, {x})
    BY DEF Places, Units
  <2> QED
    BY <2>1, UnitsOfOne DEF TotalOf
<1>3. PlacesIn(h, S) = Units(f, S)
  BY DEF PlacesIn, Units
<1> HIDE DEF h
<1> QED
  BY <1>1, <1>2, <1>3, CountsSumUp DEF TotalOf

\* There is at most one function that adds up, as far as its value matters.
LEMMA SumUnique ==
  ASSUME NEW S, IsFiniteSet(S), NEW f, NEW g, NEW h, SumsUp(g, f, S), SumsUp(h, f, S)
  PROVE  g[S] = h[S]
<1> DEFINE x1(s) == CHOOSE x \in s : TRUE
           T == {n \in Nat : \A s \in SUBSET S : Cardinality(s) = n => g[s] = h[s]}
<1>1. \A s \in SUBSET S : /\ g[s] = IF s = {} THEN 0 ELSE f[x1(s)] + g[s \ {x1(s)}]
                          /\ h[s] = IF s = {} THEN 0 ELSE f[x1(s)] + h[s \ {x1(s)}]
  BY DEF SumsUp
<1>2. 0 \in T
  <2>1. ASSUME NEW s \in SUBSET S, Cardinality(s) = 0 PROVE g[s] = h[s]
    <3>1. s = {}
      BY <2>1, FS_Subset, FS_EmptySet
    <3> QED
      BY <1>1, <3>1
  <2> QED
    BY <2>1
<1>3. ASSUME NEW n \in Nat, n \in T PROVE n + 1 \in T
  <2>1. ASSUME NEW s \in SUBSET S, Cardinality(s) = n + 1 PROVE g[s] = h[s]
    <3> DEFINE x == x1(s)
               r == s \ {x}
    <3>1. IsFiniteSet(s) /\ s # {}
      BY <2>1, FS_Subset, FS_EmptySet
    <3>2. x \in s /\ r \in SUBSET S
      BY <3>1
    <3>3. g[s] = f[x] + g[r] /\ h[s] = f[x] + h[r]
      BY <1>1, <3>1
    <3> HIDE DEF x
    <3>4. Cardinality(r) = n
      <4>1. Cardinality(r) = IF x \in s THEN Cardinality(s) - 1 ELSE Cardinality(s)
        BY <3>1, FS_RemoveElement
      <4> QED
        BY <2>1, <3>2, <4>1
    <3>5. g[r] = h[r]
      BY <1>3, <3>2, <3>4
    <3> QED
      BY <3>3, <3>5
  <2> QED
    BY <2>1
<1> HIDE DEF T
<1>4. Cardinality(S) \in T
  BY <1>2, <1>3, Induction, FS_CardinalityType
<1> QED
  BY <1>4 DEF T

\* A sum of integers none of which is above a bound.
LEMMA SumBelow ==
  ASSUME NEW S, IsFiniteSet(S), NEW b \in Int, NEW f, \A x \in S : f[x] \in Int /\ f[x] <= b
  PROVE  SumOver(f, S) \in Int /\ SumOver(f, S) <= Cardinality(S) * b
<1> DEFINE d == [x \in S |-> b - f[x]]
           G == [s \in SUBSET S |-> Cardinality(s) * b - TotalOf(d, s)]
           x1(s) == CHOOSE x \in s : TRUE
<1>1. \A x \in S : d[x] \in Nat /\ f[x] = b - d[x]
  OBVIOUS
<1> HIDE DEF d
<1>2. ASSUME NEW s \in SUBSET S
      PROVE  Cardinality(s) \in Nat /\ TotalOf(d, s) \in Nat /\ IsFiniteSet(s)
  <2>1. IsFiniteSet(s)
    BY FS_Subset
  <2> QED
    BY <1>1, <2>1, FS_CardinalityType, UnitsFinite
<1>3. ASSUME NEW s \in SUBSET S, s # {}
      PROVE  G[s] = f[x1(s)] + G[s \ {x1(s)}]
  <2> DEFINE x == x1(s)
             r == s \ {x}
  <2>1. x \in s
    BY <1>3
  <2> HIDE DEF x
  <2>2. x \in S /\ r \in SUBSET S
    BY <2>1
  <2>3. Cardinality(r) = IF x \in s THEN Cardinality(s) - 1 ELSE Cardinality(s)
    BY <1>2, FS_RemoveElement
  <2>4. TotalOf(d, s) = (IF x \in s THEN d[x] ELSE 0) + TotalOf(d, r)
    <3>1. IsFiniteSet(s) /\ \A y \in s : d[y] \in Nat
      BY <1>1, <1>2
    <3> QED
      BY <3>1, TotalWithout
  <2> DEFINE k == Cardinality(r)
             t == TotalOf(d, r)
  <2>5. k \in Nat /\ t \in Nat /\ Cardinality(s) = k + 1 /\ TotalOf(d, s) = d[x] + t
    BY <1>2, <2>1, <2>2, <2>3, <2>4
  <2>6. G[s] = (k + 1) * b - (d[x] + t) /\ G[r] = k * b - t
    BY <2>2, <2>5
  <2> HIDE DEF k, t, r, G
  <2>7. d[x] \in Int /\ f[x] = b - d[x] /\ b \in Int /\ k \in Int /\ t \in Int
    BY <1>1, <2>2, <2>5
  <2>8. (k + 1) * b = k * b + b
    BY <2>7
  <2>9. k * b \in Int
    BY <2>7
  <2>10. (k * b + b) - (d[x] + t) = (b - d[x]) + (k * b - t)
    BY <2>7, <2>9
  <2>11. G[s] = f[x] + G[r]
    BY <2>6, <2>7, <2>8, <2>10
  <2> QED
    BY <2>11 DEF x, r
<1>4. G[{}] = 0
  <2>1. Cardinality({}) = 0 /\ Units(d, {}) = {}
    BY FS_EmptySet DEF Units
  <2>2. TotalOf(d, {}) = 0 /\ 0 * b = 0
    BY <2>1 DEF TotalOf
  <2> QED
    BY <2>1, <2>2
<1>5. SumsUp(G, f, S)
  <2>1. \A s \in SUBSET S : G[s] = IF s = {} THEN 0 ELSE f[x1(s)] + G[s \ {x1(s)}]
    BY <1>3, <1>4
  <2>2. G = [s \in SUBSET S |-> G[s]]
    OBVIOUS
  <2> HIDE DEF G
  <2> QED
    BY <2>1, <2>2 DEF SumsUp
<1> DEFINE g == CHOOSE g : SumsUp(g, f, S)
<1>6. SumOver(f, S) = g[S]
  BY DEF SumOver, MapThenSumSet, MapThenFoldSet, SumsUp
<1>7. G[S] = Cardinality(S) * b - TotalOf(d, S)
  OBVIOUS
<1> HIDE DEF G
<1>8. SumsUp(g, f, S)
  BY <1>5
<1> HIDE DEF g
<1>9. g[S] = G[S]
  BY <1>5, <1>8, SumUnique
<1>10. Cardinality(S) * b \in Int /\ TotalOf(d, S) \in Nat
  <2>1. Cardinality(S) \in Nat /\ TotalOf(d, S) \in Nat
    BY <1>2
  <2> QED
    BY <2>1
<1> QED
  BY <1>6, <1>7, <1>9, <1>10

-----------------------------------------------------------------------------
(* How often an element occurs in a sequence.                              *)

\* The lesser of two numbers.
LEMMA MinOfTwo ==
  ASSUME NEW a \in Int, NEW b \in Int
  PROVE  Min({a, b}) = IF a <= b THEN a ELSE b
<1> DEFINE m == IF a <= b THEN a ELSE b
<1>1. m \in {a, b} /\ \A y \in {a, b} : m <= y
  OBVIOUS
<1>2. \A x, y \in Int : x <= y /\ y <= x => x = y
  OBVIOUS
<1>3. ASSUME NEW x \in {a, b}, \A y \in {a, b} : x <= y PROVE x = m
  BY <1>1, <1>2, <1>3
<1> HIDE DEF m
<1>4. (CHOOSE x \in {a, b} : \A y \in {a, b} : x <= y) = m
  BY <1>1, <1>3
<1> QED
  BY <1>4 DEF Min, m

\* Every place of a sequence is one of its first numbers.
LEMMA PlacesInFinite ==
  ASSUME NEW S, NEW q \in Seq(S), NEW X
  PROVE  IsFiniteSet(PlacesIn(q, X)) /\ Cardinality(PlacesIn(q, X)) \in Nat
<1>1. PlacesIn(q, X) \in SUBSET (1..Len(q)) /\ Len(q) \in Int /\ 1 \in Int
  BY DEF PlacesIn
<1>2. IsFiniteSet(1..Len(q))
  BY <1>1, FS_Interval
<1>3. IsFiniteSet(PlacesIn(q, X))
  BY <1>1, <1>2, FS_Subset
<1> QED
  BY <1>3, FS_CardinalityType

\* What is appended has one place more among the elements it belongs to.
LEMMA AppendPlacesIn ==
  ASSUME NEW S, NEW q \in Seq(S), NEW e \in S, NEW X
  PROVE  Cardinality(PlacesIn(Append(q, e), X)) = Cardinality(PlacesIn(q, X)) + IF e \in X THEN 1 ELSE 0
<1> DEFINE r == Append(q, e)
<1>1. /\ r \in Seq(S) /\ Len(q) \in Nat /\ Len(r) = Len(q) + 1
      /\ r[Len(q) + 1] = e /\ \A i \in 1..Len(q) : r[i] = q[i]
      /\ DOMAIN r = 1..Len(r) /\ DOMAIN q = 1..Len(q)
  BY AppendProperties
<1> HIDE DEF r
<1>2. DOMAIN r = DOMAIN q \cup {Len(q) + 1} /\ Len(q) + 1 \notin DOMAIN q
  BY <1>1
<1>3. IsFiniteSet(PlacesIn(q, X)) /\ Cardinality(PlacesIn(q, X)) \in Nat /\ Len(q) + 1 \notin PlacesIn(q, X)
  BY <1>2, PlacesInFinite DEF PlacesIn
<1>4. CASE e \in X
  <2>1. PlacesIn(r, X) = PlacesIn(q, X) \cup {Len(q) + 1}
    BY <1>1, <1>2, <1>4 DEF PlacesIn
  <2>2. Cardinality(PlacesIn(r, X)) = Cardinality(PlacesIn(q, X)) + 1
    BY <1>3, <2>1, FS_AddElement
  <2> QED
    BY <1>4, <2>2 DEF r
<1>5. CASE e \notin X
  <2>1. PlacesIn(r, X) = PlacesIn(q, X)
    BY <1>1, <1>2, <1>5 DEF PlacesIn
  <2> QED
    BY <1>3, <1>5, <2>1 DEF r
<1> QED
  BY <1>4, <1>5

\* What is appended has one place more.
LEMMA AppendPlaces ==
  ASSUME NEW S, NEW q \in Seq(S), NEW e \in S, NEW x
  PROVE  Cardinality(Places(Append(q, e), x)) = Cardinality(Places(q, x)) + IF e = x THEN 1 ELSE 0
<1> DEFINE X == {x}
<1>1. Cardinality(PlacesIn(Append(q, e), X)) = Cardinality(PlacesIn(q, X)) + IF e \in X THEN 1 ELSE 0
  BY AppendPlacesIn
<1>2. PlacesIn(Append(q, e), X) = Places(Append(q, e), x) /\ PlacesIn(q, X) = Places(q, x)
  BY DEF Places, PlacesIn
<1> QED
  BY <1>1, <1>2

\* Nothing is lost of elements that do not occur in what is cut off.
LEMMA SuffixPlacesIn ==
  ASSUME NEW S, NEW q \in Seq(S), NEW n \in 0..Len(q), NEW X, \A i \in 1..n : q[i] \notin X
  PROVE  /\ SubSeq(q, n + 1, Len(q)) \in Seq(S)
         /\ Len(SubSeq(q, n + 1, Len(q))) = Len(q) - n
         /\ Cardinality(PlacesIn(SubSeq(q, n + 1, Len(q)), X)) = Cardinality(PlacesIn(q, X))
<1> DEFINE r == SubSeq(q, n + 1, Len(q))
<1>1. /\ r \in Seq(S) /\ Len(q) \in Nat /\ n \in Nat /\ n <= Len(q) /\ Len(r) = Len(q) - n
      /\ \A i \in 1..Len(q) - n : r[i] = q[n + i]
      /\ DOMAIN r = 1..Len(q) - n /\ DOMAIN q = 1..Len(q)
  <2>1. Len(q) \in Nat /\ n \in Nat /\ n <= Len(q) /\ DOMAIN q = 1..Len(q)
    OBVIOUS
  <2>2. \A i \in n + 1..Len(q) : q[i] \in S
    BY <2>1, ElementOfSeq
  <2>3. r \in Seq(S) /\ Len(r) = Len(q) - n /\ \A i \in 1..Len(q) - n : r[i] = q[n + i]
    OBVIOUS
  <2> QED
    BY <2>1, <2>3
<1> HIDE DEF r
<1> DEFINE f == [i \in PlacesIn(r, X) |-> n + i]
<1>2. \A i \in PlacesIn(r, X) : n + i \in PlacesIn(q, X)
  <2> TAKE i \in PlacesIn(r, X)
  <2>1. i \in 1..Len(q) - n /\ r[i] \in X
    BY <1>1 DEF PlacesIn
  <2>2. n + i \in 1..Len(q)
    BY <1>1, <2>1
  <2> QED
    BY <1>1, <2>1, <2>2 DEF PlacesIn
<1>3. \A j \in PlacesIn(q, X) : j - n \in PlacesIn(r, X) /\ n + (j - n) = j
  <2> TAKE j \in PlacesIn(q, X)
  <2>1. j \in 1..Len(q) /\ q[j] \in X
    BY <1>1 DEF PlacesIn
  <2>2. j \notin 1..n
    BY <2>1
  <2>3. j - n \in 1..Len(q) - n /\ n + (j - n) = j
    BY <1>1, <2>1, <2>2
  <2>4. r[j - n] \in X
    BY <1>1, <2>1, <2>3
  <2> QED
    BY <1>1, <2>3, <2>4 DEF PlacesIn
<1>4. \A i, j \in PlacesIn(r, X) : n + i = n + j => i = j
  <2>1. \A i \in PlacesIn(r, X) : i \in Int
    BY <1>1 DEF PlacesIn
  <2> QED
    BY <1>1, <2>1
<1>5. f \in Surjection(PlacesIn(r, X), PlacesIn(q, X))
  <2>1. f \in [PlacesIn(r, X) -> PlacesIn(q, X)]
    BY <1>2
  <2>2. ASSUME NEW j \in PlacesIn(q, X) PROVE \E i \in PlacesIn(r, X) : f[i] = j
    BY <1>3
  <2> QED
    BY <2>1, <2>2 DEF Surjection
<1>6. f \in Injection(PlacesIn(r, X), PlacesIn(q, X))
  <2>1. f \in [PlacesIn(r, X) -> PlacesIn(q, X)]
    BY <1>2
  <2>2. ASSUME NEW i \in PlacesIn(r, X), NEW j \in PlacesIn(r, X), f[i] = f[j] PROVE i = j
    BY <1>4, <2>2
  <2> HIDE DEF f
  <2> QED
    BY <2>1, <2>2 DEF Injection, IsInjective
<1>7. IsFiniteSet(PlacesIn(r, X)) /\ IsFiniteSet(PlacesIn(q, X))
  BY <1>1, PlacesInFinite
<1> HIDE DEF f
<1>8. Cardinality(PlacesIn(q, X)) = Cardinality(PlacesIn(r, X))
  BY <1>5, <1>6, <1>7, FS_Surjection
<1> QED
  BY <1>1, <1>8 DEF r

-----------------------------------------------------------------------------
(* FoldLeft folds with a recursive function on the sets of places.  When   *)
(* the operator is a function F on values of a type, there is one.         *)

FoldsUp(g, F, base, q, n) ==
  \A s \in SUBSET (1..n) :
    g[s] = IF s = {} THEN base ELSE F[<<g[s \ {Max(s)}], q[Max(s)]>>]

LEMMA FoldExists ==
  ASSUME NEW V, NEW E, NEW q \in Seq(E), NEW F \in [V \X E -> V], NEW base \in V
  PROVE  \E g \in [SUBSET DOMAIN q -> V] : FoldsUp(g, F, base, q, Len(q))
<1> DEFINE n == Len(q)
           Good(g, m) == g \in [SUBSET (1..m) -> V] /\ FoldsUp(g, F, base, q, m)
           T == {m \in Nat : m <= n => \E g : Good(g, m)}
<1>1. n \in Nat /\ DOMAIN q = 1..n /\ \A i \in 1..n : q[i] \in E
  OBVIOUS
<1> HIDE DEF n
<1>2. 0 \in T
  <2>1. SUBSET (1..0) = {{}}
    OBVIOUS
  <2> DEFINE g == [s \in SUBSET (1..0) |-> base]
  <2>2. Good(g, 0)
    BY <2>1 DEF FoldsUp
  <2> QED
    BY <2>2
<1>3. ASSUME NEW m \in Nat, m \in T PROVE m + 1 \in T
  <2> SUFFICES ASSUME m + 1 <= n PROVE \E g : Good(g, m + 1)
    <3> HIDE DEF Good
    <3> QED
      OBVIOUS
  <2>1. m <= n
    BY <1>1
  <2>2. PICK g : Good(g, m)
    BY <1>3, <2>1
  <2> DEFINE k == m + 1
             G == [s \in SUBSET (1..k) |-> IF k \in s THEN F[<<g[s \ {k}], q[k]>>] ELSE g[s]]
  <2>3. k \in 1..n /\ q[k] \in E /\ k \in Nat
    BY <1>1
  <2>4. ASSUME NEW s \in SUBSET (1..k), k \in s
        PROVE  /\ s \ {k} \in SUBSET (1..m) /\ Max(s) = k /\ g[s \ {k}] \in V
               /\ s \ {k} \in SUBSET (1..k)
    <3>1. \A i \in s : i \in Int /\ k >= i /\ (i # k => i \in 1..m)
      OBVIOUS
    <3>2. s \ {k} \in SUBSET (1..m) /\ s \in SUBSET Int
      BY <3>1
    <3> HIDE DEF k
    <3>3. Max(s) = k
      BY <2>4, <3>1, <3>2, MaxIs
    <3> QED
      BY <2>2, <3>2, <3>3
  <2>5. ASSUME NEW s \in SUBSET (1..k), k \notin s
        PROVE  s \in SUBSET (1..m) /\ g[s] \in V
               /\ (s # {} => Max(s) \in s /\ s \ {Max(s)} \in SUBSET (1..m))
    <3>1. s \in SUBSET (1..m)
      BY <2>5
    <3>2. s \in SUBSET (0..m)
      BY <3>1
    <3>3. s # {} => Max(s) \in s
      BY <3>2, Greatest
    <3> QED
      BY <2>2, <3>1, <3>3
  <2> HIDE DEF k
  <2>6. ASSUME NEW s \in SUBSET (1..k) PROVE G[s] \in V
    <3>1. CASE k \in s
      <4>1. <<g[s \ {k}], q[k]>> \in V \X E
        BY <2>3, <2>4, <3>1
      <4>2. F[<<g[s \ {k}], q[k]>>] \in V
        BY <4>1
      <4> QED
        BY <3>1, <4>2
    <3>2. CASE k \notin s
      BY <2>5, <3>2
    <3> QED
      BY <3>1, <3>2
  <2>7. G \in [SUBSET (1..k) -> V]
    BY <2>6
  <2>8. ASSUME NEW s \in SUBSET (1..k)
        PROVE  G[s] = IF s = {} THEN base ELSE F[<<G[s \ {Max(s)}], q[Max(s)]>>]
    <3>1. CASE k \in s
      <4>1. G[s \ {k}] = g[s \ {k}] /\ Max(s) = k /\ s # {}
        BY <2>4, <3>1
      <4> QED
        BY <3>1, <4>1
    <3>2. CASE k \notin s
      <4>1. s \in SUBSET (1..m) /\ G[s] = g[s]
        BY <2>5, <3>2
      <4>2. g[s] = IF s = {} THEN base ELSE F[<<g[s \ {Max(s)}], q[Max(s)]>>]
        BY <2>2, <4>1 DEF FoldsUp
      <4>3. s # {} => G[s \ {Max(s)}] = g[s \ {Max(s)}]
        BY <3>2
      <4> HIDE DEF G
      <4> QED
        BY <4>1, <4>2, <4>3
    <3> QED
      BY <3>1, <3>2
  <2> HIDE DEF G
  <2>9. Good(G, k)
    BY <2>7, <2>8 DEF FoldsUp
  <2> QED
    BY <2>9 DEF k
<1> HIDE DEF T
<1>4. n \in T
  BY <1>1, <1>2, <1>3, Induction
<1>5. \E g : Good(g, n)
  <2> HIDE DEF Good
  <2>1. n <= n => \E g : Good(g, n)
    BY <1>4 DEF T
  <2> QED
    BY <1>1, <2>1
<1> QED
  BY <1>1, <1>5 DEF n

\* The places up to k, and the last of them.
LEMMA LastPlace ==
  ASSUME NEW k \in Nat \ {0}
  PROVE  Max(1..k) = k /\ (1..k) \ {k} = 1..k - 1 /\ 1..k # {}
<1>1. k \in 1..k /\ 1..k \in SUBSET Int /\ \A i \in 1..k : k >= i
  OBVIOUS
<1>2. Max(1..k) = k
  BY <1>1, MaxIs
<1> QED
  BY <1>1, <1>2

-----------------------------------------------------------------------------
(* Orders.  A strict total order on a finite set numbers its elements.     *)

StrictOrder(S, R) ==
  /\ \A x \in S : <<x, x>> \notin R
  /\ \A x, y, z \in S : <<x, y>> \in R /\ <<y, z>> \in R => <<x, z>> \in R
  /\ \A x, y \in S : x = y \/ <<x, y>> \in R \/ <<y, x>> \in R

Below(S, R, x) == {y \in S : <<y, x>> \in R}
PlaceBy(S, R, x) == 1 + Cardinality(Below(S, R, x))

\* Places are 1 to the number of elements, and the lesser place is the lesser
\* element's.
LEMMA Ranking ==
  ASSUME NEW S, IsFiniteSet(S), NEW R, StrictOrder(S, R)
  PROVE  /\ Cardinality(S) \in Nat
         /\ {PlaceBy(S, R, x) : x \in S} = 1..Cardinality(S)
         /\ \A x, y \in S : <<x, y>> \in R <=> PlaceBy(S, R, x) < PlaceBy(S, R, y)
         /\ \A x, y \in S : PlaceBy(S, R, x) = PlaceBy(S, R, y) => x = y
<1> DEFINE n == Cardinality(S)
           place == [x \in S |-> PlaceBy(S, R, x)]
<1>1. n \in Nat
  BY FS_CardinalityType
<1>2. ASSUME NEW x \in S
      PROVE  /\ IsFiniteSet(Below(S, R, x)) /\ Cardinality(Below(S, R, x)) \in Nat
             /\ Cardinality(Below(S, R, x)) < n
  <2>1. Below(S, R, x) \in SUBSET S /\ x \notin Below(S, R, x)
    BY DEF Below, StrictOrder
  <2>2. IsFiniteSet(Below(S, R, x)) /\ Cardinality(Below(S, R, x)) <= n /\ Cardinality(Below(S, R, x)) # n
    BY <2>1, FS_Subset
  <2> QED
    BY <1>1, <2>2, FS_CardinalityType
<1>3. ASSUME NEW x \in S, NEW y \in S, <<x, y>> \in R
      PROVE  PlaceBy(S, R, x) < PlaceBy(S, R, y)
  <2>1. Below(S, R, x) \in SUBSET Below(S, R, y) /\ x \in Below(S, R, y) /\ x \notin Below(S, R, x)
    BY <1>3 DEF Below, StrictOrder
  <2>2. /\ Cardinality(Below(S, R, x)) <= Cardinality(Below(S, R, y))
        /\ Cardinality(Below(S, R, x)) # Cardinality(Below(S, R, y))
    BY <1>2, <2>1, FS_Subset
  <2> QED
    BY <1>2, <2>2 DEF PlaceBy
<1>4. \A x \in S : PlaceBy(S, R, x) \in 1..n
  BY <1>1, <1>2 DEF PlaceBy
<1>5. \A x, y \in S : PlaceBy(S, R, x) < PlaceBy(S, R, y) => <<x, y>> \in R
  <2> TAKE x, y \in S
  <2>1. x = y \/ <<x, y>> \in R \/ <<y, x>> \in R
    BY DEF StrictOrder
  <2>2. PlaceBy(S, R, x) \in Nat /\ PlaceBy(S, R, y) \in Nat
    BY <1>4, <1>1
  <2> QED
    BY <1>3, <2>1, <2>2
<1>6. \A x, y \in S : PlaceBy(S, R, x) = PlaceBy(S, R, y) => x = y
  <2> TAKE x, y \in S
  <2>1. x = y \/ <<x, y>> \in R \/ <<y, x>> \in R
    BY DEF StrictOrder
  <2>2. PlaceBy(S, R, x) \in Nat /\ PlaceBy(S, R, y) \in Nat
    BY <1>4, <1>1
  <2> QED
    BY <1>3, <2>1, <2>2
<1>7. place \in Injection(S, 1..n)
  <2>1. place \in [S -> 1..n]
    BY <1>4
  <2>2. \A x, y \in S : place[x] = place[y] => x = y
    BY <1>6
  <2> HIDE DEF place
  <2> QED
    BY <2>1, <2>2 DEF Injection, IsInjective
<1>8. IsFiniteSet(1..n) /\ Cardinality(1..n) = n
  BY <1>1, FS_Interval
<1>9. place \in Surjection(S, 1..n)
  BY <1>7, <1>8, FS_Injection
<1>10. {PlaceBy(S, R, x) : x \in S} = 1..n
  <2>1. \A i \in 1..n : \E x \in S : place[x] = i
    BY <1>9 DEF Surjection
  <2> QED
    BY <1>4, <2>1
<1> QED
  BY <1>1, <1>3, <1>5, <1>6, <1>10

SortedBy(S, R) == [i \in 1..Cardinality(S) |-> CHOOSE x \in S : PlaceBy(S, R, x) = i]

\* A sorted set is a sequence that has each element once, in order.
LEMMA SortedSequence ==
  ASSUME NEW S, IsFiniteSet(S), NEW R, StrictOrder(S, R)
  PROVE  LET s == SortedBy(S, R) IN
         /\ s \in Seq(S) /\ Len(s) = Cardinality(S) /\ DOMAIN s = 1..Cardinality(S)
         /\ \A x \in S : \E i \in DOMAIN s : s[i] = x
         /\ \A i, j \in DOMAIN s : i < j => <<s[i], s[j]>> \in R
         /\ \A i, j \in DOMAIN s : s[i] = s[j] => i = j
<1> DEFINE s == SortedBy(S, R)
           n == Cardinality(S)
<1>1. /\ n \in Nat /\ {PlaceBy(S, R, x) : x \in S} = 1..n
      /\ \A x, y \in S : <<x, y>> \in R <=> PlaceBy(S, R, x) < PlaceBy(S, R, y)
      /\ \A x, y \in S : PlaceBy(S, R, x) = PlaceBy(S, R, y) => x = y
  BY Ranking
<1>2. s = [i \in 1..n |-> CHOOSE x \in S : PlaceBy(S, R, x) = i]
  BY DEF SortedBy
<1> HIDE DEF s
<1>3. \A i \in 1..n : s[i] \in S /\ PlaceBy(S, R, s[i]) = i
  <2> TAKE i \in 1..n
  <2>1. \E x \in S : PlaceBy(S, R, x) = i
    BY <1>1
  <2>2. s[i] = CHOOSE x \in S : PlaceBy(S, R, x) = i
    BY <1>2
  <2> QED
    BY <2>1, <2>2
<1>4. DOMAIN s = 1..n
  BY <1>2
<1> HIDE DEF n
<1>5. s \in [1..n -> S]
  BY <1>2, <1>3
<1>6. s \in Seq(S) /\ Len(s) = n
  BY <1>1, <1>5
<1>7. ASSUME NEW x \in S PROVE \E i \in 1..n : s[i] = x
  <2>1. PlaceBy(S, R, x) \in 1..n
    BY <1>1
  <2> QED
    BY <1>1, <1>3, <2>1
<1> QED
  BY <1>1, <1>3, <1>4, <1>6, <1>7 DEF s, n

\* One that is the last of them.
LEMMA LastOf ==
  ASSUME NEW S, IsFiniteSet(S), S # {}, NEW R, StrictOrder(S, R)
  PROVE  \E x \in S : \A y \in S : <<x, y>> \notin R
<1> DEFINE n == Cardinality(S)
<1>1. /\ n \in Nat /\ {PlaceBy(S, R, x) : x \in S} = 1..n
      /\ \A x, y \in S : <<x, y>> \in R <=> PlaceBy(S, R, x) < PlaceBy(S, R, y)
  BY Ranking
<1>2. n \in 1..n
  BY <1>1, FS_EmptySet
<1> HIDE DEF n
<1>3. PICK x \in S : PlaceBy(S, R, x) = n
  BY <1>1, <1>2
<1>4. ASSUME NEW y \in S PROVE <<x, y>> \notin R
  <2>1. PlaceBy(S, R, y) \in 1..n
    BY <1>1
  <2> QED
    BY <1>1, <1>3, <2>1
<1> QED
  BY <1>4

\* Finitely many integers have a greatest.
LEMMA GreatestOf ==
  ASSUME NEW S, S \subseteq Int, IsFiniteSet(S), S # {}
  PROVE  Max(S) \in S /\ \A y \in S : Max(S) >= y
<1> DEFINE R == {p \in S \X S : p[1] < p[2]}
<1>1. \A x, y \in S : <<x, y>> \in R <=> x < y
  OBVIOUS
<1> HIDE DEF R
<1>2. StrictOrder(S, R)
  BY <1>1 DEF StrictOrder
<1>3. PICK x \in S : \A y \in S : <<x, y>> \notin R
  BY <1>2, LastOf
<1>4. \A y \in S : x >= y
  <2> TAKE y \in S
  <2>1. <<x, y>> \notin R /\ x \in Int /\ y \in Int
    BY <1>3
  <2>2. ~(x < y)
    BY <1>1, <2>1
  <2> QED
    BY <2>1, <2>2
<1>5. Max(S) = x
  BY <1>4, MaxIs
<1> QED
  BY <1>4, <1>5

-----------------------------------------------------------------------------
(* Only keeps the elements at the places where the test holds, in order.   *)

InOrder(I) == Sorted(I, LAMBDA i, j : i < j)
Chosen(s, I) == [k \in DOMAIN InOrder(I) |-> s[InOrder(I)[k]]]

\* Places in order: each once, the lesser first.
LEMMA Increasing ==
  ASSUME NEW I, I \subseteq Int, IsFiniteSet(I)
  PROVE  /\ InOrder(I) \in Seq(I) /\ Len(InOrder(I)) = Cardinality(I)
         /\ DOMAIN InOrder(I) = 1..Cardinality(I) /\ Cardinality(I) \in Nat
         /\ \A i \in I : \E k \in DOMAIN InOrder(I) : InOrder(I)[k] = i
         /\ \A k, l \in DOMAIN InOrder(I) : k < l => InOrder(I)[k] < InOrder(I)[l]
<1> DEFINE R == {p \in I \X I : p[1] < p[2]}
<1>1. \A x, y \in I : <<x, y>> \in R <=> x < y
  OBVIOUS
<1> HIDE DEF R
<1>2. StrictOrder(I, R)
  BY <1>1 DEF StrictOrder
<1>3. InOrder(I) = SortedBy(I, R)
  <2>1. \A x \in I : {y \in I : y < x} = Below(I, R, x)
    BY <1>1 DEF Below
  <2>2. \A x \in I : 1 + Cardinality({y \in I : y < x}) = PlaceBy(I, R, x)
    BY <2>1 DEF PlaceBy
  <2>3. InOrder(I) = [i \in 1..Cardinality(I) |->
                        CHOOSE x \in I : 1 + Cardinality({y \in I : y < x}) = i]
    BY DEF InOrder, Sorted, PlaceIn
  <2>4. \A i : (CHOOSE x \in I : 1 + Cardinality({y \in I : y < x}) = i)
                 = CHOOSE x \in I : PlaceBy(I, R, x) = i
    BY <2>2
  <2> QED
    BY <2>3, <2>4 DEF SortedBy
<1> DEFINE p == SortedBy(I, R)
<1>4. /\ p \in Seq(I) /\ Len(p) = Cardinality(I) /\ DOMAIN p = 1..Cardinality(I)
      /\ \A i \in I : \E k \in DOMAIN p : p[k] = i
      /\ \A k, l \in DOMAIN p : k < l => <<p[k], p[l]>> \in R
  BY <1>2, SortedSequence
<1> HIDE DEF p
<1>5. \A k \in DOMAIN p : p[k] \in I
  BY <1>4
<1>6. \A k, l \in DOMAIN p : k < l => p[k] < p[l]
  BY <1>1, <1>4, <1>5
<1>7. Cardinality(I) \in Nat
  BY FS_CardinalityType
<1> QED
  BY <1>3, <1>4, <1>6, <1>7 DEF p

\* What is chosen of a sequence: the elements at some places, in order.
LEMMA ChosenElements ==
  ASSUME NEW S, NEW s \in Seq(S), NEW I \in SUBSET (DOMAIN s)
  PROVE  /\ Chosen(s, I) \in Seq(S) /\ DOMAIN Chosen(s, I) = 1..Len(Chosen(s, I))
         /\ \E p \in [DOMAIN Chosen(s, I) -> I] :
              /\ \A k \in DOMAIN Chosen(s, I) : Chosen(s, I)[k] = s[p[k]]
              /\ \A i \in I : \E k \in DOMAIN Chosen(s, I) : p[k] = i
              /\ \A k, l \in DOMAIN Chosen(s, I) : k < l => p[k] < p[l]
<1> DEFINE p == InOrder(I)
           c == Chosen(s, I)
           n == Cardinality(I)
<1>1. DOMAIN s = 1..Len(s) /\ Len(s) \in Nat /\ \A i \in DOMAIN s : s[i] \in S
  OBVIOUS
<1>2. I \subseteq Int /\ IsFiniteSet(I)
  <2>1. IsFiniteSet(DOMAIN s)
    BY <1>1, FS_Interval
  <2> QED
    BY <1>1, <2>1, FS_Subset
<1>3. /\ p \in Seq(I) /\ Len(p) = n /\ DOMAIN p = 1..n /\ n \in Nat
      /\ \A i \in I : \E k \in DOMAIN p : p[k] = i
      /\ \A k, l \in DOMAIN p : k < l => p[k] < p[l]
  BY <1>2, Increasing
<1>4. c = [k \in DOMAIN p |-> s[p[k]]]
  BY DEF Chosen
<1> HIDE DEF p, c, n
<1>5. p \in [1..n -> I]
  BY <1>3
<1>6. c \in [1..n -> S] /\ DOMAIN c = 1..n
  BY <1>1, <1>3, <1>4, <1>5
<1>7. c \in Seq(S) /\ Len(c) = n
  BY <1>3, <1>6
<1>8. \E q \in [DOMAIN c -> I] :
        /\ \A k \in DOMAIN c : c[k] = s[q[k]]
        /\ \A i \in I : \E k \in DOMAIN c : q[k] = i
        /\ \A k, l \in DOMAIN c : k < l => q[k] < q[l]
  <2>1. p \in [DOMAIN c -> I] /\ \A k \in DOMAIN c : c[k] = s[p[k]]
    BY <1>3, <1>4, <1>5, <1>6
  <2> QED
    BY <1>3, <1>6, <2>1
<1> QED
  BY <1>6, <1>7, <1>8 DEF c

\* All of them: the sequence.
LEMMA ChosenAll ==
  ASSUME NEW S, NEW s \in Seq(S)
  PROVE  Chosen(s, DOMAIN s) = s
<1> DEFINE n == Len(s)
           I == 1..n
<1>1. n \in Nat /\ DOMAIN s = I
  OBVIOUS
<1> HIDE DEF n
<1>2. Cardinality(I) = n
  BY <1>1, FS_Interval
<1>3. \A x \in I : 1 + Cardinality({y \in I : y < x}) = x
  <2> TAKE x \in I
  <2>1. {y \in I : y < x} = 1..x - 1
    BY <1>1
  <2>2. x \in Nat /\ x >= 1
    BY <1>1
  <2>3. Cardinality(1..x - 1) = x - 1
    <3> DEFINE m == x - 1
    <3>1. m \in Int /\ m >= 0
      BY <2>2
    <3> HIDE DEF m
    <3>2. Cardinality(1..m) = m
      <4>1. Cardinality(1..m) = IF 1 > m THEN 0 ELSE m - 1 + 1
        BY <3>1, FS_Interval
      <4> QED
        BY <3>1, <4>1
    <3> QED
      BY <3>2 DEF m
  <2>4. 1 + (x - 1) = x
    BY <2>2
  <2> QED
    BY <2>1, <2>3, <2>4
<1>4. InOrder(I) = [i \in 1..Cardinality(I) |->
                      CHOOSE x \in I : 1 + Cardinality({y \in I : y < x}) = i]
  BY DEF InOrder, Sorted, PlaceIn
<1>5. \A i \in I : (CHOOSE x \in I : 1 + Cardinality({y \in I : y < x}) = i) = i
  BY <1>3
<1> HIDE DEF I
<1>6. InOrder(I) = [i \in I |-> i]
  BY <1>2, <1>4, <1>5 DEF I
<1>7. Chosen(s, I) = [k \in I |-> s[k]]
  BY <1>6 DEF Chosen
<1>8. s = [k \in DOMAIN s |-> s[k]]
  OBVIOUS
<1> QED
  BY <1>1, <1>7, <1>8

=============================================================================
