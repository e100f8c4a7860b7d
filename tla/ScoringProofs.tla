--------------------------- MODULE ScoringProofs ---------------------------
(***************************************************************************)
(* Proofs about Scoring, for every ledger, every history of equities and   *)
(* prices, any tracks, windows and runs.                                   *)
(***************************************************************************)
EXTENDS Scoring, DataLemmas

Snap == [day : 1..LastDay, equity : Equities]
SnapsTyped == snaps \in [Tracks -> Seq(Snap)]

-----------------------------------------------------------------------------
(* Curves.  A track has snapshots in a window if one is within it, and the *)
(* curve of its days is then a sequence of equities that is not empty.     *)

Shown(w) == {t \in Tracks : \E i \in DOMAIN snaps[t] : Within(w, snaps[t][i].day)}

\* What is seen of a track in a window are snapshots, if it has any there.
LEMMA SeenTyped ==
  ASSUME SnapsTyped, NEW t \in Tracks, NEW w
  PROVE  Seen(t, w) \in Seq(Snap) /\ (Seen(t, w) # <<>> <=> t \in Shown(w))
<1> DEFINE q == snaps[t]
           I == {i \in DOMAIN q : Within(w, q[i].day)}
           c == Chosen(q, I)
<1>1. q \in Seq(Snap)
  BY DEF SnapsTyped
<1>2. Seen(t, w) = c
  BY DEF Seen, Only, Chosen, InOrder
<1> HIDE DEF q
<1>3. I \in SUBSET DOMAIN q /\ (t \in Shown(w) <=> I # {})
  BY DEF Shown, q
<1> HIDE DEF I
<1>4. /\ c \in Seq(Snap) /\ DOMAIN c = 1..Len(c)
      /\ \E p \in [DOMAIN c -> I] : \A i \in I : \E k \in DOMAIN c : p[k] = i
  <2>1. \E p \in [DOMAIN c -> I] :
          /\ \A k \in DOMAIN c : c[k] = q[p[k]]
          /\ \A i \in I : \E k \in DOMAIN c : p[k] = i
          /\ \A k, l \in DOMAIN c : k < l => p[k] < p[l]
    BY <1>1, <1>3, ChosenElements
  <2>2. c \in Seq(Snap) /\ DOMAIN c = 1..Len(c)
    BY <1>1, <1>3, ChosenElements
  <2> QED
    BY <2>1, <2>2
<1> HIDE DEF c
<1>5. (\E k : k \in DOMAIN c) <=> I # {}
  BY <1>4
<1>6. c # <<>> <=> \E k : k \in DOMAIN c
  <2>1. c # <<>> => 1 \in DOMAIN c
    BY <1>4
  <2> QED
    BY <2>1
<1> QED
  BY <1>2, <1>3, <1>4, <1>5, <1>6

\* One equity a day, and at least one.
LEMMA DailyTyped ==
  ASSUME NEW ss \in Seq(Snap), ss # <<>>
  PROVE  Daily(ss) \in Seq(Nat) /\ Daily(ss) # <<>> /\ Len(Daily(ss)) \in Nat \ {0}
<1> DEFINE n == Len(ss)
           places == [i \in DOMAIN ss |-> i]
           I == {i \in DOMAIN places : places[i] = n \/ ss[places[i] + 1].day > ss[places[i]].day}
           last == Chosen(places, I)
<1>1. n \in Nat /\ n # 0 /\ DOMAIN ss = 1..n /\ \A i \in 1..n : ss[i].equity \in Nat
  <2>1. \A i \in 1..Len(ss) : ss[i] \in Snap
    OBVIOUS
  <2>2. \A s \in Snap : s.equity \in Nat
    BY ScoringAssumption DEF Snap
  <2> QED
    BY <2>1, <2>2
<1>2. Daily(ss) = [k \in DOMAIN last |-> ss[last[k]].equity]
  BY DEF Daily, Only, Chosen, InOrder
<1>3. places \in Seq(1..n) /\ DOMAIN places = 1..n /\ \A i \in 1..n : places[i] = i
  BY <1>1
<1> HIDE DEF places
<1>4. I \in SUBSET DOMAIN places /\ n \in I
  BY <1>1, <1>3
<1> HIDE DEF I
<1>5. last \in Seq(1..n) /\ DOMAIN last = 1..Len(last)
  BY <1>3, <1>4, ChosenElements
<1>6. \E k : k \in DOMAIN last
  <2>1. \E p \in [DOMAIN last -> I] :
          /\ \A k \in DOMAIN last : last[k] = places[p[k]]
          /\ \A i \in I : \E k \in DOMAIN last : p[k] = i
          /\ \A k, l \in DOMAIN last : k < l => p[k] < p[l]
    BY <1>3, <1>4, ChosenElements
  <2> QED
    BY <1>4, <2>1
<1> HIDE DEF last
<1>7. Len(last) \in Nat \ {0} /\ \A k \in DOMAIN last : last[k] \in 1..n
  BY <1>5, <1>6
<1>8. Daily(ss) \in [1..Len(last) -> Nat]
  BY <1>1, <1>2, <1>5, <1>7
<1>9. Daily(ss) \in Seq(Nat) /\ Len(Daily(ss)) = Len(last)
  BY <1>7, <1>8
<1> QED
  BY <1>7, <1>9

\* What Nearest returns is a whole number at most one half from the ratio.
LEMMA NearestFacts ==
  ASSUME NEW n \in Int, NEW d \in Nat \ {0}
  PROVE  /\ Nearest(n, d) \in Int
         /\ (2 * d) * Nearest(n, d) <= 2 * n + d
         /\ 2 * n <= (2 * d) * Nearest(n, d) + d
<1> DEFINE q == n \div d
           r == n % d
           k == Nearest(n, d)
           up == 2 * r > d \/ (2 * r = d /\ q % 2 = 1)
<1>1. q \in Int /\ r \in Int /\ n = d * q + r /\ 0 <= r /\ r < d
  OBVIOUS
<1>2. k = IF up THEN q + 1 ELSE q
  BY DEF Nearest
<1>3. up => 2 * r >= d
  BY <1>1
<1>4. ~up => 2 * r <= d
  BY <1>1
<1>5. d * q \in Int
  BY <1>1
<1> HIDE DEF q, r, k, up
<1>6. CASE up
  <2>1. (2 * d) * k = 2 * (d * q) + 2 * d
    BY <1>1, <1>2, <1>5, <1>6
  <2> QED
    BY <1>1, <1>2, <1>3, <1>5, <1>6, <2>1 DEF k
<1>7. CASE ~up
  <2>1. (2 * d) * k = 2 * (d * q)
    BY <1>1, <1>2, <1>5, <1>7
  <2> QED
    BY <1>1, <1>2, <1>4, <1>5, <1>7, <2>1 DEF k
<1> QED
  BY <1>6, <1>7

\* The return the tracks are ranked by is a number, or not known.
LEMMA CumTyped ==
  ASSUME SnapsTyped, NEW t \in Tracks, NEW w, t \in Shown(w)
  PROVE  Metrics(t, w).cum \in {None} \cup Int
<1> DEFINE e == Daily(Seen(t, w))
           n == Len(e)
<1>1. e \in Seq(Nat) /\ n \in Nat \ {0}
  BY SeenTyped, DailyTyped
<1>2. Metrics(t, w).cum = Quantized(CumulativeReturn(e))
  BY DEF Metrics
<1> HIDE DEF e
<1>3. e[1] \in Nat /\ Last(e) \in Nat
  BY <1>1 DEF Last
<1>4. CASE e[1] > 0
  <2> DEFINE a == Last(e) - e[1]
             b == e[1]
             c == Nearest(a * Scale, b)
  <2>1. CumulativeReturn(e) = <<a, b>>
    BY <1>4 DEF CumulativeReturn, Change
  <2>2. a \in Int /\ b \in Nat /\ b > 0 /\ Scale \in Nat
    BY <1>3, <1>4, ScoringAssumption
  <2>3. <<a, b>> # None \/ Quantized(<<a, b>>) = None
    BY DEF Quantized
  <2> HIDE DEF a, b
  <2>4. c \in Int
    BY <2>2, NearestFacts
  <2>5. <<a, b>>[1] = a /\ <<a, b>>[2] = b
    OBVIOUS
  <2>6. Quantized(<<a, b>>) = IF <<a, b>> = None THEN None ELSE c
    BY <2>5 DEF Quantized
  <2> HIDE DEF c
  <2> QED
    BY <1>2, <2>1, <2>4, <2>6
<1>5. CASE ~(e[1] > 0)
  BY <1>2, <1>5 DEF CumulativeReturn, Quantized
<1> QED
  BY <1>4, <1>5

-----------------------------------------------------------------------------
(* Ranks.                                                                  *)

\* What Rank gives the tracks of a list: the places 1 to n, each once, the
\* larger return ahead.
LEMMA RanksOf ==
  ASSUME NEW D \in SUBSET Tracks, NEW cum \in [D -> {None} \cup Int]
  PROVE  /\ {Rank(cum, t) : t \in D} = 1..Cardinality(D)
         /\ \A t, u \in D : Ahead(cum[t], cum[u]) => Rank(cum, t) < Rank(cum, u)
<1> DEFINE R == {p \in D \X D : Precedes(cum, p[1], p[2])}
<1>1. \A t \in Tracks : Position(t) \in Nat /\ TrackList[Position(t)] = t
  <2> TAKE t \in Tracks
  <2>1. \E i \in DOMAIN TrackList : TrackList[i] = t
    BY DEF Tracks, Range
  <2>2. Position(t) \in DOMAIN TrackList /\ TrackList[Position(t)] = t
    BY <2>1 DEF Position
  <2>3. DOMAIN TrackList \in SUBSET Nat
    BY ScoringAssumption
  <2> QED
    BY <2>2, <2>3
<1>2. IsFiniteSet(D)
  <2>1. DOMAIN TrackList = 1..Len(TrackList) /\ Len(TrackList) \in Nat
    BY ScoringAssumption
  <2>2. IsFiniteSet(DOMAIN TrackList)
    BY <2>1, FS_Interval
  <2>3. TrackList \in Surjection(DOMAIN TrackList, Tracks)
    <3>1. TrackList \in [DOMAIN TrackList -> Tracks]
      BY <2>1, ScoringAssumption
    <3> QED
      BY <3>1 DEF Surjection, Tracks, Range
  <2> QED
    BY <2>2, <2>3, FS_Surjection, FS_Subset
<1>3. \A t, u \in D : <<t, u>> \in R <=> Precedes(cum, t, u)
  OBVIOUS
<1> HIDE DEF R
<1>4. \A t \in D : cum[t] = None \/ cum[t] \in Int
  OBVIOUS
<1>5. \A t \in D : t \in Tracks
  OBVIOUS
<1>6. ASSUME NEW t \in D, NEW u \in D
      PROVE  /\ <<t, t>> \notin R
             /\ t = u \/ <<t, u>> \in R \/ <<u, t>> \in R
  <2>1. Position(t) \in Nat /\ Position(u) \in Nat /\ (Position(t) = Position(u) => t = u)
    BY <1>1, <1>5
  <2>2. (cum[t] = None \/ cum[t] \in Int) /\ (cum[u] = None \/ cum[u] \in Int) /\ None \notin Int
    BY <1>4, ScoringAssumption
  <2> QED
    BY <1>3, <2>1, <2>2 DEF Precedes, Ahead
<1>7. ASSUME NEW t \in D, NEW u \in D, NEW v \in D, <<t, u>> \in R, <<u, v>> \in R
      PROVE  <<t, v>> \in R
  <2>1. Position(t) \in Nat /\ Position(u) \in Nat /\ Position(v) \in Nat
    BY <1>1, <1>5
  <2>2. /\ cum[t] = None \/ cum[t] \in Int
        /\ cum[u] = None \/ cum[u] \in Int
        /\ cum[v] = None \/ cum[v] \in Int
        /\ None \notin Int
    BY <1>4, ScoringAssumption
  <2> QED
    BY <1>3, <1>7, <2>1, <2>2 DEF Precedes, Ahead
<1>8. StrictOrder(D, R)
  BY <1>6, <1>7 DEF StrictOrder
<1>9. \A t \in D : Rank(cum, t) = PlaceBy(D, R, t)
  <2> TAKE t \in D
  <2>1. {u \in DOMAIN cum : Precedes(cum, u, t)} = Below(D, R, t)
    BY <1>3 DEF Below
  <2> QED
    BY <2>1 DEF Rank, PlaceIn, PlaceBy
<1>10. /\ {PlaceBy(D, R, x) : x \in D} = 1..Cardinality(D)
       /\ \A x, y \in D : <<x, y>> \in R <=> PlaceBy(D, R, x) < PlaceBy(D, R, y)
  BY <1>2, <1>8, Ranking
<1>11. {Rank(cum, t) : t \in D} = {PlaceBy(D, R, x) : x \in D}
  BY <1>9
<1>12. \A t, u \in D : Ahead(cum[t], cum[u]) => <<t, u>> \in R
  BY <1>3 DEF Precedes
<1> QED
  BY <1>9, <1>10, <1>11, <1>12

-----------------------------------------------------------------------------
(* The leaderboard.  An entry of a window is of a track that has snapshots *)
(* in it, and goes on to have them: so computing a window anew rewrites    *)
(* all its entries, and no rank of an earlier day stays beside the others. *)

RankedIn(w) ==
  /\ {board[<<w, t>>].rank : t \in Entries(w)} = 1..Cardinality(Entries(w))
  /\ \A t, u \in Entries(w) :
       Ahead(board[<<w, t>>].metrics.cum, board[<<w, u>>].metrics.cum) =>
         board[<<w, t>>].rank < board[<<w, u>>].rank

BoardOK == \A w \in Windows : Entries(w) \subseteq Shown(w) /\ RankedIn(w)

\* A window that is not computed keeps its entries.
LEMMA WindowKept ==
  ASSUME NEW w, \A t \in Tracks : <<w, t>> \in DOMAIN board' <=> <<w, t>> \in DOMAIN board,
         \A t \in Entries(w) : board'[<<w, t>>] = board[<<w, t>>],
         RankedIn(w)
  PROVE  Entries(w)' = Entries(w) /\ RankedIn(w)'
<1>1. Entries(w)' = Entries(w)
  BY DEF Entries
<1>2. \A t \in Entries(w) : board'[<<w, t>>] = board[<<w, t>>]
  BY DEF Entries
<1>3. {board'[<<w, t>>].rank : t \in Entries(w)} = {board[<<w, t>>].rank : t \in Entries(w)}
  BY <1>2
<1> QED
  BY <1>1, <1>2, <1>3 DEF RankedIn

\* A window that is computed has the entries of all tracks shown in it.
LEMMA WindowRanked ==
  ASSUME SnapsTyped, NEW w \in Windows, Leaderboard(w), Entries(w) \subseteq Shown(w)
  PROVE  /\ Entries(w)' = Shown(w) /\ RankedIn(w)'
         /\ \A v : v # w =>
              \A t \in Tracks : /\ <<v, t>> \in DOMAIN board' <=> <<v, t>> \in DOMAIN board
                                /\ <<v, t>> \in DOMAIN board => board'[<<v, t>>] = board[<<v, t>>]
<1> DEFINE D == Shown(w)
           m == [t \in D |-> Metrics(t, w)]
           cum == [t \in D |-> m[t].cum]
           rows == [k \in {w} \X D |-> Entry(k, m[k[2]], Rank(cum, k[2]))]
<1>1. {t \in Tracks : Seen(t, w) # <<>>} = D
  BY SeenTyped DEF Shown
<1>2. board' = Upserted(board, rows)
  BY <1>1 DEF Leaderboard
<1>3. cum \in [D -> {None} \cup Int] /\ D \in SUBSET Tracks
  BY CumTyped DEF Shown
<1>4. \A t \in D : m[t].cum = cum[t]
  OBVIOUS
<1> HIDE DEF m, cum
<1>5. /\ {Rank(cum, t) : t \in D} = 1..Cardinality(D)
      /\ \A t, u \in D : Ahead(cum[t], cum[u]) => Rank(cum, t) < Rank(cum, u)
  BY <1>3, RanksOf
<1>6. DOMAIN rows = {w} \X D
  OBVIOUS
<1>7. ASSUME NEW t \in D
      PROVE  /\ <<w, t>> \in DOMAIN rows
             /\ rows[<<w, t>>].metrics.cum = cum[t] /\ rows[<<w, t>>].rank = Rank(cum, t)
  <2>1. <<w, t>> \in {w} \X D /\ <<w, t>>[2] = t
    OBVIOUS
  <2>2. rows[<<w, t>>] = Entry(<<w, t>>, m[t], Rank(cum, t))
    BY <2>1
  <2> QED
    BY <1>4, <2>1, <2>2 DEF Entry
<1>8. \A v, t : <<v, t>> \in DOMAIN rows => v = w /\ t \in D
  BY <1>6
<1> HIDE DEF rows, D
<1>9. /\ DOMAIN board' = DOMAIN board \cup DOMAIN rows
      /\ \A k \in DOMAIN rows : board'[k] = rows[k]
      /\ \A k : k \in DOMAIN board /\ k \notin DOMAIN rows => board'[k] = board[k]
  BY <1>2 DEF Upserted
<1>10. Entries(w)' = D
  BY <1>3, <1>7, <1>8, <1>9 DEF Entries, D
<1>11. \A t \in D : board'[<<w, t>>].metrics.cum = cum[t] /\ board'[<<w, t>>].rank = Rank(cum, t)
  BY <1>7, <1>9
<1>12. {board'[<<w, t>>].rank : t \in D} = {Rank(cum, t) : t \in D}
  BY <1>11
<1>13. RankedIn(w)'
  BY <1>5, <1>10, <1>11, <1>12 DEF RankedIn
<1>14. ASSUME NEW v, v # w, NEW t \in Tracks, <<v, t>> \in DOMAIN board
       PROVE  <<v, t>> \in DOMAIN board' /\ board'[<<v, t>>] = board[<<v, t>>]
  BY <1>8, <1>9, <1>14
<1> QED
  BY <1>8, <1>9, <1>10, <1>13, <1>14 DEF D

-----------------------------------------------------------------------------
(* The scores.  A row stands for the recommendations of its agent that had *)
(* a return when it was computed: it counts them, and does not exceed a    *)
(* number that none of them exceeds.  The regret of a judge has the best   *)
(* of all recommendations of the run and track, at the same prices.        *)

RecsTyped   == IsFiniteSet(recs) /\ \A r \in recs : r.quote \in Quotes /\ r.bench \in Quotes
PricesTyped == prices \in [Quotes -> {None} \cup Returns]
Known       == [Quotes -> {None} \cup Returns]

ScoredIn(run, known) == {r \in recs : r.run = run /\ PricedBy(known, r)}
DueFor(k, run, known) == {r \in ScoredIn(run, known) : ScoreKey(r, k[3]) = k}
OfTrack(track, run, known) == {r \in ScoredIn(run, known) : r.track = track}

ScoreOK(k) ==
  LET s == scores[k] IN
  /\ s.from[2] \in Known /\ s.count = Cardinality(DueFor(k, s.from[1], s.from[2]))
  /\ \A b \in Int : (\A r \in DueFor(k, s.from[1], s.from[2]) : RewardBy(s.from[2], r) <= b)
                       => s.reward <= b
RegretOK(k) ==
  LET g == regrets[k] IN
  /\ g.from[2] \in Known /\ g.count = Cardinality(OfTrack(k[2], g.from[1], g.from[2]))
  /\ g.best \in Int
  /\ \A r \in OfTrack(k[2], g.from[1], g.from[2]) : RewardBy(g.from[2], r) <= g.best

ScoresOK  == \A k \in DOMAIN scores : ScoreOK(k)
RegretsOK == \A k \in DOMAIN regrets : RegretOK(k)

\* A reward is a number.
LEMMA RewardTyped ==
  ASSUME RecsTyped, NEW known \in Known, NEW r \in recs, PricedBy(known, r)
  PROVE  RewardBy(known, r) \in Int
<1>1. r.quote \in Quotes /\ r.bench \in Quotes
  BY DEF RecsTyped
<1>2. known[r.quote] \in Int /\ known[r.bench] \in Int
  BY <1>1, ScoringAssumption DEF PricedBy, Known
<1> QED
  BY <1>2 DEF RewardBy, SignedExcess

\* A sum of rewards that do not exceed a bound.
LEMMA RewardsBelow ==
  ASSUME RecsTyped, PricesTyped, NEW rs \in SUBSET Rewarded(recs), NEW b \in Int,
         \A r \in rs : RewardOf(r) <= b
  PROVE  /\ SumOf(rs) \in Int /\ SumOf(rs) <= Cardinality(rs) * b
         /\ IsFiniteSet(rs) /\ Cardinality(rs) \in Nat
<1> DEFINE f == [r \in rs |-> RewardOf(r)]
           Sums(g) == g = [s \in SUBSET rs |-> IF s = {} THEN 0
                             ELSE RewardOf(CHOOSE x \in s : TRUE) + g[s \ {CHOOSE x \in s : TRUE}]]
           g1 == CHOOSE g : Sums(g)
           g2 == CHOOSE g : SumsUp(g, f, rs)
<1>1. IsFiniteSet(rs)
  BY FS_Subset DEF RecsTyped, Rewarded
<1>2. \A r \in rs : f[r] \in Int /\ f[r] <= b
  <2> TAKE r \in rs
  <2>1. r \in recs /\ PricedBy(prices, r) /\ prices \in Known
    BY DEF Rewarded, PricesTyped, Known
  <2> QED
    BY <2>1, RewardTyped DEF RewardOf
<1>3. SumOf(rs) = g1[rs]
  BY DEF SumOf, MapThenSumSet, MapThenFoldSet
<1>4. SumOver(f, rs) = g2[rs]
  BY DEF SumOver, MapThenSumSet, MapThenFoldSet, SumsUp
<1>5. ASSUME NEW g PROVE Sums(g) <=> SumsUp(g, f, rs)
  BY DEF SumsUp
<1> HIDE DEF f, Sums
<1>6. g1 = g2
  BY <1>5
<1>7. SumOver(f, rs) \in Int /\ SumOver(f, rs) <= Cardinality(rs) * b
  BY <1>1, <1>2, SumBelow
<1> QED
  BY <1>1, <1>3, <1>4, <1>6, <1>7, FS_CardinalityType

\* The greatest of some rewards is a number none of them exceeds.
LEMMA GreatestReward ==
  ASSUME RecsTyped, PricesTyped, NEW rs \in SUBSET Rewarded(recs), rs # {}
  PROVE  /\ Max({RewardOf(r) : r \in rs}) \in Int
         /\ \A r \in rs : RewardOf(r) \in Int /\ RewardOf(r) <= Max({RewardOf(s) : s \in rs})
<1> DEFINE rewards == {RewardOf(r) : r \in rs}
           f == [r \in rs |-> RewardOf(r)]
<1>1. \A r \in rs : RewardOf(r) \in Int
  <2> TAKE r \in rs
  <2>1. r \in recs /\ PricedBy(prices, r) /\ prices \in Known
    BY DEF Rewarded, PricesTyped, Known
  <2> QED
    BY <2>1, RewardTyped DEF RewardOf
<1>2. IsFiniteSet(rs)
  BY FS_Subset DEF RecsTyped, Rewarded
<1>3. IsFiniteSet(rewards) /\ rewards \subseteq Int /\ rewards # {}
  <2>1. f \in Surjection(rs, rewards)
    BY DEF Surjection
  <2> QED
    BY <1>1, <1>2, <2>1, FS_Surjection
<1>4. \A r \in rs : RewardOf(r) \in rewards
  OBVIOUS
<1> HIDE DEF rewards
<1>5. Max(rewards) \in rewards /\ \A y \in rewards : Max(rewards) >= y
  BY <1>3, GreatestOf
<1>6. Max(rewards) \in Int /\ \A r \in rs : RewardOf(r) <= Max(rewards)
  BY <1>1, <1>3, <1>4, <1>5
<1> QED
  BY <1>1, <1>6 DEF rewards

\* An average, rounded, does not exceed what nothing averaged exceeds.
LEMMA AverageBelow ==
  ASSUME RecsTyped, PricesTyped, NEW rs \in SUBSET Rewarded(recs), rs # {}, NEW b \in Int,
         \A r \in rs : RewardOf(r) <= b
  PROVE  Average(rs) <= b
<1> DEFINE s == SumOf(rs)
           n == Cardinality(rs)
<1>1. s \in Int /\ s <= n * b /\ n \in Nat /\ n # 0
  BY RewardsBelow, FS_EmptySet
<1>2. Average(rs) = Nearest(s, n)
  BY DEF Average
<1> HIDE DEF s, n
<1> DEFINE a == 2 * s + n
           d == 2 * n
           q == Nearest(s, n)
<1>3. a \in Int /\ d \in Nat /\ d > 0
  BY <1>1
<1>4. n * b \in Int
  BY <1>1
<1>5. a <= d * b + n
  <2>1. d * b = 2 * (n * b)
    BY <1>1, <1>4
  <2> QED
    BY <1>1, <1>4, <2>1
<1>6. d * b + n < d * (b + 1)
  <2>1. d * (b + 1) = d * b + d /\ d * b \in Int
    BY <1>3
  <2> QED
    BY <1>1, <2>1
<1>7. a < d * (b + 1)
  BY <1>1, <1>3, <1>5, <1>6
<1>8. q \in Int /\ d * q <= a
  BY <1>1, NearestFacts
<1> HIDE DEF q, a, d
<1>9. d * q < d * (b + 1)
  BY <1>3, <1>7, <1>8
<1>10. q < b + 1
  BY <1>3, <1>8, <1>9
<1> QED
  BY <1>2, <1>8, <1>10 DEF q, a, d

-----------------------------------------------------------------------------
(* The inductive invariant, step by step.                                  *)

Inv == SnapsTyped /\ RecsTyped /\ PricesTyped /\ BoardOK /\ ScoresOK /\ RegretsOK

\* A row stays right while the recommendations do not change.
LEMMA ScoreKept ==
  ASSUME NEW k, ScoreOK(k), UNCHANGED recs, scores'[k] = scores[k]
  PROVE  ScoreOK(k)'
BY DEF ScoreOK, DueFor, ScoredIn

LEMMA RegretKept ==
  ASSUME NEW k, RegretOK(k), UNCHANGED recs, regrets'[k] = regrets[k]
  PROVE  RegretOK(k)'
BY DEF RegretOK, OfTrack, ScoredIn

\* score-run writes rows that are right.
LEMMA ScoreStep ==
  ASSUME Inv, NEW run, NEW date, ScoreRun(run, date)
  PROVE  ScoresOK'
<1> DEFINE due == Rewarded(RecsOf(run))
           of(k) == {r \in due : ScoreKey(r, date) = k}
           K == {ScoreKey(r, date) : r \in due}
           rows == [k \in K |-> [reward |-> Average(of(k)), count |-> Cardinality(of(k)),
                                 from |-> <<run, prices>>]]
<1>1. scores' = Upserted(scores, rows) /\ UNCHANGED <<recs, prices>>
  BY DEF ScoreRun
<1>2. due = ScoredIn(run, prices) /\ due \in SUBSET Rewarded(recs)
  BY DEF Rewarded, RecsOf, ScoredIn
<1>3. ASSUME NEW k \in K
      PROVE  of(k) = DueFor(k, run, prices) /\ of(k) # {}
  <2>1. PICK r \in due : k = ScoreKey(r, date)
    OBVIOUS
  <2>2. k[3] = date
    BY <2>1 DEF ScoreKey
  <2> QED
    BY <1>2, <2>1, <2>2 DEF DueFor
<1>4. RecsTyped /\ PricesTyped /\ prices \in Known
  BY DEF Inv, PricesTyped, Known
<1>5. ASSUME NEW k \in K, NEW b \in Int, \A r \in DueFor(k, run, prices) : RewardBy(prices, r) <= b
      PROVE  Average(of(k)) <= b
  <2>1. of(k) \in SUBSET Rewarded(recs) /\ of(k) # {} /\ \A r \in of(k) : RewardOf(r) <= b
    BY <1>2, <1>3, <1>5 DEF RewardOf
  <2> HIDE DEF of
  <2> QED
    BY <1>4, <2>1, AverageBelow
<1>6. /\ DOMAIN rows = K
      /\ \A k \in K : /\ rows[k].reward = Average(of(k)) /\ rows[k].count = Cardinality(of(k))
                      /\ rows[k].from[1] = run /\ rows[k].from[2] = prices
  OBVIOUS
<1> HIDE DEF rows, K, of, due
<1>7. /\ DOMAIN scores' = DOMAIN scores \cup K
      /\ \A k \in DOMAIN scores' : scores'[k] = IF k \in K THEN rows[k] ELSE scores[k]
  BY <1>1, <1>6 DEF Upserted
<1>8. ASSUME NEW k \in K PROVE ScoreOK(k)'
  <2>1. scores'[k] = rows[k]
    BY <1>7
  <2>2. DueFor(k, run, prices)' = DueFor(k, run, prices)
    BY <1>1 DEF DueFor, ScoredIn
  <2>3. /\ scores'[k].from[2] \in Known
        /\ scores'[k].count = Cardinality(DueFor(k, scores'[k].from[1], scores'[k].from[2]))
        /\ \A b \in Int : (\A r \in DueFor(k, scores'[k].from[1], scores'[k].from[2]) :
                             RewardBy(scores'[k].from[2], r) <= b) => scores'[k].reward <= b
    BY <1>3, <1>4, <1>5, <1>6, <2>1
  <2>4. \A s : DueFor(k, s.from[1], s.from[2])' = DueFor(k, s'.from[1], s'.from[2])
    BY <1>1 DEF DueFor, ScoredIn
  <2> QED
    BY <1>1, <2>3 DEF ScoreOK, DueFor, ScoredIn
<1>9. ASSUME NEW k \in DOMAIN scores, k \notin K PROVE ScoreOK(k)'
  <2>1. ScoreOK(k) /\ scores'[k] = scores[k]
    BY <1>7, <1>9 DEF Inv, ScoresOK
  <2> QED
    BY <1>1, <2>1, ScoreKept
<1> QED
  BY <1>7, <1>8, <1>9 DEF ScoresOK

\* judge-regret writes rows that are right.
LEMMA RegretStep ==
  ASSUME Inv, NEW run, NEW t, NEW date, JudgeRegret(run, t, date)
  PROVE  RegretsOK'
<1> DEFINE scored == Rewarded(AllRecs(run, t))
<1>1. PICK p \in Decided(run, t) :
        regrets' = Upserted(regrets, [k \in {<<p.judge, t, date>>} |->
             [selected |-> Average(Rewarded(Selected(run, t))), best |-> Best(run, t),
              regret |-> Regret(Best(run, t), Average(Rewarded(Selected(run, t)))),
              count |-> Cardinality(scored), from |-> <<run, prices>>]])
  BY DEF JudgeRegret
<1> DEFINE key == <<p.judge, t, date>>
           row == [selected |-> Average(Rewarded(Selected(run, t))), best |-> Best(run, t),
                   regret |-> Regret(Best(run, t), Average(Rewarded(Selected(run, t)))),
                   count |-> Cardinality(scored), from |-> <<run, prices>>]
           rows == [k \in {key} |-> row]
<1>2. regrets' = Upserted(regrets, rows) /\ UNCHANGED <<recs, prices>> /\ scored # {}
  BY <1>1 DEF JudgeRegret
<1>3. RecsTyped /\ PricesTyped /\ prices \in Known
  BY DEF Inv, PricesTyped, Known
<1>4. scored = OfTrack(t, run, prices) /\ scored \in SUBSET Rewarded(recs)
  BY DEF Rewarded, AllRecs, RecsOf, OfTrack, ScoredIn
<1>5. Best(run, t) \in Int /\ \A r \in scored : RewardOf(r) <= Best(run, t)
  <2>1. Best(run, t) = Max({RewardOf(r) : r \in scored})
    BY DEF Best
  <2> HIDE DEF scored
  <2> QED
    BY <1>2, <1>3, <1>4, <2>1, GreatestReward
<1> HIDE DEF scored
<1>6. /\ DOMAIN rows = {key} /\ rows[key] = row /\ key[2] = t
      /\ row.best = Best(run, t) /\ row.count = Cardinality(scored)
      /\ row.from[1] = run /\ row.from[2] = prices
  OBVIOUS
<1> HIDE DEF row, rows, key
<1>7. /\ DOMAIN regrets' = DOMAIN regrets \cup {key} /\ regrets'[key] = row
      /\ \A k \in DOMAIN regrets : k # key => regrets'[k] = regrets[k]
  BY <1>2, <1>6 DEF Upserted
<1>8. RegretOK(key)'
  <2>1. \A r \in OfTrack(key[2], row.from[1], row.from[2]) : RewardBy(row.from[2], r) <= row.best
    BY <1>4, <1>5, <1>6 DEF RewardOf
  <2>2. /\ row.from[2] \in Known /\ row.best \in Int
        /\ row.count = Cardinality(OfTrack(key[2], row.from[1], row.from[2]))
    BY <1>3, <1>4, <1>5, <1>6
  <2> QED
    BY <1>2, <1>7, <2>1, <2>2 DEF RegretOK, OfTrack, ScoredIn
<1>9. ASSUME NEW k \in DOMAIN regrets, k # key PROVE RegretOK(k)'
  <2>1. RegretOK(k) /\ regrets'[k] = regrets[k]
    BY <1>7, <1>9 DEF Inv, RegretsOK
  <2> QED
    BY <1>2, <2>1, RegretKept
<1> QED
  BY <1>7, <1>8, <1>9 DEF RegretsOK

\* A leaderboard ranks its window and leaves the others.
LEMMA BoardStep ==
  ASSUME Inv, NEW w \in Windows, Leaderboard(w)
  PROVE  BoardOK'
<1>1. SnapsTyped /\ BoardOK /\ UNCHANGED snaps
  BY DEF Inv, Leaderboard
<1>2. \A v : Shown(v)' = Shown(v)
  BY <1>1 DEF Shown
<1>3. Entries(w) \subseteq Shown(w)
  BY <1>1 DEF BoardOK
<1>4. /\ Entries(w)' = Shown(w) /\ RankedIn(w)'
      /\ \A v : v # w =>
           \A t \in Tracks : /\ <<v, t>> \in DOMAIN board' <=> <<v, t>> \in DOMAIN board
                             /\ <<v, t>> \in DOMAIN board => board'[<<v, t>>] = board[<<v, t>>]
  BY <1>1, <1>3, WindowRanked
<1>5. ASSUME NEW v \in Windows, v # w
      PROVE  Entries(v)' \subseteq Shown(v)' /\ RankedIn(v)'
  <2>1. /\ \A t \in Tracks : <<v, t>> \in DOMAIN board' <=> <<v, t>> \in DOMAIN board
        /\ \A t \in Entries(v) : board'[<<v, t>>] = board[<<v, t>>]
    BY <1>4, <1>5 DEF Entries
  <2>2. Entries(v) \subseteq Shown(v) /\ RankedIn(v)
    BY <1>1 DEF BoardOK
  <2> QED
    BY <1>2, <2>1, <2>2, WindowKept
<1> QED
  BY <1>2, <1>4, <1>5 DEF BoardOK

\* A snapshot more: what was shown still is.
LEMMA SnapshotStep ==
  ASSUME Inv, NEW t \in Tracks, NEW day \in 1..LastDay, NEW e \in Equities, NewSnapshot(t, day, e)
  PROVE  SnapsTyped' /\ BoardOK'
<1> DEFINE s == [day |-> day, equity |-> e]
<1>1. SnapsTyped /\ BoardOK /\ UNCHANGED board
  BY DEF Inv, NewSnapshot
<1>2. snaps' = [snaps EXCEPT ![t] = Append(snaps[t], s)]
  BY DEF NewSnapshot
<1>3. s \in Snap
  BY DEF Snap
<1> HIDE DEF s
<1>4. /\ Append(snaps[t], s) \in Seq(Snap)
      /\ \A i \in DOMAIN snaps[t] : /\ i \in DOMAIN Append(snaps[t], s)
                                    /\ Append(snaps[t], s)[i] = snaps[t][i]
  <2> DEFINE q == snaps[t]
             r == Append(q, s)
  <2>1. q \in Seq(Snap)
    BY <1>1 DEF SnapsTyped
  <2> HIDE DEF q
  <2>2. /\ r \in Seq(Snap) /\ Len(r) = Len(q) + 1 /\ \A i \in 1..Len(q) : r[i] = q[i]
    BY <1>3, <2>1, AppendProperties
  <2> HIDE DEF r
  <2>3. DOMAIN q = 1..Len(q) /\ DOMAIN r = 1..Len(r) /\ Len(q) \in Nat
    BY <2>1, <2>2
  <2> QED
    BY <2>2, <2>3 DEF q, r
<1>5. SnapsTyped'
  BY <1>1, <1>2, <1>4 DEF SnapsTyped
<1>6. \A u \in Tracks : \A i \in DOMAIN snaps[u] : i \in DOMAIN snaps'[u] /\ snaps'[u][i] = snaps[u][i]
  BY <1>1, <1>2, <1>4 DEF SnapsTyped
<1>7. \A v : Shown(v) \subseteq Shown(v)'
  BY <1>6 DEF Shown
<1>8. ASSUME NEW v \in Windows PROVE Entries(v)' \subseteq Shown(v)' /\ RankedIn(v)'
  <2>1. Entries(v) \subseteq Shown(v) /\ RankedIn(v)
    BY <1>1 DEF BoardOK
  <2>2. Entries(v)' = Entries(v) /\ RankedIn(v)'
    BY <1>1, <2>1, WindowKept DEF Entries
  <2> QED
    BY <1>7, <2>1, <2>2
<1> QED
  BY <1>5, <1>8 DEF BoardOK

\* Where nothing of a part is written, it stays as it is.
LEMMA PartsKept ==
  ASSUME Inv
  PROVE  /\ UNCHANGED snaps => SnapsTyped'
         /\ UNCHANGED <<snaps, board>> => BoardOK'
         /\ UNCHANGED recs => RecsTyped'
         /\ UNCHANGED prices => PricesTyped'
         /\ UNCHANGED <<recs, scores>> => ScoresOK'
         /\ UNCHANGED <<recs, regrets>> => RegretsOK'
<1>1. UNCHANGED snaps => SnapsTyped'
  BY DEF Inv, SnapsTyped
<1>2. UNCHANGED <<snaps, board>> => BoardOK'
  BY DEF Inv, BoardOK, RankedIn, Entries, Shown
<1>3. UNCHANGED recs => RecsTyped'
  BY DEF Inv, RecsTyped
<1>4. UNCHANGED prices => PricesTyped'
  BY DEF Inv, PricesTyped
<1>5. UNCHANGED <<recs, scores>> => ScoresOK'
  BY DEF Inv, ScoresOK, ScoreOK, DueFor, ScoredIn
<1>6. UNCHANGED <<recs, regrets>> => RegretsOK'
  BY DEF Inv, RegretsOK, RegretOK, OfTrack, ScoredIn
<1> QED
  BY <1>1, <1>2, <1>3, <1>4, <1>5, <1>6

LEMMA InitInv == Init => Inv
<1> SUFFICES ASSUME Init PROVE Inv
  OBVIOUS
<1>1. PICK l \in Ledgers : snaps = l.snaps /\ recs = l.recs
  BY DEF Init
<1>2. SnapsTyped /\ IsFiniteSet(recs)
  BY <1>1, ScoringAssumption DEF SnapsTyped, Snap
<1>3. RecsTyped
  BY <1>1, <1>2 DEF RecsTyped, Quotes
<1>4. PricesTyped
  BY DEF Init, PricesTyped
<1>5. DOMAIN scores = {} /\ DOMAIN regrets = {} /\ DOMAIN board = {}
  BY DEF Init
<1>6. BoardOK
  <2> SUFFICES ASSUME NEW w \in Windows PROVE Entries(w) \subseteq Shown(w) /\ RankedIn(w)
    BY DEF BoardOK
  <2>1. Entries(w) = {}
    BY <1>5 DEF Entries
  <2>2. Cardinality({}) = 0 /\ 1..0 = {}
    BY FS_EmptySet
  <2> QED
    BY <2>1, <2>2 DEF RankedIn
<1> QED
  BY <1>2, <1>3, <1>4, <1>5, <1>6 DEF Inv, ScoresOK, RegretsOK

LEMMA NextInv == Inv /\ [Next]_vars => Inv'
<1> SUFFICES ASSUME Inv, [Next]_vars PROVE Inv'
  OBVIOUS
<1>1. ASSUME NEW run \in Runs, NEW date \in Dates, ScoreRun(run, date) PROVE Inv'
  BY <1>1, ScoreStep, PartsKept DEF Inv, ScoreRun
<1>2. ASSUME NEW run \in Runs, NEW t \in Tracks, NEW date \in Dates, JudgeRegret(run, t, date)
      PROVE  Inv'
  BY <1>2, RegretStep, PartsKept DEF Inv, JudgeRegret
<1>3. ASSUME NEW w \in Windows, Leaderboard(w) PROVE Inv'
  BY <1>3, BoardStep, PartsKept DEF Inv, Leaderboard
<1>4. ASSUME NEW t \in Tracks, NEW day \in 1..LastDay, NEW e \in Equities, NewSnapshot(t, day, e)
      PROVE  Inv'
  BY <1>4, SnapshotStep, PartsKept DEF Inv, NewSnapshot
<1>5. ASSUME NEW q \in Quotes, NEW x \in Returns, PriceKnown(q, x) PROVE Inv'
  <2>1. PricesTyped'
    BY <1>5 DEF Inv, PricesTyped, PriceKnown
  <2> QED
    BY <1>5, <2>1, PartsKept DEF Inv, PriceKnown
<1>6. ASSUME UNCHANGED vars PROVE Inv'
  BY <1>6, PartsKept DEF Inv, vars
<1> QED
  BY <1>1, <1>2, <1>3, <1>4, <1>5, <1>6 DEF Next

\* However often the scoring commands run over a ledger that grows, the
\* inductive invariant holds.
THEOREM Invariance == Spec => []Inv
<1>1. Init => Inv
  BY InitInv
<1>2. Inv /\ [Next]_vars => Inv'
  BY NextInv
<1> QED
  BY <1>1, <1>2, PTL DEF Spec

\* The entries of a window are ranked 1..n without ties, the larger return
\* ahead (persist_leaderboard), for any number of tracks and days.
THEOREM RanksKept == Spec => []RanksRanked
<1>1. Inv => RanksRanked
  BY DEF Inv, BoardOK, RankedIn, RanksRanked
<1> QED
  BY <1>1, Invariance, PTL

\* The counts of the rows a regret was computed beside add up to what it counts.
LEMMA CountsMatch ==
  ASSUME Inv, NEW k \in DOMAIN regrets,
         NEW keys, keys = {ScoreKey(r, k[3]) : r \in OfTrack(k[2], regrets[k].from[1], regrets[k].from[2])},
         \A s \in keys : s \in DOMAIN scores /\ scores[s].from = regrets[k].from
  PROVE  MapThenSumSet(LAMBDA s : scores[s].count, keys) = regrets[k].count
<1> DEFINE run == regrets[k].from[1]
           known == regrets[k].from[2]
           Q == OfTrack(k[2], run, known)
           f == [s \in keys |-> scores[s].count]
           h == [r \in Q |-> ScoreKey(r, k[3])]
           Sums(g) == g = [z \in SUBSET keys |-> IF z = {} THEN 0
                             ELSE scores[CHOOSE x \in z : TRUE].count + g[z \ {CHOOSE x \in z : TRUE}]]
           g1 == CHOOSE g : Sums(g)
           g2 == CHOOSE g : SumsUp(g, f, keys)
<1>1. IsFiniteSet(Q)
  <2>1. Q \in SUBSET recs
    BY DEF OfTrack, ScoredIn
  <2> QED
    BY <2>1, FS_Subset DEF Inv, RecsTyped
<1>2. keys = {ScoreKey(r, k[3]) : r \in Q}
  OBVIOUS
<1>3. \A r \in Q : ScoreKey(r, k[3])[3] = k[3] /\ ScoreKey(r, k[3])[2] = k[2]
  BY DEF OfTrack, ScoreKey
<1>4. ASSUME NEW s \in keys PROVE scores[s].count = Cardinality({r \in Q : ScoreKey(r, k[3]) = s})
  <2>1. s \in DOMAIN scores /\ scores[s].from[1] = run /\ scores[s].from[2] = known
    OBVIOUS
  <2>2. s[3] = k[3] /\ s[2] = k[2]
    BY <1>2, <1>3
  <2>3. DueFor(s, run, known) = {r \in Q : ScoreKey(r, k[3]) = s}
    BY <2>2 DEF DueFor, OfTrack, ScoreKey
  <2>4. ScoreOK(s)
    BY <2>1 DEF Inv, ScoresOK
  <2> QED
    BY <2>1, <2>3, <2>4 DEF ScoreOK
<1> HIDE DEF Q
<1>5. IsFiniteSet(keys)
  <2>1. h \in Surjection(Q, keys)
    BY <1>2 DEF Surjection
  <2> QED
    BY <1>1, <2>1, FS_Surjection
<1>6. \A s \in keys : f[s] = Cardinality(Places(h, s))
  <2> TAKE s \in keys
  <2>1. Places(h, s) = {r \in Q : ScoreKey(r, k[3]) = s}
    BY DEF Places
  <2> QED
    BY <1>4, <2>1
<1>7. PlacesIn(h, keys) = Q /\ DOMAIN h = Q
  BY <1>2 DEF PlacesIn
<1>8. MapThenSumSet(LAMBDA s : scores[s].count, keys) = g1[keys]
  BY DEF MapThenSumSet, MapThenFoldSet
<1>9. SumOver(f, keys) = g2[keys]
  BY DEF SumOver, MapThenSumSet, MapThenFoldSet, SumsUp
<1>10. ASSUME NEW g PROVE Sums(g) <=> SumsUp(g, f, keys)
  BY DEF SumsUp
<1> HIDE DEF f, h, Sums
<1>11. g1 = g2
  BY <1>10
<1>12. SumOver(f, keys) = Cardinality(Q)
  BY <1>1, <1>5, <1>6, <1>7, SumOfCounts
<1>13. regrets[k].count = Cardinality(Q)
  BY DEF Inv, RegretsOK, RegretOK, Q
<1> QED
  BY <1>8, <1>9, <1>11, <1>12, <1>13

\* No average of an agent beats the best recommendation the judge is measured
\* by, and both commands count the same observations when they saw the same
\* prices (reward.py, judge_regret.py).
THEOREM RegretsMatch == Spec => []ScoresMatchRegret
<1>1. Inv => ScoresMatchRegret
  <2> SUFFICES ASSUME Inv, NEW k \in DOMAIN regrets
               PROVE  LET g     == regrets[k]
                          keys  == {ScoreKey(r, k[3]) :
                                      r \in {q \in AllRecs(g.from[1], k[2]) : PricedBy(g.from[2], q)}}
                          alike == {s \in keys \cap DOMAIN scores : scores[s].from = g.from}
                      IN  /\ \A s \in alike : scores[s].reward <= g.best
                          /\ alike = keys =>
                               MapThenSumSet(LAMBDA s : scores[s].count, keys) = g.count
    BY DEF ScoresMatchRegret
  <2> DEFINE g     == regrets[k]
             run   == g.from[1]
             known == g.from[2]
             Q     == {q \in AllRecs(run, k[2]) : PricedBy(known, q)}
             keys  == {ScoreKey(r, k[3]) : r \in Q}
             alike == {s \in keys \cap DOMAIN scores : scores[s].from = g.from}
  <2>1. Q = OfTrack(k[2], run, known)
    BY DEF AllRecs, RecsOf, OfTrack, ScoredIn
  <2> HIDE DEF Q
  <2>2. ASSUME NEW s \in alike PROVE scores[s].reward <= g.best
    <3>1. PICK q \in Q : s = ScoreKey(q, k[3])
      OBVIOUS
    <3>2. s[2] = k[2]
      BY <2>1, <3>1 DEF OfTrack, ScoreKey
    <3>3. DueFor(s, run, known) \in SUBSET OfTrack(k[2], run, known)
      BY <3>2 DEF DueFor, OfTrack, ScoreKey
    <3>4. g.best \in Int /\ \A r \in OfTrack(k[2], run, known) : RewardBy(known, r) <= g.best
      BY DEF Inv, RegretsOK, RegretOK
    <3>5. ScoreOK(s) /\ scores[s].from[1] = run /\ scores[s].from[2] = known
      BY DEF Inv, ScoresOK
    <3>6. \A b \in Int : (\A r \in DueFor(s, run, known) : RewardBy(known, r) <= b)
                           => scores[s].reward <= b
      BY <3>5 DEF ScoreOK
    <3> HIDE DEF run, known
    <3> QED
      BY <3>3, <3>4, <3>6
  <2>3. alike = keys => MapThenSumSet(LAMBDA s : scores[s].count, keys) = g.count
    <3> SUFFICES ASSUME alike = keys
                 PROVE  MapThenSumSet(LAMBDA s : scores[s].count, keys) = g.count
      OBVIOUS
    <3>1. \A s \in keys : s \in DOMAIN scores /\ scores[s].from = regrets[k].from
      OBVIOUS
    <3>2. keys = {ScoreKey(r, k[3]) : r \in OfTrack(k[2], regrets[k].from[1], regrets[k].from[2])}
      BY <2>1
    <3> HIDE DEF keys
    <3> QED
      BY <3>1, <3>2, CountsMatch
  <2> QED
    BY <2>2, <2>3 DEF Q
<1> QED
  BY <1>1, Invariance, PTL

-----------------------------------------------------------------------------
(* The figures of one curve.                                               *)

\* If a/b is no more than c/d and c/d no more than x/y, a/b is no more than x/y.
LEMMA RatioTransitive ==
  ASSUME NEW a \in Int, NEW b \in Nat \ {0}, NEW c \in Int, NEW d \in Nat \ {0},
         NEW x \in Int, NEW y \in Nat \ {0}, a * d <= c * b, c * y <= x * d
  PROVE  a * y <= x * b
<1>1. (a * d) * y <= (c * b) * y
  <2> DEFINE u == a * d
             v == c * b
  <2>1. u \in Int /\ v \in Int /\ u <= v
    OBVIOUS
  <2> HIDE DEF u, v
  <2>2. u * y <= v * y
    BY <2>1
  <2> QED
    BY <2>2 DEF u, v
<1>2. (c * y) * b <= (x * d) * b
  <2> DEFINE u == c * y
             v == x * d
  <2>1. u \in Int /\ v \in Int /\ u <= v
    OBVIOUS
  <2> HIDE DEF u, v
  <2>2. u * b <= v * b
    BY <2>1
  <2> QED
    BY <2>2 DEF u, v
<1>3. (c * b) * y = (c * y) * b /\ (a * d) * y = (a * y) * d /\ (x * d) * b = (x * b) * d
  OBVIOUS
<1>4. a * y \in Int /\ x * b \in Int
  OBVIOUS
<1> DEFINE u == a * y
           v == x * b
<1>5. u * d <= v * d
  <2>1. /\ (a * d) * y \in Int /\ (c * b) * y \in Int /\ (c * y) * b \in Int
        /\ (x * d) * b \in Int
    OBVIOUS
  <2> QED
    BY <1>1, <1>2, <1>3, <2>1
<1> HIDE DEF u, v
<1>6. u \in Int /\ v \in Int
  BY <1>4 DEF u, v
<1>7. u <= v
  BY <1>5, <1>6
<1> QED
  BY <1>7 DEF u, v

Curve == [peak : Nat, worst : Int \X (Nat \ {0})]
Flat  == [peak |-> 0, worst |-> <<0, 1>>]
Onward(d, now) ==
  LET peak == Max({d.peak, now}) IN
  [peak |-> peak, worst |-> IF peak > 0 /\ Less(d.worst, Fall(peak, now))
                            THEN Fall(peak, now) ELSE d.worst]

\* The larger of a peak and the equity of the day.
LEMMA Higher ==
  ASSUME NEW a \in Nat, NEW b \in Nat
  PROVE  /\ Max({a, b}) \in Nat /\ Max({a, b}) >= a /\ Max({a, b}) >= b
         /\ Max({a, b}) = a \/ Max({a, b}) = b
<1>1. CASE a >= b
  <2>1. Max({a, b}) = a
    BY <1>1, MaxIs
  <2> QED
    BY <1>1, <2>1
<1>2. CASE ~(a >= b)
  <2>1. Max({a, b}) = b
    BY <1>2, MaxIs
  <2> QED
    BY <1>2, <2>1
<1> QED
  BY <1>1, <1>2

LEMMA OnwardTyped ==
  ASSUME NEW d \in Curve, NEW now \in Nat
  PROVE  Onward(d, now) \in Curve
<1> DEFINE p == Max({d.peak, now})
<1>1. d.peak \in Nat /\ d.worst \in Int \X (Nat \ {0})
  BY DEF Curve
<1>2. p \in Nat
  BY <1>1, Higher
<1>3. Onward(d, now) = [peak |-> p, worst |-> IF p > 0 /\ Less(d.worst, Fall(p, now))
                                              THEN Fall(p, now) ELSE d.worst]
  BY DEF Onward
<1> HIDE DEF p
<1>4. p > 0 => Fall(p, now) \in Int \X (Nat \ {0})
  BY <1>2 DEF Fall
<1> QED
  BY <1>1, <1>2, <1>3, <1>4 DEF Curve

\* The drawdown of a curve, day by day.
LEMMA DrawdownByDay ==
  ASSUME NEW e \in Seq(Nat)
  PROVE  \E h : /\ h[0] = Flat /\ \A k \in 1..Len(e) : h[k] = Onward(h[k - 1], e[k])
                /\ MaxDrawdown(e) = h[Len(e)].worst
<1> DEFINE n == Len(e)
           F == [p \in Curve \X Nat |-> Onward(p[1], p[2])]
           Steps(g) == g = [s \in SUBSET DOMAIN e |->
                              IF s = {} THEN Flat ELSE Onward(g[s \ {Max(s)}], e[Max(s)])]
           G == CHOOSE g : Steps(g)
           h == [k \in 0..n |-> G[1..k]]
<1>1. n \in Nat /\ DOMAIN e = 1..n /\ \A i \in 1..n : e[i] \in Nat
  OBVIOUS
<1>2. MaxDrawdown(e) = G[DOMAIN e].worst
  BY DEF MaxDrawdown, FoldLeft, MapThenFoldSet, Onward, Flat
<1>3. F \in [Curve \X Nat -> Curve] /\ Flat \in Curve
  <2>1. \A p \in Curve \X Nat : Onward(p[1], p[2]) \in Curve
    <3> TAKE p \in Curve \X Nat
    <3>1. p[1] \in Curve /\ p[2] \in Nat
      OBVIOUS
    <3> QED
      BY <3>1, OnwardTyped
  <2>2. Flat \in Curve
    BY DEF Curve, Flat
  <2> QED
    BY <2>1, <2>2
<1> HIDE DEF F
<1>4. PICK g \in [SUBSET DOMAIN e -> Curve] : FoldsUp(g, F, Flat, e, n)
  BY <1>3, FoldExists
<1>5. Steps(g)
  <2>1. ASSUME NEW s \in SUBSET (1..n)
        PROVE  g[s] = IF s = {} THEN Flat ELSE Onward(g[s \ {Max(s)}], e[Max(s)])
    <3>1. g[s] = IF s = {} THEN Flat ELSE F[<<g[s \ {Max(s)}], e[Max(s)]>>]
      BY <1>4 DEF FoldsUp
    <3>2. CASE s = {}
      BY <3>1, <3>2
    <3>3. CASE s # {}
      <4>1. s \in SUBSET (0..n)
        OBVIOUS
      <4>2. Max(s) \in s
        BY <1>1, <3>3, <4>1, Greatest
      <4>3. g[s \ {Max(s)}] \in Curve /\ e[Max(s)] \in Nat
        BY <1>1, <1>4, <4>2
      <4>4. F[<<g[s \ {Max(s)}], e[Max(s)]>>] = Onward(g[s \ {Max(s)}], e[Max(s)])
        BY <4>3 DEF F
      <4> QED
        BY <3>1, <3>3, <4>4
    <3> QED
      BY <3>2, <3>3
  <2> QED
    BY <1>1, <1>4, <2>1
<1>6. Steps(G)
  <2> HIDE DEF Steps
  <2> QED
    BY <1>5
<1>7. \A s \in SUBSET (1..n) : G[s] = IF s = {} THEN Flat ELSE Onward(G[s \ {Max(s)}], e[Max(s)])
  BY <1>1, <1>6
<1> HIDE DEF G, Steps
<1>8. G[1..0] = Flat
  <2>1. 1..0 = {} /\ 1..0 \in SUBSET (1..n)
    OBVIOUS
  <2> QED
    BY <1>7, <2>1
<1>9. ASSUME NEW k \in 1..n PROVE G[1..k] = Onward(G[1..k - 1], e[k])
  <2>1. Max(1..k) = k /\ (1..k) \ {k} = 1..k - 1 /\ 1..k # {}
    <3>1. k \in Nat \ {0}
      OBVIOUS
    <3> QED
      BY <3>1, LastPlace
  <2>2. 1..k \in SUBSET (1..n)
    BY <1>1
  <2> QED
    BY <1>7, <2>1, <2>2
<1>10. \A k \in 0..n : h[k] = G[1..k]
  OBVIOUS
<1>11. h[0] = Flat /\ h[n] = G[1..n]
  BY <1>1, <1>8, <1>10
<1>12. \A k \in 1..n : h[k] = Onward(h[k - 1], e[k])
  <2> TAKE k \in 1..n
  <2>1. k \in 0..n /\ k - 1 \in 0..n
    BY <1>1
  <2> QED
    BY <1>9, <1>10, <2>1
<1> HIDE DEF h
<1> QED
  BY <1>1, <1>2, <1>11, <1>12

\* What is known of a curve after k days: its peak is the highest equity so
\* far, and its worst fall is at least that between any two of the days.
AfterDays(e, d, k) ==
  /\ d \in Curve
  /\ \A i \in 1..k : e[i] <= d.peak
  /\ \A i \in 1..k : \A j \in i..k : e[i] > 0 => ~Less(d.worst, Fall(e[i], e[j]))
  /\ \/ d.worst = Zero
     \/ \E i \in 1..k : \E j \in i..k : e[i] > 0 /\ d.worst = Fall(e[i], e[j])
  /\ d.peak = 0 \/ \E i \in 1..k : d.peak = e[i]

\* No fall from a lower start to the same end is worse.
LEMMA FallFromPeak ==
  ASSUME NEW a \in Nat \ {0}, NEW p \in Nat, NEW now \in Nat, a <= p
  PROVE  ~Less(Fall(p, now), Fall(a, now))
<1>1. now * a <= now * p
  BY SMTT(30)
<1>2. (a - now) * p = a * p - now * p /\ (p - now) * a = a * p - now * a
  BY SMTT(30)
<1>3. now * a \in Int /\ now * p \in Int /\ a * p \in Int
  OBVIOUS
<1> DEFINE u == now * a
           v == now * p
           w == a * p
<1> HIDE DEF u, v, w
<1>4. w - v <= w - u
  BY <1>1, <1>3 DEF u, v, w
<1>5. ~((p - now) * a < (a - now) * p)
  BY <1>2, <1>3, <1>4 DEF u, v, w
<1> QED
  BY <1>5 DEF Less, Fall

\* To be no worse than a fall is transitive.
LEMMA NoWorse ==
  ASSUME NEW f \in Int \X (Nat \ {0}), NEW g \in Int \X (Nat \ {0}), NEW h \in Int \X (Nat \ {0}),
         ~Less(g, f), ~Less(h, g)
  PROVE  ~Less(h, f)
<1>1. /\ f[1] \in Int /\ g[1] \in Int /\ h[1] \in Int
      /\ f[2] \in Nat \ {0} /\ g[2] \in Nat \ {0} /\ h[2] \in Nat \ {0}
  OBVIOUS
<1> DEFINE a == f[1]
           b == f[2]
           c == g[1]
           d == g[2]
           x == h[1]
           y == h[2]
<1>2. ~(c * b < a * d) /\ ~(x * d < c * y)
  BY DEF Less
<1> SUFFICES ~(x * b < a * y)
  BY DEF Less
<1>3. /\ a \in Int /\ c \in Int /\ x \in Int
      /\ b \in Nat \ {0} /\ d \in Nat \ {0} /\ y \in Nat \ {0}
  BY <1>1
<1> HIDE DEF a, b, c, d, x, y
<1>4. /\ a * d \in Int /\ c * b \in Int /\ c * y \in Int /\ x * d \in Int
      /\ a * y \in Int /\ x * b \in Int
  BY <1>3
<1>5. a * d <= c * b /\ c * y <= x * d
  BY <1>2, <1>4
<1>6. a * y <= x * b
  BY <1>3, <1>5, RatioTransitive
<1> QED
  BY <1>4, <1>6

LEMMA AfterFirst ==
  ASSUME NEW e
  PROVE  AfterDays(e, Flat, 0)
BY DEF AfterDays, Flat, Curve, Zero

LEMMA AfterNext ==
  ASSUME NEW e \in Seq(Nat), NEW k \in Nat, k + 1 \in 1..Len(e), NEW d, AfterDays(e, d, k)
  PROVE  AfterDays(e, Onward(d, e[k + 1]), k + 1)
<1> DEFINE now == e[k + 1]
           p == Max({d.peak, now})
           new == Onward(d, now)
           fall == Fall(p, now)
           m == k + 1
<1>1. /\ now \in Nat /\ d \in Curve /\ d.peak \in Nat /\ d.worst \in Int \X (Nat \ {0})
      /\ \A i \in 1..m : e[i] \in Nat
  BY DEF AfterDays, Curve
<1>2. p \in Nat /\ p >= d.peak /\ p >= now /\ (p = d.peak \/ p = now)
  BY <1>1, Higher
<1>3. /\ new \in Curve /\ new.peak = p
      /\ new.worst = IF p > 0 /\ Less(d.worst, fall) THEN fall ELSE d.worst
  BY <1>1, OnwardTyped DEF Onward
<1> HIDE DEF p, new
<1>4. \A i \in 1..m : e[i] <= p
  <2> TAKE i \in 1..m
  <2>1. i \in 1..k \/ i = m
    OBVIOUS
  <2>2. i \in 1..k => e[i] <= d.peak
    BY DEF AfterDays
  <2> QED
    BY <1>1, <1>2, <2>1, <2>2
<1>5. p > 0 => fall \in Int \X (Nat \ {0})
  BY SMTT(30), <1>1, <1>2 DEF Fall
<1>6. /\ p > 0 => ~Less(new.worst, fall)
      /\ new.worst \in Int \X (Nat \ {0}) /\ ~Less(new.worst, d.worst)
  <2>1. CASE p > 0 /\ Less(d.worst, fall)
    <3>1. new.worst = fall /\ fall \in Int \X (Nat \ {0})
      BY <1>3, <1>5, <2>1
    <3> DEFINE f == fall
               w == d.worst
    <3>2. /\ f[1] \in Int /\ f[2] \in Nat /\ w[1] \in Int /\ w[2] \in Nat
          /\ w[1] * f[2] < f[1] * w[2]
      BY <1>1, <2>1, <3>1 DEF Less
    <3> HIDE DEF f, w
    <3>3. ~(f[1] * w[2] < w[1] * f[2]) /\ ~(f[1] * f[2] < f[1] * f[2])
      <4>1. f[1] * w[2] \in Int /\ w[1] * f[2] \in Int /\ f[1] * f[2] \in Int
        BY SMTT(30), <3>2
      <4> QED
        BY SMTT(30), <3>2, <4>1
    <3>4. ~Less(f, w) /\ ~Less(f, f)
      BY <3>3 DEF Less
    <3> QED
      BY <3>1, <3>4 DEF f, w
  <2>2. CASE ~(p > 0 /\ Less(d.worst, fall))
    <3>1. new.worst = d.worst
      BY <1>3, <2>2
    <3>2. ~Less(d.worst, d.worst)
      <4> DEFINE w == d.worst
      <4>1. w[1] \in Int /\ w[2] \in Nat
        BY <1>1
      <4> HIDE DEF w
      <4>2. w[1] * w[2] \in Int
        BY <4>1
      <4>3. ~(w[1] * w[2] < w[1] * w[2])
        BY <4>2
      <4> QED
        BY <4>3 DEF Less, w
    <3> QED
      BY <1>1, <2>2, <3>1, <3>2
  <2> QED
    BY <2>1, <2>2
<1>7. ASSUME NEW i \in 1..m, NEW j \in i..m, e[i] > 0
      PROVE  ~Less(new.worst, Fall(e[i], e[j]))
  <2>1. e[i] \in Nat \ {0} /\ j \in 1..m /\ e[j] \in Nat
    BY SMTT(30), <1>1, <1>7
  <2>2. Fall(e[i], e[j]) \in Int \X (Nat \ {0})
    BY SMTT(30), <2>1 DEF Fall
  <2>3. CASE j = m
    <3>1. e[i] <= p /\ p > 0
      BY <1>2, <1>4, <2>1
    <3>2. ~Less(fall, Fall(e[i], now))
      BY <1>1, <1>2, <2>1, <3>1, FallFromPeak
    <3>3. Fall(e[i], e[j]) = Fall(e[i], now)
      BY <2>3
    <3> HIDE DEF fall
    <3> QED
      BY <1>5, <1>6, <2>2, <3>1, <3>2, <3>3, NoWorse
  <2>4. CASE j # m
    <3>1. i \in 1..k /\ j \in i..k
      BY <2>1, <2>4
    <3>2. ~Less(d.worst, Fall(e[i], e[j]))
      BY <1>7, <3>1 DEF AfterDays
    <3> QED
      BY <1>1, <1>6, <2>2, <3>2, NoWorse
  <2> QED
    BY <2>3, <2>4
<1>8. p = 0 \/ \E i \in 1..m : p = e[i]
  <2>1. d.peak = 0 \/ \E i \in 1..k : d.peak = e[i]
    BY DEF AfterDays
  <2>2. m \in 1..m /\ \A i \in 1..k : i \in 1..m
    OBVIOUS
  <2> QED
    BY <1>2, <2>1, <2>2
<1>9. new.worst = Zero \/ \E i \in 1..m : \E j \in i..m : e[i] > 0 /\ new.worst = Fall(e[i], e[j])
  <2>1. CASE p > 0 /\ Less(d.worst, fall)
    <3>1. PICK i \in 1..m : p = e[i]
      BY <1>2, <1>8, <2>1
    <3>2. m \in i..m /\ new.worst = Fall(e[i], e[m]) /\ e[i] > 0
      BY <1>3, <2>1, <3>1
    <3> QED
      BY <3>2
  <2>2. CASE ~(p > 0 /\ Less(d.worst, fall))
    <3>1. new.worst = d.worst
      BY <1>3, <2>2
    <3>2. d.worst = Zero \/ \E i \in 1..k : \E j \in i..k : e[i] > 0 /\ d.worst = Fall(e[i], e[j])
      BY DEF AfterDays
    <3>3. \A i \in 1..k : i \in 1..m /\ \A j \in i..k : j \in i..m
      OBVIOUS
    <3> QED
      BY <3>1, <3>2, <3>3
  <2> QED
    BY <2>1, <2>2
<1> HIDE DEF m, now, fall
<1>10. AfterDays(e, new, m)
  BY <1>3, <1>4, <1>7, <1>8, <1>9 DEF AfterDays
<1> QED
  BY <1>10 DEF m, now, new

\* The running peak finds the worst fall of the whole curve.
LEMMA WorstFall ==
  ASSUME NEW e \in Seq(Nat)
  PROVE  \E d : d.worst = MaxDrawdown(e) /\ AfterDays(e, d, Len(e))
<1> DEFINE n == Len(e)
<1>1. PICK h : /\ h[0] = Flat /\ \A k \in 1..n : h[k] = Onward(h[k - 1], e[k])
               /\ MaxDrawdown(e) = h[n].worst
  BY DrawdownByDay
<1> DEFINE T == {k \in Nat : k <= n => AfterDays(e, h[k], k)}
<1>2. n \in Nat
  OBVIOUS
<1>3. 0 \in T
  BY <1>1, AfterFirst
<1>4. ASSUME NEW k \in Nat, k \in T PROVE k + 1 \in T
  <2> SUFFICES ASSUME k + 1 <= n PROVE AfterDays(e, h[k + 1], k + 1)
    OBVIOUS
  <2>1. k + 1 \in 1..n /\ AfterDays(e, h[k], k)
    BY <1>2, <1>4
  <2>2. h[k + 1] = Onward(h[k], e[k + 1])
    BY <1>1, <2>1
  <2> QED
    BY <2>1, <2>2, AfterNext
<1> HIDE DEF T
<1>5. n \in T
  BY <1>2, <1>3, <1>4, Induction
<1>6. AfterDays(e, h[n], n)
  BY <1>2, <1>5 DEF T
<1> QED
  BY <1>1, <1>6

\* The drawdown of one curve.
LEMMA DrawdownOf ==
  ASSUME NEW e \in Seq(Nat), Len(e) \in Nat \ {0}
  PROVE  LET days  == {p \in (DOMAIN e) \X (DOMAIN e) : p[1] <= p[2] /\ e[p[1]] > 0}
             falls == {Fall(e[p[1]], e[p[2]]) : p \in days}
             worst == MaxDrawdown(e)
         IN  /\ \A f \in falls : ~Less(worst, f)
             /\ worst = Zero \/ \E f \in falls : f[1] * worst[2] = worst[1] * f[2]
             /\ CumulativeReturn(e) # None => ~Less(worst, <<-CumulativeReturn(e)[1], e[1]>>)
<1> DEFINE n     == Len(e)
           days  == {p \in (DOMAIN e) \X (DOMAIN e) : p[1] <= p[2] /\ e[p[1]] > 0}
           falls == {Fall(e[p[1]], e[p[2]]) : p \in days}
           worst == MaxDrawdown(e)
<1>1. PICK d : d.worst = worst /\ AfterDays(e, d, n)
  BY WorstFall
<1>2. n \in Nat \ {0} /\ DOMAIN e = 1..n /\ \A i \in 1..n : e[i] \in Nat
  OBVIOUS
<1> HIDE DEF worst, n
<1>3. \A i, j \in 1..n : i <= j /\ e[i] > 0 => ~Less(worst, Fall(e[i], e[j]))
  <2>1. \A i \in 1..n : \A j \in i..n : e[i] > 0 => ~Less(worst, Fall(e[i], e[j]))
    BY <1>1 DEF AfterDays
  <2>2. \A i, j \in 1..n : i <= j => j \in i..n
    BY <1>2
  <2> QED
    BY <2>1, <2>2
<1>4. \A f \in falls : ~Less(worst, f)
  <2> TAKE f \in falls
  <2>1. PICK p \in days : f = Fall(e[p[1]], e[p[2]])
    OBVIOUS
  <2>2. p[1] \in 1..n /\ p[2] \in 1..n /\ p[1] <= p[2] /\ e[p[1]] > 0
    BY <1>2
  <2> QED
    BY <1>3, <2>1, <2>2
<1>5. worst = Zero \/ \E f \in falls : f[1] * worst[2] = worst[1] * f[2]
  <2> SUFFICES ASSUME worst # Zero PROVE \E f \in falls : f[1] * worst[2] = worst[1] * f[2]
    OBVIOUS
  <2>1. PICK i \in 1..n, j \in 1..n : i <= j /\ e[i] > 0 /\ worst = Fall(e[i], e[j])
    <3>1. PICK i \in 1..n : \E j \in i..n : e[i] > 0 /\ worst = Fall(e[i], e[j])
      BY <1>1 DEF AfterDays
    <3>2. PICK j \in i..n : e[i] > 0 /\ worst = Fall(e[i], e[j])
      BY <3>1
    <3>3. j \in 1..n /\ i <= j
      BY <1>2
    <3> QED
      BY <3>2, <3>3
  <2>2. <<i, j>> \in days /\ <<i, j>>[1] = i /\ <<i, j>>[2] = j
    BY <1>2, <2>1
  <2>3. worst \in falls
    BY <2>1, <2>2
  <2> QED
    BY <2>3
<1>6. CumulativeReturn(e) # None => ~Less(worst, <<-CumulativeReturn(e)[1], e[1]>>)
  <2> SUFFICES ASSUME CumulativeReturn(e) # None
               PROVE  ~Less(worst, <<-CumulativeReturn(e)[1], e[1]>>)
    OBVIOUS
  <2>1. e[1] > 0 /\ CumulativeReturn(e) = <<e[n] - e[1], e[1]>>
    BY DEF CumulativeReturn, Change, Last, n
  <2>2. 1 \in 1..n /\ n \in 1..n /\ e[1] \in Nat /\ e[n] \in Nat
    BY <1>2
  <2>3. -CumulativeReturn(e)[1] = e[1] - e[n]
    BY <2>1, <2>2
  <2>4. <<-CumulativeReturn(e)[1], e[1]>> = Fall(e[1], e[n])
    BY <2>3 DEF Fall
  <2>5. ~Less(worst, Fall(e[1], e[n]))
    BY <1>2, <1>3, <2>1, <2>2
  <2> QED
    BY <2>4, <2>5
<1> QED
  BY <1>4, <1>5, <1>6 DEF worst

Grown(a, r) == <<a[1] * (r[1] + r[2]), a[2] * r[2]>>

\* Without a day at zero every day but the first has a return.
LEMMA ReturnsEveryDay ==
  ASSUME NEW e \in Seq(Nat), Len(e) \in Nat \ {0}, \A i \in DOMAIN e : e[i] > 0
  PROVE  DailyReturns(e) = [k \in 1..Len(e) - 1 |-> Change(e[k], e[k + 1])]
<1> DEFINE m == Len(e) - 1
           places == [i \in 1..m |-> i]
           I == {i \in DOMAIN places : e[places[i]] # 0}
           from == Chosen(places, I)
<1>1. m \in Nat /\ DOMAIN e = 1..m + 1 /\ \A i \in 1..m : e[i] > 0 /\ e[i] \in Nat
  <2>1. DOMAIN e = 1..Len(e) /\ m + 1 = Len(e) /\ m \in Nat
    OBVIOUS
  <2>2. \A i \in 1..m : i \in DOMAIN e
    BY <2>1
  <2> QED
    BY <2>1, <2>2
<1>2. DailyReturns(e) = [k \in DOMAIN from |-> Change(e[from[k]], e[from[k] + 1])]
  BY DEF DailyReturns, Only, Chosen, InOrder
<1> HIDE DEF m
<1>3. places \in Seq(1..m) /\ DOMAIN places = 1..m /\ \A i \in 1..m : places[i] = i
  BY <1>1
<1>4. I = DOMAIN places
  <2> HIDE DEF places
  <2> QED
    BY <1>1, <1>3
<1> HIDE DEF I, places
<1>5. from = places
  BY <1>3, <1>4, ChosenAll
<1> HIDE DEF from
<1> QED
  BY <1>2, <1>3, <1>5 DEF m

\* What the returns compound to, day by day.
LEMMA GrownByDay ==
  ASSUME NEW rets \in Seq(Int \X Int)
  PROVE  \E h : /\ h[0] = <<1, 1>> /\ \A k \in 1..Len(rets) : h[k] = Grown(h[k - 1], rets[k])
                /\ FoldLeft(LAMBDA a, r : <<a[1] * (r[1] + r[2]), a[2] * r[2]>>, <<1, 1>>, rets)
                     = h[Len(rets)]
<1> DEFINE n == Len(rets)
           V == Int \X Int
           One1 == <<1, 1>>
           F == [p \in V \X V |-> Grown(p[1], p[2])]
           Steps(g) == g = [s \in SUBSET DOMAIN rets |->
                              IF s = {} THEN One1 ELSE Grown(g[s \ {Max(s)}], rets[Max(s)])]
           G == CHOOSE g : Steps(g)
           h == [k \in 0..n |-> G[1..k]]
<1>1. n \in Nat /\ DOMAIN rets = 1..n /\ \A i \in 1..n : rets[i] \in V
  OBVIOUS
<1>2. FoldLeft(LAMBDA a, r : <<a[1] * (r[1] + r[2]), a[2] * r[2]>>, <<1, 1>>, rets) = G[DOMAIN rets]
  BY DEF FoldLeft, MapThenFoldSet, Grown
<1>3. F \in [V \X V -> V] /\ One1 \in V
  <2>1. \A p \in V \X V : Grown(p[1], p[2]) \in V
    BY DEF Grown
  <2> QED
    BY <2>1
<1>4. rets \in Seq(V)
  OBVIOUS
<1> HIDE DEF F, V, One1
<1>5. PICK g \in [SUBSET DOMAIN rets -> V] : FoldsUp(g, F, One1, rets, n)
  BY <1>3, <1>4, FoldExists
<1>6. Steps(g)
  <2>1. ASSUME NEW s \in SUBSET (1..n)
        PROVE  g[s] = IF s = {} THEN One1 ELSE Grown(g[s \ {Max(s)}], rets[Max(s)])
    <3>1. g[s] = IF s = {} THEN One1 ELSE F[<<g[s \ {Max(s)}], rets[Max(s)]>>]
      BY <1>5 DEF FoldsUp
    <3>2. CASE s = {}
      BY <3>1, <3>2
    <3>3. CASE s # {}
      <4>1. s \in SUBSET (0..n)
        OBVIOUS
      <4>2. Max(s) \in s
        BY <1>1, <3>3, <4>1, Greatest
      <4>3. g[s \ {Max(s)}] \in V /\ rets[Max(s)] \in V
        BY <1>1, <1>5, <4>2
      <4>4. F[<<g[s \ {Max(s)}], rets[Max(s)]>>] = Grown(g[s \ {Max(s)}], rets[Max(s)])
        BY <4>3 DEF F
      <4> QED
        BY <3>1, <3>3, <4>4
    <3> QED
      BY <3>2, <3>3
  <2> QED
    BY <1>1, <1>5, <2>1
<1>7. Steps(G)
  <2> HIDE DEF Steps
  <2> QED
    BY <1>6
<1>8. \A s \in SUBSET (1..n) : G[s] = IF s = {} THEN One1 ELSE Grown(G[s \ {Max(s)}], rets[Max(s)])
  BY <1>1, <1>7
<1> HIDE DEF G, Steps
<1>9. G[1..0] = One1
  <2>1. 1..0 = {} /\ 1..0 \in SUBSET (1..n)
    OBVIOUS
  <2> QED
    BY <1>8, <2>1
<1>10. ASSUME NEW k \in 1..n PROVE G[1..k] = Grown(G[1..k - 1], rets[k])
  <2>1. Max(1..k) = k /\ (1..k) \ {k} = 1..k - 1 /\ 1..k # {}
    <3>1. k \in Nat \ {0}
      OBVIOUS
    <3> QED
      BY <3>1, LastPlace
  <2>2. 1..k \in SUBSET (1..n)
    BY <1>1
  <2> QED
    BY <1>8, <2>1, <2>2
<1>11. \A k \in 0..n : h[k] = G[1..k]
  OBVIOUS
<1>12. h[0] = One1 /\ h[n] = G[1..n]
  BY <1>1, <1>9, <1>11
<1>13. \A k \in 1..n : h[k] = Grown(h[k - 1], rets[k])
  <2> TAKE k \in 1..n
  <2>1. k \in 0..n /\ k - 1 \in 0..n
    BY <1>1
  <2> QED
    BY <1>10, <1>11, <2>1
<1> HIDE DEF h
<1> QED
  BY <1>1, <1>2, <1>12, <1>13 DEF One1

\* The returns of one curve.
LEMMA CompoundOf ==
  ASSUME NEW e \in Seq(Nat), Len(e) \in Nat \ {0}, \A i \in DOMAIN e : e[i] > 0
  PROVE  LET grown == FoldLeft(LAMBDA a, r : <<a[1] * (r[1] + r[2]), a[2] * r[2]>>, <<1, 1>>,
                               DailyReturns(e))
             cum   == CumulativeReturn(e)
         IN  grown[1] * cum[2] = (cum[1] + cum[2]) * grown[2]
<1> DEFINE m == Len(e) - 1
           rets == DailyReturns(e)
           grown == FoldLeft(LAMBDA a, r : <<a[1] * (r[1] + r[2]), a[2] * r[2]>>, <<1, 1>>, rets)
<1>1. m \in Nat /\ Len(e) = m + 1 /\ \A i \in 1..m + 1 : e[i] \in Nat /\ e[i] > 0
  OBVIOUS
<1>2. rets = [k \in 1..m |-> Change(e[k], e[k + 1])]
  BY ReturnsEveryDay
<1> HIDE DEF m, rets
<1>3. \A k \in 1..m : rets[k] = <<e[k + 1] - e[k], e[k]>> /\ e[k] \in Nat /\ e[k + 1] \in Nat
  <2> TAKE k \in 1..m
  <2>1. k \in 1..m + 1 /\ k + 1 \in 1..m + 1
    BY <1>1
  <2> QED
    BY <1>1, <1>2, <2>1 DEF Change
<1>4. rets \in Seq(Int \X Int) /\ Len(rets) = m
  <2>1. \A k \in 1..m : Change(e[k], e[k + 1]) \in Int \X Int
    BY <1>3 DEF Change
  <2>2. rets \in [1..m -> Int \X Int]
    BY <1>2, <2>1
  <2> QED
    BY <1>1, <2>2
<1>5. PICK h : /\ h[0] = <<1, 1>> /\ \A k \in 1..m : h[k] = Grown(h[k - 1], rets[k])
               /\ grown = h[m]
  BY <1>4, GrownByDay
<1> HIDE DEF grown
<1> DEFINE P(k) == /\ h[k][1] \in Int /\ h[k][2] \in Int
                   /\ h[k][1] * e[1] = e[k + 1] * h[k][2]
           T == {k \in Nat : k <= m => P(k)}
<1>6. e[1] \in Nat
  BY <1>1
<1>7. 0 \in T
  BY <1>5, <1>6
<1>8. ASSUME NEW k \in Nat, k \in T PROVE k + 1 \in T
  <2> SUFFICES ASSUME k + 1 <= m PROVE P(k + 1)
    OBVIOUS
  <2>1. k + 1 \in 1..m /\ P(k)
    BY <1>1, <1>8
  <2> DEFINE g1 == h[k][1]
             g2 == h[k][2]
             x == e[k + 1]
             y == e[k + 2]
             a == e[1]
  <2>2. /\ g1 \in Int /\ g2 \in Int /\ x \in Nat /\ y \in Nat /\ a \in Nat
        /\ g1 * a = x * g2
    BY <1>3, <1>6, <2>1
  <2>3. h[k + 1] = Grown(h[k], rets[k + 1]) /\ rets[k + 1] = <<y - x, x>>
    <3>1. (k + 1) - 1 = k /\ (k + 1) + 1 = k + 2
      OBVIOUS
    <3>2. rets[k + 1] = <<e[(k + 1) + 1] - e[k + 1], e[k + 1]>>
      BY <1>3, <2>1
    <3>3. h[k + 1] = Grown(h[(k + 1) - 1], rets[k + 1])
      BY <1>5, <2>1
    <3> QED
      BY <3>1, <3>2, <3>3
  <2>4. h[k + 1][1] = g1 * ((y - x) + x) /\ h[k + 1][2] = g2 * x
    BY <2>3 DEF Grown
  <2> HIDE DEF g1, g2, x, y, a
  <2>5. (y - x) + x = y
    BY <2>2
  <2>6. (g1 * y) * a = y * (g2 * x)
    <3>1. (g1 * y) * a = y * (g1 * a)
      BY <2>2, SMTT(30)
    <3>2. y * (x * g2) = y * (g2 * x)
      BY <2>2, SMTT(30)
    <3> QED
      BY <2>2, <3>1, <3>2
  <2>7. g1 * y \in Int /\ g2 * x \in Int
    BY <2>2
  <2> QED
    BY <2>4, <2>5, <2>6, <2>7 DEF y, a
<1> HIDE DEF T
<1>9. m \in T
  BY <1>1, <1>7, <1>8, Induction
<1>10. P(m)
  BY <1>1, <1>9 DEF T
<1>11. e[1] \in Nat /\ e[1] > 0 /\ e[m + 1] \in Nat
  BY <1>1
<1>12. CumulativeReturn(e) = <<e[m + 1] - e[1], e[1]>>
  BY <1>1, <1>11 DEF CumulativeReturn, Change, Last
<1>13. (e[m + 1] - e[1]) + e[1] = e[m + 1]
  BY <1>11
<1>14. grown[1] * e[1] = ((e[m + 1] - e[1]) + e[1]) * grown[2]
  BY <1>5, <1>10, <1>13
<1>15. CumulativeReturn(e)[1] = e[m + 1] - e[1] /\ CumulativeReturn(e)[2] = e[1]
  BY <1>12
<1>16. grown[1] * CumulativeReturn(e)[2] = (CumulativeReturn(e)[1] + CumulativeReturn(e)[2]) * grown[2]
  BY <1>14, <1>15
<1> QED
  BY <1>16 DEF grown, rets

\* A track without snapshots in a window has no curve there.
LEMMA NoCurve == Daily(<<>>) = <<>>
<1> DEFINE places == [i \in DOMAIN <<>> |-> i]
           I == {i \in DOMAIN places : places[i] = Len(<<>>) \/ <<>>[places[i] + 1].day > <<>>[places[i]].day}
           last == Chosen(places, I)
<1>1. Daily(<<>>) = [k \in DOMAIN last |-> <<>>[last[k]].equity]
  BY DEF Daily, Only, Chosen, InOrder
<1>2. places \in Seq({}) /\ DOMAIN places = {}
  OBVIOUS
<1>3. I = {}
  BY <1>2
<1> HIDE DEF I, places
<1>4. last \in Seq({})
  BY <1>2, <1>3, ChosenElements
<1> HIDE DEF last
<1>5. last = <<>>
  BY <1>4
<1> QED
  BY <1>1, <1>5

\* Drawdown, daily returns and cumulative return are figures of the same curve,
\* whatever the history of equities (leaderboard.py).
THEOREM FiguresAgree == Spec => []MetricsAgree
<1>1. ASSUME Inv, NEW t \in Tracks, NEW w \in Windows, Daily(Seen(t, w)) # <<>>
      PROVE  Daily(Seen(t, w)) \in Seq(Nat) /\ Len(Daily(Seen(t, w))) \in Nat \ {0}
  <2>1. Seen(t, w) # <<>>
    BY <1>1, NoCurve
  <2>2. Seen(t, w) \in Seq(Snap)
    BY <1>1, SeenTyped DEF Inv
  <2> QED
    BY <2>1, <2>2, DailyTyped
<1>2. Inv => DrawdownIsWorstFall
  BY <1>1, DrawdownOf DEF DrawdownIsWorstFall
<1>3. Inv => ReturnsCompound
  BY <1>1, CompoundOf DEF ReturnsCompound
<1>4. Inv => MetricsAgree
  BY <1>2, <1>3 DEF MetricsAgree
<1> QED
  BY <1>4, Invariance, PTL

-----------------------------------------------------------------------------
(* The stored numbers.  A rounded share is one of 0..Scale, a rank the     *)
(* place of a track, and a row stands for one observation at least.        *)

\* A rounded ratio is a number; a share of a whole is rounded to a share.
LEMMA QuantizedTyped ==
  ASSUME NEW a \in Int, NEW b \in Nat \ {0}
  PROVE  /\ Quantized(<<a, b>>) \in Int
         /\ a >= 0 /\ a <= b => Quantized(<<a, b>>) \in 0..Scale
<1> DEFINE c == 2 * a * Scale + b
           d == 2 * b
           q == Nearest(a * Scale, b)
<1>1. Scale \in Nat \ {0} /\ <<a, b>> # None
  BY ScoringAssumption
<1>2. <<a, b>>[1] = a /\ <<a, b>>[2] = b
  OBVIOUS
<1>3. Quantized(<<a, b>>) = q
  BY <1>1, <1>2 DEF Quantized
<1>4. c \in Int /\ d \in Nat /\ d > 0 /\ b < d
  BY <1>1
<1>5. q \in Int /\ d * q <= c /\ c <= d * q + d
  <2>1. a * Scale \in Int /\ 2 * (a * Scale) = 2 * a * Scale
    BY <1>1
  <2>2. /\ q \in Int /\ d * q <= 2 * (a * Scale) + b
        /\ 2 * (a * Scale) <= d * q + b
    BY <2>1, NearestFacts
  <2>3. d * q \in Int
    BY <1>4, <2>2
  <2> HIDE DEF q
  <2> QED
    BY <2>1, <2>2, <2>3
<1>6. ASSUME a >= 0, a <= b PROVE q \in 0..Scale
  <2>1. a * Scale \in Nat /\ b * Scale \in Nat /\ a * Scale <= b * Scale
    BY <1>1, <1>6
  <2>2. c > 0 /\ c <= 2 * (b * Scale) + b
    <3>1. c = 2 * (a * Scale) + b
      BY <1>1
    <3> HIDE DEF c
    <3> QED
      BY <2>1, <3>1
  <2>3. d * Scale = 2 * (b * Scale) /\ d * Scale \in Nat
    BY <1>1, <2>1
  <2>4. d * (Scale + 1) = d * Scale + d
    BY <1>1, <1>4
  <2> HIDE DEF c, q
  <2>5. d * q < d * (Scale + 1)
    <3>1. d * q \in Int
      BY <1>4, <1>5
    <3> HIDE DEF d
    <3> QED
      BY <1>4, <1>5, <2>2, <2>3, <2>4, <3>1
  <2>6. d * (q + 1) > 0
    <3>1. d * (q + 1) = d * q + d /\ d * q \in Int
      BY <1>4, <1>5
    <3> HIDE DEF d
    <3> QED
      BY <1>4, <1>5, <2>2, <3>1
  <2> HIDE DEF d
  <2>7. q < Scale + 1 /\ q + 1 > 0
    BY <1>1, <1>4, <1>5, <2>5, <2>6
  <2> QED
    BY <1>1, <1>5, <2>7
<1> QED
  BY <1>3, <1>5, <1>6

\* A drawdown is a share of the peak it falls from.
LEMMA DrawdownShare ==
  ASSUME NEW e \in Seq(Nat)
  PROVE  \E a \in Nat, b \in Nat \ {0} : MaxDrawdown(e) = <<a, b>> /\ a <= b
<1> DEFINE n == Len(e)
<1>1. PICK d : d.worst = MaxDrawdown(e) /\ AfterDays(e, d, n)
  BY WorstFall
<1>2. n \in Nat /\ \A i \in 1..n : e[i] \in Nat
  OBVIOUS
<1>3. CASE d.worst = Zero
  <2>1. d.worst = <<0, 1>> /\ 0 \in Nat /\ 1 \in Nat \ {0} /\ 0 <= 1
    BY <1>3 DEF Zero
  <2> QED
    BY <1>1, <2>1
<1>4. CASE d.worst # Zero
  <2>1. PICK i \in 1..n : \E j \in i..n : e[i] > 0 /\ d.worst = Fall(e[i], e[j])
    BY <1>1, <1>4 DEF AfterDays
  <2>2. PICK j \in i..n : e[i] > 0 /\ d.worst = Fall(e[i], e[j])
    BY <2>1
  <2> DEFINE x == e[i]
             y == e[j]
  <2>3. x \in Nat \ {0} /\ y \in Nat /\ i \in i..n
    BY <1>2, <2>2
  <2>4. ~Less(d.worst, Fall(x, x))
    BY <1>1, <2>2, <2>3 DEF AfterDays
  <2>5. d.worst = <<x - y, x>>
    BY <2>2 DEF Fall
  <2> HIDE DEF x, y
  <2>6. ~((x - y) * x < 0)
    <3>1. Fall(x, x) = <<0, x>>
      BY <2>3 DEF Fall
    <3>2. ~((x - y) * x < 0 * x)
      BY <2>4, <2>5, <3>1 DEF Less
    <3> QED
      BY <2>3, <3>2
  <2>7. x >= y
    BY <2>3, <2>6
  <2>8. x - y \in Nat /\ x - y <= x
    BY <2>3, <2>7
  <2> QED
    BY <1>1, <2>3, <2>5, <2>8
<1> QED
  BY <1>3, <1>4

\* What is chosen of a sequence is no longer than it.
LEMMA ChosenLength ==
  ASSUME NEW S, NEW s \in Seq(S), NEW I \in SUBSET (DOMAIN s)
  PROVE  Len(Chosen(s, I)) \in Nat /\ Len(Chosen(s, I)) <= Len(s)
<1>1. Len(s) \in Nat /\ DOMAIN s = 1..Len(s)
  OBVIOUS
<1>2. IsFiniteSet(DOMAIN s) /\ Cardinality(DOMAIN s) = Len(s)
  <2> DEFINE n == Len(s)
  <2>1. DOMAIN s = 1..n /\ n \in Nat /\ 1 \in Int
    BY <1>1
  <2> HIDE DEF n
  <2>2. /\ IsFiniteSet(1..n)
        /\ Cardinality(1..n) = IF 1 > n THEN 0 ELSE n - 1 + 1
    BY <2>1, FS_Interval
  <2>3. IsFiniteSet(1..n) /\ Cardinality(1..n) = n
    BY <2>1, <2>2
  <2> QED
    BY <2>1, <2>3 DEF n
<1>3. IsFiniteSet(I) /\ Cardinality(I) <= Len(s) /\ I \subseteq Int
  BY <1>1, <1>2, FS_Subset
<1>4. DOMAIN InOrder(I) = 1..Cardinality(I) /\ Cardinality(I) \in Nat
  BY <1>3, Increasing
<1>5. DOMAIN Chosen(s, I) = 1..Cardinality(I)
  BY <1>4 DEF Chosen
<1>6. Chosen(s, I) \in Seq(S)
  BY ChosenElements
<1>7. Len(Chosen(s, I)) = Cardinality(I)
  <2> DEFINE c == Chosen(s, I)
             m == Cardinality(I)
  <2>1. c \in Seq(S) /\ DOMAIN c = 1..m /\ m \in Nat
    BY <1>4, <1>5, <1>6
  <2> HIDE DEF c, m
  <2>2. Len(c) = m
    BY <2>1
  <2> QED
    BY <2>2 DEF c, m
<1> QED
  BY <1>3, <1>4, <1>7

\* The share of days won is a share, where there are days.
LEMMA WinRateTyped ==
  ASSUME SnapsTyped, NEW t \in Tracks, NEW w, t \in Shown(w)
  PROVE  Metrics(t, w).winRate \in {None} \cup 0..Scale
<1> DEFINE e == Daily(Seen(t, w))
           m == Len(e) - 1
           places == [i \in 1..m |-> i]
           I == {i \in DOMAIN places : e[places[i]] # 0}
           from == Chosen(places, I)
           rets == DailyReturns(e)
           J == {i \in DOMAIN rets : Less(Zero, rets[i])}
           wins == Chosen(rets, J)
<1>1. Metrics(t, w).winRate = IF rets = <<>> THEN None ELSE Quantized(<<Len(wins), Len(rets)>>)
  BY DEF Metrics, Only, Chosen, InOrder
<1>2. e \in Seq(Nat) /\ Len(e) \in Nat \ {0}
  BY SeenTyped, DailyTyped
<1>3. rets = [k \in DOMAIN from |-> Change(e[from[k]], e[from[k] + 1])]
  BY DEF DailyReturns, Only, Chosen, InOrder
<1> HIDE DEF e
<1>4. m \in Nat
  BY <1>2
<1> HIDE DEF m
<1>5. places \in Seq(1..m) /\ I \in SUBSET DOMAIN places
  BY <1>4
<1> HIDE DEF places, I
<1>6. from \in Seq(1..m) /\ DOMAIN from = 1..Len(from)
  BY <1>5, ChosenElements
<1> HIDE DEF from
<1>7. Len(from) \in Nat /\ DOMAIN rets = 1..Len(from)
  BY <1>3, <1>6
<1> HIDE DEF rets
<1>8. CASE rets = <<>>
  BY <1>1, <1>8
<1>9. CASE rets # <<>>
  <2> DEFINE S == {rets[k] : k \in DOMAIN rets}
             n == Len(rets)
             v == Len(wins)
  <2>1. rets \in [1..Len(from) -> S]
    BY <1>3, <1>7 DEF rets
  <2>2. rets \in Seq(S)
    BY <1>7, <2>1
  <2>3. J \in SUBSET DOMAIN rets
    OBVIOUS
  <2> HIDE DEF S, J
  <2>4. v \in Nat /\ v <= n
    BY <2>2, <2>3, ChosenLength
  <2>5. n \in Nat \ {0}
    BY <1>9, <2>2
  <2> HIDE DEF n, v
  <2>6. Quantized(<<v, n>>) \in 0..Scale
    BY <2>4, <2>5, QuantizedTyped
  <2>7. Metrics(t, w).winRate = Quantized(<<v, n>>)
    BY <1>1, <1>9 DEF n, v
  <2> QED
    BY <2>6, <2>7
<1> QED
  BY <1>8, <1>9

\* The drawdown of a track that is shown is a share.
LEMMA DrawdownTyped ==
  ASSUME SnapsTyped, NEW t \in Tracks, NEW w, t \in Shown(w)
  PROVE  Metrics(t, w).drawdown \in 0..Scale
<1> DEFINE e == Daily(Seen(t, w))
<1>1. Metrics(t, w).drawdown = Quantized(MaxDrawdown(e))
  BY DEF Metrics
<1>2. e \in Seq(Nat)
  BY SeenTyped, DailyTyped
<1> HIDE DEF e
<1>3. PICK a \in Nat, b \in Nat \ {0} : MaxDrawdown(e) = <<a, b>> /\ a <= b
  BY <1>2, DrawdownShare
<1>4. a \in Int /\ a >= 0
  OBVIOUS
<1>5. Quantized(<<a, b>>) \in 0..Scale
  BY <1>3, <1>4, QuantizedTyped
<1> QED
  BY <1>1, <1>3, <1>5

\* A rank is the place of one of the tracks.
LEMMA RankTyped ==
  ASSUME NEW D \in SUBSET Tracks, NEW cum \in [D -> {None} \cup Int], NEW t \in D
  PROVE  Rank(cum, t) \in 1..Len(TrackList)
<1> DEFINE n == Len(TrackList)
<1>1. n \in Nat /\ DOMAIN TrackList = 1..n
  BY ScoringAssumption
<1>2. TrackList \in Surjection(1..n, Tracks)
  <2>1. TrackList \in [1..n -> Tracks]
    BY <1>1, ScoringAssumption
  <2> QED
    BY <1>1, <2>1 DEF Surjection, Tracks, Range
<1> HIDE DEF n
<1>3. IsFiniteSet(1..n) /\ Cardinality(1..n) = n
  <2>1. /\ IsFiniteSet(1..n)
        /\ Cardinality(1..n) = IF 1 > n THEN 0 ELSE n - 1 + 1
    BY <1>1, FS_Interval
  <2> QED
    BY <1>1, <2>1
<1>4. IsFiniteSet(Tracks) /\ Cardinality(Tracks) <= n
  BY <1>2, <1>3, FS_Surjection
<1>5. Cardinality(D) <= Cardinality(Tracks) /\ Cardinality(D) \in Nat /\ Cardinality(Tracks) \in Nat
  BY <1>4, FS_Subset, FS_CardinalityType
<1>6. Rank(cum, t) \in 1..Cardinality(D)
  BY RanksOf
<1> QED
  BY <1>1, <1>4, <1>5, <1>6 DEF n

\* An average is a number, also of nothing.
LEMMA AverageTyped ==
  ASSUME RecsTyped, PricesTyped, NEW rs \in SUBSET Rewarded(recs)
  PROVE  Average(rs) \in Int
<1>1. CASE rs = {}
  BY <1>1 DEF Average
<1>2. CASE rs # {}
  <2> DEFINE b == Max({RewardOf(r) : r \in rs})
             s == SumOf(rs)
             n == Cardinality(rs)
  <2>1. b \in Int /\ \A r \in rs : RewardOf(r) <= b
    BY <1>2, GreatestReward
  <2> HIDE DEF b
  <2>2. s \in Int /\ n \in Nat /\ n # 0
    BY <1>2, <2>1, RewardsBelow, FS_EmptySet
  <2>3. Average(rs) = Nearest(s, n)
    BY <1>2 DEF Average
  <2> HIDE DEF s, n
  <2> QED
    BY <2>2, <2>3, NearestFacts
<1> QED
  BY <1>1, <1>2

\* What is scored is counted.
LEMMA SomeCounted ==
  ASSUME RecsTyped, NEW rs \in SUBSET recs, rs # {}
  PROVE  Cardinality(rs) > 0
<1>1. IsFiniteSet(rs)
  BY FS_Subset DEF RecsTyped
<1>2. Cardinality(rs) \in Nat /\ Cardinality(rs) # 0
  BY <1>1, FS_CardinalityType, FS_EmptySet
<1> QED
  BY <1>2

ScoresTyped  == \A k \in DOMAIN scores : scores[k].count > 0 /\ scores[k].reward \in Int
RegretsTyped == \A k \in DOMAIN regrets : regrets[k].count > 0 /\ regrets[k].regret \in Nat
BoardTyped ==
  \A k \in DOMAIN board : LET m == board[k].metrics IN
       /\ k \in Windows \X Tracks /\ board[k].rank \in 1..Len(TrackList)
       /\ m.drawdown \in 0..Scale /\ m.cum \in {None} \cup Int
       /\ m.winRate \in {None} \cup 0..Scale

\* score-run writes averages of one recommendation or more.
LEMMA ScoreTyped ==
  ASSUME Inv, ScoresTyped, NEW run, NEW date, ScoreRun(run, date)
  PROVE  ScoresTyped'
<1> DEFINE due == Rewarded(RecsOf(run))
           of(k) == {r \in due : ScoreKey(r, date) = k}
           K == {ScoreKey(r, date) : r \in due}
           rows == [k \in K |-> [reward |-> Average(of(k)), count |-> Cardinality(of(k)),
                                 from |-> <<run, prices>>]]
<1>1. scores' = Upserted(scores, rows)
  BY DEF ScoreRun
<1>2. RecsTyped /\ PricesTyped /\ due \in SUBSET Rewarded(recs)
  BY DEF Inv, Rewarded, RecsOf
<1>3. ASSUME NEW k \in K PROVE rows[k].count > 0 /\ rows[k].reward \in Int
  <2>1. of(k) # {} /\ of(k) \in SUBSET Rewarded(recs) /\ of(k) \in SUBSET recs
    BY <1>2 DEF Rewarded
  <2>2. rows[k].reward = Average(of(k)) /\ rows[k].count = Cardinality(of(k))
    OBVIOUS
  <2> HIDE DEF of, rows
  <2> QED
    BY <1>2, <2>1, <2>2, AverageTyped, SomeCounted
<1>4. DOMAIN rows = K
  OBVIOUS
<1> HIDE DEF rows, K, of, due
<1>5. /\ DOMAIN scores' = DOMAIN scores \cup K
      /\ \A k \in DOMAIN scores' : scores'[k] = IF k \in K THEN rows[k] ELSE scores[k]
  BY <1>1, <1>4 DEF Upserted
<1> QED
  BY <1>3, <1>5 DEF ScoresTyped

\* judge-regret writes a regret that is not negative, over one
\* recommendation or more.
LEMMA RegretWritten ==
  ASSUME Inv, RegretsTyped, NEW run, NEW t, NEW date, JudgeRegret(run, t, date)
  PROVE  RegretsTyped'
<1> DEFINE scored == Rewarded(AllRecs(run, t))
           chosen == Rewarded(Selected(run, t))
<1>1. PICK p \in Decided(run, t) :
        regrets' = Upserted(regrets, [k \in {<<p.judge, t, date>>} |->
             [selected |-> Average(chosen), best |-> Best(run, t),
              regret |-> Regret(Best(run, t), Average(chosen)),
              count |-> Cardinality(scored), from |-> <<run, prices>>]])
  BY DEF JudgeRegret
<1> DEFINE key == <<p.judge, t, date>>
           row == [selected |-> Average(chosen), best |-> Best(run, t),
                   regret |-> Regret(Best(run, t), Average(chosen)),
                   count |-> Cardinality(scored), from |-> <<run, prices>>]
           rows == [k \in {key} |-> row]
<1>2. regrets' = Upserted(regrets, rows) /\ scored # {}
  BY <1>1 DEF JudgeRegret
<1>3. /\ RecsTyped /\ PricesTyped
      /\ scored \in SUBSET Rewarded(recs) /\ chosen \in SUBSET Rewarded(recs)
      /\ scored \in SUBSET recs
  BY DEF Inv, Rewarded, AllRecs, RecsOf, Selected
<1>4. Best(run, t) \in Int /\ Average(chosen) \in Int /\ Cardinality(scored) > 0
  <2>1. Best(run, t) = Max({RewardOf(r) : r \in scored})
    BY DEF Best
  <2> HIDE DEF scored, chosen
  <2> QED
    BY <1>2, <1>3, <2>1, GreatestReward, AverageTyped, SomeCounted
<1>5. DOMAIN rows = {key} /\ rows[key] = row
      /\ row.regret = Regret(Best(run, t), Average(chosen)) /\ row.count = Cardinality(scored)
  OBVIOUS
<1> HIDE DEF row, rows, key, scored, chosen
<1>6. row.regret \in Nat
  <2> DEFINE d == Best(run, t) - Average(chosen)
  <2>1. d \in Int
    BY <1>4
  <2>2. row.regret = Max({0, d})
    BY <1>5 DEF Regret
  <2> HIDE DEF d
  <2>3. {0, d} \in SUBSET Int
    BY <2>1
  <2>4. CASE d >= 0
    BY <2>1, <2>2, <2>3, <2>4, MaxIs
  <2>5. CASE ~(d >= 0)
    <3>1. 0 \in {0, d} /\ \A y \in {0, d} : 0 >= y
      BY <2>1, <2>5
    <3>2. Max({0, d}) = 0
      BY <2>3, <3>1, MaxIs
    <3> QED
      BY <2>2, <3>2
  <2> QED
    BY <2>4, <2>5
<1>7. /\ DOMAIN regrets' = DOMAIN regrets \cup {key} /\ regrets'[key] = row
      /\ \A k \in DOMAIN regrets : k # key => regrets'[k] = regrets[k]
  BY <1>2, <1>5 DEF Upserted
<1> QED
  BY <1>4, <1>5, <1>6, <1>7 DEF RegretsTyped

\* A leaderboard writes entries of its window.
LEMMA BoardWritten ==
  ASSUME Inv, BoardTyped, NEW w \in Windows, Leaderboard(w)
  PROVE  BoardTyped'
<1> DEFINE D == Shown(w)
           m == [t \in D |-> Metrics(t, w)]
           cum == [t \in D |-> m[t].cum]
           rows == [k \in {w} \X D |-> Entry(k, m[k[2]], Rank(cum, k[2]))]
<1>1. SnapsTyped
  BY DEF Inv
<1>2. {t \in Tracks : Seen(t, w) # <<>>} = D
  BY <1>1, SeenTyped DEF Shown
<1>3. board' = Upserted(board, rows)
  BY <1>2 DEF Leaderboard
<1>4. cum \in [D -> {None} \cup Int] /\ D \in SUBSET Tracks
  BY <1>1, CumTyped DEF Shown
<1>5. ASSUME NEW t \in D
      PROVE  /\ m[t].cum \in {None} \cup Int /\ m[t].drawdown \in 0..Scale
             /\ m[t].winRate \in {None} \cup 0..Scale
             /\ Rank(cum, t) \in 1..Len(TrackList)
  <2>1. t \in Tracks /\ t \in Shown(w) /\ m[t] = Metrics(t, w)
    BY <1>4
  <2>2. Rank(cum, t) \in 1..Len(TrackList)
    <3> HIDE DEF cum, D
    <3> QED
      BY <1>4, RankTyped
  <2> HIDE DEF m, D
  <2>3. m[t].cum \in {None} \cup Int
    BY <1>1, <2>1, CumTyped
  <2>4. m[t].drawdown \in 0..Scale
    BY <1>1, <2>1, DrawdownTyped
  <2>5. m[t].winRate \in {None} \cup 0..Scale
    BY <1>1, <2>1, WinRateTyped
  <2> QED
    BY <2>2, <2>3, <2>4, <2>5
<1> HIDE DEF m, cum
<1>6. DOMAIN rows = {w} \X D
  OBVIOUS
<1>7. ASSUME NEW k \in {w} \X D
      PROVE  /\ k \in Windows \X Tracks /\ k[2] \in D
             /\ rows[k].metrics = m[k[2]] /\ rows[k].rank = Rank(cum, k[2])
  <2>1. k[2] \in D /\ k \in Windows \X Tracks
    BY <1>4
  <2>2. rows[k] = Entry(k, m[k[2]], Rank(cum, k[2]))
    OBVIOUS
  <2> QED
    BY <2>1, <2>2 DEF Entry
<1> HIDE DEF rows, D
<1>8. /\ DOMAIN board' = DOMAIN board \cup DOMAIN rows
      /\ \A k \in DOMAIN board' : board'[k] = IF k \in DOMAIN rows THEN rows[k] ELSE board[k]
  BY <1>3 DEF Upserted
<1>9. ASSUME NEW k \in DOMAIN board'
      PROVE  /\ k \in Windows \X Tracks /\ board'[k].rank \in 1..Len(TrackList)
             /\ board'[k].metrics.drawdown \in 0..Scale
             /\ board'[k].metrics.cum \in {None} \cup Int
             /\ board'[k].metrics.winRate \in {None} \cup 0..Scale
  <2>1. CASE k \in DOMAIN rows
    <3>1. /\ board'[k].metrics = m[k[2]] /\ board'[k].rank = Rank(cum, k[2])
          /\ k[2] \in D /\ k \in Windows \X Tracks
      BY <1>6, <1>7, <1>8, <2>1
    <3> QED
      BY <1>5, <3>1
  <2>2. CASE k \notin DOMAIN rows
    <3>1. k \in DOMAIN board /\ board'[k] = board[k]
      BY <1>8, <2>2
    <3> QED
      BY <3>1 DEF BoardTyped
  <2> QED
    BY <2>1, <2>2
<1> QED
  BY <1>9 DEF BoardTyped

LEMMA TypeStep == Inv /\ TypeOK /\ [Next]_vars => TypeOK'
<1> SUFFICES ASSUME Inv, TypeOK, [Next]_vars PROVE TypeOK'
  OBVIOUS
<1>1. ScoresTyped /\ RegretsTyped /\ BoardTyped
  BY DEF TypeOK, ScoresTyped, RegretsTyped, BoardTyped
<1>2. /\ UNCHANGED scores => ScoresTyped'
      /\ UNCHANGED regrets => RegretsTyped'
      /\ UNCHANGED board => BoardTyped'
  BY <1>1 DEF ScoresTyped, RegretsTyped, BoardTyped
<1>3. ScoresTyped' /\ RegretsTyped' /\ BoardTyped'
  <2>1. ASSUME NEW run \in Runs, NEW date \in Dates, ScoreRun(run, date)
        PROVE  ScoresTyped' /\ RegretsTyped' /\ BoardTyped'
    <3>1. ScoresTyped'
      BY <1>1, <2>1, ScoreTyped
    <3>2. UNCHANGED <<regrets, board>>
      BY <2>1 DEF ScoreRun
    <3> QED
      BY <1>2, <3>1, <3>2
  <2>2. ASSUME NEW run \in Runs, NEW t \in Tracks, NEW date \in Dates, JudgeRegret(run, t, date)
        PROVE  ScoresTyped' /\ RegretsTyped' /\ BoardTyped'
    <3>1. RegretsTyped'
      BY <1>1, <2>2, RegretWritten
    <3>2. UNCHANGED <<scores, board>>
      BY <2>2 DEF JudgeRegret
    <3> QED
      BY <1>2, <3>1, <3>2
  <2>3. ASSUME NEW w \in Windows, Leaderboard(w)
        PROVE  ScoresTyped' /\ RegretsTyped' /\ BoardTyped'
    <3>1. BoardTyped'
      BY <1>1, <2>3, BoardWritten
    <3>2. UNCHANGED <<scores, regrets>>
      BY <2>3 DEF Leaderboard
    <3> QED
      BY <1>2, <3>1, <3>2
  <2>4. ASSUME NEW t \in Tracks, NEW day \in 1..LastDay, NEW e \in Equities, NewSnapshot(t, day, e)
        PROVE  ScoresTyped' /\ RegretsTyped' /\ BoardTyped'
    BY <1>2, <2>4 DEF NewSnapshot
  <2>5. ASSUME NEW q \in Quotes, NEW x \in Returns, PriceKnown(q, x)
        PROVE  ScoresTyped' /\ RegretsTyped' /\ BoardTyped'
    BY <1>2, <2>5 DEF PriceKnown
  <2>6. ASSUME UNCHANGED vars PROVE ScoresTyped' /\ RegretsTyped' /\ BoardTyped'
    BY <1>2, <2>6 DEF vars
  <2> QED
    BY <2>1, <2>2, <2>3, <2>4, <2>5, <2>6 DEF Next
<1> QED
  BY <1>3 DEF TypeOK, ScoresTyped, RegretsTyped, BoardTyped

\* Stored numbers are in the range their meaning allows: a drawdown and a win
\* rate are shares, a rank is the place of one of the tracks, a regret is not
\* negative and no row stands for nothing (the tables of db/models.py).
THEOREM TypeCorrect == Spec => []TypeOK
<1>1. Init => TypeOK
  BY DEF Init, TypeOK
<1>2. Inv /\ TypeOK /\ [Next]_vars => TypeOK'
  BY TypeStep
<1> QED
  BY <1>1, <1>2, Invariance, PTL DEF Spec

=============================================================================
