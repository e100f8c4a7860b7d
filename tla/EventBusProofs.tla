--------------------------- MODULE EventBusProofs ---------------------------
(***************************************************************************)
(* Proofs about the dashboard's event bus, for every set of subscribers,   *)
(* every capacity of their queues and every number of events: what a       *)
(* client sees is in order, and only old events are ever dropped.          *)
(*                                                                         *)
(* The inductive invariant speaks of a subscriber's line: what it got,     *)
(* what it is sending and what it has queued, as one sequence.  Getting an *)
(* event and sending it only move the boundaries in the line; publishing   *)
(* appends to it, and a full queue and a client that goes away take one    *)
(* event out of it.  Two lemmas about appending and removing carry the     *)
(* proof.                                                                  *)
(***************************************************************************)
EXTENDS EventBus, SequenceTheorems, TLAPS

-----------------------------------------------------------------------------
(* The inductive invariant.                                                *)

Held(h) == IF h = 0 THEN <<>> ELSE <<h>>
Line(s) == received[s] \o Held(holds[s]) \o queue[s]

\* A line is increasing, and begins after the events from before the
\* subscription.
Increasing(line) == \A i, j \in 1..Len(line) : i < j => line[i] < line[j]
After(line, from) == \A i \in 1..Len(line) : line[i] > from

\* The event k places before the end of a line is at least k events old:
\* the head of a full queue is not among the newest once another is put.
Aged(line, last) == \A i \in 1..Len(line) : line[i] + (Len(line) - i) <= last

\* The newest events are all there (NewestKept, for one subscriber).
Complete(line, from, last) ==
  \A n \in from + 1..last : n > last - QueueSize => \E i \in 1..Len(line) : line[i] = n

\* An event is held exactly between queue.get() and the end of a send.
HoldsWhileSending ==
  \A s \in Subscribers : holds[s] # 0 <=> stage[s] \in {"sending", "sending_last"}

\* Who has not subscribed has nothing; who has is registered until the bus
\* is closed, as long as it listens.
OffIsEmpty ==
  \A s \in Subscribers :
    /\ stage[s] = "off" => queue[s] = <<>> /\ received[s] = <<>> /\ s \notin registered
    /\ Open(s) /\ ~closed => s \in registered

LineOK(s) ==
  /\ since[s] <= Len(published)
  /\ Increasing(Line(s)) /\ After(Line(s), since[s]) /\ Aged(Line(s), Len(published))
  /\ Open(s) => Complete(Line(s), since[s], Len(published))
LinesOK == \A s \in Subscribers : LineOK(s)

Inv == TypeOK /\ HoldsWhileSending /\ OffIsEmpty /\ LinesOK

-----------------------------------------------------------------------------
(* Lines.                                                                  *)

\* x followed by e, the event after `last`, has all that x had, and e.
LEMMA AppendKeepsLine ==
  ASSUME NEW x \in Seq(Nat), NEW y \in Seq(Nat), NEW from \in Nat, NEW last \in Nat,
         y = Append(x, last + 1), from <= last,
         Increasing(x), After(x, from), Aged(x, last)
  PROVE  /\ Increasing(y) /\ After(y, from) /\ Aged(y, last + 1)
         /\ Complete(x, from, last) => Complete(y, from, last + 1)
<1>1. /\ Len(x) \in Nat /\ Len(y) = Len(x) + 1 /\ y[Len(x) + 1] = last + 1
      /\ \A i \in 1..Len(x) : y[i] = x[i] /\ x[i] \in Nat
  BY last + 1 \in Nat, AppendProperties
<1>2. \A i \in 1..Len(x) : x[i] <= last
  <2> SUFFICES ASSUME NEW i \in 1..Len(x) PROVE x[i] <= last
    OBVIOUS
  <2>1. x[i] + (Len(x) - i) <= last /\ x[i] \in Nat
    BY <1>1 DEF Aged
  <2> QED
    BY <1>1, <2>1
<1>3. \A i \in 1..Len(y) : i = Len(x) + 1 \/ i \in 1..Len(x)
  BY <1>1
<1>4. Increasing(y)
  <2> SUFFICES ASSUME NEW i \in 1..Len(y), NEW j \in 1..Len(y), i < j PROVE y[i] < y[j]
    BY DEF Increasing
  <2>1. i \in 1..Len(x)
    BY <1>1
  <2>2. CASE j \in 1..Len(x)
    BY <1>1, <2>1, <2>2 DEF Increasing
  <2>3. CASE j = Len(x) + 1
    BY <1>1, <1>2, <2>1, <2>3
  <2> QED
    BY <1>3, <2>2, <2>3
<1>5. After(y, from)
  <2> SUFFICES ASSUME NEW i \in 1..Len(y) PROVE y[i] > from
    BY DEF After
  <2>1. CASE i \in 1..Len(x)
    BY <1>1, <2>1 DEF After
  <2>2. CASE i = Len(x) + 1
    BY <1>1, <2>2
  <2> QED
    BY <1>3, <2>1, <2>2
<1>6. Aged(y, last + 1)
  <2> SUFFICES ASSUME NEW i \in 1..Len(y) PROVE y[i] + (Len(y) - i) <= last + 1
    BY DEF Aged
  <2>1. CASE i \in 1..Len(x)
    <3>1. x[i] + (Len(x) - i) <= last /\ x[i] \in Nat /\ y[i] = x[i]
      BY <1>1, <2>1 DEF Aged
    <3> QED
      BY <1>1, <2>1, <3>1, SMTT(30)
  <2>2. CASE i = Len(x) + 1
    <3>1. y[i] = last + 1 /\ Len(y) = i
      BY <1>1, <2>2
    <3> QED
      BY <3>1
  <2> QED
    BY <1>3, <2>1, <2>2
<1>7. ASSUME Complete(x, from, last) PROVE Complete(y, from, last + 1)
  <2> SUFFICES ASSUME NEW n \in from + 1..last + 1, n > last + 1 - QueueSize
               PROVE  \E i \in 1..Len(y) : y[i] = n
    BY BusAssumption, SMTT(30) DEF Complete
  <2>1. CASE n = last + 1
    BY <1>1, <2>1
  <2>2. CASE n # last + 1
    <3>1. n \in from + 1..last /\ n > last - QueueSize
      BY <2>2, BusAssumption
    <3>2. PICK k \in 1..Len(x) : x[k] = n
      BY <1>7, <3>1 DEF Complete
    <3>3. k \in 1..Len(y) /\ y[k] = n
      BY <1>1, <3>2
    <3> QED
      BY <3>3
  <2> QED
    BY <2>1, <2>2
<1> QED
  BY <1>4, <1>5, <1>6, <1>7

\* y is x without the event at place a.
Without(y, x, a) ==
  /\ a \in 1..Len(x) /\ Len(y) = Len(x) - 1
  /\ \A i \in 1..a - 1 : y[i] = x[i]
  /\ \A i \in a..Len(x) - 1 : y[i] = x[i + 1]

\* Taking an event out leaves a line in order; it stays complete if
\* QueueSize places follow the one that was taken.
LEMMA RemovalKeepsLine ==
  ASSUME NEW x, NEW y, NEW from \in Nat, NEW last \in Nat, NEW a \in Nat,
         Len(x) \in Nat, \A i \in 1..Len(x) : x[i] \in Nat, Without(y, x, a),
         Increasing(x), After(x, from), Aged(x, last)
  PROVE  /\ Increasing(y) /\ After(y, from) /\ Aged(y, last)
         /\ Complete(x, from, last) /\ Len(x) - a >= QueueSize => Complete(y, from, last)
<1> DEFINE up(i) == IF i < a THEN i ELSE i + 1
<1>1. Len(x) \in Nat /\ Len(y) = Len(x) - 1 /\ a \in 1..Len(x)
  BY DEF Without
<1>2. \A i \in 1..Len(x) : x[i] \in Nat
  OBVIOUS
<1>3. ASSUME NEW i \in 1..Len(y)
      PROVE  up(i) \in 1..Len(x) /\ y[i] = x[up(i)] /\ i <= up(i) /\ up(i) <= i + 1
  <2>1. CASE i < a
    <3>1. i \in 1..a - 1 /\ i \in 1..Len(x) /\ up(i) = i
      BY <1>1, <2>1
    <3>2. y[i] = x[i]
      BY <3>1 DEF Without
    <3> QED
      BY <3>1, <3>2
  <2>2. CASE ~(i < a)
    <3>1. i \in a..Len(x) - 1 /\ i + 1 \in 1..Len(x) /\ up(i) = i + 1
      BY <1>1, <2>2
    <3>2. y[i] = x[i + 1]
      BY <3>1 DEF Without
    <3> QED
      BY <3>1, <3>2
  <2> QED
    BY <2>1, <2>2
<1>4. \A i, j \in 1..Len(y) : i < j => up(i) < up(j)
  BY <1>1
<1> HIDE DEF up
<1>5. Increasing(y)
  BY <1>3, <1>4 DEF Increasing
<1>6. After(y, from)
  BY <1>3 DEF After
<1>7. Aged(y, last)
  <2> SUFFICES ASSUME NEW i \in 1..Len(y) PROVE y[i] + (Len(y) - i) <= last
    BY DEF Aged
  <2>1. PICK u \in 1..Len(x) : y[i] = x[u] /\ u <= i + 1
    <3>1. up(i) \in 1..Len(x) /\ y[i] = x[up(i)] /\ up(i) <= i + 1
      BY <1>3
    <3> QED
      BY <3>1
  <2>2. y[i] + (Len(x) - u) <= last /\ y[i] \in Nat
    BY <1>2, <2>1 DEF Aged
  <2>3. Len(y) - i <= Len(x) - u
    BY <1>1, <2>1
  <2> QED
    BY SMTT(30), <1>1, <2>1, <2>2, <2>3
<1>8. ASSUME Complete(x, from, last), Len(x) - a >= QueueSize PROVE Complete(y, from, last)
  <2> SUFFICES ASSUME NEW n \in from + 1..last, n > last - QueueSize
               PROVE  \E i \in 1..Len(y) : y[i] = n
    BY DEF Complete
  <2>1. PICK k \in 1..Len(x) : x[k] = n
    BY <1>8 DEF Complete
  <2>2. k # a
    <3>1. x[a] + (Len(x) - a) <= last /\ x[a] \in Nat
      BY <1>1, <1>2 DEF Aged
    <3>2. Len(x) - a \in Int /\ Len(x) - a >= QueueSize /\ QueueSize \in Nat
      BY <1>1, <1>8, BusAssumption
    <3>3. x[a] <= last - QueueSize
      BY <3>1, <3>2
    <3>4. n # x[a]
      BY <3>1, <3>2, <3>3
    <3> QED
      BY <2>1, <3>4
  <2>3. CASE k < a
    <3>1. k \in 1..a - 1 /\ k \in 1..Len(y)
      BY <1>1, <2>3
    <3> QED
      BY <2>1, <3>1 DEF Without
  <2>4. CASE k > a
    <3>1. k - 1 \in a..Len(x) - 1 /\ k - 1 \in 1..Len(y) /\ (k - 1) + 1 = k
      BY <1>1, <2>4
    <3>2. y[k - 1] = x[k]
      BY <3>1 DEF Without
    <3> QED
      BY <2>1, <3>1, <3>2
  <2> QED
    BY <1>1, <2>2, <2>3, <2>4
<1> QED
  BY <1>5, <1>6, <1>7, <1>8

\* A line and its parts are sequences of numbers.
LEMMA LineType ==
  ASSUME TypeOK, NEW s \in Subscribers
  PROVE  /\ received[s] \in Seq(Nat) /\ queue[s] \in Seq(Nat)
         /\ holds[s] \in Nat /\ Held(holds[s]) \in Seq(Nat)
         /\ Line(s) \in Seq(Nat)
         /\ since[s] \in Nat /\ Len(published) \in Nat
<1>1. Numbers \subseteq Nat /\ 0..MaxEvents \subseteq Nat
  BY BusAssumption DEF Numbers
<1>2. received[s] \in Seq(Nat) /\ queue[s] \in Seq(Nat)
  BY <1>1, SeqMonotonic DEF TypeOK
<1>3. holds[s] \in Nat /\ since[s] \in Nat /\ Len(published) \in Nat
  BY <1>1, LenProperties DEF TypeOK
<1>4. Held(holds[s]) \in Seq(Nat)
  BY <1>3 DEF Held
<1>5. Line(s) \in Seq(Nat)
  BY <1>2, <1>4, ConcatProperties DEF Line
<1> QED
  BY <1>2, <1>3, <1>4, <1>5

\* What a step leaves alone of a subscriber keeps its line in order.
LEMMA LineUnchanged ==
  ASSUME NEW s \in Subscribers, LineOK(s),
         received'[s] = received[s], holds'[s] = holds[s], queue'[s] = queue[s],
         since'[s] = since[s], stage'[s] = stage[s], published' = published
  PROVE  LineOK(s)'
  BY DEF LineOK, Line, Open

-----------------------------------------------------------------------------
(* The steps.                                                              *)

\* The bus begins with no events and no subscriber.
LEMMA InitInv == Init => Inv
<1> SUFFICES ASSUME Init PROVE Inv
  OBVIOUS
<1>1. TypeOK
  <2>1. published \in Seq(Kinds) /\ Len(published) = 0
    <3>1. published = <<>>
      BY DEF Init
    <3> QED
      BY <3>1, EmptySeq
  <2>2. stage \in [Subscribers -> Stages] /\ closed \in BOOLEAN /\ registered \subseteq Subscribers
    BY DEF Init, Stages
  <2> 0 \in 0..MaxEvents
    BY BusAssumption
  <2>4. since \in [Subscribers -> 0..MaxEvents] /\ holds \in [Subscribers -> 0..MaxEvents]
    BY DEF Init
  <2>3. /\ queue \in [Subscribers -> Seq(Numbers)] /\ received \in [Subscribers -> Seq(Numbers)]
        /\ \A s \in Subscribers : Len(queue[s]) = 0
    <3>1. <<>> \in Seq(Numbers) /\ Len(<<>>) = 0
      BY EmptySeq
    <3> QED
      BY <3>1 DEF Init
  <2> QED
    BY <2>1, <2>2, <2>3, <2>4, BusAssumption DEF TypeOK
<1>2. HoldsWhileSending /\ OffIsEmpty
  BY DEF Init, HoldsWhileSending, OffIsEmpty, Open
<1>3. ASSUME NEW s \in Subscribers PROVE LineOK(s)
  <2>1. received[s] = <<>> /\ Held(holds[s]) = <<>> /\ queue[s] = <<>>
    BY DEF Init, Held
  <2>2. Line(s) = <<>>
    BY <2>1, EmptySeq, ConcatEmptySeq DEF Line
  <2>3. Len(Line(s)) = 0 /\ Len(published) = 0 /\ since[s] = 0 /\ stage[s] = "off"
    BY <2>2 DEF Init
  <2>4. Increasing(Line(s)) /\ After(Line(s), since[s]) /\ Aged(Line(s), Len(published))
    BY <2>3 DEF Increasing, After, Aged
  <2> QED
    BY <2>3, <2>4 DEF LineOK, Open
<1> QED
  BY <1>1, <1>2, <1>3 DEF Inv, LinesOK

\* Of z = x \o q \o <<e>>, y = x \o Tail(q) \o <<e>> is without the head of q.
Places(lx, lq, x, q, w, v, e, y, z) ==
  /\ lx \in Nat /\ lq \in Nat \ {0} /\ Len(y) = lx + lq /\ Len(z) = lx + lq + 1
  /\ \A i \in 1..lx : y[i] = x[i]
  /\ \A j \in 1..lq : y[lx + j] = w[j]
  /\ \A i \in 1..lx : v[i] = x[i]
  /\ \A j \in 1..lq : v[lx + j] = q[j]
  /\ \A i \in 1..lx + lq : z[i] = v[i]
  /\ z[lx + lq + 1] = e
  /\ \A j \in 1..lq - 1 : w[j] = q[j + 1]
  /\ w[lq] = e

\* The removal is that of the first place of q.
LEMMA PlacesWithout ==
  ASSUME NEW lx, NEW lq, NEW x, NEW q, NEW w, NEW v, NEW e, NEW y, NEW z,
         Places(lx, lq, x, q, w, v, e, y, z)
  PROVE  Without(y, z, lx + 1)
<1> USE DEF Places
<1>1. ASSUME NEW i \in lx + 1..lx + lq PROVE y[i] = z[i + 1]
  <2> DEFINE j == i - lx
  <2>1. j \in 1..lq /\ i = lx + j /\ i + 1 = lx + (j + 1)
    OBVIOUS
  <2> HIDE DEF j
  <2>2. y[i] = w[j]
    BY <2>1
  <2>3. CASE j = lq
    <3>1. i + 1 = lx + lq + 1
      BY <2>1, <2>3
    <3> QED
      BY <2>2, <2>3, <3>1
  <2>4. CASE j # lq
    <3>1. j \in 1..lq - 1 /\ j + 1 \in 1..lq /\ i + 1 \in 1..lx + lq
      BY <2>1, <2>4
    <3>2. z[i + 1] = v[lx + (j + 1)]
      BY <2>1, <3>1
    <3>3. w[j] = q[j + 1] /\ v[lx + (j + 1)] = q[j + 1]
      BY <3>1
    <3> QED
      BY <2>2, <3>2, <3>3
  <2> QED
    BY <2>3, <2>4
<1>2. \A i \in 1..lx : y[i] = z[i]
  OBVIOUS
<1> QED
  BY <1>1, <1>2 DEF Without

\* put_nowait after making room: the event goes to the end of the line, and
\* if the queue was full its head leaves the line.
LEMMA PutInLine ==
  ASSUME NEW x \in Seq(Nat), NEW q \in Seq(Nat), NEW e \in Nat, Len(q) <= QueueSize
  PROVE  /\ Enqueue(q, e) \in Seq(Nat) /\ Len(Enqueue(q, e)) <= QueueSize
         /\ \/ x \o Enqueue(q, e) = Append(x \o q, e)
            \/ \E a \in Nat : /\ Without(x \o Enqueue(q, e), Append(x \o q, e), a)
                              /\ Len(Append(x \o q, e)) - a >= QueueSize
<1>1. Len(x) \in Nat /\ Len(q) \in Nat
  BY LenProperties
<1>2. CASE Len(q) # QueueSize
  <2>1. Enqueue(q, e) = Append(q, e)
    BY <1>2 DEF Enqueue
  <2>2. Append(q, e) \in Seq(Nat) /\ Len(Append(q, e)) = Len(q) + 1
    BY AppendProperties
  <2>3. Len(q) + 1 <= QueueSize
    BY <1>1, <1>2, BusAssumption
  <2>4. x \o Append(q, e) = Append(x \o q, e)
    <3>1. x \o q \in Seq(Nat) /\ <<e>> \in Seq(Nat)
      BY ConcatProperties
    <3>2. Append(q, e) = q \o <<e>> /\ Append(x \o q, e) = (x \o q) \o <<e>>
      BY <3>1, AppendIsConcat
    <3>3. (x \o q) \o <<e>> = x \o (q \o <<e>>)
      BY <3>1, ConcatAssociative
    <3> QED
      BY <3>2, <3>3
  <2> QED
    BY <2>1, <2>2, <2>3, <2>4
<1>3. CASE Len(q) = QueueSize
  <2> DEFINE t == Tail(q)
             w == Append(t, e)
             y == x \o w
             z == Append(x \o q, e)
  <2>1. q # <<>> /\ QueueSize \in Nat /\ Len(q) \in Nat \ {0}
    BY <1>3, BusAssumption, EmptySeq
  <2>2. t \in Seq(Nat) /\ Len(t) = Len(q) - 1 /\ \A i \in 1..Len(t) : t[i] = q[i + 1]
    BY <2>1, HeadTailProperties
  <2>3. Enqueue(q, e) = w
    BY <1>3 DEF Enqueue
  <2> HIDE DEF t
  <2>4. w \in Seq(Nat) /\ Len(w) = Len(q) /\ w[Len(q)] = e
    BY <1>1, <2>2, AppendProperties
  <2>5. \A j \in 1..Len(q) - 1 : w[j] = q[j + 1]
    BY <2>2, AppendProperties
  <2> HIDE DEF w
  <2>6. /\ Len(y) = Len(x) + Len(q)
        /\ \A i \in 1..Len(x) : y[i] = x[i]
        /\ \A j \in 1..Len(q) : y[Len(x) + j] = w[j]
    <3>1. /\ Len(y) = Len(x) + Len(w)
          /\ \A i \in 1..Len(x) + Len(w) :
               y[i] = IF i <= Len(x) THEN x[i] ELSE w[i - Len(x)]
      BY <2>4, ConcatProperties
    <3> QED
      BY <1>1, <2>4, <3>1
  <2>7. /\ x \o q \in Seq(Nat) /\ Len(x \o q) = Len(x) + Len(q)
        /\ \A i \in 1..Len(x) : (x \o q)[i] = x[i]
        /\ \A j \in 1..Len(q) : (x \o q)[Len(x) + j] = q[j]
    <3>1. /\ x \o q \in Seq(Nat) /\ Len(x \o q) = Len(x) + Len(q)
          /\ \A i \in 1..Len(x) + Len(q) :
               (x \o q)[i] = IF i <= Len(x) THEN x[i] ELSE q[i - Len(x)]
      BY ConcatProperties
    <3> QED
      BY <1>1, <3>1
  <2>8. /\ Len(z) = Len(x) + Len(q) + 1 /\ z[Len(x) + Len(q) + 1] = e
        /\ \A i \in 1..Len(x) + Len(q) : z[i] = (x \o q)[i]
    BY <2>7, AppendProperties
  <2> HIDE DEF y, z
  <2>9. Len(z) - (Len(x) + 1) >= QueueSize /\ Len(x) + 1 \in Nat
    BY <1>1, <1>3, <2>8
  <2>10. Without(y, z, Len(x) + 1)
    <3>1. Places(Len(x), Len(q), x, q, w, x \o q, e, y, z)
      BY <1>1, <2>1, <2>4, <2>5, <2>6, <2>7, <2>8 DEF Places
    <3> QED
      BY <3>1, PlacesWithout
  <2>11. \E a \in Nat : Without(y, z, a) /\ Len(z) - a >= QueueSize
    BY <2>9, <2>10
  <2> QED
    BY <1>3, <2>1, <2>3, <2>4, <2>11 DEF y, z
<1> QED
  BY <1>2, <1>3

\* ... which stays a sequence of what it was one of.
LEMMA EnqueueType ==
  ASSUME NEW S, NEW q \in Seq(S), NEW e \in S, Len(q) <= QueueSize
  PROVE  Enqueue(q, e) \in Seq(S) /\ Len(Enqueue(q, e)) <= QueueSize
<1>1. Len(q) \in Nat
  BY LenProperties
<1>2. CASE Len(q) = QueueSize
  <2>1. q # <<>>
    BY <1>2, BusAssumption, EmptySeq
  <2>2. Tail(q) \in Seq(S) /\ Len(Tail(q)) = Len(q) - 1
    BY <2>1, HeadTailProperties
  <2>3. Append(Tail(q), e) \in Seq(S) /\ Len(Append(Tail(q), e)) = Len(Tail(q)) + 1
    BY <2>2, AppendProperties
  <2> QED
    BY <1>1, <1>2, <2>2, <2>3 DEF Enqueue
<1>3. CASE Len(q) # QueueSize
  <2>1. Append(q, e) \in Seq(S) /\ Len(Append(q, e)) = Len(q) + 1
    BY AppendProperties
  <2> QED
    BY <1>1, <1>3, <2>1, BusAssumption DEF Enqueue
<1> QED
  BY <1>2, <1>3

\* The head of a sequence may as well be the end of what precedes it.
LEMMA SplitHead ==
  ASSUME NEW S, NEW r \in Seq(S), NEW q \in Seq(S), q # <<>>
  PROVE  r \o <<Head(q)>> \o Tail(q) = r \o q
<1>1. 1 \in 1..Len(q) /\ Len(q) \in 1..Len(q) /\ Len(q) \in Nat
  BY EmptySeq
<1>2. SubSeq(q, 1, Len(q)) = <<q[1]>> \o SubSeq(q, 2, Len(q))
  <2>1. 1 + 1 = 2
    OBVIOUS
  <2> QED
    BY <1>1, <2>1, SubSeqRecursiveFirst
<1>3. SubSeq(q, 1, Len(q)) = q /\ Tail(q) = SubSeq(q, 2, Len(q)) /\ Head(q) = q[1]
  BY SubSeqFull, TailIsSubSeq
<1> DEFINE m == <<Head(q)>>
           u == Tail(q)
<1>4. q = m \o u
  BY <1>2, <1>3
<1>5. m \in Seq(S) /\ u \in Seq(S)
  BY HeadTailProperties
<1> HIDE DEF m, u
<1> QED
  BY <1>4, <1>5, ConcatAssociative DEF m, u

\* y is r followed by q.
Joined(y, r, q) ==
  /\ Len(r) \in Nat /\ Len(q) \in Nat /\ Len(y) = Len(r) + Len(q)
  /\ \A i \in 1..Len(r) : y[i] = r[i]
  /\ \A j \in 1..Len(q) : y[Len(r) + j] = q[j]

\* The places of a concatenation.
LEMMA ConcatJoins ==
  ASSUME NEW S, NEW r \in Seq(S), NEW q \in Seq(S)
  PROVE  Joined(r \o q, r, q)
<1>1. Len(r) \in Nat /\ Len(q) \in Nat
  BY LenProperties
<1>2. /\ Len(r \o q) = Len(r) + Len(q)
      /\ \A i \in 1..Len(r) + Len(q) :
           (r \o q)[i] = IF i <= Len(r) THEN r[i] ELSE q[i - Len(r)]
  BY ConcatProperties
<1> QED
  BY <1>1, <1>2 DEF Joined

\* What is somewhere in a sequence of two parts is in one of them.
LEMMA PartOfJoined ==
  ASSUME NEW y, NEW r, NEW q, Joined(y, r, q)
  PROVE  \A i \in 1..Len(y) :
           (\E k \in 1..Len(r) : y[i] = r[k]) \/ (\E k \in 1..Len(q) : y[i] = q[k])
<1> SUFFICES ASSUME NEW i \in 1..Len(y)
             PROVE  (\E k \in 1..Len(r) : y[i] = r[k]) \/ (\E k \in 1..Len(q) : y[i] = q[k])
  OBVIOUS
<1>1. CASE i <= Len(r)
  <2>1. i \in 1..Len(r)
    BY <1>1 DEF Joined
  <2> QED
    BY <2>1 DEF Joined
<1>2. CASE ~(i <= Len(r))
  <2> DEFINE k == i - Len(r)
  <2>1. k \in 1..Len(q) /\ i = Len(r) + k
    BY <1>2 DEF Joined
  <2> HIDE DEF k
  <2>2. y[i] = q[k]
    BY <2>1 DEF Joined
  <2> QED
    BY <2>1, <2>2
<1> QED
  BY <1>1, <1>2

\* What is somewhere in a line is in one of its parts.
LEMMA PartOfLine ==
  ASSUME NEW r \in Seq(Nat), NEW h \in Nat, NEW q \in Seq(Nat), Held(h) \in Seq(Nat),
         NEW i \in 1..Len(r \o Held(h) \o q)
  PROVE  (r \o Held(h) \o q)[i] \in Items(r) \cup {h} \cup Items(q)
<1> DEFINE m == Held(h)
           rm == r \o m
           x == rm \o q
<1>1. rm \in Seq(Nat)
  BY ConcatProperties
<1>2. Joined(rm, r, m) /\ Joined(x, rm, q)
  BY <1>1, ConcatJoins
<1>3. /\ \A k \in 1..Len(m) : m[k] = h
      /\ \A k \in 1..Len(r) : r[k] \in Items(r)
      /\ \A k \in 1..Len(q) : q[k] \in Items(q)
  BY LenProperties DEF Items, Held
<1>4. i \in 1..Len(x)
  OBVIOUS
<1> HIDE DEF m, rm, x
<1>5. (\E j \in 1..Len(rm) : x[i] = rm[j]) \/ (\E k \in 1..Len(q) : x[i] = q[k])
  BY <1>2, <1>4, PartOfJoined, SMTT(30)
<1>6. ASSUME NEW j \in 1..Len(rm)
      PROVE  (\E k \in 1..Len(r) : rm[j] = r[k]) \/ (\E k \in 1..Len(m) : rm[j] = m[k])
  BY <1>2, PartOfJoined
<1>7. x[i] \in Items(r) \cup {h} \cup Items(q)
  BY <1>3, <1>5, <1>6
<1> QED
  BY <1>7 DEF m, rm, x

\* y = r \o q is x = r \o m \o q without the one place of m.
LEMMA MiddleRemoved ==
  ASSUME NEW r, NEW m, NEW q, NEW rm, NEW x, NEW y,
         Joined(rm, r, m), Joined(x, rm, q), Joined(y, r, q), Len(m) = 1
  PROVE  Len(r) + 1 \in Nat /\ Without(y, x, Len(r) + 1)
<1>1. /\ Len(r) \in Nat /\ Len(q) \in Nat /\ Len(rm) = Len(r) + 1
      /\ Len(x) = Len(r) + 1 + Len(q) /\ Len(y) = Len(r) + Len(q)
  BY DEF Joined
<1>2. ASSUME NEW i \in 1..Len(r) PROVE y[i] = x[i]
  <2>1. i \in 1..Len(rm)
    BY <1>1
  <2>2. y[i] = r[i] /\ rm[i] = r[i] /\ x[i] = rm[i]
    BY <2>1 DEF Joined
  <2> QED
    BY <2>2
<1>3. ASSUME NEW i \in Len(r) + 1..Len(r) + Len(q) PROVE y[i] = x[i + 1]
  <2> DEFINE j == i - Len(r)
  <2>1. j \in 1..Len(q) /\ i = Len(r) + j /\ i + 1 = Len(rm) + j
    BY <1>1
  <2> HIDE DEF j
  <2>2. y[Len(r) + j] = q[j] /\ x[Len(rm) + j] = q[j]
    BY <2>1 DEF Joined
  <2> QED
    BY <2>1, <2>2
<1>4. /\ Len(r) + 1 \in 1..Len(x) /\ Len(y) = Len(x) - 1 /\ Len(x) - 1 = Len(r) + Len(q)
      /\ (Len(r) + 1) - 1 = Len(r) /\ Len(r) + 1 \in Nat
  BY <1>1
<1> QED
  BY <1>2, <1>3, <1>4 DEF Without

\* r \o q is r \o <<h>> \o q without the place after r.
LEMMA MiddleTaken ==
  ASSUME NEW r \in Seq(Nat), NEW h \in Nat, NEW q \in Seq(Nat)
  PROVE  Len(r) + 1 \in Nat /\ Without(r \o q, r \o <<h>> \o q, Len(r) + 1)
<1> DEFINE m == <<h>>
<1>1. m \in Seq(Nat) /\ Len(m) = 1
  OBVIOUS
<1> HIDE DEF m
<1>2. r \o m \in Seq(Nat)
  BY <1>1, ConcatProperties
<1>3. Joined(r \o m, r, m) /\ Joined(r \o m \o q, r \o m, q) /\ Joined(r \o q, r, q)
  BY <1>1, <1>2, ConcatJoins
<1> QED
  BY <1>1, <1>3, MiddleRemoved DEF m

\* An event is numbered after all others, so it goes to the end of every
\* line; the head that a full queue drops for it is not among the newest.
LEMMA PublishInv ==
  ASSUME Inv, NEW kind \in Kinds, Publish(kind)
  PROVE  Inv'
<1> DEFINE n == Len(published) + 1
<1>1. /\ published \in Seq(Kinds) /\ published' = Append(published, kind)
      /\ UNCHANGED <<closed, registered, stage, holds, received, since>>
      /\ ~closed /\ Len(published) < MaxEvents
      /\ queue' = [s \in Subscribers |->
                     IF s \in registered THEN Enqueue(queue[s], n) ELSE queue[s]]
  BY DEF Publish, Inv, TypeOK
<1>2. /\ published' \in Seq(Kinds) /\ Len(published') = n /\ n \in Numbers /\ n \in Nat
      /\ Len(published) \in Nat
  BY <1>1, AppendProperties, LenProperties, BusAssumption DEF Numbers
<1> HIDE DEF n
<1>3. ASSUME NEW s \in Subscribers
      PROVE  queue'[s] \in Seq(Numbers) /\ Len(queue'[s]) <= QueueSize
  <2>1. queue[s] \in Seq(Numbers) /\ Len(queue[s]) <= QueueSize
    BY DEF Inv, TypeOK
  <2>2. Enqueue(queue[s], n) \in Seq(Numbers) /\ Len(Enqueue(queue[s], n)) <= QueueSize
    BY <1>2, <2>1, EnqueueType
  <2> QED
    BY <1>1, <2>1, <2>2
<1>4. TypeOK'
  <2>1. Len(published') <= MaxEvents
    BY <1>1, <1>2, BusAssumption DEF n
  <2> QED
    BY <1>1, <1>2, <1>3, <2>1 DEF Inv, TypeOK
<1>5. HoldsWhileSending' /\ OffIsEmpty'
  BY <1>1 DEF Inv, HoldsWhileSending, OffIsEmpty, Open
<1>6. ASSUME NEW s \in Subscribers PROVE LineOK(s)'
  <2> DEFINE x == received[s] \o Held(holds[s])
             q == queue[s]
             last == Len(published)
             from == since[s]
  <2>1. /\ x \in Seq(Nat) /\ q \in Seq(Nat) /\ x \o q \in Seq(Nat) /\ Line(s) = x \o q
        /\ Line(s)' = x \o queue'[s] /\ Len(q) <= QueueSize /\ from \in Nat /\ from <= last
    BY <1>1, LineType, ConcatProperties DEF Inv, Line, TypeOK, LinesOK, LineOK
  <2>2. /\ Increasing(x \o q) /\ After(x \o q, from) /\ Aged(x \o q, last)
        /\ Open(s) => Complete(x \o q, from, last)
    BY <2>1 DEF Inv, LinesOK, LineOK
  <2>3. Len(published') = last + 1 /\ since'[s] = from /\ Open(s)' = Open(s)
    BY <1>1, <1>2 DEF Open, n
  <2>4. from <= last + 1
    BY <1>2, <2>1
  <2>5. CASE s \in registered
    <3>1. queue'[s] = Enqueue(q, last + 1)
      BY <1>1, <2>5 DEF n
    <3> DEFINE y == x \o queue'[s]
               z == Append(x \o q, last + 1)
    <3>2. \/ y = z
          \/ \E a \in Nat : Without(y, z, a) /\ Len(z) - a >= QueueSize
      BY <1>2, <2>1, <3>1, PutInLine DEF n
    <3>3. z \in Seq(Nat) /\ Len(z) \in Nat /\ \A i \in 1..Len(z) : z[i] \in Nat
      <4>1. last + 1 \in Nat
        BY <1>2
      <4>2. z \in Seq(Nat)
        BY <2>1, <4>1, AppendProperties
      <4> QED
        BY <4>2, LenProperties, ElementOfSeq
    <3> HIDE DEF x, q, from, last
    <3>4. /\ Increasing(z) /\ After(z, from) /\ Aged(z, last + 1)
          /\ Open(s) => Complete(z, from, last + 1)
      BY <1>2, <2>1, <2>2, <3>3, AppendKeepsLine, ZenonT(30) DEF last
    <3>5. /\ Increasing(y) /\ After(y, from) /\ Aged(y, last + 1)
          /\ Open(s) => Complete(y, from, last + 1)
      <4> HIDE DEF y, z
      <4>1. CASE y = z
        BY <3>4, <4>1
      <4>2. ASSUME NEW a \in Nat, Without(y, z, a), Len(z) - a >= QueueSize
            PROVE  /\ Increasing(y) /\ After(y, from) /\ Aged(y, last + 1)
                   /\ Open(s) => Complete(y, from, last + 1)
        <5>1. last + 1 \in Nat
          BY <1>2 DEF last
        <5> QED
          BY <2>1, <3>3, <3>4, <4>2, <5>1, RemovalKeepsLine
      <4> QED
        BY <3>2, <4>1, <4>2
    <3> QED
      BY <2>1, <2>3, <2>4, <3>5 DEF LineOK
  <2>6. CASE s \notin registered
    <3>1. queue'[s] = q /\ ~Open(s)
      BY <1>1, <2>6 DEF Inv, OffIsEmpty
    <3>2. Len(x \o q) \in Nat /\ \A i \in 1..Len(x \o q) : (x \o q)[i] \in Nat
      BY <2>1, LenProperties, ElementOfSeq
    <3>3. Aged(x \o q, last + 1)
      <4> HIDE DEF x, q
      <4>1. ASSUME NEW i \in 1..Len(x \o q)
            PROVE  (x \o q)[i] + (Len(x \o q) - i) <= last + 1
        <5>1. (x \o q)[i] + (Len(x \o q) - i) <= last
          BY <2>2 DEF Aged
        <5>2. (x \o q)[i] + (Len(x \o q) - i) \in Int
          BY <3>2
        <5> QED
          BY <1>2, <5>1, <5>2
      <4> QED
        BY <4>1 DEF Aged
    <3> QED
      BY <2>1, <2>2, <2>3, <2>4, <3>1, <3>3 DEF LineOK
  <2> QED
    BY <2>5, <2>6
<1> QED
  BY <1>4, <1>5, <1>6 DEF Inv, LinesOK

\* A subscription starts with what will be published from now on.
LEMMA SubscribeInv ==
  ASSUME Inv, NEW t \in Subscribers, Subscribe(t)
  PROVE  Inv'
<1>1. /\ \A s \in Subscribers \ {t} : stage'[s] = stage[s] /\ since'[s] = since[s]
      /\ stage[t] = "off" /\ stage'[t] = "waiting" /\ since'[t] = Len(published)
      /\ registered' = registered \cup {t}
      /\ UNCHANGED <<published, closed, queue, holds, received>>
  BY DEF Subscribe, Inv, TypeOK
<1>2. /\ queue[t] = <<>> /\ received[t] = <<>> /\ holds[t] = 0
      /\ Len(published) \in Nat /\ Len(published) \in 0..MaxEvents
  <2>1. queue[t] = <<>> /\ received[t] = <<>>
    BY <1>1 DEF Inv, OffIsEmpty
  <2>2. holds[t] = 0
    BY <1>1 DEF Inv, HoldsWhileSending
  <2>3. Len(published) \in Nat /\ Len(published) <= MaxEvents
    BY LenProperties DEF Inv, TypeOK
  <2> QED
    BY <2>1, <2>2, <2>3, BusAssumption
<1>3. TypeOK'
  BY <1>2 DEF Subscribe, Inv, TypeOK, Stages
<1>4. HoldsWhileSending' /\ OffIsEmpty'
  BY <1>1, <1>2 DEF Inv, HoldsWhileSending, OffIsEmpty, Open
<1>5. LineOK(t)'
  <2>1. Line(t)' = <<>>
    BY <1>1, <1>2, EmptySeq, ConcatEmptySeq DEF Line, Held
  <2>2. Len(Line(t)') = 0
    BY <2>1
  <2>3. /\ Increasing(Line(t)') /\ After(Line(t)', since'[t])
        /\ Aged(Line(t)', Len(published'))
    BY <2>2 DEF Increasing, After, Aged
  <2>4. Complete(Line(t)', since'[t], Len(published'))
    BY <1>1, <1>2 DEF Complete
  <2> QED
    BY <1>1, <1>2, <2>3, <2>4 DEF LineOK
<1>6. ASSUME NEW s \in Subscribers \ {t} PROVE LineOK(s)'
  BY <1>1, LineUnchanged DEF Inv, LinesOK
<1> QED
  BY <1>3, <1>4, <1>5, <1>6 DEF Inv, LinesOK

\* Closing leaves every line alone.
LEMMA CloseInv ==
  ASSUME Inv, Close
  PROVE  Inv'
<1>1. TypeOK' /\ HoldsWhileSending' /\ OffIsEmpty'
  BY DEF Inv, Close, TypeOK, HoldsWhileSending, OffIsEmpty, Open
<1>2. \A s \in Subscribers : LineOK(s)'
  BY LineUnchanged DEF Close, Inv, LinesOK
<1> QED
  BY <1>1, <1>2 DEF Inv, LinesOK

\* The head of the queue becomes the event that is held: the line is the same.
LEMMA GetInv ==
  ASSUME Inv, NEW t \in Subscribers, Get(t)
  PROVE  Inv'
<1>1. /\ \A s \in Subscribers \ {t} : /\ holds'[s] = holds[s] /\ queue'[s] = queue[s]
                                      /\ stage'[s] = stage[s]
      /\ UNCHANGED <<published, closed, registered, received, since>>
      /\ stage[t] = "waiting" /\ stage'[t] \in {"sending", "sending_last"}
      /\ queue[t] # <<>> /\ holds'[t] = Head(queue[t]) /\ queue'[t] = Tail(queue[t])
  <2>1. stage \in [Subscribers -> Stages] /\ holds \in [Subscribers -> 0..MaxEvents]
    BY DEF Inv, TypeOK
  <2>2. queue \in [Subscribers -> Seq(Numbers)]
    BY DEF Inv, TypeOK
  <2> QED
    BY <2>1, <2>2 DEF Get
<1>2. /\ Head(queue[t]) \in Numbers /\ Head(queue[t]) \in Nat \ {0}
      /\ queue'[t] \in Seq(Numbers) /\ Len(queue'[t]) <= QueueSize
      /\ queue[t] \in Seq(Nat) /\ queue'[t] \in Seq(Nat) /\ received[t] \in Seq(Nat)
      /\ holds[t] = 0
  <2>1. queue[t] \in Seq(Numbers) /\ Len(queue[t]) <= QueueSize
    BY DEF Inv, TypeOK
  <2>2. /\ Head(queue[t]) \in Numbers /\ queue'[t] \in Seq(Numbers)
        /\ Len(queue'[t]) = Len(queue[t]) - 1 /\ Len(queue[t]) \in Nat
    BY <1>1, <2>1, HeadTailProperties, LenProperties
  <2>3. Len(queue'[t]) <= QueueSize
    BY <2>1, <2>2, BusAssumption
  <2>4. Numbers \subseteq Nat \ {0}
    BY DEF Numbers
  <2>5. queue'[t] \in Seq(Nat)
    BY <2>2, <2>4, SeqMonotonic
  <2> QED
    BY <1>1, <2>2, <2>3, <2>4, <2>5, LineType DEF Inv, HoldsWhileSending
<1>3. TypeOK'
  <2>1. holds' \in [Subscribers -> 0..MaxEvents]
    BY <1>2 DEF Get, Inv, TypeOK, Numbers
  <2>2. stage' \in [Subscribers -> Stages]
    BY DEF Get, Inv, TypeOK, Stages
  <2>3. /\ queue' \in [Subscribers -> Seq(Numbers)]
        /\ \A s \in Subscribers : Len(queue'[s]) <= QueueSize
    BY <1>1, <1>2 DEF Get, Inv, TypeOK
  <2> QED
    BY <1>1, <2>1, <2>2, <2>3 DEF Inv, TypeOK
<1>4. HoldsWhileSending' /\ OffIsEmpty'
  BY <1>1, <1>2 DEF Inv, HoldsWhileSending, OffIsEmpty, Open
<1>5. LineOK(t)'
  <2>1. Line(t) = received[t] \o queue[t]
    BY <1>2, ConcatEmptySeq DEF Line, Held
  <2>2. Held(holds'[t]) = <<Head(queue[t])>>
    BY <1>1, <1>2 DEF Held
  <2>3. Line(t)' = received[t] \o <<Head(queue[t])>> \o Tail(queue[t])
    BY <1>1, <2>2 DEF Line
  <2>4. Line(t)' = Line(t)
    BY <1>1, <1>2, <2>1, <2>3, SplitHead, ZenonT(30)
  <2>6. LineOK(t) /\ Open(t) /\ since'[t] = since[t] /\ published' = published
    BY <1>1 DEF Inv, LinesOK, Open
  <2> QED
    BY <2>4, <2>6 DEF LineOK
<1>6. ASSUME NEW s \in Subscribers \ {t} PROVE LineOK(s)'
  BY <1>1, LineUnchanged DEF Inv, LinesOK
<1> QED
  BY <1>3, <1>4, <1>5, <1>6 DEF Inv, LinesOK

\* The held event is appended to what the client got: the line is the same.
LEMMA SentInv ==
  ASSUME Inv, NEW t \in Subscribers, Sent(t)
  PROVE  Inv'
<1>1. /\ stage \in [Subscribers -> Stages] /\ holds \in [Subscribers -> 0..MaxEvents]
      /\ received \in [Subscribers -> Seq(Numbers)]
  BY DEF Inv, TypeOK
<1>2. /\ \A s \in Subscribers \ {t} : /\ holds'[s] = holds[s] /\ received'[s] = received[s]
                                      /\ stage'[s] = stage[s]
                                      /\ s \in registered' <=> s \in registered
      /\ UNCHANGED <<published, closed, queue, since>>
      /\ holds'[t] = 0 /\ received'[t] = Append(received[t], holds[t])
      /\ stage[t] \in {"sending", "sending_last"} /\ stage'[t] \in {"waiting", "ended"}
      /\ stage'[t] = "waiting" => registered' = registered
      /\ registered' \subseteq registered
  BY <1>1 DEF Sent
<1>3. holds[t] \in Numbers /\ holds[t] \in Nat
  BY <1>1, <1>2, BusAssumption DEF Inv, HoldsWhileSending, Numbers
<1>4. TypeOK'
  <2>1. received' \in [Subscribers -> Seq(Numbers)]
    <3>1. Append(received[t], holds[t]) \in Seq(Numbers)
      BY <1>1, <1>3, AppendProperties
    <3> QED
      BY <1>1, <3>1 DEF Sent
  <2>2. stage' \in [Subscribers -> Stages] /\ holds' \in [Subscribers -> 0..MaxEvents]
    <3>1. 0 \in 0..MaxEvents /\ {"waiting", "ended"} \subseteq Stages
      BY BusAssumption DEF Stages
    <3>2. holds' = [holds EXCEPT ![t] = 0]
      BY DEF Sent
    <3>3. stage' = [stage EXCEPT ![t] = "ended"] \/ stage' = [stage EXCEPT ![t] = "waiting"]
      BY DEF Sent
    <3>4. stage' \in [Subscribers -> Stages]
      BY <1>1, <3>1, <3>3
    <3> QED
      BY <1>1, <3>1, <3>2, <3>4
  <2> QED
    BY <1>2, <2>1, <2>2 DEF Inv, TypeOK
<1>5. HoldsWhileSending' /\ OffIsEmpty'
  BY <1>2 DEF Inv, HoldsWhileSending, OffIsEmpty, Open
<1>6. LineOK(t)'
  <2>1. received[t] \in Seq(Nat) /\ queue[t] \in Seq(Nat)
    BY LineType DEF Inv
  <2>2. Held(holds[t]) = <<holds[t]>> /\ Held(holds'[t]) = <<>>
    BY <1>2 DEF Held, Inv, HoldsWhileSending
  <2>3. received'[t] = received[t] \o <<holds[t]>> /\ received'[t] \in Seq(Nat)
    <3>1. received'[t] = Append(received[t], holds[t])
      BY <1>2
    <3> QED
      BY <1>3, <2>1, <3>1, AppendIsConcat, AppendProperties
  <2>4. received'[t] \o <<>> = received'[t]
    BY <2>3, ConcatEmptySeq
  <2>5. Line(t)' = Line(t)
    BY <1>2, <2>2, <2>3, <2>4 DEF Line
  <2>6. LineOK(t) /\ Open(t) /\ since'[t] = since[t] /\ published' = published
    BY <1>2 DEF Inv, LinesOK, Open
  <2> QED
    BY <2>5, <2>6 DEF LineOK
<1>7. ASSUME NEW s \in Subscribers \ {t} PROVE LineOK(s)'
  BY <1>2, LineUnchanged DEF Inv, LinesOK
<1> QED
  BY <1>4, <1>5, <1>6, <1>7 DEF Inv, LinesOK

\* A client that goes away takes the event it was sent out of its line.
LEMMA ClientGoneInv ==
  ASSUME Inv, NEW t \in Subscribers, ClientGone(t)
  PROVE  Inv'
<1>1. stage \in [Subscribers -> Stages] /\ holds \in [Subscribers -> 0..MaxEvents]
  BY DEF Inv, TypeOK
<1>2. /\ \A s \in Subscribers \ {t} : holds'[s] = holds[s] /\ stage'[s] = stage[s]
      /\ UNCHANGED <<published, closed, registered, queue, received, since>>
      /\ stage[t] \in {"sending", "sending_last"} /\ stage'[t] = "left" /\ holds'[t] = 0
  BY <1>1 DEF ClientGone
<1>3. TypeOK'
  <2>1. stage' \in [Subscribers -> Stages] /\ holds' \in [Subscribers -> 0..MaxEvents]
    BY <1>1, BusAssumption DEF ClientGone, Stages
  <2> QED
    BY <1>2, <2>1 DEF Inv, TypeOK
<1>4. HoldsWhileSending' /\ OffIsEmpty'
  BY <1>2 DEF Inv, HoldsWhileSending, OffIsEmpty, Open
<1>5. LineOK(t)'
  <2> DEFINE r == received[t]
             h == holds[t]
             q == queue[t]
             x == Line(t)
             y == r \o q
             last == Len(published)
             from == since[t]
  <2>1. /\ r \in Seq(Nat) /\ q \in Seq(Nat) /\ h \in Nat /\ x \in Seq(Nat)
        /\ last \in Nat /\ from \in Nat
    BY LineType DEF Inv
  <2>2. h # 0 /\ x = r \o <<h>> \o q
    BY <1>2 DEF Line, Held, Inv, HoldsWhileSending
  <2>3. Line(t)' = y
    BY <1>2, <2>1, ConcatEmptySeq DEF Line, Held
  <2>4. /\ Increasing(x) /\ After(x, from) /\ Aged(x, last) /\ from <= last
        /\ ~Open(t)' /\ since'[t] = from /\ Len(published') = last
    BY <1>2 DEF Inv, LinesOK, LineOK, Open
  <2> HIDE DEF r, h, q, x, last, from
  <2>5. /\ Len(r) + 1 \in Nat /\ Without(y, x, Len(r) + 1)
    BY <2>1, <2>2, MiddleTaken
  <2>6. Len(x) \in Nat /\ \A i \in 1..Len(x) : x[i] \in Nat
    BY <2>1, LenProperties, ElementOfSeq
  <2>7. Increasing(y) /\ After(y, from) /\ Aged(y, last)
    BY <2>1, <2>4, <2>5, <2>6, RemovalKeepsLine
  <2> QED
    BY <2>3, <2>4, <2>7 DEF LineOK
<1>6. ASSUME NEW s \in Subscribers \ {t} PROVE LineOK(s)'
  BY <1>2, LineUnchanged DEF Inv, LinesOK
<1> QED
  BY <1>3, <1>4, <1>5, <1>6 DEF Inv, LinesOK

\* ... and nobody reads its queue any more.
LEMMA FinalizedInv ==
  ASSUME Inv, NEW t \in Subscribers, Finalized(t)
  PROVE  Inv'
<1>1. TypeOK' /\ HoldsWhileSending' /\ OffIsEmpty'
  BY DEF Inv, Finalized, TypeOK, HoldsWhileSending, OffIsEmpty, Open
<1>2. \A s \in Subscribers : LineOK(s)'
  BY LineUnchanged DEF Finalized, Inv, LinesOK
<1> QED
  BY <1>1, <1>2 DEF Inv, LinesOK

-----------------------------------------------------------------------------
(* The theorems.                                                           *)

\* The inductive invariant holds of every behaviour of the bus.
THEOREM Invariance == Spec => []Inv
<1>1. Inv /\ [Next]_vars => Inv'
  <2> SUFFICES ASSUME Inv, [Next]_vars PROVE Inv'
    OBVIOUS
  <2>1. ASSUME NEW kind \in Kinds, Publish(kind) PROVE Inv'
    BY <2>1, PublishInv
  <2>2. CASE Close
    BY <2>2, CloseInv
  <2>3. ASSUME NEW s \in Subscribers,
               Subscribe(s) \/ Get(s) \/ Sent(s) \/ ClientGone(s) \/ Finalized(s)
        PROVE  Inv'
    BY <2>3, SubscribeInv, GetInv, SentInv, ClientGoneInv, FinalizedInv
  <2>4. CASE UNCHANGED vars
    <3>1. TypeOK' /\ HoldsWhileSending' /\ OffIsEmpty'
      BY <2>4 DEF vars, Inv, TypeOK, HoldsWhileSending, OffIsEmpty, Open
    <3>2. \A s \in Subscribers : LineOK(s)'
      BY <2>4, LineUnchanged DEF vars, Inv, LinesOK
    <3> QED
      BY <3>1, <3>2 DEF Inv, LinesOK
  <2> QED
    BY <2>1, <2>2, <2>3, <2>4 DEF Next
<1> QED
  BY <1>1, InitInv, PTL DEF Spec

\* A client gets events in the order of their publication, none twice and
\* none from before its subscription; so are those it is still to get.
THEOREM DeliversInOrder == Spec => []InOrder
<1>1. Inv => InOrder
  <2> SUFFICES ASSUME Inv, NEW s \in Subscribers
               PROVE  /\ \A i \in DOMAIN Line(s) :
                           Line(s)[i] > since[s] /\ Line(s)[i] <= Len(published)
                      /\ \A i \in 1..Len(Line(s)) - 1 : Line(s)[i] < Line(s)[i + 1]
    BY DEF InOrder, Line, Held
  <2> DEFINE x == Line(s)
             last == Len(published)
  <2>1. /\ Increasing(x) /\ After(x, since[s]) /\ Aged(x, last)
    BY DEF Inv, LinesOK, LineOK
  <2>2. /\ x \in Seq(Nat) /\ DOMAIN x = 1..Len(x) /\ Len(x) \in Nat /\ last \in Nat
    BY LineType, LenProperties DEF Inv
  <2>3. \A i \in 1..Len(x) : x[i] \in Nat
    BY <2>2, ElementOfSeq
  <2> HIDE DEF x, last
  <2>4. ASSUME NEW i \in 1..Len(x) PROVE x[i] > since[s] /\ x[i] <= last
    <3>1. x[i] + (Len(x) - i) <= last /\ x[i] > since[s]
      BY <2>1 DEF Aged, After
    <3>2. x[i] \in Nat /\ Len(x) \in Nat /\ last \in Nat
      BY <2>2, <2>3
    <3> QED
      BY <3>1, <3>2
  <2>5. ASSUME NEW i \in 1..Len(x) - 1 PROVE x[i] < x[i + 1]
    <3>1. i \in 1..Len(x) /\ i + 1 \in 1..Len(x) /\ i < i + 1
      BY <2>2
    <3> QED
      BY <2>1, <3>1 DEF Increasing
  <2> QED
    BY <2>2, <2>4, <2>5 DEF x, last
<1> QED
  BY <1>1, Invariance, PTL

\* Of the newest events a subscriber that listens misses none, whatever its
\* pace and even when the bus is closed (EventBus.publish, subscribe).
THEOREM KeepsNewest == Spec => []NewestKept
<1>1. Inv => NewestKept
  <2> SUFFICES ASSUME Inv, NEW s \in Subscribers, Open(s),
                      NEW n \in since[s] + 1..Len(published), n > Len(published) - QueueSize
               PROVE  n \in Items(received[s]) \cup {holds[s]} \cup Items(queue[s])
    BY DEF NewestKept
  <2>1. PICK i \in 1..Len(Line(s)) : Line(s)[i] = n
    BY DEF Inv, LinesOK, LineOK, Complete
  <2>2. /\ received[s] \in Seq(Nat) /\ queue[s] \in Seq(Nat)
        /\ holds[s] \in Nat /\ Held(holds[s]) \in Seq(Nat)
    BY LineType DEF Inv
  <2> QED
    BY <2>1, <2>2, PartOfLine DEF Line
<1> QED
  BY <1>1, Invariance, PTL

=============================================================================
