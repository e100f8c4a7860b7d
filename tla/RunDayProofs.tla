---------------------------- MODULE RunDayProofs ----------------------------
(***************************************************************************)
(* Proofs about the trading day, for every list of windows, every set of   *)
(* orders and every bound: no window is forgotten, whatever fails, and the *)
(* books a window begins on are current, whatever overlaps.                *)
(*                                                                         *)
(* The inductive invariant, IInv, says where the loop is (DayOK, LoopOK,   *)
(* DoneOK), what a pass in flight may rely on although others go on        *)
(* (PassesOK), and what holds in addition while the day's last pass is     *)
(* alone (AloneOK, SettledOK).                                             *)
(***************************************************************************)
EXTENDS RunDay, DataLemmas, FiniteSetTheorems, SequenceTheorems, TLAPS

-----------------------------------------------------------------------------
(* The inductive invariant.                                                *)

DayStages == {"pass", "choose", "sleeping", "window", "ended", "died"}
Done == IF day.at = "window" THEN day.next ELSE day.next - 1

DayOK ==
  /\ clock \in Seconds
  /\ day \in [at : DayStages, windows : Seq(Seconds \cup {BadTime}), once : BOOLEAN,
             strict : BOOLEAN, next : Nat \ {0}]
  /\ day.next <= Len(day.windows) + 1

\* Where the loop can be; the day's own pass is part of its thread.
LoopOK ==
  /\ day.at \in {"sleeping", "window"} => day.next <= Len(day.windows)
  /\ day.at = "sleeping" => ~day.once /\ Target \in Seconds
  /\ day.at = "ended" => day.next = Len(day.windows) + 1

\* The windows before the next one are dealt with, and no other.
DoneOK ==
  /\ day.at # "died" => ran \cup skipped = 1..Done
  /\ ran \cap skipped = {}
  /\ \A i \in skipped : ~day.once /\ day.windows[i] \in Seconds /\ day.windows[i] < clock
  /\ \A i \in ran : ~day.once => day.windows[i] \in Seconds /\ day.windows[i] <= clock

AccountOK ==
  /\ broker \in Seq(Orders) /\ filled \subseteq Range(broker) /\ fills \subseteq filled

FilledRow(o) == rows[o] # NoRow /\ rows[o].status = "filled"

LedgerOK ==
  /\ rows \in [Orders -> Rows \cup {NoRow}]
  /\ \A o \in Orders : rows[o] # NoRow => rows[o].track = Attributed(o)
  /\ \A o \in Orders : FilledRow(o) => o \in fills
  /\ snapshots \in [Seconds -> Seconds \cup {NoRow}]
  /\ \A s \in Stamps : s <= clock

\* What the broker reported stays true; what was found in the ledger stays
\* there.
ReportOK(report) ==
  /\ DOMAIN report \subseteq Range(broker)
  /\ \A o \in DOMAIN report : report[o] \in Statuses /\ (report[o] = "filled" => o \in filled)
AskedOK(s) == s.equity \in Seconds /\ s.equity <= clock
ViewOK(s) ==
  /\ s.stamp \in Seconds /\ s.stamp <= clock
  /\ \A o \in DOMAIN s.report :
       s.rows[o] # NoRow => /\ s.rows[o].track = Attributed(o)
                            /\ s.rows[o].status \in Statuses
                            /\ rows[o] # NoRow
  /\ s.fills \subseteq fills
  /\ s.seen # NoRow => snapshots[s.stamp] # NoRow

PassOK(s) ==
  \/ s = Idle
  \/ s.step = "account" /\ AskedOK(s)
  \/ s.step = "orders" /\ AskedOK(s) /\ ReportOK(s.report)
  \/ s.step = "staged" /\ AskedOK(s) /\ ReportOK(s.report) /\ ViewOK(s)

PassesOK ==
  /\ pass = [p \in Passers |-> pass[p]]
  /\ \A p \in Passers : PassOK(pass[p])
  /\ InFlight("day") => day.at = "pass"

TruthOK ==
  /\ truth = [report |-> truth.report, equity |-> truth.equity, alone |-> truth.alone]
  /\ truth.alone \in BOOLEAN
  /\ ReportOK(truth.report)
  /\ day.at \notin {"pass", "died"} => truth.equity \in Seconds /\ truth.equity <= clock

\* While the day's pass is alone, nobody changes what it has looked at.
AloneOK ==
  truth.alone /\ InFlight("day") =>
    /\ ~InFlight("operator")
    /\ pass["day"].step = "staged" =>
         /\ \A o \in DOMAIN pass["day"].report : pass["day"].rows[o] = rows[o]
         /\ \A s \in Stamps : s <= pass["day"].stamp
         /\ pass["day"].seen = snapshots[pass["day"].stamp]

\* As long as no pass overlaps the day's, the ledger has filled no order that
\* a pass was told is open.
ToldOK ==
  truth.alone =>
    \A p \in Passers : pass[p].step \in {"orders", "staged"} =>
      \A o \in DOMAIN pass[p].report : FilledRow(o) => pass[p].report[o] = "filled"

\* After a pass that was alone, the ledger is no older than what the pass
\* was told, and a pass of the operator that has begun since was told
\* nothing older.
Current(o) ==
  /\ rows[o] # NoRow
  /\ truth.report[o] = "filled" => rows[o].status = "filled" /\ o \in fills
Latest(s) == s \in Stamps /\ \A r \in Stamps : r <= s
SettledOK ==
  Settled =>
    /\ \A o \in DOMAIN truth.report : Current(o)
    /\ \E s \in Stamps : Latest(s) /\ snapshots[s] >= truth.equity
    /\ InFlight("operator") => pass["operator"].equity >= truth.equity
    /\ pass["operator"].step \in {"orders", "staged"} =>
         \A o \in DOMAIN truth.report \cap DOMAIN pass["operator"].report :
           truth.report[o] = "filled" => pass["operator"].report[o] = "filled"
    /\ pass["operator"].step = "staged" =>
         pass["operator"].seen = snapshots[pass["operator"].stamp]

\* The orders of ours among the newest are in the report of the day's pass,
\* and from its commit to the next window in the ledger.
BooksOK ==
  /\ pass["day"].step \in {"orders", "staged"} => Ours \cap Newest \subseteq DOMAIN pass["day"].report
  /\ day.at \in {"choose", "sleeping"} => \A o \in Ours \cap Newest : rows[o] # NoRow

IInv == /\ DayOK /\ LoopOK /\ DoneOK /\ AccountOK /\ LedgerOK /\ PassesOK /\ TruthOK
        /\ AloneOK /\ ToldOK /\ SettledOK /\ BooksOK

-----------------------------------------------------------------------------
(* Attribution, and what the broker lists.                                 *)

\* The track of an order is one of the tracks that its prefix may mean.
LEMMA AttributedMatches ==
  ASSUME NEW o \in Orders, Begins[o] # {}
  PROVE  Attributed(o) \in Begins[o]
<1> DEFINE First(i) == /\ TrackList[i] \in Begins[o]
                       /\ \A j \in 1..i - 1 : TrackList[j] \notin Begins[o]
           Match == {i \in DOMAIN TrackList : TrackList[i] \in Begins[o]}
<1>1. Begins[o] \subseteq Tracks /\ DOMAIN TrackList = 1..Len(TrackList) /\ Len(TrackList) \in Nat
  BY DayAssumption
<1>2. Match # {}
  BY <1>1 DEF Tracks, Range
<1>3. PICK i \in Match : \A k \in Match : i <= k
  <2>1. Match \in SUBSET Nat
    BY <1>1
  <2> QED
    BY <1>2, <2>1, Least
<1>4. \A j \in 1..i - 1 : TrackList[j] \notin Begins[o]
  <2> SUFFICES ASSUME NEW j \in 1..i - 1, TrackList[j] \in Begins[o] PROVE FALSE
    OBVIOUS
  <2>1. i \in Nat /\ i <= Len(TrackList) /\ j \in Nat /\ 1 <= j /\ j < i
    BY <1>1, <1>3
  <2>2. j \in Match
    BY <1>1, <2>1
  <2> QED
    BY <1>3, <2>1, <2>2
<1>5. \E k \in DOMAIN TrackList : First(k)
  BY <1>3, <1>4
<1>6. First(CHOOSE k \in DOMAIN TrackList : First(k))
  BY <1>5
<1> QED
  BY <1>6 DEF Attributed

\* A client order id names a track, or none.
LEMMA AttributedType ==
  ASSUME NEW o \in Orders
  PROVE  Attributed(o) \in Tracks \cup {Unattributed}
<1>1. Begins[o] \subseteq Tracks
  BY DayAssumption
<1>2. CASE Begins[o] = {}
  BY <1>2 DEF Attributed
<1>3. CASE Begins[o] # {}
  BY <1>1, <1>3, AttributedMatches
<1> QED
  BY <1>2, <1>3

\* An order of ours is attributed to the track that placed it.
LEMMA AttributedOfOurs ==
  ASSUME NEW o \in Ours
  PROVE  Attributed(o) = OwnerOf[o]
BY AttributedMatches, PrefixAssumption DEF Orders

\* A new order is the newest; it can only hide old ones.
LEMMA NewestAppend ==
  ASSUME broker \in Seq(Orders), NEW x \in Orders, broker' = Append(broker, x)
  PROVE  Newest' \subseteq Newest \cup {x}
<1>1. /\ Len(broker) \in Nat /\ Len(broker') = Len(broker) + 1 /\ OrdersLimit \in Nat
      /\ broker'[Len(broker) + 1] = x /\ \A i \in 1..Len(broker) : broker'[i] = broker[i]
  BY AppendProperties, DayAssumption
<1> SUFFICES ASSUME NEW y \in Newest' PROVE y \in Newest \cup {x}
  OBVIOUS
<1>2. PICK i \in 1..Len(broker') : i + OrdersLimit > Len(broker') /\ y = broker'[i]
  BY DEF Newest
<1>3. CASE i = Len(broker) + 1
  BY <1>1, <1>2, <1>3
<1>4. CASE i # Len(broker) + 1
  <2>1. i \in 1..Len(broker) /\ i + OrdersLimit > Len(broker)
    BY <1>1, <1>2, <1>4
  <2> QED
    BY <1>1, <1>2, <2>1 DEF Newest
<1> QED
  BY <1>3, <1>4

\* What the broker reports are orders it has.
LEMMA NewestInBroker ==
  ASSUME broker \in Seq(Orders)
  PROVE  Newest \subseteq Range(broker) /\ Newest \subseteq Orders
<1>1. Len(broker) \in Nat /\ DOMAIN broker = 1..Len(broker) /\ \A i \in 1..Len(broker) : broker[i] \in Orders
  OBVIOUS
<1> QED
  BY <1>1 DEF Newest, Range

-----------------------------------------------------------------------------
(* Steps.                                                                  *)

\* A step is one of these, or changes nothing.
LEMMA StepCases ==
  ASSUME [Next]_vars
  PROVE  \/ \E p \in Passers : PassStarts(p) \/ GetOrders(p) \/ Apply(p) \/ Commit(p) \/ PassFails(p)
         \/ Choose \/ WindowBegins \/ WindowEnds \/ DayDies \/ Tick
         \/ \E o \in Ours : WindowSubmits(o)
         \/ \E o \in Orders : BrokerFill(o)
         \/ \E o \in External : ExternalOrder(o)
         \/ UNCHANGED vars
BY DEF Next, DayStep, PassStep, Passers

\* A pass ends in one of two ways.
Commits(p) ==
  /\ Commit(p) /\ ~Conflict(pass[p])
  /\ rows' = [o \in Orders |-> IF o \in DOMAIN pass[p].report THEN Written(pass[p], o) ELSE rows[o]]
  /\ fills' = fills \cup FillsOf(pass[p].report)
  /\ snapshots' = Recorded(pass[p])
  /\ pass' = [pass EXCEPT ![p] = Idle]
  /\ p = "day" => /\ day' = [day EXCEPT !.at = "choose"]
                  /\ truth' = [truth EXCEPT !.report = pass[p].report, !.equity = pass[p].equity]
  /\ p # "day" => UNCHANGED <<day, truth>>
\* A commit either writes everything or rolls back and raises.
LEMMA CommitCases ==
  ASSUME NEW p \in Passers, Commit(p)
  PROVE  Commits(p) \/ (Raises(p) /\ UNCHANGED <<ledger, truth>>)
BY DEF Commit, Commits, Day

\* Whatever a step does to the day, its list is the same, and it never goes
\* back in it.
LEMMA DaySteps ==
  ASSUME DayOK, [Next]_vars
  PROVE  /\ day' = [day EXCEPT !.at = day'.at, !.next = day'.next]
         /\ day'.at \in DayStages /\ day'.next \in {day.next, day.next + 1}

<1>1. UNCHANGED day => day'.at \in DayStages /\ day' = [day EXCEPT !.at = day'.at, !.next = day'.next]
  BY DEF DayOK
<1>2. ASSUME NEW s \in DayStages, Day(s)
      PROVE  /\ day' = [day EXCEPT !.at = day'.at, !.next = day'.next]
             /\ day'.at = s /\ day'.next = day.next
  BY <1>2 DEF Day, DayOK
<1>3. ASSUME NEW p \in Passers, Raises(p)
      PROVE  UNCHANGED day \/ Day("died")
  BY <1>3 DEF Raises
<1>4. ASSUME NEW p \in Passers, PassStarts(p) \/ GetOrders(p) \/ Apply(p) \/ Commit(p) \/ PassFails(p)
      PROVE  UNCHANGED day \/ Day("choose") \/ Day("died")
  BY <1>4, <1>3 DEF PassStarts, GetOrders, Apply, Commit, PassFails
<1>5. Choose => \/ Day("ended") \/ Day("died") \/ Day("sleeping")
                \/ day' = [day EXCEPT !.next = @ + 1]
  BY DEF Choose
<1>6. day' = [day EXCEPT !.next = @ + 1] =>
         /\ day' = [day EXCEPT !.at = day'.at, !.next = day'.next]
         /\ day'.at = day.at /\ day'.next = day.next + 1
  BY DEF DayOK
<1>7. WindowEnds => /\ day' = [day EXCEPT !.at = day'.at, !.next = day'.next]
                    /\ day'.at = "pass" /\ day'.next = day.next + 1
  BY DEF WindowEnds, DayOK
<1>8. WindowBegins => Day("window")
  BY DEF WindowBegins
<1>9. DayDies => Day("died")
  BY DEF DayDies
<1>10. \/ Tick \/ UNCHANGED vars
       \/ \E o \in Ours : WindowSubmits(o)
       \/ \E o \in Orders : BrokerFill(o)
       \/ \E o \in External : ExternalOrder(o)
       => UNCHANGED day
  BY DEF Tick, vars, WindowSubmits, BrokerFill, ExternalOrder
<1> QED
  <2>1. day.at \in DayStages /\ {"pass", "choose", "sleeping", "window", "ended", "died"} = DayStages
    BY DEF DayOK, DayStages
  <2>2. \/ UNCHANGED day \/ \E s \in DayStages : Day(s)
        \/ day' = [day EXCEPT !.next = @ + 1] \/ WindowEnds
    BY <1>4, <1>5, <1>8, <1>9, <1>10, <2>1, StepCases
  <2> QED
    BY <1>1, <1>2, <1>6, <1>7, <2>1, <2>2

Dies    == Day("died") /\ UNCHANGED <<clock, ran, skipped>>
Returns == day.at = "pass" /\ Day("choose") /\ UNCHANGED <<clock, ran, skipped>>
\* What steps do to the loop: time goes on, the day's pass returns or the
\* day dies, or the loop itself takes a step.
LEMMA LoopSteps ==
  ASSUME PassesOK, [Next]_vars
  PROVE  \/ UNCHANGED <<clock, day, ran, skipped>> \/ Tick \/ Returns \/ Dies
         \/ Choose \/ WindowBegins \/ WindowEnds
<1>1. ASSUME NEW p \in Passers, Raises(p), UNCHANGED <<clock, ran, skipped>>
      PROVE  UNCHANGED <<clock, day, ran, skipped>> \/ Dies
  BY <1>1 DEF Raises, Dies
<1>2. ASSUME NEW p \in Passers, Commit(p)
      PROVE  UNCHANGED <<clock, day, ran, skipped>> \/ Dies \/ Returns
  <2>1. UNCHANGED <<clock, ran, skipped>>
    BY <1>2 DEF Commit
  <2>2. pass[p].step = "staged"
    BY <1>2 DEF Commit
  <2>3. p = "day" => day.at = "pass"
    BY <2>2 DEF PassesOK, InFlight, Idle
  <2>4. CASE Commits(p)
    BY <2>1, <2>3, <2>4 DEF Commits, Returns, Day
  <2> QED
    BY <1>1, <1>2, <2>1, <2>4, CommitCases
<1>3. ASSUME NEW p \in Passers, PassStarts(p) \/ GetOrders(p) \/ Apply(p)
      PROVE  UNCHANGED <<clock, day, ran, skipped>>
  BY <1>3 DEF PassStarts, GetOrders, Apply
<1>4. ASSUME NEW p \in Passers, PassFails(p)
      PROVE  UNCHANGED <<clock, day, ran, skipped>> \/ Dies
  BY <1>4, <1>1 DEF PassFails
<1>5. DayDies => Dies
  BY DEF DayDies, Dies
<1>6. \/ UNCHANGED vars
      \/ \E o \in Ours : WindowSubmits(o)
      \/ \E o \in Orders : BrokerFill(o)
      \/ \E o \in External : ExternalOrder(o)
      => UNCHANGED <<clock, day, ran, skipped>>
  BY DEF vars, WindowSubmits, BrokerFill, ExternalOrder
<1> QED
  BY <1>2, <1>3, <1>4, <1>5, <1>6, StepCases

\* The day's list stays, its place in it only moves on, and so does the clock.
LEMMA DayStays ==
  ASSUME DayOK, LoopOK, PassesOK, [Next]_vars
  PROVE  /\ DayOK'
         /\ clock \in Nat /\ clock' \in Nat /\ clock <= clock'
         /\ day'.windows = day.windows /\ day'.once = day.once
<1>1. /\ day' \in [at : DayStages, windows : Seq(Seconds \cup {BadTime}), once : BOOLEAN, strict : BOOLEAN, next : Nat \ {0}]
      /\ day'.windows = day.windows /\ day'.once = day.once
  <2>1. /\ day' = [day EXCEPT !.at = day'.at, !.next = day'.next]
        /\ day'.at \in DayStages /\ day'.next \in {day.next, day.next + 1}
    BY DaySteps
  <2>2. day \in [at : DayStages, windows : Seq(Seconds \cup {BadTime}), once : BOOLEAN, strict : BOOLEAN, next : Nat \ {0}]
    BY DEF DayOK
  <2>3. day'.next \in Nat \ {0}
    BY <2>1, <2>2
  <2> QED
    BY <2>1, <2>2, <2>3
<1>2. clock' \in Seconds /\ clock <= clock' /\ clock \in Nat /\ clock' \in Nat
  <2>1. clock \in Seconds /\ MaxClock \in Nat
    BY DayAssumption DEF DayOK
  <2>2. UNCHANGED clock \/ Tick
    BY LoopSteps DEF Returns, Dies, Choose, WindowBegins, WindowEnds
  <2>3. UNCHANGED clock \/ (clock < MaxClock /\ clock' = clock + 1)
    BY <2>2 DEF Tick
  <2> QED
    BY <2>1, <2>3 DEF Seconds
<1>3. day'.next <= Len(day'.windows) + 1
  <2>1. day.next \in Nat /\ Len(day.windows) \in Nat /\ day.next <= Len(day.windows) + 1
    BY DEF DayOK
  <2>2. CASE day'.next = day.next
    BY <1>1, <2>1, <2>2
  <2>3. ASSUME day'.next # day.next PROVE day'.next = day.next + 1 /\ day.next <= Len(day.windows)
    <3>1. Choose \/ WindowEnds
      BY <2>3, LoopSteps DEF Tick, Returns, Dies, WindowBegins, Day, DayOK
    <3>2. CASE WindowEnds
      BY <3>2 DEF WindowEnds, LoopOK, DayOK
    <3>3. CASE Choose
      <4>1. ~(day.next > Len(day.windows))
        BY <2>3, <3>3 DEF Choose, Day, DayOK
      <4>2. day'.next = day.next + 1
        BY <2>3, DaySteps
      <4> QED
        BY <2>1, <4>1, <4>2
    <3> QED
      BY <3>1, <3>2, <3>3
  <2> QED
    BY <1>1, <2>1, <2>2, <2>3
<1> QED
  BY <1>1, <1>2, <1>3 DEF DayOK

\* The loop is where its place in the list allows it to be.
LEMMA LoopStays ==
  ASSUME DayOK, LoopOK, PassesOK, [Next]_vars
  PROVE  LoopOK'
<1>1. day \in [at : DayStages, windows : Seq(Seconds \cup {BadTime}), once : BOOLEAN, strict : BOOLEAN, next : Nat \ {0}]
  BY DEF DayOK
<1>2. ASSUME NEW s, Day(s) 
      PROVE  /\ day'.at = s /\ day'.next = day.next /\ day'.windows = day.windows /\ day'.once = day.once
             /\ Target' = Target
  BY <1>1, <1>2 DEF Day, Target
<1>3. CASE UNCHANGED day
  BY <1>3 DEF LoopOK, Target
<1>4. CASE Returns \/ Dies
  BY <1>2, <1>4 DEF Returns, Dies, LoopOK
<1>5. CASE Choose
  <2>1. CASE day.next > Len(day.windows)
    <3>1. Day("ended") /\ day.next = Len(day.windows) + 1
      BY <1>1, <1>5, <2>1 DEF Choose, DayOK
    <3> QED
      BY <1>2, <3>1 DEF LoopOK
  <2>2. CASE ~(day.next > Len(day.windows))
    <3>1. day.next \in Nat /\ Len(day.windows) \in Nat /\ day.next <= Len(day.windows) /\ ~day.once
      BY <1>1, <1>5, <2>2 DEF Choose
    <3>2. CASE Day("died")
      BY <1>2, <3>2 DEF LoopOK
    <3>3. CASE Day("sleeping") /\ Target # BadTime
      <4>1. Target \in Seconds
        BY <1>1, <3>1, <3>3 DEF Target
      <4> QED
        BY <1>2, <3>1, <3>3, <4>1 DEF LoopOK
    <3>4. CASE day' = [day EXCEPT !.next = @ + 1]
      BY <1>1, <1>5, <3>4 DEF LoopOK, Choose
    <3> QED
      BY <1>5, <2>2, <3>2, <3>3, <3>4 DEF Choose
  <2> QED
    BY <2>1, <2>2
<1>6. CASE WindowBegins
  <2>1. day.next <= Len(day.windows) /\ Day("window")
    BY <1>6 DEF WindowBegins, Due, LoopOK
  <2> QED
    BY <1>2, <2>1 DEF LoopOK
<1>7. CASE WindowEnds
  BY <1>1, <1>7 DEF WindowEnds, LoopOK
<1> QED
  BY <1>3, <1>4, <1>5, <1>6, <1>7, LoopSteps DEF Tick

\* The windows before the place in the list have run or were skipped, no other.
LEMMA DoneStays ==
  ASSUME DayOK, LoopOK, PassesOK, DoneOK, [Next]_vars
  PROVE  DoneOK'
<1>1. /\ day \in [at : DayStages, windows : Seq(Seconds \cup {BadTime}), once : BOOLEAN, strict : BOOLEAN, next : Nat \ {0}]
      /\ clock \in Nat /\ clock' \in Nat /\ clock <= clock'
      /\ day'.windows = day.windows /\ day'.once = day.once
      /\ \A s \in Seconds : s \in Nat
  BY DayStays DEF DayOK, Seconds
<1>2. ASSUME NEW s, Day(s)
      PROVE  day'.at = s /\ day'.next = day.next
  BY <1>1, <1>2 DEF Day
<1>3. /\ \A i \in skipped : ~day'.once /\ day'.windows[i] \in Seconds /\ day'.windows[i] < clock'
      /\ \A i \in ran : ~day'.once => day'.windows[i] \in Seconds /\ day'.windows[i] <= clock'
  BY <1>1 DEF DoneOK
<1>4. CASE UNCHANGED <<day, ran, skipped>>
  BY <1>3, <1>4 DEF DoneOK, Done
<1>5. CASE Returns \/ Dies
  BY <1>2, <1>3, <1>5 DEF Returns, Dies, DoneOK, Done
<1>6. CASE Choose
  <2>1. day.at = "choose" /\ ran' = ran /\ day.at # "window" /\ day.at # "died" /\ clock' = clock
    BY <1>6 DEF Choose
  <2>2. ran \cup skipped = 1..(day.next - 1) /\ ran \cap skipped = {}
    BY <2>1 DEF DoneOK, Done
  <2>3. ASSUME NEW s \in {"ended", "died", "sleeping"}, Day(s), UNCHANGED skipped
        PROVE  DoneOK'
    BY <1>2, <1>3, <2>1, <2>2, <2>3 DEF DoneOK, Done
  <2>4. ASSUME ~day.once, Target # BadTime, day.next <= Len(day.windows), Passed(Target),
               skipped' = skipped \cup {day.next}, day' = [day EXCEPT !.next = @ + 1]
        PROVE  DoneOK'
    <3>1. day'.at = "choose" /\ day'.next = day.next + 1 /\ day.next \in Nat \ {0}
      BY <1>1, <2>1, <2>4
    <3>2. ran' \cup skipped' = 1..(day'.next - 1)
      BY <2>1, <2>2, <2>4, <3>1
    <3>3. ran' \cap skipped' = {}
      BY <2>1, <2>2, <2>4, <3>1
    <3>4. day.windows[day.next] \in Seconds /\ day.windows[day.next] < clock
      BY <1>1, <2>4 DEF Target, Passed
    <3> QED
      BY <1>1, <1>3, <2>1, <2>4, <3>1, <3>2, <3>3, <3>4 DEF DoneOK, Done
  <2> QED
    <3>1. Len(day.windows) \in Nat /\ day.next \in Nat
      BY <1>1
    <3> QED
      BY <1>6, <2>3, <2>4, <3>1 DEF Choose
<1>7. CASE WindowBegins
  <2>1. /\ Day("window") /\ ran' = ran \cup {day.next} /\ UNCHANGED <<clock, skipped>>
        /\ day.at \in {"sleeping", "choose"} /\ day.next \in Nat \ {0}
    BY <1>1, <1>7 DEF WindowBegins, Due
  <2>2. ran \cup skipped = 1..(day.next - 1) /\ ran \cap skipped = {}
    BY <2>1 DEF DoneOK, Done
  <2>3. ran' \cup skipped' = 1..day.next /\ ran' \cap skipped' = {}
    BY <2>1, <2>2
  <2>4. ~day.once => day.windows[day.next] \in Seconds /\ day.windows[day.next] <= clock
    BY <1>1, <1>7 DEF WindowBegins, Due, LoopOK, Target
  <2>5. day'.at = "window" /\ day'.next = day.next
    BY <1>2, <2>1
  <2> QED
    BY <1>1, <1>3, <2>1, <2>3, <2>4, <2>5 DEF DoneOK, Done
<1>8. CASE WindowEnds
  <2>1. day.at = "window" /\ day'.at = "pass" /\ day'.next = day.next + 1 /\ UNCHANGED <<ran, skipped>>
    BY <1>1, <1>8 DEF WindowEnds
  <2>2. ran \cup skipped = 1..(day'.next - 1)
    BY <1>1, <2>1 DEF DoneOK, Done
  <2> QED
    BY <1>3, <2>1, <2>2 DEF DoneOK, Done
<1> QED
  BY <1>4, <1>5, <1>6, <1>7, <1>8, LoopSteps DEF Tick

-----------------------------------------------------------------------------
(* The account and the ledger.                                             *)

\* A staged pass has what every stage before it had.
LEMMA StagedPass ==
  ASSUME PassesOK, NEW p \in Passers, pass[p].step = "staged"
  PROVE  AskedOK(pass[p]) /\ ReportOK(pass[p].report) /\ ViewOK(pass[p])
BY DEF PassesOK, PassOK, Idle

\* What a pass writes into the row of an order is a row, of the same track;
\* its status is that of the report if the row has not changed since the
\* pass looked at it, and if the row had that status already.
LEMMA WrittenRow ==
  ASSUME LedgerOK, PassesOK, AccountOK, NEW p \in Passers, pass[p].step = "staged",
         NEW o \in DOMAIN pass[p].report
  PROVE  /\ Written(pass[p], o) \in Rows
         /\ Written(pass[p], o).track = Attributed(o)
         /\ \/ pass[p].rows[o] = NoRow \/ pass[p].rows[o] = rows[o]
            \/ rows[o].status = pass[p].report[o]
            => Written(pass[p], o).status = pass[p].report[o]
         /\ Written(pass[p], o).status = "filled" => FilledRow(o) \/ pass[p].report[o] = "filled"
         /\ FilledRow(o) /\ Written(pass[p], o).status = "open" /\ ~Conflict(pass[p]) =>
              pass[p].report[o] = "open" /\ pass[p].rows[o].status = "filled"
<1> DEFINE s == pass[p]
           new == [track |-> Attributed(o), status |-> s.report[o]]
<1>1. /\ s.report[o] \in Statuses /\ o \in Orders
      /\ s.rows[o] # NoRow => /\ s.rows[o].track = Attributed(o) /\ rows[o] # NoRow
                              /\ s.rows[o].status \in Statuses
  BY StagedPass, RangeAppend DEF ReportOK, ViewOK, AccountOK, Range
<1>2. Attributed(o) \in Tracks \cup {Unattributed}
  BY <1>1, AttributedType
<1>3. new \in Rows /\ new.track = Attributed(o) /\ new.status = s.report[o]
  BY <1>1, <1>2 DEF Rows
<1>4. CASE s.rows[o] = NoRow
  BY <1>3, <1>4 DEF Written, Conflict, FilledRow
<1>5. CASE s.rows[o] # NoRow
  <2>1. rows[o] \in Rows /\ rows[o].track = Attributed(o) /\ rows[o].status \in Statuses
    BY <1>1, <1>5 DEF LedgerOK, Rows
  <2>2. Written(s, o) = [c \in {"track", "status"} |->
                           IF new[c] = s.rows[o][c] THEN rows[o][c] ELSE new[c]]
    BY <1>5 DEF Written
  <2>3. Written(s, o) = [track |-> Attributed(o),
                         status |-> IF new.status = s.rows[o].status THEN rows[o].status ELSE new.status]
    BY <1>1, <1>3, <1>5, <2>1, <2>2
  <2> QED
    BY <1>1, <1>2, <1>3, <1>5, <2>1, <2>3 DEF Rows, Statuses, FilledRow
<1> QED
  BY <1>4, <1>5

\* The ledger changes when a pass commits and when a window's order is
\* stored; the account by new orders and fills.
LEMMA LedgerSteps ==
  ASSUME [Next]_vars
  PROVE  /\ \/ UNCHANGED <<rows, fills, snapshots>>
            \/ \E p \in Passers : Commits(p)
            \/ \E o \in Ours : WindowSubmits(o)
         /\ \/ UNCHANGED <<broker, filled>>
            \/ \E o \in Ours : WindowSubmits(o)
            \/ \E o \in Orders : BrokerFill(o)
            \/ \E o \in External : ExternalOrder(o)
<1>1. ASSUME NEW p \in Passers, Commit(p)
      PROVE  UNCHANGED <<broker, filled>> /\ (UNCHANGED <<rows, fills, snapshots>> \/ Commits(p))
  BY <1>1, CommitCases DEF Commit, account, ledger
<1> QED
  BY <1>1, StepCases DEF PassStarts, GetOrders, Apply, PassFails, Choose, WindowBegins, WindowEnds,
     DayDies, Tick, BrokerFill, ExternalOrder, ledger, account, vars

\* Orders and fills at the broker are never taken back.
LEMMA AccountStays ==
  ASSUME AccountOK, PassesOK, [Next]_vars
  PROVE  AccountOK' /\ Range(broker) \subseteq Range(broker') /\ filled \subseteq filled' /\ fills \subseteq fills'
<1>1. ASSUME NEW o \in Orders, broker' = Append(broker, o)
      PROVE  broker' \in Seq(Orders) /\ Range(broker') = Range(broker) \cup {o}
  BY <1>1, RangeAppend DEF AccountOK
<1>2. CASE UNCHANGED <<broker, filled>>
  <2>1. ASSUME NEW p \in Passers, Commits(p)
        PROVE  fills' \subseteq filled /\ fills \subseteq fills'
    <3>1. pass[p].step = "staged" /\ fills' = fills \cup FillsOf(pass[p].report)
      BY <2>1 DEF Commits, Commit
    <3>2. FillsOf(pass[p].report) \subseteq filled
      BY <3>1, StagedPass DEF ReportOK, FillsOf
    <3> QED
      BY <3>1, <3>2 DEF AccountOK
  <2>2. fills' \subseteq filled /\ fills \subseteq fills'
    BY <2>1, LedgerSteps DEF AccountOK, WindowSubmits
  <2> QED
    BY <1>2, <2>2 DEF AccountOK
<1>3. ASSUME NEW o \in Ours, WindowSubmits(o)
      PROVE  broker' = Append(broker, o) /\ UNCHANGED <<filled, fills>>
  BY <1>3 DEF WindowSubmits
<1>4. ASSUME NEW o \in External, ExternalOrder(o)
      PROVE  broker' = Append(broker, o) /\ UNCHANGED <<filled, fills>>
  BY <1>4 DEF ExternalOrder, ledger
<1>5. ASSUME NEW o \in Orders, BrokerFill(o)
      PROVE  /\ filled' = filled \cup {o} /\ o \in Range(broker) /\ UNCHANGED <<broker, fills>>
  BY <1>5 DEF BrokerFill, ledger
<1>6. ASSUME NEW o \in Orders, broker' = Append(broker, o), UNCHANGED <<filled, fills>>
      PROVE  AccountOK' /\ Range(broker) \subseteq Range(broker') /\ filled \subseteq filled' /\ fills \subseteq fills'
  BY <1>1, <1>6 DEF AccountOK
<1> QED
  BY <1>2, <1>3, <1>4, <1>5, <1>6, LedgerSteps DEF AccountOK, Orders

\* Rows and snapshots stay, and a snapshot is never of a later time.
LEMMA LedgerStays ==
  ASSUME DayOK, LoopOK, AccountOK, LedgerOK, PassesOK, [Next]_vars
  PROVE  /\ LedgerOK'
         /\ \A o \in Orders : rows[o] # NoRow => rows'[o] # NoRow
         /\ \A s \in Seconds : snapshots[s] # NoRow => snapshots'[s] # NoRow
<1>1. NoRow \notin Rows /\ NoRow \notin Seconds
  BY DayAssumption
<1>2. clock \in Nat /\ clock' \in Nat /\ clock <= clock' /\ \A s \in Seconds : s \in Nat
  BY DayStays DEF Seconds
<1>3. CASE UNCHANGED <<rows, fills, snapshots>>
  BY <1>2, <1>3 DEF LedgerOK, FilledRow, Stamps
<1>4. ASSUME NEW o \in Ours, WindowSubmits(o)
      PROVE  /\ LedgerOK' /\ UNCHANGED snapshots
             /\ \A q \in Orders : rows[q] # NoRow => rows'[q] # NoRow
  <2>1. UNCHANGED snapshots
    BY <1>4 DEF WindowSubmits
  <2>2. o \in Orders /\ Attributed(o) = OwnerOf[o] /\ OwnerOf[o] \in Tracks
    BY AttributedOfOurs, DayAssumption DEF Orders
  <2>3. CASE UNCHANGED rows
    BY <1>2, <1>4, <2>1, <2>3 DEF LedgerOK, FilledRow, Stamps, WindowSubmits
  <2>4. CASE rows' = [rows EXCEPT ![o] = [track |-> OwnerOf[o], status |-> "open"]]
    <3>1. [track |-> OwnerOf[o], status |-> "open"] \in Rows
      BY <2>2 DEF Rows, Statuses
    <3>2. rows' \in [Orders -> Rows \cup {NoRow}]
      BY <2>4, <3>1 DEF LedgerOK
    <3>3. \A q \in Orders : /\ rows[q] # NoRow => rows'[q] # NoRow
                            /\ rows'[q] # NoRow => rows'[q].track = Attributed(q)
                            /\ FilledRow(q)' => q \in fills'
      <4>1. UNCHANGED fills
        BY <1>4 DEF WindowSubmits
      <4> QED
        BY <1>1, <2>2, <2>4, <3>1, <4>1 DEF LedgerOK, FilledRow
    <3> QED
      BY <1>2, <2>1, <3>2, <3>3 DEF LedgerOK, Stamps
  <2> QED
    BY <1>4, <2>1, <2>3, <2>4 DEF WindowSubmits
<1>5. ASSUME NEW p \in Passers, Commits(p)
      PROVE  /\ LedgerOK'
             /\ \A q \in Orders : rows[q] # NoRow => rows'[q] # NoRow
             /\ \A s \in Seconds : snapshots[s] # NoRow => snapshots'[s] # NoRow
  <2>1. pass[p].step = "staged" /\ snapshots' = Recorded(pass[p])
    BY <1>5 DEF Commits, Commit
  <2>2. rows' = [o \in Orders |-> IF o \in DOMAIN pass[p].report THEN Written(pass[p], o) ELSE rows[o]]
    BY <1>5 DEF Commits
  <2>3. \A o \in DOMAIN pass[p].report :
           /\ Written(pass[p], o) \in Rows /\ Written(pass[p], o).track = Attributed(o)
           /\ Written(pass[p], o).status = "filled" => FilledRow(o) \/ pass[p].report[o] = "filled"
    BY <2>1, WrittenRow
  <2>4. rows' \in [Orders -> Rows \cup {NoRow}]
    BY <2>2, <2>3 DEF LedgerOK
  <2>5. \A o \in Orders : /\ rows[o] # NoRow => rows'[o] # NoRow
                          /\ rows'[o] # NoRow => rows'[o].track = Attributed(o)
    BY <1>1, <2>2, <2>3 DEF LedgerOK
  <2>9. \A o \in Orders : FilledRow(o)' => o \in fills'
    <3>1. fills' = fills \cup FillsOf(pass[p].report)
      BY <1>5 DEF Commits
    <3> QED
      BY <2>2, <2>3, <3>1 DEF LedgerOK, FilledRow, FillsOf
  <2>6. /\ pass[p].stamp \in Seconds /\ pass[p].equity \in Seconds /\ pass[p].stamp <= clock
        /\ snapshots \in [Seconds -> Seconds \cup {NoRow}]
        /\ \/ snapshots' = [snapshots EXCEPT ![pass[p].stamp] = pass[p].equity]
           \/ snapshots' = snapshots
    BY <2>1, StagedPass DEF AskedOK, ViewOK, LedgerOK, Recorded
  <2>7. /\ snapshots' \in [Seconds -> Seconds \cup {NoRow}]
        /\ \A s \in Seconds : snapshots[s] # NoRow => snapshots'[s] # NoRow
    BY <1>1, <2>6
  <2>8. \A s \in Stamps' : s <= clock'
    BY <1>2, <2>6 DEF LedgerOK, Stamps
  <2> QED
    BY <2>4, <2>5, <2>7, <2>8, <2>9 DEF LedgerOK
<1> QED
  <2>1. UNCHANGED <<rows, fills, snapshots>> \/ (\E p \in Passers : Commits(p)) \/ \E o \in Ours : WindowSubmits(o)
    BY LedgerSteps
  <2> QED
    BY <1>3, <1>4, <1>5, <2>1

-----------------------------------------------------------------------------
(* The passes.                                                             *)

\* Only the steps of a pass touch a pass.
LEMMA PassSteps ==
  ASSUME [Next]_vars
  PROVE  \/ UNCHANGED pass
         \/ \E p \in Passers : PassStarts(p) \/ GetOrders(p) \/ Apply(p) \/ Commit(p) \/ PassFails(p)
BY StepCases DEF Choose, WindowBegins, WindowEnds, DayDies, Tick, WindowSubmits, BrokerFill,
   ExternalOrder, vars

\* What a pass relies on still holds after any step.
LEMMA PassKeeps ==
  ASSUME DayOK, LoopOK, AccountOK, LedgerOK, PassesOK, [Next]_vars,
         NEW p \in Passers, pass'[p] = pass[p]
  PROVE  PassOK(pass[p])'
<1>1. /\ clock \in Nat /\ clock' \in Nat /\ clock <= clock' /\ \A s \in Seconds : s \in Nat
      /\ Range(broker) \subseteq Range(broker') /\ filled \subseteq filled' /\ fills \subseteq fills'
      /\ \A o \in Orders : rows[o] # NoRow => rows'[o] # NoRow
      /\ \A s \in Seconds : snapshots[s] # NoRow => snapshots'[s] # NoRow
  BY DayStays, AccountStays, LedgerStays DEF Seconds
<1>2. PassOK(pass[p]) /\ Range(broker) \subseteq Orders
  BY DEF PassesOK, AccountOK, Range
<1>3. AskedOK(pass[p]) => AskedOK(pass[p])'
  BY <1>1 DEF AskedOK
<1>4. ReportOK(pass[p].report) => ReportOK(pass[p].report)'
  BY <1>1 DEF ReportOK
<1>5. ReportOK(pass[p].report) /\ ViewOK(pass[p]) => ViewOK(pass[p])'
  BY <1>1, <1>2 DEF ViewOK, ReportOK
<1> QED
  BY <1>2, <1>3, <1>4, <1>5 DEF PassOK

\* Every pass in flight keeps what it relies on.
LEMMA PassesStay ==
  ASSUME DayOK, LoopOK, AccountOK, LedgerOK, PassesOK, [Next]_vars
  PROVE  PassesOK'
<1>1. /\ clock \in Nat /\ clock \in Seconds /\ DOMAIN pass = Passers /\ pass = [p \in Passers |-> pass[p]]
      /\ InFlight("day") => day.at = "pass"
  BY DEF DayOK, PassesOK, Seconds
<1>2. \A p \in Passers : pass'[p] = pass[p] => PassOK(pass[p])'
  BY PassKeeps
<1>3. CASE UNCHANGED pass
  <2>1. InFlight("day")' => day'.at = "pass"
    <3>1. InFlight("day")' <=> InFlight("day")
      BY <1>3 DEF InFlight
    <3>2. day.at = "pass" => UNCHANGED day \/ DayDies \/ PassStarts("day") \/ Commit("day")
                             \/ PassFails("day") \/ Commit("operator") \/ PassFails("operator")
      BY StepCases DEF Passers, PassStarts, GetOrders, Apply, Choose, WindowBegins, WindowEnds, Due, Tick,
         WindowSubmits, BrokerFill, ExternalOrder, vars
    <3>3. DayDies => ~InFlight("day")
      BY DEF DayDies
    <3>4. PassStarts("day") => UNCHANGED day
      BY DEF PassStarts
    <3>5. ASSUME NEW p \in Passers, Commit(p) \/ PassFails(p) PROVE FALSE
      <4>1. pass' = [pass EXCEPT ![p] = Idle]
        BY <3>5, CommitCases DEF PassFails, Commits, Raises
      <4>2. pass[p] # Idle
        BY <3>5 DEF PassFails, Commit, InFlight, Idle
      <4> QED
        BY <1>1, <1>3, <4>1, <4>2
    <3>6. InFlight("day") => UNCHANGED day
      <4>1. "day" \in Passers /\ "operator" \in Passers
        BY DEF Passers
      <4>2. ~(Commit("day") \/ PassFails("day")) /\ ~(Commit("operator") \/ PassFails("operator"))
        BY <3>5, <4>1
      <4> QED
        BY <1>1, <3>2, <3>3, <3>4, <4>2
    <3> QED
      BY <1>1, <3>1, <3>6
  <2> QED
    BY <1>1, <1>2, <1>3, <2>1 DEF PassesOK
<1>4. ASSUME NEW p \in Passers, NEW s, pass' = [pass EXCEPT ![p] = s]
      PROVE  /\ pass' = [q \in Passers |-> pass'[q]] /\ pass'[p] = s
             /\ \A q \in Passers : q # p => pass'[q] = pass[q]
  BY <1>1, <1>4
<1>5. ASSUME NEW p \in Passers, PassStarts(p)
      PROVE  PassesOK'
  <2>1. /\ pass' = [pass EXCEPT ![p] = [step |-> "account", equity |-> clock]]
        /\ p = "day" => day.at = "pass"
        /\ UNCHANGED <<day, clock>>
    BY <1>5 DEF PassStarts
  <2>2. PassOK(pass[p])'
    BY <1>1, <1>4, <2>1 DEF PassOK, AskedOK
  <2>3. InFlight("day")' => day'.at = "pass"
    BY <1>1, <1>4, <2>1 DEF InFlight, Passers
  <2> QED
    BY <1>2, <1>4, <2>1, <2>2, <2>3 DEF PassesOK
<1>6. ASSUME NEW p \in Passers, GetOrders(p)
      PROVE  PassesOK'
  <2>1. /\ pass[p].step = "account" /\ UNCHANGED <<day, clock, broker, filled>>
        /\ pass' = [pass EXCEPT ![p] = [step |-> "orders", equity |-> pass[p].equity,
                                        report |-> [o \in Newest |-> StatusNow(o)]]]
    BY <1>6 DEF GetOrders, account
  <2>2. AskedOK(pass[p])
    BY <2>1 DEF PassesOK, PassOK, Idle
  <2>3. ReportOK([o \in Newest |-> StatusNow(o)])
    BY NewestInBroker DEF AccountOK, ReportOK, StatusNow, Statuses
  <2>4. pass'[p].step = "orders" /\ pass'[p].equity = pass[p].equity
        /\ pass'[p].report = [o \in Newest |-> StatusNow(o)]
    BY <1>4, <2>1
  <2>5. PassOK(pass[p])'
    BY <2>1, <2>2, <2>3, <2>4 DEF PassOK, AskedOK, ReportOK
  <2>6. InFlight("day")' => day'.at = "pass"
    BY <1>1, <1>4, <2>1 DEF InFlight, Passers, Idle
  <2> QED
    BY <1>2, <1>4, <2>1, <2>5, <2>6 DEF PassesOK
<1>7. ASSUME NEW p \in Passers, Apply(p)
      PROVE  PassesOK'
  <2>1. /\ pass[p].step = "orders" /\ UNCHANGED <<day, clock, broker, filled, rows, fills, snapshots>>
        /\ pass' = [pass EXCEPT ![p] =
             [step |-> "staged", equity |-> pass[p].equity, report |-> pass[p].report,
              stamp |-> clock, rows |-> [o \in DOMAIN pass[p].report |-> rows[o]],
              fills |-> fills \cap FillsOf(pass[p].report), seen |-> snapshots[clock]]]
    BY <1>7 DEF Apply, account, ledger
  <2>2. AskedOK(pass[p]) /\ ReportOK(pass[p].report)
    BY <2>1 DEF PassesOK, PassOK, Idle
  <2>3. /\ pass'[p].step = "staged" /\ pass'[p].equity = pass[p].equity
        /\ pass'[p].report = pass[p].report /\ pass'[p].stamp = clock
        /\ pass'[p].rows = [o \in DOMAIN pass[p].report |-> rows[o]]
        /\ pass'[p].fills = fills \cap FillsOf(pass[p].report)
        /\ pass'[p].seen = snapshots[clock]
    BY <1>4, <2>1
  <2>4. AskedOK(pass[p])' /\ ReportOK(pass[p].report)'
    BY <2>1, <2>2, <2>3 DEF AskedOK, ReportOK
  <2>5. DOMAIN pass[p].report \subseteq Orders
    BY <2>2 DEF ReportOK, AccountOK, Range
  <2>6. ViewOK(pass[p])'
    <3>1. pass'[p].seen # NoRow => snapshots'[clock'] # NoRow
      BY <2>1, <2>3
    <3>2. \A o \in DOMAIN pass'[p].report :
             pass'[p].rows[o] # NoRow => /\ pass'[p].rows[o].track = Attributed(o)
                                         /\ pass'[p].rows[o].status \in Statuses
                                         /\ rows'[o] # NoRow
      BY <2>1, <2>3, <2>5 DEF LedgerOK, Rows
    <3>3. pass'[p].stamp \in Seconds /\ pass'[p].stamp <= clock' /\ pass'[p].fills \subseteq fills'
      BY <1>1, <2>1, <2>3
    <3> QED
      BY <2>1, <2>3, <3>1, <3>2, <3>3 DEF ViewOK
  <2>7. InFlight("day")' => day'.at = "pass"
    BY <1>1, <1>4, <2>1, SMTT(30) DEF InFlight, Passers, Idle
  <2> QED
    BY <1>2, <1>4, <2>1, <2>3, <2>4, <2>6, <2>7 DEF PassesOK, PassOK
<1>8. ASSUME NEW p \in Passers, Commit(p) \/ PassFails(p)
      PROVE  PassesOK'
  <2>1. pass' = [pass EXCEPT ![p] = Idle] /\ (p # "day" => UNCHANGED day)
    BY <1>8, CommitCases DEF Commits, PassFails, Raises
  <2>2. InFlight("day")' => day'.at = "pass"
    BY <1>1, <1>4, <2>1 DEF InFlight, Passers
  <2> QED
    BY <1>2, <1>4, <2>1, <2>2 DEF PassesOK, PassOK
<1> QED
  BY <1>3, <1>5, <1>6, <1>7, <1>8, PassSteps

-----------------------------------------------------------------------------
(* What the day's last pass was told.                                      *)

\* The history changes when a pass starts and when the day's commits.
LEMMA TruthSteps ==
  ASSUME [Next]_vars
  PROVE  \/ UNCHANGED truth
         \/ \E p \in Passers : PassStarts(p)
         \/ Commits("day")
<1>1. ASSUME NEW p \in Passers, Commit(p)
      PROVE  UNCHANGED truth \/ Commits("day")
  <2>1. Commits(p) /\ p # "day" => UNCHANGED truth
    BY DEF Commits
  <2> QED
    BY <1>1, <2>1, CommitCases
<1> QED
  BY <1>1, StepCases DEF GetOrders, Apply, PassFails, Choose, WindowBegins, WindowEnds, DayDies, Tick,
     WindowSubmits, BrokerFill, ExternalOrder, vars

\* The loop gets past a pass by its commit and not otherwise, and while it
\* is past it, the day has no pass.
LEMMA PastThePass ==
  ASSUME DayOK, PassesOK, [Next]_vars, day'.at \notin {"pass", "died"}, ~Commits("day")
  PROVE  /\ day.at \notin {"pass", "died"} /\ ~InFlight("day")
         /\ ~Commit("day") /\ ~PassFails("day") /\ ~PassStarts("day")
<1>1. day.at \notin {"pass", "died"}
  <2>1. day \in [at : DayStages, windows : Seq(Seconds \cup {BadTime}), once : BOOLEAN, strict : BOOLEAN, next : Nat \ {0}]
    BY DEF DayOK
  <2>2. ~Dies
    BY <2>1 DEF Dies, Day
  <2>3. Returns => Commits("day")
    <3> SUFFICES ASSUME Returns PROVE Commits("day")
      OBVIOUS
    <3>1. day'.at = "choose" /\ day.at = "pass"
      BY <2>1 DEF Returns, Day
    <3>2. ~UNCHANGED day /\ ~Choose /\ ~WindowBegins /\ ~WindowEnds /\ ~DayDies
      BY <2>1, <3>1 DEF Choose, WindowBegins, WindowEnds, Due, DayDies, Day
    <3>3. PICK p \in Passers : Commit(p) \/ PassFails(p)
      BY <3>2, StepCases DEF PassStarts, GetOrders, Apply, Tick, WindowSubmits, BrokerFill,
         ExternalOrder, vars
    <3>4. ~Raises(p)
      BY <2>1, <3>1, <3>2 DEF Raises, Day
    <3>5. Commits(p)
      BY <3>3, <3>4, CommitCases DEF PassFails
    <3> QED
      BY <3>2, <3>5 DEF Commits
  <2> QED
    BY <2>2, <2>3, LoopSteps DEF Tick, Choose, WindowBegins, WindowEnds, Due
<1>2. ~InFlight("day")
  BY <1>1 DEF PassesOK
<1> QED
  BY <1>1, <1>2 DEF PassStarts, Commit, PassFails, InFlight, Idle

\* What the last pass of the day was told stays true of the broker.
LEMMA TruthStays ==
  ASSUME DayOK, LoopOK, AccountOK, LedgerOK, PassesOK, TruthOK, [Next]_vars
  PROVE  TruthOK'
<1>1. /\ clock \in Nat /\ clock' \in Nat /\ clock <= clock' /\ \A s \in Seconds : s \in Nat
      /\ Range(broker) \subseteq Range(broker') /\ filled \subseteq filled'
  BY DayStays, AccountStays DEF Seconds
<1>2. truth = [report |-> truth.report, equity |-> truth.equity, alone |-> truth.alone]
  BY DEF TruthOK
<1>3. ASSUME UNCHANGED <<truth.report, truth.equity>>
      PROVE  ReportOK(truth.report)'
  BY <1>1, <1>3 DEF TruthOK, ReportOK
<1>4. ASSUME UNCHANGED <<truth.report, truth.equity>>, ~Commits("day"), day'.at \notin {"pass", "died"}
      PROVE  truth'.equity \in Seconds /\ truth'.equity <= clock'
  <2>1. truth.equity \in Seconds /\ truth.equity <= clock
    BY <1>4, PastThePass DEF TruthOK
  <2> QED
    BY <1>1, <1>4, <2>1
<1>5. CASE UNCHANGED truth /\ ~Commits("day")
  BY <1>3, <1>4, <1>5 DEF TruthOK
<1>6. ASSUME NEW p \in Passers, PassStarts(p)
      PROVE  TruthOK'
  <2>1. /\ truth' = [truth EXCEPT !.alone = truth'.alone] /\ truth'.alone \in BOOLEAN
        /\ UNCHANGED <<truth.report, truth.equity>>
    <3>1. truth' = [truth EXCEPT !.alone = IF p = "day" THEN ~InFlight("operator")
                                           ELSE @ /\ ~InFlight("day")]
      BY <1>6 DEF PassStarts
    <3> QED
      BY <1>2, <3>1
  <2>2. ~Commits("day")
    <3>1. pass'[p] = [step |-> "account", equity |-> clock]
      BY <1>6 DEF PassStarts, PassesOK
    <3>2. Commits("day") => pass' = [pass EXCEPT !["day"] = Idle] /\ pass["day"].step = "staged"
      BY DEF Commits, Commit
    <3>3. pass[p] = Idle
      BY <1>6 DEF PassStarts, InFlight
    <3>4. Commits("day") => pass'[p] = Idle
      BY <3>2, <3>3 DEF PassesOK
    <3> QED
      BY <3>1, <3>4 DEF Idle
  <2>3. truth' = [report |-> truth'.report, equity |-> truth'.equity, alone |-> truth'.alone]
    BY <1>2, <2>1
  <2> QED
    BY <1>3, <1>4, <2>1, <2>2, <2>3 DEF TruthOK
<1>7. CASE Commits("day")
  <2>1. /\ truth' = [truth EXCEPT !.report = pass["day"].report, !.equity = pass["day"].equity]
        /\ pass["day"].step = "staged" /\ "day" \in Passers
    BY <1>7 DEF Commits, Commit, Passers
  <2>2. /\ truth'.report = pass["day"].report /\ truth'.equity = pass["day"].equity
        /\ truth'.alone = truth.alone
        /\ truth' = [report |-> truth'.report, equity |-> truth'.equity, alone |-> truth'.alone]
    BY <1>2, <2>1
  <2>3. AskedOK(pass["day"]) /\ ReportOK(pass["day"].report)
    BY <2>1, StagedPass
  <2>4. ReportOK(truth.report)'
    BY <1>1, <2>2, <2>3 DEF ReportOK
  <2>5. truth'.equity \in Seconds /\ truth'.equity <= clock'
    BY <1>1, <2>2, <2>3 DEF AskedOK
  <2> QED
    BY <2>2, <2>4, <2>5 DEF TruthOK
<1> QED
  BY <1>5, <1>6, <1>7, TruthSteps

\* What the passes' own steps do to them; no other step touches them.
LEMMA PassValues ==
  ASSUME PassesOK, NEW p \in Passers
  PROVE  /\ PassStarts(p) => pass' = [pass EXCEPT ![p] = pass'[p]] /\ pass'[p].step = "account"
                             /\ pass'[p].equity = clock
         /\ GetOrders(p) => pass' = [pass EXCEPT ![p] = pass'[p]] /\ pass'[p].step = "orders"
                            /\ pass'[p].equity = pass[p].equity
                            /\ pass'[p].report = [o \in Newest |-> StatusNow(o)]
         /\ Apply(p) => pass' = [pass EXCEPT ![p] = pass'[p]] /\ pass'[p].step = "staged"
                        /\ pass'[p].equity = pass[p].equity
                        /\ pass'[p].report = pass[p].report /\ pass'[p].stamp = clock
                        /\ pass'[p].rows = [o \in DOMAIN pass[p].report |-> rows[o]]
                        /\ pass'[p].seen = snapshots[clock]
         /\ Commit(p) \/ PassFails(p) => pass' = [pass EXCEPT ![p] = Idle]
<1>1. pass = [q \in Passers |-> pass[q]]
  BY DEF PassesOK
<1>2. ASSUME NEW s, pass' = [pass EXCEPT ![p] = s]
      PROVE  pass'[p] = s
  BY <1>1, <1>2
<1>3. ASSUME PassStarts(p)
      PROVE  pass' = [pass EXCEPT ![p] = pass'[p]] /\ pass'[p].step = "account" /\ pass'[p].equity = clock
  BY <1>2, <1>3 DEF PassStarts
<1>4. ASSUME GetOrders(p)
      PROVE  /\ pass' = [pass EXCEPT ![p] = pass'[p]] /\ pass'[p].step = "orders"
             /\ pass'[p].equity = pass[p].equity
             /\ pass'[p].report = [o \in Newest |-> StatusNow(o)]
  <2> DEFINE s == [step |-> "orders", equity |-> pass[p].equity, report |-> [o \in Newest |-> StatusNow(o)]]
  <2>1. pass' = [pass EXCEPT ![p] = s]
    BY <1>4 DEF GetOrders
  <2>2. s.step = "orders" /\ s.equity = pass[p].equity /\ s.report = [o \in Newest |-> StatusNow(o)]
    OBVIOUS
  <2> HIDE DEF s
  <2>3. pass'[p] = s
    BY <1>2, <2>1
  <2> QED
    BY <2>1, <2>2, <2>3
<1>5. ASSUME Apply(p)
      PROVE  /\ pass' = [pass EXCEPT ![p] = pass'[p]] /\ pass'[p].step = "staged"
             /\ pass'[p].equity = pass[p].equity
             /\ pass'[p].report = pass[p].report /\ pass'[p].stamp = clock
             /\ pass'[p].rows = [o \in DOMAIN pass[p].report |-> rows[o]]
             /\ pass'[p].seen = snapshots[clock]
  <2> DEFINE s == [step |-> "staged", equity |-> pass[p].equity, report |-> pass[p].report,
                   stamp |-> clock, rows |-> [o \in DOMAIN pass[p].report |-> rows[o]],
                   fills |-> fills \cap FillsOf(pass[p].report), seen |-> snapshots[clock]]
  <2>1. pass' = [pass EXCEPT ![p] = s]
    BY <1>5 DEF Apply
  <2>2. /\ s.step = "staged" /\ s.equity = pass[p].equity /\ s.report = pass[p].report
        /\ s.stamp = clock /\ s.rows = [o \in DOMAIN pass[p].report |-> rows[o]]
        /\ s.seen = snapshots[clock]
    OBVIOUS
  <2> HIDE DEF s
  <2>3. pass'[p] = s
    BY <1>2, <2>1
  <2> QED
    BY <2>1, <2>2, <2>3
<1>6. Commit(p) \/ PassFails(p) => pass' = [pass EXCEPT ![p] = Idle]
  BY CommitCases DEF Commits, PassFails, Raises
<1> QED
  BY <1>3, <1>4, <1>5, <1>6

\* While the day's pass is alone, its lookups stay true of the ledger.
LEMMA AloneStays ==
  ASSUME DayOK, LoopOK, AccountOK, LedgerOK, PassesOK, TruthOK, AloneOK, [Next]_vars
  PROVE  AloneOK'
<1> SUFFICES ASSUME truth'.alone, InFlight("day")'
             PROVE  /\ ~InFlight("operator")'
                    /\ pass'["day"].step = "staged" =>
                         /\ \A o \in DOMAIN pass'["day"].report : pass'["day"].rows[o] = rows'[o]
                         /\ \A s \in Stamps' : s <= pass'["day"].stamp
                         /\ pass'["day"].seen = snapshots'[pass'["day"].stamp]
  BY DEF AloneOK
<1>1. /\ pass = [q \in Passers |-> pass[q]] /\ "day" \in Passers /\ "operator" \in Passers
      /\ Passers = {"day", "operator"}
      /\ InFlight("day") => day.at = "pass"
      /\ pass["operator"].step # "idle" => InFlight("operator")
  BY DEF PassesOK, Passers, InFlight, Idle
<1>2. CASE PassStarts("day")
  <2>1. pass'["day"].step = "account" /\ pass'["operator"] = pass["operator"]
    BY <1>1, <1>2, PassValues
  <2>2. truth'.alone = ~InFlight("operator")
    BY <1>2 DEF PassStarts, TruthOK
  <2> QED
    BY <2>1, <2>2 DEF InFlight
<1>3. ~Commit("day") /\ ~PassFails("day")
  BY <1>1, PassValues DEF InFlight
<1>4. ASSUME ~PassStarts("day")
      PROVE  truth.alone /\ InFlight("day") /\ ~InFlight("operator") /\ ~PassStarts("operator")
  <2>1. InFlight("day")
    <3>1. UNCHANGED pass \/ GetOrders("day") \/ Apply("day") \/ \E p \in Passers \ {"day"} :
            PassStarts(p) \/ GetOrders(p) \/ Apply(p) \/ Commit(p) \/ PassFails(p)
      BY <1>3, <1>4, PassSteps
    <3>2. ASSUME NEW p \in Passers \ {"day"}, PassStarts(p) \/ GetOrders(p) \/ Apply(p) \/ Commit(p) \/ PassFails(p)
          PROVE  pass'["day"] = pass["day"]
      BY <1>1, <3>2, PassValues
    <3>3. GetOrders("day") \/ Apply("day") => InFlight("day")
      BY DEF GetOrders, Apply, InFlight, Idle
    <3> QED
      BY <3>1, <3>2, <3>3 DEF InFlight
  <2>2. PassStarts("operator") => ~truth'.alone
    BY <2>1 DEF PassStarts, TruthOK
  <2>3. ~Commits("day")
    BY <1>3 DEF Commits
  <2>4. truth.alone
    BY <1>1, <1>4, <2>2, <2>3, TruthSteps
  <2> QED
    BY <2>1, <2>2, <2>4 DEF AloneOK
<1>5. ASSUME ~PassStarts("day"), NEW p \in Passers, PassStarts(p) \/ GetOrders(p) \/ Apply(p) \/ Commit(p) \/ PassFails(p)
      PROVE  p = "day" /\ (GetOrders(p) \/ Apply(p))
  <2>1. GetOrders(p) \/ Apply(p) \/ Commit(p) \/ PassFails(p) => InFlight(p)
    BY DEF GetOrders, Apply, Commit, PassFails, InFlight, Idle
  <2> QED
    BY <1>1, <1>3, <1>4, <1>5, <2>1
<1>6. CASE GetOrders("day")
  <2>1. ~PassStarts("day")
    BY <1>6 DEF GetOrders, PassStarts, InFlight, Idle
  <2>2. pass'["day"].step = "orders" /\ pass'["operator"] = pass["operator"]
    BY <1>1, <1>6, PassValues
  <2> QED
    BY <1>4, <2>1, <2>2 DEF InFlight
<1>7. CASE Apply("day")
  <2>1. ~PassStarts("day") /\ UNCHANGED <<rows, snapshots, clock>>
    BY <1>7 DEF Apply, PassStarts, InFlight, Idle, ledger
  <2>2. /\ pass'["day"].stamp = clock /\ pass'["day"].report = pass["day"].report
        /\ pass'["day"].rows = [o \in DOMAIN pass["day"].report |-> rows[o]]
        /\ pass'["day"].seen = snapshots[clock]
        /\ pass'["operator"] = pass["operator"]
    BY <1>1, <1>7, PassValues
  <2> QED
    BY <1>4, <2>1, <2>2 DEF InFlight, LedgerOK, Stamps
<1>8. CASE UNCHANGED pass /\ ~PassStarts("day")
  <2>1. truth.alone /\ InFlight("day") /\ ~InFlight("operator")
    BY <1>4, <1>8
  <2>2. UNCHANGED <<rows, snapshots>>
    <3>1. ASSUME NEW p \in Passers, Commits(p) PROVE FALSE
      BY <1>5, <1>8, <3>1 DEF Commits, Commit, GetOrders, Apply
    <3>2. ASSUME NEW o \in Ours, WindowSubmits(o) PROVE FALSE
      BY <1>1, <2>1, <3>2 DEF WindowSubmits
    <3> QED
      BY <3>1, <3>2, LedgerSteps
  <2> QED
    BY <1>8, <2>1, <2>2 DEF AloneOK, InFlight, Stamps
<1> QED
  BY <1>2, <1>5, <1>6, <1>7, <1>8, PassSteps

\* Nobody fills an order in the ledger while a pass that was told it is open
\* is on its way, unless two passes overlap.
LEMMA ToldStays ==
  ASSUME DayOK, LoopOK, AccountOK, LedgerOK, PassesOK, TruthOK, AloneOK, ToldOK, [Next]_vars
  PROVE  ToldOK'
<1> SUFFICES ASSUME truth'.alone, NEW p \in Passers, pass'[p].step \in {"orders", "staged"},
                    NEW o \in DOMAIN pass'[p].report, FilledRow(o)'
             PROVE  pass'[p].report[o] = "filled"
  BY DEF ToldOK
<1>1. /\ pass = [q \in Passers |-> pass[q]] /\ Passers = {"day", "operator"}
      /\ \A q \in Passers : InFlight(q) <=> pass[q] # Idle
  BY DEF PassesOK, Passers, InFlight
<1>2. \A q \in Orders : FilledRow(q) => q \in filled
  BY DEF LedgerOK, AccountOK
<1>3. pass'[p] # Idle /\ o \in Orders
  <2>1. PassesOK' /\ AccountOK'
    BY PassesStay, AccountStays
  <2>2. pass'[p] # Idle /\ ReportOK(pass[p].report)'
    BY <2>1 DEF PassesOK, PassOK, Idle
  <2> QED
    BY <2>1, <2>2 DEF ReportOK, AccountOK, Range
<1>4. CASE GetOrders(p)
  <2>1. /\ pass'[p].report = [q \in Newest |-> StatusNow(q)] /\ UNCHANGED rows
        /\ Newest \subseteq Orders
    BY <1>1, <1>4, PassValues, NewestInBroker DEF GetOrders, ledger, AccountOK
  <2> QED
    BY <1>2, <2>1 DEF StatusNow, FilledRow
<1>5. ~(PassStarts(p) \/ Commit(p) \/ PassFails(p))
  <2>1. PassStarts(p) => pass'[p].step = "account"
    BY <1>1, PassValues
  <2>2. Commit(p) \/ PassFails(p) => pass'[p] = Idle
    BY <1>1, PassValues
  <2> QED
    BY <1>3, <2>1, <2>2
\* A pass other than this one was not on its way, or is not the day's.
<1>6. ASSUME NEW q \in Passers, q # p, PassStarts(q)
      PROVE  FALSE
  <2>1. pass'[p] = pass[p] /\ InFlight(p)
    BY <1>1, <1>3, <1>6, PassValues
  <2> QED
    BY <1>1, <1>6, <2>1 DEF PassStarts, TruthOK
<1>7. ASSUME NEW q \in Passers, q # p, Commits(q)
      PROVE  FALSE
  <2>1. pass'[p] = pass[p] /\ pass[q].step = "staged"
    BY <1>1, <1>7 DEF Commits, Commit
  <2>2. pass[p] # Idle /\ pass[q] # Idle
    BY <1>3, <2>1 DEF Idle
  <2>3. truth'.alone = truth.alone
    BY <1>7 DEF Commits, TruthOK
  <2> QED
    BY <1>1, <1>7, <2>2, <2>3 DEF AloneOK
<1>8. truth.alone
  <2>1. UNCHANGED truth \/ Commits("day")
    BY <1>1, <1>5, <1>6, TruthSteps
  <2> QED
    BY <2>1 DEF Commits, TruthOK
<1>9. GetOrders(p) \/ (pass'[p].report = pass[p].report /\ pass[p].step \in {"orders", "staged"})
  <2>1. ASSUME NEW q \in Passers, q # p, GetOrders(q) \/ Apply(q) \/ Commit(q) \/ PassFails(q)
        PROVE  pass'[p] = pass[p]
    BY <1>1, <2>1, PassValues
  <2>2. Apply(p) => pass'[p].report = pass[p].report /\ pass[p].step = "orders"
    BY <1>1, PassValues DEF Apply
  <2> QED
    BY <1>5, <1>6, <2>1, <2>2, PassSteps
<1>10. FilledRow(o) \/ GetOrders(p)
  <2>1. CASE UNCHANGED rows
    BY <2>1 DEF FilledRow
  <2>2. ASSUME NEW q \in Ours, WindowSubmits(q)
        PROVE  FilledRow(o)
    <3>1. UNCHANGED rows \/ rows' = [rows EXCEPT ![q] = [track |-> OwnerOf[q], status |-> "open"]]
      BY <2>2 DEF WindowSubmits
    <3> QED
      BY <1>3, <3>1 DEF FilledRow, LedgerOK
  <2>3. ASSUME NEW q \in Passers, Commits(q)
        PROVE  FALSE
    BY <1>5, <1>7, <2>3 DEF Commits
  <2> QED
    BY <2>1, <2>2, <2>3, LedgerSteps
<1> QED
  BY <1>4, <1>8, <1>9, <1>10 DEF ToldOK

-----------------------------------------------------------------------------
(* The books after a pass that was alone.                                  *)

\* The day's pass commits: the ledger is what it was told.
LEMMA SettledByCommit ==
  ASSUME DayOK, AccountOK, LedgerOK, PassesOK, TruthOK, AloneOK, Commits("day"), truth'.alone
  PROVE  /\ \A o \in DOMAIN truth'.report : Current(o)'
         /\ \E s \in Stamps' : Latest(s)' /\ snapshots'[s] >= truth'.equity
         /\ ~InFlight("operator")'
<1> DEFINE s == pass["day"]
<1>1. /\ s.step = "staged" /\ "day" \in Passers /\ "operator" \in Passers
      /\ rows' = [o \in Orders |-> IF o \in DOMAIN s.report THEN Written(s, o) ELSE rows[o]]
      /\ fills' = fills \cup FillsOf(s.report)
      /\ snapshots' = Recorded(s)
      /\ pass' = [pass EXCEPT !["day"] = Idle]
  BY DEF Commits, Commit, Passers
<1>2. truth'.report = s.report /\ truth'.equity = s.equity /\ truth'.alone = truth.alone
  BY DEF Commits, TruthOK
<1>3. /\ ~InFlight("operator")
      /\ \A o \in DOMAIN s.report : s.rows[o] = rows[o]
      /\ \A r \in Stamps : r <= s.stamp
      /\ s.seen = snapshots[s.stamp]
  <2>1. InFlight("day")
    BY <1>1 DEF InFlight, Idle
  <2> QED
    BY <1>1, <1>2, <2>1 DEF AloneOK
<1>4. AskedOK(s) /\ ReportOK(s.report) /\ ViewOK(s)
  BY <1>1, StagedPass
<1>5. ASSUME NEW o \in DOMAIN s.report PROVE Current(o)'
  <2>1. Written(s, o) \in Rows /\ Written(s, o).status = s.report[o]
    BY <1>1, <1>3, <1>5, WrittenRow
  <2>2. o \in Orders /\ rows'[o] = Written(s, o)
    BY <1>1, <1>4, <1>5 DEF ReportOK, AccountOK, Range
  <2>3. rows'[o] # NoRow
    BY <2>1, <2>2, DayAssumption
  <2>4. s.report[o] = "filled" => rows'[o].status = "filled" /\ o \in fills'
    BY <1>1, <1>5, <2>1, <2>2 DEF FillsOf
  <2> QED
    BY <1>2, <2>3, <2>4 DEF Current
<1>6. /\ s.stamp \in Seconds /\ s.equity \in Seconds /\ NoRow \notin Seconds
      /\ \A r \in Seconds : r \in Nat
  BY <1>4, DayAssumption DEF AskedOK, ViewOK, Seconds
<1>7. snapshots'[s.stamp] = s.equity /\ \A r \in Seconds : r # s.stamp => snapshots'[r] = snapshots[r]
  BY <1>1, <1>3, <1>6 DEF LedgerOK, Recorded
<1>8. s.stamp \in Stamps' /\ \A r \in Stamps' : r <= s.stamp
  BY <1>3, <1>6, <1>7 DEF Stamps
<1>9. snapshots'[s.stamp] >= s.equity
  BY <1>6, <1>7
<1>10. pass'["operator"] = pass["operator"]
  BY <1>1 DEF PassesOK
<1> HIDE DEF s
<1>11. \E r \in Stamps' : Latest(r)' /\ snapshots'[r] >= truth'.equity
  BY <1>2, <1>8, <1>9 DEF Latest
<1> QED
  BY <1>2, <1>3, <1>5, <1>10, <1>11 DEF InFlight

\* The operator's pass commits: it was told nothing older than the day's.
LEMMA SettledByOperator ==
  ASSUME DayOK, AccountOK, LedgerOK, PassesOK, TruthOK, SettledOK, Settled, Commits("operator")
  PROVE  /\ \A o \in DOMAIN truth.report : Current(o)'
         /\ \E s \in Stamps' : Latest(s)' /\ snapshots'[s] >= truth'.equity
<1> DEFINE s == pass["operator"]
<1>1. /\ s.step = "staged" /\ "operator" \in Passers
      /\ rows' = [o \in Orders |-> IF o \in DOMAIN s.report THEN Written(s, o) ELSE rows[o]]
      /\ fills' = fills \cup FillsOf(s.report)
      /\ snapshots' = Recorded(s)
      /\ UNCHANGED truth
  BY DEF Commits, Commit, Passers
<1>2. AskedOK(s) /\ ReportOK(s.report) /\ ViewOK(s)
  BY <1>1, StagedPass
<1>3. /\ \A o \in DOMAIN truth.report : Current(o)
      /\ s.equity >= truth.equity
      /\ \A o \in DOMAIN truth.report \cap DOMAIN s.report :
           truth.report[o] = "filled" => s.report[o] = "filled"
      /\ s.seen = snapshots[s.stamp]
  <2>1. InFlight("operator")
    BY <1>1 DEF InFlight, Idle
  <2> QED
    BY <1>1, <2>1 DEF SettledOK
<1>4. ASSUME NEW o \in DOMAIN truth.report PROVE Current(o)'
  <2>1. o \in Orders
    BY <1>4 DEF TruthOK, ReportOK, AccountOK, Range
  <2>2. rows[o] # NoRow /\ (truth.report[o] = "filled" => rows[o].status = "filled" /\ o \in fills)
    BY <1>3, <1>4 DEF Current
  <2>3. CASE o \in DOMAIN s.report
    <3>1. Written(s, o) \in Rows /\ (rows[o].status = s.report[o] => Written(s, o).status = s.report[o])
      BY <1>1, <2>3, WrittenRow
    <3>2. rows'[o] = Written(s, o) /\ rows'[o] # NoRow
      BY <1>1, <2>1, <2>3, <3>1, DayAssumption
    <3>3. truth.report[o] = "filled" => s.report[o] = "filled"
      BY <1>3, <1>4, <2>3
    <3> QED
      BY <1>1, <2>2, <3>1, <3>2, <3>3 DEF Current
  <2>4. CASE o \notin DOMAIN s.report
    BY <1>1, <2>1, <2>2, <2>4 DEF Current
  <2> QED
    BY <2>3, <2>4
<1>5. /\ s.stamp \in Seconds /\ s.equity \in Seconds /\ NoRow \notin Seconds
      /\ \A r \in Seconds : r \in Nat
  BY <1>2, DayAssumption DEF AskedOK, ViewOK, Seconds
<1>6. snapshots'[s.stamp] = s.equity /\ \A r \in Seconds : r # s.stamp => snapshots'[r] = snapshots[r]
  BY <1>1, <1>3, <1>5 DEF LedgerOK, Recorded
<1>7. PICK t \in Stamps : Latest(t) /\ snapshots[t] >= truth.equity
  BY DEF SettledOK
<1>8. t \in Seconds /\ t \in Nat /\ snapshots[t] # NoRow /\ \A r \in Stamps : r <= t
  BY <1>5, <1>7 DEF Latest, Stamps
<1>9. Stamps' = Stamps \cup {s.stamp}
  BY <1>5, <1>6 DEF Stamps
<1>10. s.stamp \in Nat
  BY <1>5
<1> HIDE DEF s
<1>11. CASE s.stamp < t
  <2>1. snapshots'[t] = snapshots[t] /\ t \in Stamps'
    BY <1>6, <1>7, <1>8, <1>9, <1>10, <1>11
  <2>2. \A r \in Stamps' : r <= t
    BY <1>8, <1>9, <1>10, <1>11
  <2>3. Latest(t)' /\ snapshots'[t] >= truth'.equity
    BY <1>1, <1>7, <2>1, <2>2 DEF Latest
  <2> QED
    BY <1>4, <2>1, <2>3
<1>12. CASE ~(s.stamp < t)
  <2>1. s.stamp \in Stamps' /\ \A r \in Stamps' : r <= s.stamp
    <3>1. t <= s.stamp
      BY <1>8, <1>10, <1>12
    <3>2. ASSUME NEW r \in Stamps PROVE r <= s.stamp
      <4>1. r <= t /\ r \in Nat
        BY <1>5, <1>8 DEF Stamps
      <4> QED
        BY <1>8, <1>10, <3>1, <4>1
    <3> QED
      BY <1>9, <1>10, <3>2
  <2>2. PICK u \in Seconds : u = s.stamp
    BY <1>5
  <2>3. Latest(u)' /\ snapshots'[u] >= truth'.equity
    BY <1>1, <1>3, <1>6, <2>1, <2>2 DEF Latest
  <2> QED
    BY <1>4, <2>1, <2>2, <2>3
<1> QED
  BY <1>11, <1>12

\* After a pass that was alone the ledger shows no less than it was told.
LEMMA SettledStays ==
  ASSUME DayOK, LoopOK, AccountOK, LedgerOK, PassesOK, TruthOK, AloneOK, SettledOK, [Next]_vars
  PROVE  SettledOK'
<1> SUFFICES ASSUME day'.at \notin {"pass", "died"}, truth'.alone
             PROVE  /\ \A o \in DOMAIN truth'.report : Current(o)'
                    /\ \E s \in Stamps' : Latest(s)' /\ snapshots'[s] >= truth'.equity
                    /\ InFlight("operator")' => pass'["operator"].equity >= truth'.equity
                    /\ pass'["operator"].step \in {"orders", "staged"} =>
                         \A o \in DOMAIN truth'.report \cap DOMAIN pass'["operator"].report :
                           truth'.report[o] = "filled" => pass'["operator"].report[o] = "filled"
                    /\ pass'["operator"].step = "staged" =>
                         pass'["operator"].seen = snapshots'[pass'["operator"].stamp]
  BY DEF SettledOK, Settled
<1>1. CASE Commits("day")
  <2>1. ~InFlight("operator")'
    BY <1>1, SettledByCommit
  <2>2. pass'["operator"].step = "idle"
    BY <2>1 DEF InFlight, Idle
  <2> QED
    BY <1>1, <2>1, <2>2, SettledByCommit
<1>2. CASE ~Commits("day")
  <2>1. /\ day.at \notin {"pass", "died"} /\ ~InFlight("day")
        /\ ~Commit("day") /\ ~PassFails("day") /\ ~PassStarts("day")
    BY <1>2, PastThePass
  <2>2. /\ pass = [q \in Passers |-> pass[q]] /\ Passers = {"day", "operator"}
        /\ ~GetOrders("day") /\ ~Apply("day")
    BY <2>1 DEF PassesOK, Passers, InFlight, Idle, GetOrders, Apply
  <2>3. truth.alone /\ truth'.report = truth.report /\ truth'.equity = truth.equity
    <3>1. UNCHANGED truth \/ PassStarts("operator")
      BY <1>2, <2>1, <2>2, TruthSteps
    <3> QED
      BY <3>1 DEF PassStarts, TruthOK
  <2>4. Settled
    BY <2>1, <2>3 DEF Settled
  <2>5. /\ \A o \in DOMAIN truth.report : Current(o)
        /\ \E s \in Stamps : Latest(s) /\ snapshots[s] >= truth.equity
        /\ InFlight("operator") => pass["operator"].equity >= truth.equity
        /\ pass["operator"].step \in {"orders", "staged"} =>
             \A o \in DOMAIN truth.report \cap DOMAIN pass["operator"].report :
               truth.report[o] = "filled" => pass["operator"].report[o] = "filled"
        /\ pass["operator"].step = "staged" =>
             pass["operator"].seen = snapshots[pass["operator"].stamp]
    BY <2>4 DEF SettledOK
  \* The ledger.
  <2>6. /\ \A o \in DOMAIN truth.report : Current(o)'
        /\ \E s \in Stamps' : Latest(s)' /\ snapshots'[s] >= truth'.equity
    <3>1. CASE Commits("operator")
      BY <2>3, <2>4, <3>1, SettledByOperator
    <3>2. CASE UNCHANGED <<rows, fills, snapshots>>
      BY <2>3, <2>5, <3>2 DEF Current, Latest, Stamps
    <3>3. ASSUME NEW o \in Ours, WindowSubmits(o)
          PROVE  /\ \A q \in DOMAIN truth.report : Current(q)'
                 /\ \E s \in Stamps' : Latest(s)' /\ snapshots'[s] >= truth'.equity
      <4>1. /\ UNCHANGED <<snapshots, fills, truth>> /\ o \notin Range(broker)
            /\ UNCHANGED rows \/ rows' = [rows EXCEPT ![o] = [track |-> OwnerOf[o], status |-> "open"]]
        BY <3>3 DEF WindowSubmits
      <4>2. \A q \in DOMAIN truth.report : q # o /\ q \in Orders
        BY <4>1 DEF TruthOK, ReportOK, AccountOK, Range
      <4>3. \A q \in DOMAIN truth.report : rows'[q] = rows[q]
        BY <4>1, <4>2 DEF LedgerOK
      <4> QED
        BY <2>3, <2>5, <4>1, <4>3 DEF Current, Latest, Stamps
    <3> QED
      BY <1>2, <2>2, <3>1, <3>2, <3>3, LedgerSteps
  \* The operator's pass.
  <2>7. \A o \in DOMAIN truth.report : truth.report[o] = "filled" => o \in filled
    BY DEF TruthOK, ReportOK
  <2>8. CASE UNCHANGED pass
    <3>1. UNCHANGED snapshots
      <4>1. ASSUME NEW p \in Passers, Commits(p) PROVE FALSE
        <5>1. pass[p] # Idle /\ pass' = [pass EXCEPT ![p] = Idle]
          BY <4>1 DEF Commits, Commit, Idle
        <5> QED
          BY <2>2, <2>8, <5>1
      <4> QED
        BY <4>1, LedgerSteps DEF WindowSubmits
    <3> QED
      BY <2>3, <2>5, <2>6, <2>8, <3>1 DEF InFlight
  <2>9. CASE PassStarts("operator")
    <3>1. pass'["operator"].step = "account" /\ pass'["operator"].equity = clock
      BY <2>2, <2>9, PassValues
    <3>2. truth.equity \in Nat /\ clock \in Nat /\ truth.equity <= clock
      BY <2>1 DEF TruthOK, DayOK, Seconds
    <3>3. clock >= truth'.equity
      BY <2>3, <3>2
    <3> QED
      BY <2>3, <2>6, <3>1, <3>3
  <2>10. ASSUME InFlight("operator"), pass'["operator"].equity = pass["operator"].equity
         PROVE  pass'["operator"].equity >= truth'.equity
    BY <2>3, <2>5, <2>10
  <2>11. CASE GetOrders("operator")
    <3>1. /\ pass'["operator"].equity = pass["operator"].equity
          /\ pass'["operator"].report = [o \in Newest |-> StatusNow(o)]
          /\ InFlight("operator") /\ pass'["operator"].step = "orders"
      BY <2>2, <2>11, PassValues DEF GetOrders, InFlight, Idle
    <3>2. \A o \in DOMAIN truth.report \cap DOMAIN pass'["operator"].report :
             truth.report[o] = "filled" => pass'["operator"].report[o] = "filled"
      BY <2>7, <3>1 DEF StatusNow
    <3> QED
      BY <2>3, <2>6, <2>10, <3>1, <3>2
  <2>12. CASE Apply("operator")
    <3>1. /\ pass'["operator"].equity = pass["operator"].equity
          /\ pass'["operator"].report = pass["operator"].report
          /\ pass'["operator"].stamp = clock /\ pass'["operator"].seen = snapshots[clock]
          /\ UNCHANGED snapshots
          /\ InFlight("operator") /\ pass["operator"].step = "orders"
      BY <2>2, <2>12, PassValues, SMTT(30) DEF Apply, InFlight, Idle, ledger
    <3> QED
      BY <2>3, <2>5, <2>6, <2>10, <3>1
  <2>13. CASE Commit("operator") \/ PassFails("operator")
    <3>1. pass'["operator"] = Idle
      BY <2>2, <2>13, PassValues
    <3> QED
      BY <2>3, <2>6, <3>1 DEF InFlight, Idle
  <2> QED
    BY <2>1, <2>2, <2>8, <2>9, <2>11, <2>12, <2>13, PassSteps
<1> QED
  BY <1>1, <1>2

\* The newest orders of ours are in the day's report, then in the ledger.
LEMMA BooksStay ==
  ASSUME DayOK, LoopOK, AccountOK, LedgerOK, PassesOK, BooksOK, [Next]_vars
  PROVE  BooksOK'
<1>1. /\ pass = [q \in Passers |-> pass[q]] /\ Passers = {"day", "operator"}
      /\ InFlight("day") => day.at = "pass"
      /\ \A o \in Orders : rows[o] # NoRow => rows'[o] # NoRow
      /\ Ours \subseteq Orders /\ Ours \cap External = {}
  BY LedgerStays, DayAssumption DEF PassesOK, Passers, Orders
<1>2. day.at # "window" => Ours \cap Newest' \subseteq Ours \cap Newest
  <2>1. ASSUME NEW o \in External, ExternalOrder(o) PROVE Newest' \subseteq Newest \cup {o}
    BY <2>1, NewestAppend DEF ExternalOrder, AccountOK, Orders
  <2>2. ASSUME NEW o \in Orders, BrokerFill(o) PROVE Newest' = Newest
    BY <2>2 DEF BrokerFill, Newest
  <2>3. UNCHANGED <<broker, filled>> => Newest' = Newest
    BY DEF Newest
  <2>4. ASSUME NEW o \in Ours, WindowSubmits(o) PROVE day.at = "window"
    BY <2>4 DEF WindowSubmits
  <2> QED
    BY <1>1, <2>1, <2>2, <2>3, <2>4, LedgerSteps
<1>3. pass'["day"].step \in {"orders", "staged"} => Ours \cap Newest' \subseteq DOMAIN pass'["day"].report
  <2> SUFFICES ASSUME pass'["day"].step \in {"orders", "staged"}
               PROVE  Ours \cap Newest' \subseteq DOMAIN pass'["day"].report
    OBVIOUS
  <2>1. CASE UNCHANGED pass
    <3>1. InFlight("day")
      BY <2>1 DEF InFlight, Idle
    <3> QED
      BY <1>1, <1>2, <2>1, <3>1 DEF BooksOK
  <2>2. CASE GetOrders("day")
    <3>1. DOMAIN pass'["day"].report = Newest /\ UNCHANGED broker
      BY <1>1, <2>2, PassValues DEF GetOrders, account
    <3> QED
      BY <3>1 DEF Newest
  <2>3. CASE Apply("day")
    <3>1. pass'["day"].report = pass["day"].report /\ UNCHANGED broker /\ pass["day"].step = "orders"
      BY <1>1, <2>3, PassValues DEF Apply, account
    <3> QED
      BY <3>1 DEF Newest, BooksOK
  <2>4. ~(PassStarts("day") \/ Commit("day") \/ PassFails("day"))
    BY <1>1, PassValues DEF Idle
  <2>5. ASSUME NEW p \in Passers, p # "day",
               PassStarts(p) \/ GetOrders(p) \/ Apply(p) \/ Commit(p) \/ PassFails(p)
        PROVE  pass'["day"] = pass["day"] /\ UNCHANGED broker
    <3>1. pass'["day"] = pass["day"]
      BY <1>1, <2>5, PassValues
    <3> QED
      BY <2>5, <3>1 DEF PassStarts, GetOrders, Apply, Commit, PassFails, account
  <2>6. pass'["day"] = pass["day"] /\ UNCHANGED broker => Ours \cap Newest' \subseteq DOMAIN pass'["day"].report
    BY DEF BooksOK, Newest
  <2> QED
    BY <2>1, <2>2, <2>3, <2>4, <2>5, <2>6, PassSteps
<1>4. day'.at \in {"choose", "sleeping"} => \A o \in Ours \cap Newest' : rows'[o] # NoRow
  <2> SUFFICES ASSUME day'.at \in {"choose", "sleeping"}
               PROVE  \A o \in Ours \cap Newest' : rows'[o] # NoRow
    OBVIOUS
  <2>1. CASE Commits("day")
    <3>1. /\ pass["day"].step = "staged" /\ UNCHANGED broker
          /\ rows' = [o \in Orders |-> IF o \in DOMAIN pass["day"].report
                                       THEN Written(pass["day"], o) ELSE rows[o]]
      BY <2>1 DEF Commits, Commit, account
    <3>2. \A o \in DOMAIN pass["day"].report : Written(pass["day"], o) \in Rows
      BY <1>1, <3>1, WrittenRow
    <3>3. Ours \cap Newest' \subseteq DOMAIN pass["day"].report
      BY <3>1 DEF BooksOK, Newest
    <3> QED
      BY <1>1, <3>1, <3>2, <3>3, DayAssumption
  <2>2. CASE ~Commits("day")
    <3>1. day.at \notin {"pass", "died"}
      BY <2>2, PastThePass
    <3>2. day.at \in {"choose", "sleeping"}
      <4>1. day \in [at : DayStages, windows : Seq(Seconds \cup {BadTime}), once : BOOLEAN, strict : BOOLEAN, next : Nat \ {0}]
        BY DEF DayOK
      <4>2. day.at = "window" => UNCHANGED day
        BY <4>1, LoopSteps DEF Tick, Returns, Dies, Choose, WindowBegins, Due, WindowEnds, Day
      <4>3. day.at = "ended" => UNCHANGED day
        BY <4>1, LoopSteps DEF Tick, Returns, Dies, Choose, WindowBegins, Due, WindowEnds, Day
      <4> QED
        BY <3>1, <4>1, <4>2, <4>3 DEF DayStages
    <3> QED
      BY <1>1, <1>2, <3>2 DEF BooksOK
  <2> QED
    BY <2>1, <2>2
<1> QED
  BY <1>3, <1>4 DEF BooksOK

-----------------------------------------------------------------------------
(* The theorems.                                                           *)

\* The day begins with its first pass and empty books.
LEMMA InitInv ==
  ASSUME Init
  PROVE  IInv
<1>1. /\ MaxClock \in Nat /\ Starts \subseteq Seconds /\ BadTime \notin Seconds
      /\ \A d \in Days : /\ d.windows \in Seq(Seconds \cup {BadTime})
                         /\ d.once \in BOOLEAN /\ d.strict \in BOOLEAN
  BY DayAssumption
<1>2. PICK d \in Days : day = [at |-> "pass", windows |-> d.windows, once |-> d.once,
                            strict |-> d.strict, next |-> 1]
  BY DEF Init
<1>3. /\ clock \in Seconds /\ ran = {} /\ skipped = {} /\ broker = <<>> /\ filled = {} /\ fills = {}
      /\ rows = [o \in Orders |-> NoRow] /\ snapshots = [s \in Seconds |-> NoRow]
      /\ pass = [p \in Passers |-> Idle]
      /\ truth = [report |-> <<>>, equity |-> NoRow, alone |-> TRUE]
  BY <1>1 DEF Init
<1>4. /\ day.at = "pass" /\ day.next = 1 /\ day.windows \in Seq(Seconds \cup {BadTime})
      /\ day.once \in BOOLEAN /\ day.strict \in BOOLEAN
      /\ day = [at |-> "pass", windows |-> day.windows, once |-> day.once, strict |-> day.strict,
                next |-> 1]
  BY <1>1, <1>2
<1>5. DayOK /\ LoopOK
  BY <1>3, <1>4 DEF DayOK, LoopOK, DayStages
<1>6. DoneOK
  BY <1>3, <1>4 DEF DoneOK, Done
<1>7. AccountOK
  BY <1>3 DEF AccountOK
<1>8. LedgerOK
  BY <1>3 DEF LedgerOK, FilledRow, Stamps
<1>9. PassesOK
  <2>1. \A p \in Passers : pass[p] = Idle
    BY <1>3
  <2>2. pass = [p \in Passers |-> pass[p]]
    BY <1>3
  <2>3. ~InFlight("day")
    BY <2>1 DEF InFlight, Passers
  <2> QED
    BY <2>1, <2>2, <2>3 DEF PassesOK, PassOK
<1>10. TruthOK
  BY <1>3, <1>4 DEF TruthOK, ReportOK
<1>11. AloneOK /\ ToldOK /\ SettledOK /\ BooksOK
  <2>1. pass["day"] = Idle /\ "day" \in Passers /\ \A p \in Passers : pass[p] = Idle
    BY <1>3 DEF Passers
  <2> QED
    BY <1>4, <2>1 DEF AloneOK, ToldOK, SettledOK, Settled, BooksOK, InFlight, Idle
<1> QED
  BY <1>5, <1>6, <1>7, <1>8, <1>9, <1>10, <1>11 DEF IInv

\* Whatever fails and whatever overlaps, the parts of the invariant support
\* one another.
THEOREM Invariance == Spec => []IInv
<1>1. Init => IInv
  BY InitInv
<1>2. IInv /\ [Next]_vars => IInv'
  BY DayStays, LoopStays, DoneStays, AccountStays, LedgerStays, PassesStay, TruthStays, AloneStays,
     ToldStays, SettledStays, BooksStay DEF IInv
<1> QED
  BY <1>1, <1>2, PTL DEF Spec

\* A day that has ended has run or skipped every window of its list, and
\* none of them twice (run_day._drive), for every list.
THEOREM NoWindowForgotten == Spec => []WindowsAccounted
<1>1. IInv => WindowsAccounted
  <2> SUFFICES ASSUME IInv PROVE WindowsAccounted
    OBVIOUS
  <2>1. /\ day \in [at : DayStages, windows : Seq(Seconds \cup {BadTime}), once : BOOLEAN, strict : BOOLEAN, next : Nat \ {0}]
        /\ DoneOK
        /\ day.at = "ended" => day.next = Len(day.windows) + 1
    BY DEF IInv, DayOK, LoopOK
  <2>2. day.at = "ended" => ran \cup skipped = DOMAIN day.windows
    <3> SUFFICES ASSUME day.at = "ended" PROVE ran \cup skipped = DOMAIN day.windows
      OBVIOUS
    <3>1. Len(day.windows) \in Nat /\ DOMAIN day.windows = 1..Len(day.windows)
      BY <2>1
    <3>2. ran \cup skipped = 1..(day.next - 1)
      BY <2>1 DEF DoneOK, Done
    <3>3. day.next - 1 = Len(day.windows)
      BY <2>1, <3>1
    <3> QED
      BY <3>1, <3>2, <3>3
  <2>3. ran \cup skipped = 1..(day.next - (IF day.at = "window" THEN 0 ELSE 1)) \/ day.at = "died"
    <3>1. CASE day.at = "window"
      <4>1. day.next - 0 = day.next
        BY <2>1
      <4> QED
        BY <2>1, <3>1, <4>1 DEF DoneOK, Done
    <3>2. CASE day.at # "window"
      BY <2>1, <3>2 DEF DoneOK, Done
    <3> QED
      BY <3>1, <3>2
  <2>4. /\ ran \cap skipped = {}
        /\ \A i \in skipped : ~day.once /\ day.windows[i] < clock
        /\ \A i \in ran : ~day.once => day.windows[i] <= clock
    BY <2>1 DEF DoneOK
  <2> QED
    BY <2>2, <2>3, <2>4 DEF WindowsAccounted
<1> QED
  BY <1>1, Invariance, PTL

\* Once the day's last pass was alone, the books are those of the account,
\* and the next window is gated by an equity no older than that pass.
THEOREM BooksAreCurrent == Spec => []BooksCurrent
<1>1. IInv => LedgerCurrent
  <2> SUFFICES ASSUME IInv, Settled, NEW o \in DOMAIN truth.report
               PROVE  /\ rows[o] # NoRow /\ rows[o].track = Attributed(o)
                      /\ truth.report[o] = "filled" => rows[o].status = "filled" /\ o \in fills
    BY DEF LedgerCurrent
  <2>1. Current(o) /\ o \in Orders
    BY DEF IInv, SettledOK, TruthOK, ReportOK, AccountOK, Range
  <2> QED
    BY <2>1 DEF IInv, Current, LedgerOK
<1>2. IInv => GateSeesFreshEquity
  <2> SUFFICES ASSUME IInv, Settled
               PROVE  Stamps # {} /\ snapshots[LatestSnapshot] >= truth.equity
    BY DEF GateSeesFreshEquity
  <2>1. PICK s \in Stamps : Latest(s) /\ snapshots[s] >= truth.equity
    BY DEF IInv, SettledOK
  <2>2. \A r \in Stamps : r \in Nat
    BY DayAssumption DEF Stamps, Seconds
  <2>3. LatestSnapshot = s
    <3>1. \A t \in Stamps : (\A r \in Stamps : r <= t) => t = s
      BY <2>1, <2>2 DEF Latest
    <3> QED
      BY <2>1, <3>1 DEF LatestSnapshot, Latest
  <2> QED
    BY <2>1, <2>3
<1>3. IInv => AttributionKept
  BY AttributedOfOurs DEF IInv, LedgerOK, AttributionKept, Orders
<1> QED
  BY <1>1, <1>2, <1>3, Invariance, PTL DEF BooksCurrent

\* A filled order is shown open again only where two passes overlapped, by
\* one that asked before the fill and looked after the other had written.
THEOREM StatusTakenBackOnlyInOverlap == Spec => TakenBackOnlyInOverlap
<1>1. ASSUME IInv, [Next]_vars, NEW o \in Orders, TakenBack(o)
      PROVE  /\ ~truth.alone /\ o \in fills'
             /\ \E p \in Passers : /\ Commit(p) /\ o \in DOMAIN pass[p].report
                                  /\ pass[p].report[o] = "open"
                                  /\ pass[p].rows[o].status = "filled"
  <2>1. /\ LedgerOK /\ PassesOK /\ AccountOK /\ ToldOK
        /\ FilledRow(o) /\ rows'[o].status = "open" /\ rows'[o] # rows[o]
    BY <1>1 DEF IInv, TakenBack, FilledRow
  <2>2. o \in fills'
    BY <2>1, <1>1, AccountStays DEF LedgerOK
  <2>3. PICK p \in Passers : Commits(p)
    <3>1. ASSUME NEW q \in Ours, WindowSubmits(q)
          PROVE  rows'[o] = rows[o]
      <4>1. o \in Range(broker)
        BY <2>1 DEF LedgerOK, AccountOK
      <4> QED
        BY <2>1, <3>1, <4>1 DEF WindowSubmits, LedgerOK
    <3> QED
      BY <1>1, <2>1, <3>1, LedgerSteps
  <2>4. /\ pass[p].step = "staged" /\ ~Conflict(pass[p])
        /\ rows' = [q \in Orders |-> IF q \in DOMAIN pass[p].report THEN Written(pass[p], q)
                                     ELSE rows[q]]
    BY <2>3 DEF Commits, Commit
  <2>5. o \in DOMAIN pass[p].report /\ Written(pass[p], o).status = "open"
    BY <2>1, <2>4
  <2>6. pass[p].report[o] = "open" /\ pass[p].rows[o].status = "filled"
    BY <2>1, <2>4, <2>5, WrittenRow
  <2>7. ~truth.alone
    BY <2>1, <2>4, <2>5, <2>6 DEF ToldOK
  <2> QED
    BY <2>2, <2>3, <2>5, <2>6, <2>7 DEF Commits
<1>2. IInv /\ [Next]_vars =>
        [\A o \in Orders : TakenBack(o) =>
           /\ ~truth.alone /\ o \in fills'
           /\ \E p \in Passers : /\ Commit(p) /\ o \in DOMAIN pass[p].report
                                /\ pass[p].report[o] = "open"
                                /\ pass[p].rows[o].status = "filled"]_vars
  BY <1>1
<1> QED
  BY <1>2, Invariance, PTL DEF Spec, TakenBackOnlyInOverlap

\* A window begins on books that have every order of ours among those the
\* broker lists, also the ones whose answers were lost.
THEOREM WindowsBeginOnBooks == Spec => BooksBeforeWindow
<1>1. IInv /\ [Next]_vars => [WindowBegins => \A o \in Ours \cap Newest : rows[o] # NoRow]_vars
  BY DEF IInv, BooksOK, WindowBegins, Due
<1> QED
  BY <1>1, Invariance, PTL DEF Spec, BooksBeforeWindow

-----------------------------------------------------------------------------
(* Types.  Two parts of TypeOK are not in IInv, which does not need them:  *)
(* what the loop dealt with is in its list, and an answer of the broker is *)
(* no longer than its limit.                                               *)

DealtWith == ran \subseteq DOMAIN day.windows /\ skipped \subseteq DOMAIN day.windows
Limited   == \A p \in Passers :
               pass[p].step = "orders" => Cardinality(DOMAIN pass[p].report) <= OrdersLimit

\* At most OrdersLimit orders are the newest.
LEMMA NewestLimited ==
  ASSUME broker \in Seq(Orders)
  PROVE  Cardinality(Newest) <= OrdersLimit
<1> DEFINE n == Len(broker)
           K == {k \in 1..n : k + OrdersLimit > n}
           W == (n - OrdersLimit + 1)..n
<1>1. n \in Nat /\ OrdersLimit \in Nat
  BY DayAssumption
<1>2. K \subseteq W
  BY <1>1
<1>3. IsFiniteSet(W) /\ Cardinality(W) <= OrdersLimit /\ Cardinality(W) \in Nat
  <2>1. n - OrdersLimit + 1 \in Int /\ n \in Int
    BY <1>1
  <2> HIDE DEF n
  <2>2. IsFiniteSet(W) /\ Cardinality(W) = IF n - OrdersLimit + 1 > n THEN 0 ELSE n - (n - OrdersLimit + 1) + 1
    BY <2>1, FS_Interval
  <2> QED
    BY <1>1, <2>1, <2>2, FS_CardinalityType
<1>4. IsFiniteSet(K) /\ Cardinality(K) <= Cardinality(W) /\ Cardinality(K) \in Nat
  BY <1>2, <1>3, FS_Subset, FS_CardinalityType
<1>5. Newest = {broker[i] : i \in K}
  BY DEF Newest
<1>6. IsFiniteSet(Newest) /\ Cardinality(Newest) <= Cardinality(K) /\ Cardinality(Newest) \in Nat
  <2> DEFINE f == [i \in K |-> broker[i]]
  <2>1. f \in Surjection(K, Newest)
    BY <1>5 DEF Surjection
  <2> HIDE DEF K, f
  <2>2. IsFiniteSet(Newest) /\ Cardinality(Newest) <= Cardinality(K)
    BY <1>4, <2>1, FS_Surjection
  <2> QED
    BY <2>2, FS_CardinalityType
<1> QED
  BY <1>1, <1>3, <1>4, <1>6

\* A window once due is dealt with.
LEMMA DealtWithStays ==
  ASSUME IInv, DealtWith, [Next]_vars
  PROVE  DealtWith'
<1>1. /\ DayOK /\ LoopOK /\ PassesOK
      /\ day'.windows = day.windows
  BY DayStays DEF IInv
<1>2. /\ DOMAIN day.windows = 1..Len(day.windows) /\ Len(day.windows) \in Nat
      /\ day.next \in Nat \ {0}
  BY <1>1 DEF DayOK
<1>3. UNCHANGED <<ran, skipped>> \/ Choose \/ WindowBegins
  BY <1>1, LoopSteps DEF Tick, Returns, Dies, WindowEnds
<1>4. CASE Choose
  <2>1. UNCHANGED ran /\ (UNCHANGED skipped \/ (skipped' = skipped \cup {day.next} /\ ~(day.next > Len(day.windows))))
    BY <1>4 DEF Choose
  <2> QED
    BY <1>1, <1>2, <2>1 DEF DealtWith
<1>5. CASE WindowBegins
  <2>1. ran' = ran \cup {day.next} /\ UNCHANGED skipped /\ day.next <= Len(day.windows)
    BY <1>1, <1>5 DEF WindowBegins, Due, LoopOK
  <2> QED
    BY <1>1, <1>2, <2>1 DEF DealtWith
<1> QED
  BY <1>1, <1>3, <1>4, <1>5 DEF DealtWith

\* No pass holds more orders than the broker's limit.
LEMMA LimitedStays ==
  ASSUME IInv, Limited, [Next]_vars
  PROVE  Limited'
<1>1. PassesOK /\ pass = [q \in Passers |-> pass[q]] /\ broker \in Seq(Orders)
  BY DEF IInv, PassesOK, AccountOK
<1> SUFFICES ASSUME NEW p \in Passers, pass'[p].step = "orders"
             PROVE  Cardinality(DOMAIN pass'[p].report) <= OrdersLimit
  BY DEF Limited
<1>2. CASE GetOrders(p)
  <2>1. DOMAIN pass'[p].report = Newest
    BY <1>1, <1>2, PassValues
  <2> QED
    BY <1>1, <2>1, NewestLimited
<1>3. ~(PassStarts(p) \/ Apply(p) \/ Commit(p) \/ PassFails(p))
  <2>1. PassStarts(p) => pass'[p].step = "account"
    BY <1>1, PassValues
  <2>2. Apply(p) => pass'[p].step = "staged"
    BY <1>1, PassValues
  <2>3. Commit(p) \/ PassFails(p) => pass' = [pass EXCEPT ![p] = Idle]
    BY <1>1, PassValues
  <2> QED
    BY <1>1, <2>1, <2>2, <2>3 DEF Idle
<1>4. ASSUME NEW q \in Passers, q # p,
             PassStarts(q) \/ GetOrders(q) \/ Apply(q) \/ Commit(q) \/ PassFails(q)
      PROVE  pass'[p] = pass[p]
  BY <1>1, <1>4, PassValues
<1> QED
  BY <1>2, <1>3, <1>4, PassSteps DEF Limited

\* The books keep their types, and a report its limit.
THEOREM TypeCorrect == Spec => []TypeOK
<1>1. Init => DealtWith /\ Limited
  BY DEF Init, DealtWith, Limited, Idle
<1>2. IInv /\ DealtWith /\ Limited /\ [Next]_vars => (DealtWith /\ Limited)'
  BY DealtWithStays, LimitedStays
<1>3. IInv /\ DealtWith /\ Limited => TypeOK
  <2> SUFFICES ASSUME IInv, DealtWith, Limited PROVE TypeOK
    OBVIOUS
  <2>1. clock \in Seconds /\ day.at \in DayStages /\ day.next \in 1..(Len(day.windows) + 1)
    BY DEF IInv, DayOK
  <2>2. /\ broker \in Seq(Orders) /\ filled \subseteq Range(broker) /\ fills \subseteq filled
        /\ Range(broker) \subseteq Orders
    BY DEF IInv, AccountOK, Range
  <2>3. rows \in [Orders -> Rows \cup {NoRow}] /\ snapshots \in [Seconds -> Seconds \cup {NoRow}]
    BY DEF IInv, LedgerOK
  <2>4. ASSUME NEW p \in Passers, InFlight(p)
        PROVE  /\ pass[p].step \in {"account", "orders", "staged"} /\ pass[p].equity <= clock
               /\ pass[p].step = "orders" => Cardinality(DOMAIN pass[p].report) <= OrdersLimit
    <3>1. PassOK(pass[p]) /\ pass[p] # Idle
      BY <2>4 DEF IInv, PassesOK, InFlight
    <3> QED
      BY <3>1 DEF PassOK, AskedOK, Limited
  <2> QED
    BY <2>1, <2>2, <2>3, <2>4 DEF TypeOK, DayStages, DealtWith
<1> QED
  BY <1>1, <1>2, <1>3, Invariance, PTL DEF Spec

=============================================================================
