------------------------------- MODULE RunDay -------------------------------
(***************************************************************************)
(* A trading day: `stockripper run-day` reconciles, walks the list of      *)
(* windows, skipping those whose time has passed and sleeping until the    *)
(* others, and reconciles after each; meanwhile the operator may run       *)
(* `stockripper reconcile`, and other people use the account.              *)
(*                                                                         *)
(* Two reconciliation passes may overlap here and are told apart by the    *)
(* instants of their two requests, of their look at the ledger and of      *)
(* their commit.  An account equity is named by the second in which the    *)
(* account had it, so a pass that asks at second 3 reads equity 3.  The    *)
(* layers inside a window are those of WindowRunner and Execution.         *)
(***************************************************************************)
EXTENDS Naturals, Sequences, FiniteSets, SequencesExt

CONSTANTS
  Days,          \* invocations: a list of times of day, --once or not, and
                 \* whether the database enforces foreign keys
  BadTime,       \* an hour or minute that parses as a number and is no time
  Ours,          \* orders the windows may submit
  External,      \* orders somebody else places in the account
  OwnerOf,       \* the track of each order of ours
  Begins,        \* for each order, the default tracks whose id begins with its prefix
  TrackList,     \* DEFAULT_TRACKS in order
  Unattributed,  \* the track of an order that matches none
  OrdersLimit,   \* `limit` of get_orders
  Starts,        \* seconds at which the day may be started
  MaxClock,      \* bound: last second of the day
  MaxPasses,     \* bound: passes the operator starts
  MaxFaults,     \* bound: failed requests, lost answers, killed processes
  NoRow

Orders  == Ours \cup External
Seconds == 0..MaxClock
Tracks  == Range(TrackList)

Statuses == {"open", "filled"}
Rows     == [track : Tracks \cup {Unattributed}, status : Statuses]

ASSUME DayAssumption ==
  /\ MaxClock \in Nat /\ MaxPasses \in Nat /\ MaxFaults \in Nat /\ Starts \subseteq Seconds
  /\ \A d \in Days : /\ d.windows \in Seq(Seconds \cup {BadTime})
                     /\ d.once \in BOOLEAN /\ d.strict \in BOOLEAN
  /\ BadTime \notin Seconds /\ Unattributed \notin Tracks /\ NoRow \notin Seconds \cup Rows
  /\ Ours \cap External = {} /\ OwnerOf \in [Ours -> Tracks]
  /\ TrackList \in Seq(Tracks) /\ Begins \in [Orders -> SUBSET Tracks]
  /\ OrdersLimit \in Nat \ {0}

\* Ids of DEFAULT_TRACKS differ in the four characters an order id begins with.
ASSUME PrefixAssumption == \A o \in Ours : Begins[o] = {OwnerOf[o]}

VARIABLES
  clock,      \* the second of the day
  day,        \* the run-day process: [at, windows, once, strict, next]
  ran,        \* windows of the list that were begun
  skipped,    \* windows of the list that were skipped
  broker,     \* orders at the broker, oldest first
  filled,     \* those that are filled
  rows,       \* orders table
  fills,      \* fills table
  snapshots,  \* track_snapshots, by the second in their id
  pass,       \* the pass of the day and the pass of the operator
  passes,     \* how many the operator has started
  faults,     \* how many faults have happened
  truth       \* history: what the day's last committed pass was told

vars == <<clock, day, ran, skipped, broker, filled, rows, fills, snapshots, pass,
          passes, faults, truth>>
ledger == <<rows, fills, snapshots>>
account == <<broker, filled>>

Passers == {"day", "operator"}
Idle    == [step |-> "idle"]
InFlight(p) == pass[p] # Idle

\* The default tracks are tried in order; the first match is taken.
Attributed_Anything(o) ==
  IF Begins[o] = {} THEN Unattributed ELSE TrackList[1]
Attributed(o) ==
  IF Begins[o] = {} THEN Unattributed
  ELSE TrackList[CHOOSE i \in DOMAIN TrackList :
                   /\ TrackList[i] \in Begins[o]
                   /\ \A j \in 1..i - 1 : TrackList[j] \notin Begins[o]]

Init ==
  /\ clock \in Starts
  /\ \E d \in Days :
       day = [at |-> "pass", windows |-> d.windows, once |-> d.once, strict |-> d.strict,
              next |-> 1]
  /\ ran = {} /\ skipped = {}
  /\ broker = <<>> /\ filled = {}
  /\ rows = [o \in Orders |-> NoRow] /\ fills = {}
  /\ snapshots = [s \in Seconds |-> NoRow]
  /\ pass = [p \in Passers |-> Idle]
  /\ passes = 0 /\ faults = 0
  /\ truth = [report |-> <<>>, equity |-> NoRow, alone |-> TRUE]

Fault == faults < MaxFaults /\ faults' = faults + 1
\* Nothing is modelled after the day.
Open == day.at \notin {"ended", "died"}
Day(at) == day' = [day EXCEPT !.at = at]

-----------------------------------------------------------------------------
(* A reconciliation pass.  PassStarts spawns the MCP server and asks for   *)
(* the account.                                                            *)
PassStarts(p) ==
  /\ ~InFlight(p)
  /\ IF p = "day" THEN day.at = "pass" /\ UNCHANGED passes
                  ELSE /\ passes < MaxPasses /\ Open
                       /\ passes' = passes + 1
  /\ pass' = [pass EXCEPT ![p] = [step |-> "account", equity |-> clock]]
  /\ truth' = [truth EXCEPT !.alone = IF p = "day" THEN ~InFlight("operator")
                                      ELSE @ /\ ~InFlight("day")]
  /\ UNCHANGED <<clock, day, ran, skipped, account, ledger, faults>>

\* get_orders(status="all", limit): the newest orders with their status.
Newest == LET n == Len(broker) IN
          {broker[i] : i \in {k \in 1..n : k + OrdersLimit > n}}
StatusNow(o) == IF o \in filled THEN "filled" ELSE "open"

GetOrders(p) ==
  /\ pass[p].step = "account"
  /\ pass' = [pass EXCEPT ![p] = [step |-> "orders", equity |-> pass[p].equity,
                                  report |-> [o \in Newest |-> StatusNow(o)]]]
  /\ UNCHANGED <<clock, day, ran, skipped, account, ledger, passes, faults, truth>>

FillsOf(report) == {o \in DOMAIN report : report[o] = "filled"}

\* apply_reconciliation: looks up every row it will write, and takes the
\* time of its snapshots from the clock.
Apply(p) ==
  /\ pass[p].step = "orders"
  /\ pass' = [pass EXCEPT ![p] =
       [step |-> "staged", equity |-> pass[p].equity, report |-> pass[p].report,
        stamp |-> clock, rows |-> [o \in DOMAIN pass[p].report |-> rows[o]],
        fills |-> fills \cap FillsOf(pass[p].report),
        seen |-> snapshots[clock]]]
  /\ UNCHANGED <<clock, day, ran, skipped, account, ledger, passes, faults, truth>>

\* A row that was not found is inserted, which its unique key refuses when
\* somebody inserted it in the meantime.
Conflict(s) ==
  \/ \E o \in DOMAIN s.report : s.rows[o] = NoRow /\ rows[o] # NoRow
  \/ \E o \in FillsOf(s.report) : o \notin s.fills /\ o \in fills
  \/ s.seen = NoRow /\ snapshots[s.stamp] # NoRow

\* A new row of an order that matches no track has a key no track has, which
\* SQLite stores and PostgreSQL refuses.
Homeless(s) ==
  day.strict /\ \E o \in DOMAIN s.report : s.rows[o] = NoRow /\ Attributed(o) = Unattributed

\* A row that was found is updated in the columns whose value differs from
\* the one that was read.
Written_KeepsStatus(s, o) ==
  IF s.rows[o] = NoRow THEN [track |-> Attributed(o), status |-> s.report[o]] ELSE rows[o]
Written_WritesAll(s, o) == [track |-> Attributed(o), status |-> s.report[o]]
Written(s, o) ==
  LET new == [track |-> Attributed(o), status |-> s.report[o]]
      old == s.rows[o]
  IN  IF old = NoRow THEN new
      ELSE [c \in {"track", "status"} |-> IF new[c] = old[c] THEN rows[o][c] ELSE new[c]]

\* Every track gets the same totals; passes of one second share the row, of
\* which a pass writes an equity that differs from the one it has read.
Recorded_FirstOfSecond(s) ==
  [snapshots EXCEPT ![s.stamp] = IF s.seen = NoRow THEN s.equity ELSE @]
Recorded(s) == IF s.seen = s.equity THEN snapshots ELSE [snapshots EXCEPT ![s.stamp] = s.equity]

\* The pass raises: its transaction is rolled back.  The day's passes are
\* not guarded, so the exception ends the day.
Raises_Suppressed(p) ==
  /\ pass' = [pass EXCEPT ![p] = Idle]
  /\ IF p = "day" THEN Day("choose") ELSE UNCHANGED day
Raises(p) ==
  /\ pass' = [pass EXCEPT ![p] = Idle]
  /\ IF p = "day" THEN Day("died") ELSE UNCHANGED day

Commit(p) ==
  LET s == pass[p] IN
  /\ s.step = "staged"
  /\ IF Conflict(s) \/ Homeless(s)
     THEN Raises(p) /\ UNCHANGED <<ledger, truth>>
     ELSE /\ rows' = [o \in Orders |-> IF o \in DOMAIN s.report THEN Written(s, o) ELSE rows[o]]
          /\ fills' = fills \cup FillsOf(s.report)
          /\ snapshots' = Recorded(s)
          /\ pass' = [pass EXCEPT ![p] = Idle]
          /\ IF p = "day"
             THEN /\ Day("choose")
                  /\ truth' = [truth EXCEPT !.report = s.report, !.equity = s.equity]
             ELSE UNCHANGED <<day, truth>>
  /\ UNCHANGED <<clock, ran, skipped, account, passes, faults>>

\* The server cannot be spawned, a request fails, or the ledger does.
PassFails(p) ==
  /\ InFlight(p) /\ Open /\ Fault
  /\ Raises(p)
  /\ UNCHANGED <<clock, ran, skipped, account, ledger, passes, truth>>

-----------------------------------------------------------------------------
(* The windows.                                                            *)
Target == day.windows[day.next]
Passed_OrNow(t) == t <= clock
Passed(t) == t < clock

\* The loop looks at the next window of the list, or ends.  An hour of 25
\* raises only when it is reached; with --once the clock is not looked at.
Choose ==
  /\ day.at = "choose"
  /\ IF day.next > Len(day.windows) THEN Day("ended") /\ UNCHANGED skipped
     ELSE /\ ~day.once
          /\ IF Target = BadTime THEN Day("died") /\ UNCHANGED skipped
             ELSE IF Passed(Target) THEN /\ skipped' = skipped \cup {day.next}
                                         /\ day' = [day EXCEPT !.next = @ + 1]
             ELSE Day("sleeping") /\ UNCHANGED skipped
  /\ UNCHANGED <<clock, ran, account, ledger, pass, passes, faults, truth>>

\* asyncio.sleep returns, or the day was started with --once.
Due_Exactly == \/ day.at = "sleeping" /\ clock = Target
               \/ day.at = "choose" /\ day.once /\ day.next <= Len(day.windows)
Due == \/ day.at = "sleeping" /\ clock >= Target
       \/ day.at = "choose" /\ day.once /\ day.next <= Len(day.windows)

WindowBegins ==
  /\ Due
  /\ Day("window")
  /\ ran' = ran \cup {day.next}
  /\ UNCHANGED <<clock, skipped, account, ledger, pass, passes, faults, truth>>

\* The window's adapter gets an order in; its row is lost with the answer.
WindowSubmits(o) ==
  /\ day.at = "window" /\ o \notin Range(broker)
  /\ broker' = Append(broker, o)
  /\ \/ rows' = [rows EXCEPT ![o] = [track |-> OwnerOf[o], status |-> "open"]] /\ UNCHANGED faults
     \/ Fault /\ UNCHANGED rows
  /\ UNCHANGED <<clock, day, ran, skipped, filled, fills, snapshots, pass, passes, truth>>

\* run_window returns, and the next pass and the next window come up.
WindowEnds ==
  /\ day.at = "window"
  /\ day' = [day EXCEPT !.at = "pass", !.next = @ + 1]
  /\ UNCHANGED <<clock, ran, skipped, account, ledger, pass, passes, faults, truth>>

\* run_window raises (its run row cannot be stored), or the process dies.
DayDies ==
  /\ Open /\ ~InFlight("day") /\ Fault
  /\ Day("died")
  /\ UNCHANGED <<clock, ran, skipped, account, ledger, pass, passes, truth>>

-----------------------------------------------------------------------------
(* The world, as long as the day lasts.                                    *)
Tick ==
  /\ clock < MaxClock /\ Open
  /\ clock' = clock + 1
  /\ UNCHANGED <<day, ran, skipped, account, ledger, pass, passes, faults, truth>>

BrokerFill(o) ==
  /\ o \in Range(broker) \ filled /\ Open
  /\ filled' = filled \cup {o}
  /\ UNCHANGED <<clock, day, ran, skipped, broker, ledger, pass, passes, faults, truth>>

ExternalOrder(o) ==
  /\ o \in External \ Range(broker) /\ Open
  /\ broker' = Append(broker, o)
  /\ UNCHANGED <<clock, day, ran, skipped, filled, ledger, pass, passes, faults, truth>>

PassStep(p) == Open /\ (GetOrders(p) \/ Apply(p) \/ Commit(p))
DayStep == PassStarts("day") \/ Choose \/ WindowBegins \/ WindowEnds

Next ==
  \/ DayStep \/ PassStarts("operator") \/ DayDies \/ Tick
  \/ \E p \in Passers : PassStep(p) \/ PassFails(p)
  \/ \E o \in Ours : WindowSubmits(o)
  \/ \E o \in Orders : BrokerFill(o)
  \/ \E o \in External : ExternalOrder(o)

Spec == Init /\ [][Next]_vars

\* Time goes on; a window ends (see WindowRunner), and the loop goes on.  That
\* a pass gets its answers or an exception is assumed of the MCP server: the
\* client waits for them without a timeout (alpaca_mcp_client.py:179).
FairSpec == Spec /\ WF_vars(Tick) /\ WF_vars(DayStep) /\ WF_vars(PassStep("day"))

-----------------------------------------------------------------------------
\* Written values, of every table, and of both processes, are of their type.
TypeOK ==
  /\ clock \in Seconds
  /\ day.at \in {"pass", "choose", "sleeping", "window", "ended", "died"}
  /\ day.next \in 1..(Len(day.windows) + 1)
  /\ ran \subseteq DOMAIN day.windows /\ skipped \subseteq DOMAIN day.windows
  /\ Range(broker) \subseteq Orders /\ filled \subseteq Range(broker)
  /\ rows \in [Orders -> Rows \cup {NoRow}]
  /\ fills \subseteq filled
  /\ snapshots \in [Seconds -> Seconds \cup {NoRow}]
  /\ \A p \in Passers : InFlight(p) =>
       /\ pass[p].step \in {"account", "orders", "staged"} /\ pass[p].equity <= clock
       /\ pass[p].step = "orders" => Cardinality(DOMAIN pass[p].report) <= OrdersLimit

(***************************************************************************)
(* A day that has ended has dealt with every window of its list: it ran it *)
(* or skipped it because its time had passed; and a window is dealt with   *)
(* once, in the order of the list (run_day._drive).                        *)
(***************************************************************************)
WindowsAccounted ==
  /\ ran \cap skipped = {}
  /\ ran \cup skipped = 1..(day.next - (IF day.at = "window" THEN 0 ELSE 1))
     \/ day.at = "died"
  /\ day.at = "ended" => ran \cup skipped = DOMAIN day.windows
  /\ \A i \in skipped : ~day.once /\ day.windows[i] < clock
  /\ \A i \in ran : ~day.once => day.windows[i] <= clock

(***************************************************************************)
(* A window only begins on books that were brought up to date after the    *)
(* previous one: every order that earlier windows got in is in the ledger, *)
(* also one whose answer was lost, unless OrdersLimit newer orders hid it  *)
(* (_do_reconcile between two windows, unguarded).                         *)
(***************************************************************************)
BooksBeforeWindow ==
  [][WindowBegins => \A o \in Ours \cap Newest : rows[o] # NoRow]_vars

(***************************************************************************)
(* What the day's last pass was told is what the ledger says, or something *)
(* newer, as long as no pass of the operator overlapped it: the order has  *)
(* its row with a status no older, and its fill.                           *)
(***************************************************************************)
Settled == day.at \notin {"pass", "died"} /\ truth.alone
LedgerCurrent ==
  Settled => \A o \in DOMAIN truth.report :
    /\ rows[o] # NoRow /\ rows[o].track = Attributed(o)
    /\ truth.report[o] = "filled" => rows[o].status = "filled" /\ o \in fills

(***************************************************************************)
(* The equity the risk gate of the next window reads, which is that of the *)
(* snapshot with the newest time, is no older than the day's last pass,    *)
(* unless a pass of the operator overlapped it (the time of a snapshot is  *)
(* that of apply_reconciliation, not that of get_account).                 *)
(***************************************************************************)
Stamps == {s \in Seconds : snapshots[s] # NoRow}
LatestSnapshot == CHOOSE s \in Stamps : \A r \in Stamps : r <= s
GateSeesFreshEquity ==
  Settled => Stamps # {} /\ snapshots[LatestSnapshot] >= truth.equity

(***************************************************************************)
(* An order the ledger has filled is shown open again only where a pass of *)
(* the operator and the day's overlapped, and only by a pass that had      *)
(* asked the broker before the fill and looked at the row after the other  *)
(* one had written it; its fill stays.  A pass that has looked at the row  *)
(* before leaves the other's status alone, since its own is no change      *)
(* (the columns SQLAlchemy writes in apply_reconciliation).                *)
(***************************************************************************)
TakenBack(o) == /\ rows[o] # NoRow /\ rows[o].status = "filled"
                /\ rows'[o].status = "open"
TakenBackOnlyInOverlap ==
  [][\A o \in Orders : TakenBack(o) =>
       /\ ~truth.alone /\ o \in fills'
       /\ \E p \in Passers : /\ Commit(p) /\ o \in DOMAIN pass[p].report
                            /\ pass[p].report[o] = "open"
                            /\ pass[p].rows[o].status = "filled"]_vars

(***************************************************************************)
(* Passes recover the track of an order of ours from its id and never      *)
(* write another one over what the adapter stored.                         *)
(***************************************************************************)
AttributionKept == \A o \in Ours : rows[o] # NoRow => rows[o].track = OwnerOf[o]

(***************************************************************************)
(* Whatever overlapped before, once the last pass of the day is alone the  *)
(* books are those of the account: orders, fills and tracks, and the       *)
(* equity the next window is gated by.                                     *)
(***************************************************************************)
BooksCurrent == LedgerCurrent /\ GateSeesFreshEquity /\ AttributionKept

(***************************************************************************)
(* A window the loop sleeps for is run, however late the sleep returns,    *)
(* unless the day dies; and the day comes to an end.                       *)
(***************************************************************************)
SleptForIsRun ==
  \A i \in UNION {DOMAIN d.windows : d \in Days} :
    (day.at = "sleeping" /\ day.next = i) ~> (i \in ran \/ day.at = "died")
DayEnds == <>(day.at \in {"ended", "died"})

(***************************************************************************)
(* The loop never hangs on a window: it runs the one it slept for, and     *)
(* gets to the end of its list or dies.                                    *)
(***************************************************************************)
DayProceeds == SleptForIsRun /\ DayEnds

=============================================================================
