------------------------------ MODULE Execution ------------------------------
(***************************************************************************)
(* The execution layer: ExecutionAdapter.submit_action (execution/         *)
(* adapter.py), the control plane it reads (kill switch and track pauses), *)
(* the ledger it writes, the Alpaca paper broker, and the reconciliation   *)
(* pass (agents/reconciliation.py) that copies the broker back into the    *)
(* ledger.  Adapters run in processes of their own (a scheduled run-day    *)
(* and a manual run-window may overlap) and share only the database and    *)
(* the broker.                                                             *)
(*                                                                         *)
(* submit_action runs in one database transaction, but the database only   *)
(* promises READ COMMITTED: each group of reads and each effect outside    *)
(* the transaction is a step of its own, and a conflicting insert aborts.  *)
(***************************************************************************)
EXTENDS RiskGate

CONSTANTS
  Actions,      \* action items of the judges' plans (action_id)
  Item,         \* action -> its ActionItem, an item record of RiskGate
  Tracks,       \* track ids the actions name
  KnownTracks,  \* tracks with a row in strategy_tracks
  Policy,       \* track -> RiskPolicyParams, or NoPolicy
  NoPolicy,     \* the policy id of the track is not configured
  Labels,       \* window labels (open, midday, close...)
  Procs,        \* processes running an adapter
  External,     \* order ids placed at the broker by somebody else
  NoOrder,      \* absence of a row, of an order
  NoAction,     \* orders.action_id is NULL
  Strict,       \* TRUE: the database enforces widths and foreign keys
  StartEquity,  \* starting_equity_usd of every track
  Equities,     \* values account equity may take
  MaxAttempts,  \* bound: calls of submit_action
  MaxFaults,    \* bound: crashes, refusals and lost answers
  MaxDay        \* bound: trading days

\* The intent an action stands for, and the order id derived from it: a
\* digest of track, intent and window label.
Intent(a) == [symbol |-> Item[a].symbol, side |-> Item[a].side,
              notional |-> Item[a].amount]
Coid(a, l) == <<Item[a].track, Intent(a), l>>
Coids == {Coid(a, l) : a \in Actions, l \in Labels}
OrderIds == Coids \cup External

\* An order is open or filled: what the broker fills in part, cancels, rejects
\* or lets expire stays "new" here, and a fill is all of the order.
BrokerStates == {"none", "new", "filled"}
Statuses == {"new", "filled"}
Rows == [action : Actions \cup {NoAction}, status : Statuses, day : 0..MaxDay]

\* Values of decision_actions.risk_status; "none" is NULL.
Verdicts == {"none", "approved", "unknown_track", "kill", "paused", "audit",
             "missing_policy", "risk"}
Outcomes == {"none", "submitted", "duplicate", "rejected_floor",
             "rejected_risk", "exception"}

ASSUME ExecutionAssumption ==
  /\ \A a \in Actions : Item[a].track \in Tracks
  /\ KnownTracks \subseteq Tracks
  /\ Coids \cap External = {}
  /\ NoOrder \notin Rows
  /\ NoAction \notin Actions
  /\ Strict \in BOOLEAN
  /\ StartEquity \in Int /\ Equities \subseteq Int
  /\ MaxAttempts \in Nat /\ MaxFaults \in Nat /\ MaxDay \in Nat

VARIABLES
  kill, paused,     \* control plane: kill_switch_state, track_pause_state
  audit,            \* actions with a decision_actions row
  riskStatus,       \* decision_actions.risk_status
  orders, fills,    \* the ledger, by client order id
  equity,           \* track -> equity of its newest snapshot
  account,          \* equity of the broker account
  broker,           \* order id -> state of the order and the day it was placed
  day,              \* trading day
  pc, job, resp, seen, outcome,  \* per process, see TypeOK
  rpc, payload, view,            \* the reconciliation pass
  attempts, faults,              \* bounded counters
  late              \* history: process got an order in since the track's block

control == <<kill, paused, late>>
ledger  == <<audit, riskStatus, orders, fills, equity>>
market  == <<account, broker, day>>
adapter == <<pc, job, resp, seen, outcome>>
recon   == <<rpc, payload, view>>
bounds  == <<attempts, faults>>
vars    == <<control, ledger, market, adapter, recon, bounds>>

TrackOf(a) == Item[a].track
Blocked(t) == kill \/ t \in paused
Act(p)     == job[p].action
Id(p)      == Coid(job[p].action, job[p].label)
Jobs       == [action : Actions, label : Labels]
NoJob      == [action |-> NoAction, label |-> NoAction]
Unplaced   == [state |-> "none", day |-> 0]
Unseen     == [row |-> NoOrder, fill |-> FALSE]
Placed(o)  == broker[o].state # "none"
AtBroker   == {o \in OrderIds : Placed(o)}

NoPayload  == [orders |-> [o \in OrderIds |-> Unplaced], equity |-> StartEquity]
NoView     == [orders |-> [o \in OrderIds |-> NoOrder], fills |-> {}]

\* What a transaction writes to a row it has loaded: only the columns that
\* differ from what it loaded.
Merge(row, loaded, new) ==
  [f \in DOMAIN row |-> IF new[f] # loaded[f] THEN new[f] ELSE row[f]]

-----------------------------------------------------------------------------
(***************************************************************************)
(* The control plane, the market, and the persistence of plans.            *)
(***************************************************************************)
Init ==
  /\ kill = FALSE /\ paused = {} /\ late = {}
  /\ audit = {} /\ riskStatus = [a \in Actions |-> "none"]
  /\ orders = [o \in OrderIds |-> NoOrder] /\ fills = {}
  /\ equity = [t \in Tracks |-> StartEquity]
  /\ account \in Equities
  /\ broker = [o \in OrderIds |-> Unplaced] /\ day = 0
  /\ pc = [p \in Procs |-> "idle"]
  /\ job = [p \in Procs |-> NoJob] /\ resp = [p \in Procs |-> "none"]
  /\ seen = [p \in Procs |-> Unseen]
  /\ outcome = [p \in Procs |-> "none"]
  /\ rpc = "idle" /\ payload = NoPayload /\ view = NoView
  /\ attempts = 0 /\ faults = 0

EngageKill ==
  /\ kill' = TRUE
  /\ UNCHANGED <<paused, late, ledger, market, adapter, recon, bounds>>

\* Releasing a block forgets who got an order in while it stood.
ReleaseKill ==
  /\ kill' = FALSE
  /\ late' = {e \in late : e[2] \in paused}
  /\ UNCHANGED <<paused, ledger, market, adapter, recon, bounds>>

PauseTrack(t) ==
  /\ Strict => t \in KnownTracks
  /\ paused' = paused \cup {t}
  /\ UNCHANGED <<kill, late, ledger, market, adapter, recon, bounds>>

ResumeTrack(t) ==
  /\ Strict => t \in KnownTracks
  /\ paused' = paused \ {t}
  /\ late' = IF kill THEN late ELSE {e \in late : e[2] # t}
  /\ UNCHANGED <<kill, ledger, market, adapter, recon, bounds>>

NextDay ==
  /\ day < MaxDay
  /\ \A p \in Procs : pc[p] = "idle"     \* no window spans two days
  /\ day' = day + 1
  /\ UNCHANGED <<control, ledger, account, broker, adapter, recon, bounds>>

\* persist_track_run commits the actions of a judge's plan before any of them
\* is submitted; a later run of the same window keeps the rows.
PersistPlan(plan) ==
  /\ Strict => \A a \in plan : TrackOf(a) \in KnownTracks
  /\ audit' = audit \cup plan
  /\ UNCHANGED <<control, riskStatus, orders, fills, equity, market, adapter,
                 recon, bounds>>

AccountMoves ==
  /\ account' \in Equities
  /\ UNCHANGED <<control, ledger, broker, day, adapter, recon, bounds>>

BrokerFill(o) ==
  /\ broker[o].state = "new"
  /\ broker' = [broker EXCEPT ![o].state = "filled"]
  /\ UNCHANGED <<control, ledger, account, day, adapter, recon, bounds>>

ExternalOrder(o) ==
  /\ o \in External /\ ~Placed(o)
  /\ broker' = [broker EXCEPT ![o] = [state |-> "new", day |-> day]]
  /\ UNCHANGED <<control, ledger, account, day, adapter, recon, bounds>>

-----------------------------------------------------------------------------
(***************************************************************************)
(* submit_action.  One attempt of process p walks through                  *)
(*   floors -> gate -> submit -> answered -> commit -> idle                *)
(* and ends early with a rejection, a duplicate or an exception.           *)
(***************************************************************************)
Finish(p, result) ==
  /\ pc' = [pc EXCEPT ![p] = "idle"]
  /\ job' = [job EXCEPT ![p] = NoJob]
  /\ resp' = [resp EXCEPT ![p] = "none"]
  /\ seen' = [seen EXCEPT ![p] = Unseen]
  /\ outcome' = [outcome EXCEPT ![p] = result]

Advance(p, to) ==
  /\ pc' = [pc EXCEPT ![p] = to]
  /\ UNCHANGED <<job, outcome>>

\* risk_status is a String(32): the labels of these verdicts are no longer.
FitsColumn(verdict) == verdict \in {"approved", "kill"}

\* Store the verdict of action a and commit: a missing row is tolerated, a
\* label wider than its column aborts the transaction.
Reject(p, verdict, result) ==
  LET a == Act(p) IN
  IF Strict /\ a \in audit /\ ~FitsColumn(verdict)
  THEN /\ Finish(p, "exception")
       /\ UNCHANGED riskStatus
  ELSE /\ Finish(p, result)
       /\ riskStatus' = IF a \in audit THEN [riskStatus EXCEPT ![a] = verdict]
                        ELSE riskStatus

\* The intent is built first, from target_notional_usd alone: an item sized
\* in percent of equity has none and raises ValueError.
Begin(p, a, l) ==
  /\ pc[p] = "idle" /\ attempts < MaxAttempts
  /\ attempts' = attempts + 1
  /\ IF Item[a].sizing = "usd"
     THEN /\ pc' = [pc EXCEPT ![p] = "floors"]
          /\ job' = [job EXCEPT ![p] = [action |-> a, label |-> l]]
          /\ UNCHANGED <<resp, seen, outcome>>
     ELSE Finish(p, "exception")
  /\ UNCHANGED <<control, ledger, market, recon, faults>>

\* Mutants: a floor each is left out.
FloorVerdict_NoKill(a) ==
  IF TrackOf(a) \notin KnownTracks THEN "unknown_track"
  ELSE IF TrackOf(a) \in paused THEN "paused"
  ELSE IF a \notin audit THEN "audit"
  ELSE "none"
FloorVerdict_NoAudit(a) ==
  IF TrackOf(a) \notin KnownTracks THEN "unknown_track"
  ELSE IF kill THEN "kill"
  ELSE IF TrackOf(a) \in paused THEN "paused"
  ELSE "none"

FloorVerdict(a) ==
  IF TrackOf(a) \notin KnownTracks THEN "unknown_track"
  ELSE IF kill THEN "kill"
  ELSE IF TrackOf(a) \in paused THEN "paused"
  ELSE IF a \notin audit THEN "audit"
  ELSE "none"

\* The track row, the control plane and the audit row are read here, and
\* not again before the order goes out.
CheckFloors(p) ==
  /\ pc[p] = "floors"
  /\ LET v == FloorVerdict(Act(p)) IN
     IF v = "none"
     THEN Advance(p, "gate") /\ UNCHANGED <<riskStatus, resp, seen>>
     ELSE Reject(p, v, "rejected_floor")
  /\ UNCHANGED <<control, audit, orders, fills, equity, market, recon, bounds>>

\* Mutant: one cap read in the place of another.
GateCodes_WrongCap(a) ==
  LET policy == Policy[TrackOf(a)] IN
  Evaluate(Item[a], [equity |-> equity[TrackOf(a)], positions |-> NoPositions],
           [policy EXCEPT !.positionPct = policy.grossPct])

GateCodes(a) ==
  Evaluate(Item[a], [equity |-> equity[TrackOf(a)], positions |-> NoPositions],
           Policy[TrackOf(a)])

\* The policy, the gate (on the newest snapshot's equity and no positions)
\* and the idempotency lookup.
Gate(p) ==
  /\ pc[p] = "gate"
  /\ \/ /\ Policy[TrackOf(Act(p))] = NoPolicy
        /\ Reject(p, "missing_policy", "rejected_floor")
     \/ /\ Policy[TrackOf(Act(p))] # NoPolicy
        /\ GateCodes(Act(p)) # {}
        /\ Reject(p, "risk", "rejected_risk")
     \/ /\ Policy[TrackOf(Act(p))] # NoPolicy
        /\ GateCodes(Act(p)) = {}
        /\ orders[Id(p)] # NoOrder
        /\ Reject(p, "approved", "duplicate")
     \/ /\ Policy[TrackOf(Act(p))] # NoPolicy
        /\ GateCodes(Act(p)) = {}
        /\ orders[Id(p)] = NoOrder
        /\ Advance(p, "submit")
        /\ UNCHANGED <<riskStatus, resp, seen>>
  /\ UNCHANGED <<control, audit, orders, fills, equity, market, recon, bounds>>

\* The broker takes the order, which it may fill at once.
Accept(p, state) ==
  /\ pc[p] = "submit" /\ ~Placed(Id(p))
  /\ broker' = [broker EXCEPT ![Id(p)] = [state |-> state, day |-> day]]
  /\ late' = IF Blocked(TrackOf(Act(p)))
             THEN late \cup {<<p, TrackOf(Act(p))>>} ELSE late
  /\ UNCHANGED <<kill, paused, ledger, account, day, recon, attempts>>

BrokerAccepts(p) ==
  \E state \in Statuses :
    /\ Accept(p, state)
    /\ Advance(p, "answered")
    /\ resp' = [resp EXCEPT ![p] = state]
    /\ UNCHANGED <<seen, faults>>

\* ... but its answer never arrives: submit_order raises.
AnswerLost(p) ==
  /\ faults < MaxFaults /\ faults' = faults + 1
  /\ \E state \in Statuses : Accept(p, state)
  /\ Finish(p, "exception")

\* The broker already knows the client_order_id: submit_order raises.
BrokerRefuses(p) ==
  /\ pc[p] = "submit" /\ Placed(Id(p))
  /\ Finish(p, "exception")
  /\ UNCHANGED <<control, ledger, market, recon, bounds>>

\* upsert_order and record_fill look their rows up ...
Upsert(p) ==
  /\ pc[p] = "answered"
  /\ Advance(p, "commit")
  /\ seen' = [seen EXCEPT ![p] = [row |-> orders[Id(p)], fill |-> Id(p) \in fills]]
  /\ UNCHANGED <<resp, control, ledger, market, recon, bounds>>

\* Mutant: an accepted order is taken for a filled one.
NewRow_Filled(p) == [action |-> Act(p), status |-> "filled", day |-> broker[Id(p)].day]

NewRow(p) == [action |-> Act(p), status |-> resp[p], day |-> broker[Id(p)].day]

\* A row inserted by somebody else since the lookup.
Conflict(p) ==
  \/ seen[p].row = NoOrder /\ orders[Id(p)] # NoOrder
  \/ resp[p] = "filled" /\ ~seen[p].fill /\ Id(p) \in fills

\* Mutant: the verdict is stored and the order is not.
Commit_WithoutRow(p) ==
  /\ pc[p] = "commit"
  /\ Reject(p, "approved", "submitted")
  /\ UNCHANGED <<control, audit, orders, fills, equity, market, recon, bounds>>

\* ... and write them, with the verdict, in one transaction.
Commit(p) ==
  /\ pc[p] = "commit"
  /\ IF Conflict(p)
     THEN Finish(p, "exception") /\ UNCHANGED <<orders, fills, riskStatus>>
     ELSE /\ orders' = [orders EXCEPT ![Id(p)] =
                          IF @ = NoOrder THEN NewRow(p)
                          ELSE Merge(@, seen[p].row, NewRow(p))]
          /\ fills' = IF resp[p] = "filled" THEN fills \cup {Id(p)} ELSE fills
          /\ Reject(p, "approved", "submitted")
  /\ UNCHANGED <<control, audit, equity, market, recon, bounds>>

\* Any other exception, or a crash of the process: the transaction rolls
\* back, what the broker did stays.
Fail(p) ==
  /\ pc[p] # "idle" /\ faults < MaxFaults
  /\ faults' = faults + 1
  /\ Finish(p, "exception")
  /\ UNCHANGED <<control, ledger, market, recon, attempts>>

-----------------------------------------------------------------------------
(***************************************************************************)
(* The reconciliation pass: fetch account and orders from the broker, look *)
(* the rows up, write everything in one transaction.                       *)
(***************************************************************************)
Fetch ==
  /\ rpc = "idle"
  /\ rpc' = "fetched"
  /\ payload' = [orders |-> broker, equity |-> account]
  /\ UNCHANGED <<control, ledger, market, adapter, view, bounds>>

Stage ==
  /\ rpc = "fetched"
  /\ rpc' = "staged"
  /\ view' = [orders |-> orders, fills |-> fills]
  /\ UNCHANGED <<control, ledger, market, adapter, payload, bounds>>

Reported == {o \in OrderIds : payload.orders[o].state # "none"}

\* Mutant: a fill is recorded only when a row turns from new to filled.
ReportedFills_OnTransition ==
  {o \in OrderIds : /\ payload.orders[o].state = "filled"
                    /\ view.orders[o] # NoOrder /\ view.orders[o].status = "new"}

ReportedFills == {o \in OrderIds : payload.orders[o].state = "filled"}

\* An id that names no track is attributed to "unattributed", which has no
\* row in strategy_tracks; an order or a fill appeared since the lookup.
PassAborts ==
  \/ Strict /\ Reported \cap External # {}
  \/ \E o \in Reported : view.orders[o] = NoOrder /\ orders[o] # NoOrder
  \/ \E o \in ReportedFills \ view.fills : o \in fills

\* Mutants: rows dropped that nobody reported; only known orders; no new
\* status; the day of the pass.
Reconciled_Mirror(o) ==
  IF o \notin Reported THEN NoOrder
  ELSE [action |-> NoAction, status |-> payload.orders[o].state,
        day |-> payload.orders[o].day]
Reconciled_OnlyKnown(o) ==
  IF o \notin Reported \/ orders[o] = NoOrder THEN orders[o]
  ELSE Merge(orders[o], view.orders[o],
             [view.orders[o] EXCEPT !.status = payload.orders[o].state])
Reconciled_KeepsStatus(o) ==
  IF o \notin Reported \/ orders[o] # NoOrder THEN orders[o]
  ELSE [action |-> NoAction, status |-> payload.orders[o].state,
        day |-> payload.orders[o].day]
Reconciled_Today(o) ==
  IF o \notin Reported THEN orders[o]
  ELSE IF orders[o] = NoOrder
       THEN [action |-> NoAction, status |-> payload.orders[o].state, day |-> day]
       ELSE Merge(orders[o], view.orders[o],
                  [view.orders[o] EXCEPT !.status = payload.orders[o].state])

Reconciled(o) ==
  IF o \notin Reported THEN orders[o]
  ELSE IF orders[o] = NoOrder
       THEN [action |-> NoAction, status |-> payload.orders[o].state,
             day |-> payload.orders[o].day]
       ELSE Merge(orders[o], view.orders[o],
                  [view.orders[o] EXCEPT !.status = payload.orders[o].state])

\* Every track gets a snapshot with the equity of the whole account.
Snapshots == [t \in Tracks |-> IF t \in KnownTracks THEN payload.equity ELSE equity[t]]

EndPass ==
  /\ rpc' = "idle"
  /\ payload' = NoPayload
  /\ view' = NoView

CommitPass ==
  /\ rpc = "staged"
  /\ IF PassAborts
     THEN UNCHANGED <<orders, fills, equity>>
     ELSE /\ orders' = [o \in OrderIds |-> Reconciled(o)]
          /\ fills' = fills \cup ReportedFills
          /\ equity' = Snapshots
  /\ EndPass
  /\ UNCHANGED <<control, audit, riskStatus, market, adapter, bounds>>

\* The broker cannot be reached, or the process dies.
PassFails ==
  /\ rpc # "idle" /\ faults < MaxFaults
  /\ faults' = faults + 1
  /\ EndPass
  /\ UNCHANGED <<control, ledger, market, adapter, attempts>>

-----------------------------------------------------------------------------
Operator == EngageKill \/ ReleaseKill \/ \E t \in Tracks : PauseTrack(t) \/ ResumeTrack(t)

World == \/ NextDay \/ AccountMoves
         \/ \E plan \in SUBSET Actions : PersistPlan(plan)
         \/ \E o \in OrderIds : BrokerFill(o) \/ ExternalOrder(o)

Adapter(p) == \/ \E a \in Actions, l \in Labels : Begin(p, a, l)
              \/ CheckFloors(p) \/ Gate(p)
              \/ BrokerAccepts(p) \/ AnswerLost(p) \/ BrokerRefuses(p)
              \/ Upsert(p) \/ Commit(p) \/ Fail(p)

Pass == Fetch \/ Stage \/ CommitPass \/ PassFails

Next == Operator \/ World \/ Pass \/ \E p \in Procs : Adapter(p)

Spec == Init /\ [][Next]_vars

\* run-day reconciles before the first and after every window, and the
\* operator may at any time: passes keep being made.  That one finishes is
\* assumed of the broker: a call over stdio has no timeout.
FairSpec == Spec /\ WF_vars(Fetch) /\ WF_vars(Stage) /\ WF_vars(CommitPass)

-----------------------------------------------------------------------------
BrokerOrders == [state : BrokerStates, day : 0..MaxDay]
MaybeRow == Rows \cup {NoOrder}

ControlType == kill \in BOOLEAN /\ paused \subseteq Tracks /\ late \subseteq Procs \X Tracks
LedgerType ==
  /\ audit \subseteq Actions /\ riskStatus \in [Actions -> Verdicts]
  /\ orders \in [OrderIds -> MaybeRow] /\ fills \subseteq OrderIds
  /\ equity \in [Tracks -> Equities \cup {StartEquity}]
MarketType ==
  account \in Equities /\ day \in 0..MaxDay /\ broker \in [OrderIds -> BrokerOrders]
AdapterType ==
  /\ pc \in [Procs -> {"idle", "floors", "gate", "submit", "answered", "commit"}]
  /\ job \in [Procs -> Jobs \cup {NoJob}]
  /\ resp \in [Procs -> Statuses \cup {"none"}]
  /\ seen \in [Procs -> [row : MaybeRow, fill : BOOLEAN]]
  /\ outcome \in [Procs -> Outcomes]
ReconType ==
  /\ rpc \in {"idle", "fetched", "staged"}
  /\ payload \in [orders : [OrderIds -> BrokerOrders], equity : Equities \cup {StartEquity}]
  /\ view \in [orders : [OrderIds -> MaybeRow], fills : SUBSET OrderIds]
BoundsType == attempts \in 0..MaxAttempts /\ faults \in 0..MaxFaults

TypeOK == /\ ControlType /\ LedgerType /\ MarketType
          /\ AdapterType /\ ReconType /\ BoundsType

(***************************************************************************)
(* The ledger never claims more than the broker did: a row is backed by an *)
(* order placed on the day the row says, a row that says filled and a fill *)
(* row are backed by a fill, and a fill row has its order row.  The rows   *)
(* have two writers, each working from an answer that may be stale.        *)
(***************************************************************************)
LedgerBacked ==
  /\ \A o \in OrderIds :
       orders[o] # NoOrder =>
         /\ Placed(o) /\ orders[o].day = broker[o].day
         /\ orders[o].status = "filled" => broker[o].state = "filled"
  /\ \A o \in fills : orders[o] # NoOrder /\ broker[o].state = "filled"

(***************************************************************************)
(* Audit completeness (floor 9 of the specification): an order of ours is  *)
(* at the broker only if the ledger holds an action that intends it,       *)
(* whatever crashes, lost answers and concurrent windows do.               *)
(***************************************************************************)
AuditBeforeOrder ==
  \A c \in Coids : Placed(c) => \E a \in audit, l \in Labels : Coid(a, l) = c

(***************************************************************************)
(* A stored "approved" verdict means that an order for that very intent is *)
(* in the ledger: the verdict commits together with the order row, and the *)
(* duplicate path only follows a row that exists.                          *)
(***************************************************************************)
ApprovedHasOrder ==
  \A a \in Actions : riskStatus[a] = "approved" =>
    \E l \in Labels : orders[Coid(a, l)] # NoOrder

(***************************************************************************)
(* An order row names the action it was placed for, or none when only the  *)
(* reconciliation pass saw it: never another action's intent.              *)
(***************************************************************************)
Provenance ==
  \A o \in OrderIds :
    orders[o] # NoOrder /\ orders[o].action # NoAction =>
      /\ orders[o].action \in audit
      /\ \E l \in Labels : Coid(orders[o].action, l) = o

(***************************************************************************)
(* Every order of ours at the broker passed its track's policy for some    *)
(* equity the account has had (the gate's answer may be stale by the time  *)
(* the order goes out), for a track that has a row and a policy.           *)
(***************************************************************************)
OrdersWithinPolicy ==
  \A c \in Coids : Placed(c) =>
    \E a \in audit, l \in Labels, e \in Equities \cup {StartEquity} :
      /\ Coid(a, l) = c /\ Item[a].sizing = "usd"
      /\ TrackOf(a) \in KnownTracks /\ Policy[TrackOf(a)] # NoPolicy
      /\ Evaluate(Item[a], [equity |-> e, positions |-> NoPositions],
                  Policy[TrackOf(a)]) = {}

\* p's own submission reaches the broker in this step.
GetsIn(p) == /\ pc[p] = "submit" /\ pc'[p] # "submit"
             /\ ~Placed(Id(p)) /\ broker'[Id(p)].state # "none"

(***************************************************************************)
(* A kill or a pause takes effect after at most one more order of each     *)
(* process: the floors are read once per action, so only the attempt in    *)
(* flight can slip through.                                                *)
(***************************************************************************)
AtMostOneLateOrder ==
  [][\A p \in Procs : GetsIn(p) => <<p, TrackOf(Act(p))>> \notin late]_vars

\* Execution implements OrderLifecycle.
Booked == {o \in OrderIds : orders[o] # NoOrder}
FilledAtBroker == {o \in OrderIds : broker[o].state = "filled"}
OL == INSTANCE OrderLifecycle WITH Orders <- OrderIds, placed <- AtBroker,
        filled <- FilledAtBroker, booked <- Booked, settled <- fills

(***************************************************************************)
(* The ledger lags the broker but never contradicts it: every step of the  *)
(* adapter and of the reconciler is a step of the abstract life of an      *)
(* order, rows and fills only ever being added.                            *)
(***************************************************************************)
Lifecycle == OL!Spec

(***************************************************************************)
(* Passes repair what adapters lose: every order and every fill reaches    *)
(* the ledger although an answer was lost, a process died before its       *)
(* commit or a pass aborted.                                               *)
(***************************************************************************)
OrdersBooked == OL!EveryPlacedOrderBooked
FillsSettled == OL!EveryFillSettled

(***************************************************************************)
(* A late upsert may put a stale status back over a newer one; passes make *)
(* it right for good.                                                      *)
(***************************************************************************)
StatusConverges ==
  \A o \in OrderIds :
    broker[o].state = "filled" ~> [](orders[o] # NoOrder /\ orders[o].status = "filled")

-----------------------------------------------------------------------------
(***************************************************************************)
(* The inductive invariant behind the safety properties (see               *)
(* ExecutionProofs).                                                       *)
(***************************************************************************)

\* What an attempt knows at each of its steps: who it acts for, that the
\* floors were clear, and that the broker holds what it answered.
AttemptSound ==
  \A p \in Procs :
    /\ pc[p] # "idle" => job[p] \in Jobs
    /\ pc[p] \in {"gate", "submit", "answered", "commit"} => Act(p) \in audit
    /\ pc[p] \in {"answered", "commit"} =>
         /\ resp[p] \in Statuses /\ Placed(Id(p))
         /\ resp[p] = "filled" => broker[Id(p)].state = "filled"

\* The broker only moves on from what a pass fetched.
PayloadBacked ==
  \A o \in OrderIds :
    payload.orders[o].state # "none" =>
      /\ Placed(o) /\ broker[o].day = payload.orders[o].day
      /\ payload.orders[o].state = "filled" => broker[o].state = "filled"

\* A process that got an order in has no second attempt past the floors.
LateSound ==
  \A p \in Procs, t \in Tracks :
    <<p, t>> \in late =>
      /\ Blocked(t)
      /\ ~(pc[p] \in {"gate", "submit"} /\ TrackOf(Act(p)) = t)

(***************************************************************************)
(* The state of the whole layer is consistent at every step: attempts in   *)
(* flight, the fetched payload, the ledger and the broker agree.           *)
(***************************************************************************)
IInv == /\ TypeOK /\ AttemptSound /\ PayloadBacked /\ LateSound
        /\ LedgerBacked /\ AuditBeforeOrder /\ ApprovedHasOrder /\ Provenance

-----------------------------------------------------------------------------
(***************************************************************************)
(* What documents of the repository say and the code does not keep.        *)
(***************************************************************************)

\* window_runner.py: a kill or pause that lands between persistence and
\* submission still blocks the order.
BlockStopsOrders ==
  [][\A p \in Procs : GetsIn(p) => ~Blocked(TrackOf(Act(p)))]_vars

\* client_order_id.py: the same intent on a later window is not coalesced
\* with the original.
LaterWindowNotCoalesced ==
  [][\A p \in Procs :
       pc[p] = "gate" /\ outcome'[p] = "duplicate" /\ pc'[p] = "idle"
         => orders[Id(p)].day = day]_vars

\* risk/__init__.py: |long| + |short| stays within max_gross_exposure.
\* Fills at the broker are positions; nothing here ever sells.
HeldBy(t) == {c \in Coids : c[1] = t /\ broker[c].state = "filled"}
GrossCapHolds ==
  \A t \in KnownTracks :
    LET total == MapThenSumSet(LAMBDA c : c[2].notional, HeldBy(t))
    IN  total > 0 => ~Over(total, Policy[t].grossPct, StartEquity)

\* PROJECT_SPEC.md 3.9: every risk gate verdict is logged.
RiskVerdictLogged ==
  [][\A p \in Procs :
       pc[p] = "gate" /\ Policy[TrackOf(Act(p))] # NoPolicy /\ GateCodes(Act(p)) # {}
         /\ pc'[p] = "idle" /\ faults' = faults
         => riskStatus'[Act(p)] = "risk"]_vars

=============================================================================
