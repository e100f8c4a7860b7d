--------------------------- MODULE ExecutionProofs ---------------------------
(***************************************************************************)
(* Proofs about Execution, for every set of actions, tracks, labels and    *)
(* processes and every bound, and about WindowRunner, for every list of    *)
(* pairs, every plan and any number of invocations that overlap, fail and  *)
(* die.                                                                    *)
(*                                                                         *)
(* Part 1, Execution: the argument is one inductive invariant, IInv; it is *)
(* proved part by part, each part in a lemma with one step for each action *)
(* that can disturb it.                                                    *)
(*                                                                         *)
(* Part 2, windows: the runner is shown to use the adapter as Execution    *)
(* allows, so that what part 1 proves holds of windows; and an order is    *)
(* traced back to the decision of a window, a report to its order row.     *)
(***************************************************************************)
EXTENDS WindowRunner, DataLemmas

-----------------------------------------------------------------------------
(***************************************************************************)
(* Part 1.  Execution.                                                     *)
(***************************************************************************)
\* Order ids of ours are order ids.
LEMMA CoidTyped ==
  ASSUME NEW a \in Actions, NEW l \in Labels
  PROVE  Coid(a, l) \in Coids /\ Coid(a, l) \in OrderIds
BY DEF Coids, OrderIds

\* The floors answer with a verdict.
LEMMA FloorVerdictTyped ==
  ASSUME NEW a \in Actions
  PROVE  FloorVerdict(a) \in Verdicts
BY DEF FloorVerdict, Verdicts

\* A new value of one column of a row is a row.
LEMMA MergeTyped ==
  ASSUME NEW r \in Rows, NEW s \in Rows, NEW n \in Rows
  PROVE  /\ Merge(r, s, n) \in Rows
         /\ Merge(r, s, n).day \in {r.day, n.day}
         /\ n.day = s.day => Merge(r, s, n).day = r.day
         /\ Merge(r, s, n).status \in {r.status, n.status}
         /\ Merge(r, s, n).action \in {r.action, n.action}
BY DEF Merge, Rows

\* The invariant holds before anything has happened.
THEOREM InitInv == Init => IInv
<1> SUFFICES ASSUME Init PROVE IInv
  OBVIOUS
<1>1. TypeOK
  <2>0. ControlType
    BY DEF Init, ControlType
  <2>1. BoundsType
    BY ExecutionAssumption DEF Init, BoundsType
  <2>2. LedgerType
    BY DEF Init, LedgerType, MaybeRow, Verdicts
  <2>3. Unplaced \in BrokerOrders
    BY ExecutionAssumption DEF Unplaced, BrokerOrders, BrokerStates
  <2>4. MarketType
    BY <2>3, ExecutionAssumption DEF Init, MarketType
  <2>5. AdapterType
    BY DEF Init, AdapterType, MaybeRow, Outcomes, Unseen
  <2>6. ReconType
    BY <2>3 DEF Init, ReconType, NoPayload, NoView, MaybeRow
  <2> QED
    BY <2>0, <2>1, <2>2, <2>4, <2>5, <2>6 DEF TypeOK
<1>2. AttemptSound /\ PayloadBacked /\ LateSound
  BY DEF Init, AttemptSound, PayloadBacked, LateSound, NoPayload, Unplaced
<1>3. LedgerBacked /\ ApprovedHasOrder /\ Provenance
  BY DEF Init, LedgerBacked, ApprovedHasOrder, Provenance
<1>4. AuditBeforeOrder
  BY DEF Init, AuditBeforeOrder, Placed, Unplaced, OrderIds
<1> QED
  BY <1>1, <1>2, <1>3, <1>4 DEF IInv

-----------------------------------------------------------------------------
(***************************************************************************)
(* Footprints: which actions touch which variables.                        *)
(***************************************************************************)
\* Every step is one of the actions.
LEMMA StepCases ==
  ASSUME [Next]_vars
  PROVE  \/ EngageKill \/ ReleaseKill
         \/ \E t \in Tracks : PauseTrack(t) \/ ResumeTrack(t)
         \/ NextDay \/ AccountMoves
         \/ \E plan \in SUBSET Actions : PersistPlan(plan)
         \/ \E o \in OrderIds : BrokerFill(o) \/ ExternalOrder(o)
         \/ \E p \in Procs, a \in Actions, l \in Labels : Begin(p, a, l)
         \/ \E p \in Procs : CheckFloors(p)
         \/ \E p \in Procs : Gate(p)
         \/ \E p \in Procs : BrokerAccepts(p)
         \/ \E p \in Procs : AnswerLost(p)
         \/ \E p \in Procs : BrokerRefuses(p)
         \/ \E p \in Procs : Upsert(p)
         \/ \E p \in Procs : Commit(p)
         \/ \E p \in Procs : Fail(p)
         \/ Fetch \/ Stage \/ CommitPass \/ PassFails
         \/ UNCHANGED vars
BY DEF Next, Operator, World, Pass, Adapter

\* Only the two commits write order and fill rows.
LEMMA LedgerFootprint ==
  ASSUME [Next]_vars
  PROVE  \/ UNCHANGED <<orders, fills>>
         \/ \E p \in Procs : Commit(p)
         \/ CommitPass
BY StepCases DEF EngageKill, ReleaseKill, PauseTrack, ResumeTrack, NextDay,
  AccountMoves, PersistPlan, BrokerFill, ExternalOrder, Begin, CheckFloors,
  Gate, BrokerAccepts, AnswerLost, Accept, BrokerRefuses, Upsert, Fail, Fetch,
  Stage, PassFails, vars, ledger

\* The broker changes by a fill, an order of somebody else, or a submission.
LEMMA BrokerFootprint ==
  ASSUME [Next]_vars
  PROVE  \/ UNCHANGED broker
         \/ \E o \in OrderIds : BrokerFill(o)
         \/ \E o \in OrderIds : ExternalOrder(o)
         \/ \E p \in Procs : BrokerAccepts(p)
         \/ \E p \in Procs : AnswerLost(p)
BY StepCases DEF EngageKill, ReleaseKill, PauseTrack, ResumeTrack, NextDay,
  AccountMoves, PersistPlan, Begin, CheckFloors, Gate, BrokerRefuses,
  Upsert, Commit, Fail, Fetch, Stage, CommitPass, PassFails, vars, market

\* Verdicts are stored where an attempt ends.
LEMMA StatusFootprint ==
  ASSUME [Next]_vars
  PROVE  \/ UNCHANGED riskStatus
         \/ \E p \in Procs : CheckFloors(p)
         \/ \E p \in Procs : Gate(p)
         \/ \E p \in Procs : Commit(p)
BY StepCases DEF EngageKill, ReleaseKill, PauseTrack, ResumeTrack, NextDay,
  AccountMoves, PersistPlan, BrokerFill, ExternalOrder, Begin,
  BrokerAccepts, AnswerLost, Accept, BrokerRefuses, Upsert, Fail, Fetch,
  Stage, CommitPass, PassFails, vars, ledger

\* The audit ledger only grows.
LEMMA AuditFootprint ==
  ASSUME [Next]_vars
  PROVE  UNCHANGED audit \/ \E plan \in SUBSET Actions : PersistPlan(plan)
BY StepCases DEF EngageKill, ReleaseKill, PauseTrack, ResumeTrack, NextDay,
  AccountMoves, BrokerFill, ExternalOrder, Begin, CheckFloors, Gate,
  BrokerAccepts, AnswerLost, Accept, BrokerRefuses, Upsert, Commit, Fail,
  Fetch, Stage, CommitPass, PassFails, vars, ledger

\* Switches change by the operator, late orders also by a submission.
LEMMA ControlFootprint ==
  ASSUME [Next]_vars
  PROVE  \/ UNCHANGED control
         \/ EngageKill \/ ReleaseKill
         \/ \E t \in Tracks : PauseTrack(t) \/ ResumeTrack(t)
         \/ \E p \in Procs : BrokerAccepts(p)
         \/ \E p \in Procs : AnswerLost(p)
BY StepCases DEF NextDay, AccountMoves, PersistPlan, BrokerFill,
  ExternalOrder, Begin, CheckFloors, Gate, BrokerRefuses, Upsert, Commit,
  Fail, Fetch, Stage, CommitPass, PassFails, vars

\* The state of an attempt changes only by a step of some process.
LEMMA AdapterFootprint ==
  ASSUME [Next]_vars
  PROVE  \/ UNCHANGED adapter
         \/ \E p \in Procs, a \in Actions, l \in Labels : Begin(p, a, l)
         \/ \E p \in Procs : \/ CheckFloors(p) \/ Gate(p) \/ BrokerAccepts(p)
                             \/ AnswerLost(p) \/ BrokerRefuses(p) \/ Upsert(p)
                             \/ Commit(p) \/ Fail(p)
BY StepCases DEF EngageKill, ReleaseKill, PauseTrack, ResumeTrack, NextDay,
  AccountMoves, PersistPlan, BrokerFill, ExternalOrder, Fetch, Stage,
  CommitPass, PassFails, vars

\* The state of a pass changes only by a step of the pass.
LEMMA ReconFootprint ==
  ASSUME [Next]_vars
  PROVE  UNCHANGED recon \/ Fetch \/ Stage \/ CommitPass \/ PassFails
BY StepCases DEF EngageKill, ReleaseKill, PauseTrack, ResumeTrack, NextDay,
  AccountMoves, PersistPlan, BrokerFill, ExternalOrder, Begin,
  CheckFloors, Gate, BrokerAccepts, AnswerLost, Accept, BrokerRefuses, Upsert,
  Commit, Fail, vars

-----------------------------------------------------------------------------
(***************************************************************************)
(* Types.                                                                  *)
(***************************************************************************)
\* A process past its start has an action, a label and an order id.
LEMMA AttemptTyped ==
  ASSUME AttemptSound, NEW p \in Procs, pc[p] # "idle"
  PROVE  /\ job[p] \in Jobs /\ Act(p) \in Actions
         /\ Id(p) \in Coids /\ Id(p) \in OrderIds
<1>1. job[p] \in Jobs
  BY DEF AttemptSound
<1>2. job[p].action \in Actions /\ job[p].label \in Labels
  BY <1>1 DEF Jobs
<1> QED
  BY <1>1, <1>2, CoidTyped DEF Act, Id

\* The control plane keeps its type.
LEMMA ControlTypeStep ==
  ASSUME TypeOK, AttemptSound, [Next]_vars
  PROVE  ControlType'
<1> USE DEF TypeOK, ControlType
<1>1. CASE UNCHANGED control
  BY <1>1 DEF control
<1>2. CASE EngageKill
  BY <1>2 DEF EngageKill
<1>3. CASE ReleaseKill
  BY <1>3 DEF ReleaseKill
<1>4. ASSUME NEW t \in Tracks, PauseTrack(t) \/ ResumeTrack(t)
      PROVE  ControlType'
  BY <1>4 DEF PauseTrack, ResumeTrack
<1>5. ASSUME NEW p \in Procs, BrokerAccepts(p) \/ AnswerLost(p)
      PROVE  ControlType'
  <2>1. PICK state \in Statuses : Accept(p, state)
    BY <1>5 DEF BrokerAccepts, AnswerLost
  <2>2. pc[p] # "idle"
    BY <2>1 DEF Accept
  <2>3. TrackOf(Act(p)) \in Tracks
    BY <2>2, AttemptTyped, ExecutionAssumption DEF TrackOf
  <2> QED
    BY <2>1, <2>3 DEF Accept
<1> QED
  BY <1>1, <1>2, <1>3, <1>4, <1>5, ControlFootprint

\* The broker's book of orders keeps its type, and nothing in it is undone.
LEMMA BrokerStep ==
  ASSUME TypeOK, AttemptSound, [Next]_vars
  PROVE  /\ broker' \in [OrderIds -> BrokerOrders]
         /\ \A o \in OrderIds : Placed(o) =>
              /\ Placed(o)' /\ broker'[o].day = broker[o].day
              /\ broker[o].state = "filled" => broker'[o].state = "filled"
<1> USE DEF TypeOK, MarketType, BrokerOrders, BrokerStates, Statuses, Placed
<1>1. CASE UNCHANGED broker
  BY <1>1
<1>2. ASSUME NEW o \in OrderIds, BrokerFill(o) \/ ExternalOrder(o)
      PROVE  /\ broker' \in [OrderIds -> BrokerOrders]
             /\ \A q \in OrderIds : Placed(q) =>
                  /\ Placed(q)' /\ broker'[q].day = broker[q].day
                  /\ broker[q].state = "filled" => broker'[q].state = "filled"
  BY <1>2 DEF BrokerFill, ExternalOrder
<1>3. ASSUME NEW p \in Procs, BrokerAccepts(p) \/ AnswerLost(p)
      PROVE  /\ broker' \in [OrderIds -> BrokerOrders]
             /\ \A q \in OrderIds : Placed(q) =>
                  /\ Placed(q)' /\ broker'[q].day = broker[q].day
                  /\ broker[q].state = "filled" => broker'[q].state = "filled"
  <2>1. PICK state \in Statuses : Accept(p, state)
    BY <1>3 DEF BrokerAccepts, AnswerLost
  <2>2. Id(p) \in OrderIds
    BY <2>1, AttemptTyped DEF Accept
  <2> QED
    BY <2>1, <2>2 DEF Accept
<1> QED
  BY <1>1, <1>2, <1>3, BrokerFootprint

\* The market keeps its type.
LEMMA MarketTypeStep ==
  ASSUME TypeOK, AttemptSound, [Next]_vars
  PROVE  MarketType'
<1>1. UNCHANGED account \/ AccountMoves
  BY StepCases DEF EngageKill, ReleaseKill, PauseTrack,
    ResumeTrack, NextDay, PersistPlan, BrokerFill,
    ExternalOrder, Begin, CheckFloors, Gate, BrokerAccepts, AnswerLost, Accept,
    BrokerRefuses, Upsert, Commit, Fail, Fetch, Stage, CommitPass, PassFails,
    vars, market
<1>2. day' = day \/ (day < MaxDay /\ day' = day + 1)
  BY StepCases DEF EngageKill, ReleaseKill, PauseTrack,
    ResumeTrack, NextDay, AccountMoves, PersistPlan, BrokerFill,
    ExternalOrder, Begin, CheckFloors, Gate, BrokerAccepts, AnswerLost, Accept,
    BrokerRefuses, Upsert, Commit, Fail, Fetch, Stage, CommitPass, PassFails,
    vars, market
<1>3. account' \in Equities
  BY <1>1 DEF AccountMoves, TypeOK, MarketType
<1>4. day' \in 0..MaxDay
  BY <1>2, ExecutionAssumption DEF TypeOK, MarketType
<1> QED
  BY <1>3, <1>4, BrokerStep DEF MarketType

\* The counters stay within their bounds.
LEMMA BoundsTypeStep ==
  ASSUME TypeOK, [Next]_vars
  PROVE  BoundsType'
<1>1. attempts' = attempts \/ (attempts < MaxAttempts /\ attempts' = attempts + 1)
  BY StepCases DEF EngageKill, ReleaseKill, PauseTrack,
    ResumeTrack, NextDay, AccountMoves, PersistPlan, BrokerFill,
    ExternalOrder, Begin, CheckFloors, Gate, BrokerAccepts, AnswerLost, Accept,
    BrokerRefuses, Upsert, Commit, Fail, Fetch, Stage, CommitPass, PassFails,
    vars, bounds
<1>2. faults' = faults \/ (faults < MaxFaults /\ faults' = faults + 1)
  BY StepCases DEF EngageKill, ReleaseKill, PauseTrack,
    ResumeTrack, NextDay, AccountMoves, PersistPlan, BrokerFill,
    ExternalOrder, Begin, CheckFloors, Gate, BrokerAccepts, AnswerLost, Accept,
    BrokerRefuses, Upsert, Commit, Fail, Fetch, Stage, CommitPass, PassFails,
    vars, bounds
<1> QED
  BY <1>1, <1>2, ExecutionAssumption DEF TypeOK, BoundsType

\* The end of an attempt leaves the adapter well typed.
LEMMA FinishTyped ==
  ASSUME AdapterType, NEW p \in Procs, NEW r \in Outcomes, Finish(p, r)
  PROVE  AdapterType'
BY DEF AdapterType, Finish, MaybeRow, Unseen

\* So does the end of an attempt with a verdict.
LEMMA RejectTyped ==
  ASSUME AdapterType, riskStatus \in [Actions -> Verdicts], NEW p \in Procs,
         NEW v \in Verdicts, NEW r \in Outcomes, Reject(p, v, r)
  PROVE  AdapterType' /\ riskStatus' \in [Actions -> Verdicts]
<1>1. Finish(p, "exception") \/ Finish(p, r)
  BY DEF Reject
<1>2. AdapterType'
  BY <1>1, FinishTyped DEF Outcomes
<1>3. riskStatus' \in [Actions -> Verdicts]
  BY DEF Reject
<1> QED
  BY <1>2, <1>3

\* The state of the attempts keeps its type.
LEMMA AdapterTypeStep ==
  ASSUME TypeOK, AttemptSound, [Next]_vars
  PROVE  AdapterType'
<1>0. AdapterType /\ riskStatus \in [Actions -> Verdicts]
  BY DEF TypeOK, LedgerType
<1>1. CASE UNCHANGED adapter
  BY <1>0, <1>1 DEF adapter, AdapterType
<1>2. ASSUME NEW p \in Procs, NEW a \in Actions, NEW l \in Labels, Begin(p, a, l)
      PROVE  AdapterType'
  <2>1. CASE Finish(p, "exception")
    BY <1>0, <2>1, FinishTyped DEF Outcomes
  <2>2. CASE /\ pc' = [pc EXCEPT ![p] = "floors"]
             /\ job' = [job EXCEPT ![p] = [action |-> a, label |-> l]]
             /\ UNCHANGED <<resp, seen, outcome>>
    BY <1>0, <2>2 DEF AdapterType, Jobs
  <2> QED
    BY <1>2, <2>1, <2>2 DEF Begin
<1>3. ASSUME NEW p \in Procs, CheckFloors(p)
      PROVE  AdapterType'
  <2>1. FloorVerdict(Act(p)) \in Verdicts
    BY <1>3, AttemptTyped, FloorVerdictTyped DEF CheckFloors
  <2>2. CASE Reject(p, FloorVerdict(Act(p)), "rejected_floor")
    BY <1>0, <2>1, <2>2, RejectTyped DEF Outcomes
  <2>3. CASE Advance(p, "gate") /\ UNCHANGED <<riskStatus, resp, seen>>
    BY <1>0, <2>3 DEF Advance, AdapterType
  <2> QED
    BY <1>3, <2>2, <2>3 DEF CheckFloors
<1>4. ASSUME NEW p \in Procs, Gate(p)
      PROVE  AdapterType'
  <2>1. CASE \/ Reject(p, "missing_policy", "rejected_floor")
             \/ Reject(p, "risk", "rejected_risk")
             \/ Reject(p, "approved", "duplicate")
    BY <1>0, <2>1, RejectTyped DEF Verdicts, Outcomes
  <2>2. CASE Advance(p, "submit") /\ UNCHANGED <<riskStatus, resp, seen>>
    BY <1>0, <2>2 DEF Advance, AdapterType
  <2> QED
    BY <1>4, <2>1, <2>2 DEF Gate
<1>5. ASSUME NEW p \in Procs, BrokerAccepts(p)
      PROVE  AdapterType'
  BY <1>0, <1>5 DEF BrokerAccepts, Advance, AdapterType
<1>6. ASSUME NEW p \in Procs, AnswerLost(p) \/ BrokerRefuses(p) \/ Fail(p)
      PROVE  AdapterType'
  <2>1. Finish(p, "exception")
    BY <1>6 DEF AnswerLost, BrokerRefuses, Fail
  <2> QED
    BY <1>0, <2>1, FinishTyped DEF Outcomes
<1>7. ASSUME NEW p \in Procs, Upsert(p)
      PROVE  AdapterType'
  <2>1. Id(p) \in OrderIds
    BY <1>7, AttemptTyped DEF Upsert
  <2>2. [row |-> orders[Id(p)], fill |-> Id(p) \in fills] \in [row : MaybeRow, fill : BOOLEAN]
    BY <2>1 DEF TypeOK, LedgerType
  <2> QED
    BY <1>0, <1>7, <2>2 DEF Upsert, Advance, AdapterType
<1>8. ASSUME NEW p \in Procs, Commit(p)
      PROVE  AdapterType'
  <2>1. Finish(p, "exception") \/ Reject(p, "approved", "submitted")
    BY <1>8 DEF Commit
  <2> QED
    BY <1>0, <2>1, FinishTyped, RejectTyped DEF Verdicts, Outcomes
<1> QED
  BY <1>1, <1>2, <1>3, <1>4, <1>5, <1>6, <1>7, <1>8, AdapterFootprint

\* The row an attempt writes: a new one, or the row it looked up with the
\* columns it changes.
LEMMA CommitRow ==
  ASSUME TypeOK, AttemptSound, NEW p \in Procs, Commit(p), ~Conflict(p)
  PROVE  /\ Id(p) \in OrderIds
         /\ NewRow(p) \in Rows /\ orders'[Id(p)] \in Rows
         /\ orders' = [orders EXCEPT ![Id(p)] = orders'[Id(p)]]
         /\ \/ orders[Id(p)] = NoOrder /\ orders'[Id(p)] = NewRow(p)
            \/ /\ orders[Id(p)] \in Rows /\ seen[p].row \in Rows
               /\ orders'[Id(p)] = Merge(orders[Id(p)], seen[p].row, NewRow(p))
<1>1. Id(p) \in OrderIds /\ Act(p) \in Actions
  BY AttemptTyped DEF Commit
<1>2. NewRow(p) \in Rows
  BY <1>1 DEF NewRow, Rows, Commit, AttemptSound, TypeOK, MarketType, BrokerOrders
<1>3. orders[Id(p)] \in MaybeRow /\ seen[p].row \in MaybeRow
  BY <1>1 DEF TypeOK, LedgerType, AdapterType
<1>4. orders' = [orders EXCEPT ![Id(p)] =
                   IF orders[Id(p)] = NoOrder THEN NewRow(p)
                   ELSE Merge(orders[Id(p)], seen[p].row, NewRow(p))]
  BY DEF Commit
<1>5. CASE orders[Id(p)] = NoOrder
  BY <1>1, <1>2, <1>4, <1>5 DEF TypeOK, LedgerType
<1>6. CASE orders[Id(p)] # NoOrder
  <2>1. orders[Id(p)] \in Rows /\ seen[p].row \in Rows
    BY <1>3, <1>6 DEF Conflict, MaybeRow
  <2>2. Merge(orders[Id(p)], seen[p].row, NewRow(p)) \in Rows
    BY <1>2, <2>1, MergeTyped
  <2> QED
    BY <1>1, <1>2, <1>4, <1>6, <2>1, <2>2 DEF TypeOK, LedgerType
<1> QED
  BY <1>5, <1>6

\* The row a pass writes for an order it was told of.
LEMMA PassRow ==
  ASSUME TypeOK, ~PassAborts, NEW o \in Reported
  PROVE  /\ o \in OrderIds /\ payload.orders[o].state \in Statuses
         /\ \/ /\ orders[o] = NoOrder
               /\ Reconciled(o) = [action |-> NoAction, status |-> payload.orders[o].state,
                                   day |-> payload.orders[o].day]
               /\ Reconciled(o) \in Rows
            \/ /\ orders[o] \in Rows /\ view.orders[o] \in Rows
               /\ [view.orders[o] EXCEPT !.status = payload.orders[o].state] \in Rows
               /\ Reconciled(o) = Merge(orders[o], view.orders[o],
                     [view.orders[o] EXCEPT !.status = payload.orders[o].state])
               /\ Reconciled(o) \in Rows
<1>1. o \in OrderIds /\ payload.orders[o] \in BrokerOrders
  BY DEF Reported, TypeOK, ReconType
<1>2. payload.orders[o].state \in Statuses /\ payload.orders[o].day \in 0..MaxDay
  BY <1>1 DEF Reported, BrokerOrders, BrokerStates, Statuses
<1>3. orders[o] \in MaybeRow /\ view.orders[o] \in MaybeRow
  BY <1>1 DEF TypeOK, LedgerType, ReconType
<1>4. CASE orders[o] = NoOrder
  BY <1>1, <1>2, <1>4 DEF Reconciled, Rows
<1>5. CASE orders[o] # NoOrder
  <2>1. orders[o] \in Rows /\ view.orders[o] \in Rows
    BY <1>3, <1>5 DEF PassAborts, MaybeRow
  <2>2. [view.orders[o] EXCEPT !.status = payload.orders[o].state] \in Rows
    BY <1>2, <2>1 DEF Rows
  <2> QED
    BY <1>1, <1>2, <1>5, <2>1, <2>2, MergeTyped DEF Reconciled
<1> QED
  BY <1>4, <1>5

\* The ledger keeps its type.
LEMMA LedgerTypeStep ==
  ASSUME TypeOK, AttemptSound, [Next]_vars
  PROVE  LedgerType'
<1> USE DEF TypeOK, LedgerType
<1>1. audit' \subseteq Actions
  BY AuditFootprint DEF PersistPlan
<1>2. riskStatus' \in [Actions -> Verdicts]
  <2>1. ASSUME NEW p \in Procs, CheckFloors(p) PROVE riskStatus' \in [Actions -> Verdicts]
    <3>1. FloorVerdict(Act(p)) \in Verdicts
      BY <2>1, AttemptTyped, FloorVerdictTyped DEF CheckFloors
    <3> QED
      BY <2>1, <3>1, RejectTyped DEF CheckFloors, Outcomes
  <2>2. ASSUME NEW p \in Procs, Gate(p) PROVE riskStatus' \in [Actions -> Verdicts]
    BY <2>2, RejectTyped DEF Gate, Outcomes, Verdicts
  <2>3. ASSUME NEW p \in Procs, Commit(p) PROVE riskStatus' \in [Actions -> Verdicts]
    BY <2>3, RejectTyped DEF Commit, Outcomes, Verdicts
  <2> QED
    BY <2>1, <2>2, <2>3, StatusFootprint
<1>3. orders' \in [OrderIds -> MaybeRow] /\ fills' \subseteq OrderIds
  <2>1. ASSUME NEW p \in Procs, Commit(p)
        PROVE  orders' \in [OrderIds -> MaybeRow] /\ fills' \subseteq OrderIds
    <3>1. CASE Conflict(p)
      BY <2>1, <3>1 DEF Commit
    <3>2. CASE ~Conflict(p)
      BY <2>1, <3>2, CommitRow DEF Commit, MaybeRow
    <3> QED
      BY <3>1, <3>2
  <2>2. ASSUME CommitPass
        PROVE  orders' \in [OrderIds -> MaybeRow] /\ fills' \subseteq OrderIds
    <3>1. CASE PassAborts
      BY <2>2, <3>1 DEF CommitPass
    <3>2. CASE ~PassAborts
      <4>1. \A o \in OrderIds : Reconciled(o) \in MaybeRow
        <5>1. \A o \in Reported : Reconciled(o) \in MaybeRow
          BY <3>2, PassRow DEF MaybeRow
        <5> QED
          BY <5>1 DEF Reconciled
      <4> QED
        BY <2>2, <3>2, <4>1 DEF CommitPass, ReportedFills
    <3> QED
      BY <3>1, <3>2
  <2> QED
    BY <2>1, <2>2, LedgerFootprint
<1>4. equity' \in [Tracks -> Equities \cup {StartEquity}]
  <2>1. UNCHANGED equity \/ CommitPass
    BY StepCases DEF EngageKill, ReleaseKill, PauseTrack, ResumeTrack, NextDay,
      AccountMoves, PersistPlan, BrokerFill, ExternalOrder, Begin,
      CheckFloors, Gate, BrokerAccepts, AnswerLost, Accept, BrokerRefuses,
      Upsert, Commit, Fail, Fetch, Stage, PassFails, vars, ledger
  <2> QED
    BY <2>1 DEF Snapshots, CommitPass, ReconType
<1> QED
  BY <1>1, <1>2, <1>3, <1>4

\* The state of the pass keeps its type.
LEMMA ReconTypeStep ==
  ASSUME TypeOK, [Next]_vars
  PROVE  ReconType'
<1> USE DEF TypeOK, ReconType
<1>1. CASE UNCHANGED recon
  BY <1>1 DEF recon
<1>2. CASE Fetch
  BY <1>2 DEF Fetch, MarketType
<1>3. CASE Stage
  BY <1>3 DEF Stage, LedgerType
<1>4. CASE CommitPass \/ PassFails
  <2>1. EndPass
    BY <1>4 DEF CommitPass, PassFails
  <2>2. Unplaced \in BrokerOrders
    BY ExecutionAssumption DEF Unplaced, BrokerOrders, BrokerStates
  <2> QED
    BY <2>1, <2>2 DEF EndPass, NoPayload, NoView, MaybeRow
<1> QED
  BY <1>1, <1>2, <1>3, <1>4, ReconFootprint

\* Types are kept by every step.
LEMMA TypeStep ==
  ASSUME TypeOK, AttemptSound, [Next]_vars
  PROVE  TypeOK'
BY ControlTypeStep, LedgerTypeStep, MarketTypeStep, AdapterTypeStep,
  ReconTypeStep, BoundsTypeStep DEF TypeOK

-----------------------------------------------------------------------------
(***************************************************************************)
(* Attempts, payloads and late orders.                                     *)
(***************************************************************************)
\* What an attempt may do to its own process, and nobody else's.
LEMMA OthersStay ==
  ASSUME TypeOK, [Next]_vars, NEW p \in Procs
  PROVE  \/ pc'[p] = pc[p] /\ job'[p] = job[p] /\ resp'[p] = resp[p]
         \/ pc'[p] = "idle"
         \/ \E a \in Actions, l \in Labels : Begin(p, a, l)
         \/ CheckFloors(p) \/ Gate(p) \/ BrokerAccepts(p) \/ Upsert(p)
<1> USE DEF TypeOK, AdapterType, Finish, Advance
<1>1. CASE UNCHANGED adapter
  BY <1>1 DEF adapter
<1>2. ASSUME NEW q \in Procs, NEW a \in Actions, NEW l \in Labels, Begin(q, a, l)
      PROVE  \/ pc'[p] = pc[p] /\ job'[p] = job[p] /\ resp'[p] = resp[p]
             \/ \E b \in Actions, m \in Labels : Begin(p, b, m)
  BY <1>2 DEF Begin
<1>3. ASSUME NEW q \in Procs, CheckFloors(q) \/ Gate(q) \/ BrokerAccepts(q) \/ Upsert(q)
      PROVE  \/ pc'[p] = pc[p] /\ job'[p] = job[p] /\ resp'[p] = resp[p]
             \/ CheckFloors(p) \/ Gate(p) \/ BrokerAccepts(p) \/ Upsert(p)
  BY <1>3 DEF CheckFloors, Gate, BrokerAccepts, Upsert, Reject
<1>4. ASSUME NEW q \in Procs, \E r \in Outcomes : Finish(q, r)
      PROVE  \/ pc'[p] = pc[p] /\ job'[p] = job[p] /\ resp'[p] = resp[p]
             \/ pc'[p] = "idle"
  BY <1>4
<1>5. ASSUME NEW q \in Procs, AnswerLost(q) \/ BrokerRefuses(q) \/ Commit(q) \/ Fail(q)
      PROVE  \E r \in Outcomes : Finish(q, r)
  BY <1>5 DEF AnswerLost, BrokerRefuses, Commit, Fail, Reject, Outcomes
<1> QED
  BY <1>1, <1>2, <1>3, <1>4, <1>5, AdapterFootprint

\* No audited action is forgotten.
LEMMA AuditGrows ==
  ASSUME [Next]_vars
  PROVE  audit \subseteq audit'
BY AuditFootprint DEF PersistPlan

\* AttemptSound, for one process.
SoundFor(p) ==
  /\ pc[p] # "idle" => job[p] \in Jobs
  /\ pc[p] \in {"gate", "submit", "answered", "commit"} => Act(p) \in audit
  /\ pc[p] \in {"answered", "commit"} =>
       /\ resp[p] \in Statuses /\ Placed(Id(p))
       /\ resp[p] = "filled" => broker[Id(p)].state = "filled"

\* What an attempt knows stays true whatever the others do.
LEMMA AttemptSoundStep ==
  ASSUME TypeOK, AttemptSound, [Next]_vars
  PROVE  AttemptSound'
<1> SUFFICES ASSUME NEW p \in Procs PROVE SoundFor(p)'
  BY DEF AttemptSound, SoundFor
<1>0. SoundFor(p)
  BY DEF AttemptSound, SoundFor
<1>1. CASE pc'[p] = pc[p] /\ job'[p] = job[p] /\ resp'[p] = resp[p]
  <2>1. Act(p)' = Act(p) /\ Id(p)' = Id(p)
    BY <1>1 DEF Act, Id, Coid, Intent
  <2>2. pc[p] # "idle" => Id(p) \in OrderIds
    BY AttemptTyped
  <2> QED
    BY <1>0, <1>1, <2>1, <2>2, AuditGrows, BrokerStep DEF SoundFor, Placed
<1>2. CASE pc'[p] = "idle"
  BY <1>2 DEF SoundFor
<1>3. ASSUME NEW a \in Actions, NEW l \in Labels, Begin(p, a, l) PROVE SoundFor(p)'
  BY <1>3 DEF Begin, Finish, SoundFor, TypeOK, AdapterType, Jobs
<1>4. CASE CheckFloors(p)
  <2>1. CASE Advance(p, "gate") /\ FloorVerdict(Act(p)) = "none"
    <3>1. Act(p) \in audit /\ audit' = audit
      BY <1>4, <2>1 DEF CheckFloors, FloorVerdict
    <3>2. pc'[p] = "gate" /\ job'[p] = job[p]
      BY <2>1 DEF Advance, TypeOK, AdapterType
    <3>3. job[p] \in Jobs
      BY <1>4, AttemptTyped DEF CheckFloors
    <3> QED
      BY <3>1, <3>2, <3>3 DEF SoundFor, Act
  <2>2. CASE \E v \in Verdicts : Reject(p, v, "rejected_floor")
    BY <2>2 DEF Reject, Finish, SoundFor, TypeOK, AdapterType
  <2>3. FloorVerdict(Act(p)) \in Verdicts
    BY <1>4, AttemptTyped, FloorVerdictTyped DEF CheckFloors
  <2> QED
    BY <1>4, <2>1, <2>2, <2>3 DEF CheckFloors
<1>5. CASE Gate(p)
  <2>1. pc'[p] = "idle" \/ (pc'[p] = "submit" /\ job'[p] = job[p])
    BY <1>5 DEF Gate, Reject, Finish, Advance, TypeOK, AdapterType
  <2>2. pc[p] = "gate" /\ audit' = audit
    BY <1>5 DEF Gate
  <2> QED
    BY <1>0, <2>1, <2>2 DEF SoundFor, Act
<1>6. CASE BrokerAccepts(p)
  <2>1. PICK state \in Statuses : Accept(p, state) /\ resp' = [resp EXCEPT ![p] = state]
    BY <1>6 DEF BrokerAccepts
  <2>2. pc[p] = "submit" /\ Id(p) \in OrderIds /\ audit' = audit
    BY <2>1, AttemptTyped DEF Accept, ledger
  <2>3. pc'[p] = "answered" /\ job'[p] = job[p] /\ resp'[p] = state
    BY <1>6, <2>1 DEF BrokerAccepts, Advance, TypeOK, AdapterType
  <2>4. broker'[Id(p)].state = state
    BY <2>1, <2>2 DEF Accept, TypeOK, MarketType
  <2>5. Act(p)' = Act(p) /\ Id(p)' = Id(p)
    BY <2>3 DEF Act, Id, Coid, Intent
  <2> QED
    BY <1>0, <2>2, <2>3, <2>4, <2>5 DEF SoundFor, Placed, Statuses
<1>7. CASE Upsert(p)
  <2>1. pc[p] = "answered" /\ pc'[p] = "commit" /\ job'[p] = job[p] /\ resp'[p] = resp[p]
    BY <1>7 DEF Upsert, Advance, TypeOK, AdapterType
  <2>2. UNCHANGED <<audit, broker>>
    BY <1>7 DEF Upsert, ledger, market
  <2>3. Act(p)' = Act(p) /\ Id(p)' = Id(p)
    BY <2>1 DEF Act, Id, Coid, Intent
  <2> QED
    BY <1>0, <2>1, <2>2, <2>3 DEF SoundFor, Placed
<1> QED
  BY <1>1, <1>2, <1>3, <1>4, <1>5, <1>6, <1>7, OthersStay

\* What a pass fetched stays backed by the broker.
LEMMA PayloadBackedStep ==
  ASSUME TypeOK, AttemptSound, PayloadBacked, [Next]_vars
  PROVE  PayloadBacked'
<1>1. CASE UNCHANGED payload
  BY <1>1, BrokerStep DEF PayloadBacked
<1>2. CASE Fetch
  BY <1>2 DEF Fetch, PayloadBacked, Placed, market
<1>3. CASE EndPass
  BY <1>3 DEF EndPass, NoPayload, Unplaced, PayloadBacked
<1> QED
  BY <1>1, <1>2, <1>3, ReconFootprint DEF recon, Stage, CommitPass, PassFails

\* p is past the floors with an action of track t.
PastFloors(p, t) == pc[p] \in {"gate", "submit"} /\ TrackOf(Act(p)) = t

\* A process with a late order stays away from the gate for that track.
LEMMA LateSoundStep ==
  ASSUME TypeOK, AttemptSound, LateSound, [Next]_vars
  PROVE  LateSound'
<1> SUFFICES ASSUME NEW p \in Procs, NEW t \in Tracks, <<p, t>> \in late'
             PROVE  Blocked(t)' /\ ~PastFloors(p, t)'
  BY DEF LateSound, PastFloors
<1>1. CASE <<p, t>> \in late
  <2>0. Blocked(t) /\ ~PastFloors(p, t)
    BY <1>1 DEF LateSound, PastFloors
  <2>1. Blocked(t)'
    <3>1. CASE UNCHANGED <<kill, paused>>
      BY <2>0, <3>1 DEF Blocked
    <3>2. CASE EngageKill
      BY <3>2 DEF EngageKill, Blocked
    <3>3. CASE ReleaseKill
      BY <3>3 DEF ReleaseKill, Blocked
    <3>4. ASSUME NEW u \in Tracks, PauseTrack(u) \/ ResumeTrack(u) PROVE Blocked(t)'
      BY <2>0, <3>4 DEF PauseTrack, ResumeTrack, Blocked
    <3> QED
      BY <3>1, <3>2, <3>3, <3>4, ControlFootprint
         DEF control, BrokerAccepts, AnswerLost, Accept
  <2>2. ~PastFloors(p, t)'
    <3>1. CASE pc'[p] = pc[p] /\ job'[p] = job[p]
      BY <2>0, <3>1 DEF PastFloors, Act
    <3>2. CASE pc'[p] \notin {"gate", "submit"}
      BY <3>2 DEF PastFloors
    <3>3. CASE CheckFloors(p)
      <4>1. CASE Advance(p, "gate") /\ FloorVerdict(Act(p)) = "none"
        <5>1. ~Blocked(TrackOf(Act(p)))
          BY <4>1 DEF FloorVerdict, Blocked
        <5>2. job'[p] = job[p]
          BY <4>1 DEF Advance
        <5> QED
          BY <2>0, <5>1, <5>2 DEF PastFloors, Act
      <4>2. CASE Finish(p, "exception") \/ Finish(p, "rejected_floor")
        BY <4>2 DEF Finish, PastFloors, TypeOK, AdapterType
      <4> QED
        BY <3>3, <4>1, <4>2 DEF CheckFloors, Reject
    <3>4. CASE Gate(p)
      <4>1. pc[p] = "gate" /\ (pc'[p] = "idle" \/ job'[p] = job[p])
        BY <3>4 DEF Gate, Reject, Finish, Advance, TypeOK, AdapterType
      <4> QED
        BY <2>0, <4>1 DEF PastFloors, Act
    <3>5. CASE \E a \in Actions, l \in Labels : Begin(p, a, l)
      BY <3>5 DEF Begin, Finish, PastFloors, TypeOK, AdapterType
    <3>6. CASE BrokerAccepts(p) \/ Upsert(p)
      BY <3>6 DEF BrokerAccepts, Upsert, Advance, PastFloors, TypeOK, AdapterType
    <3> QED
      BY <3>1, <3>2, <3>3, <3>4, <3>5, <3>6, OthersStay
  <2> QED
    BY <2>1, <2>2
<1>2. CASE <<p, t>> \notin late
  <2>1. PICK q \in Procs : BrokerAccepts(q) \/ AnswerLost(q)
    BY <1>2, ControlFootprint DEF control, EngageKill, ReleaseKill, PauseTrack, ResumeTrack
  <2>2. PICK state \in Statuses : Accept(q, state)
    BY <2>1 DEF BrokerAccepts, AnswerLost
  <2>3. q = p /\ Blocked(t)
    BY <1>2, <2>2 DEF Accept
  <2>4. Blocked(t)'
    BY <2>2, <2>3 DEF Accept, Blocked
  <2>5. pc'[p] \in {"answered", "idle"}
    BY <2>1, <2>3 DEF BrokerAccepts, AnswerLost, Advance, Finish, TypeOK, AdapterType
  <2> QED
    BY <2>4, <2>5 DEF PastFloors
<1> QED
  BY <1>1, <1>2

-----------------------------------------------------------------------------
(***************************************************************************)
(* The ledger.                                                             *)
(***************************************************************************)
\* A row is backed by what the broker holds.
Backed(row, o) == /\ Placed(o) /\ row.day = broker[o].day
                  /\ row.status = "filled" => broker[o].state = "filled"

\* Both commits write only what the broker did.
LEMMA LedgerBackedStep ==
  ASSUME TypeOK, AttemptSound, PayloadBacked, LedgerBacked, [Next]_vars
  PROVE  LedgerBacked'
<1>1. ASSUME NEW o \in OrderIds, orders[o] # NoOrder
      PROVE  /\ Placed(o)' /\ orders[o].day = broker'[o].day
             /\ orders[o].status = "filled" => broker'[o].state = "filled"
  BY <1>1, BrokerStep DEF LedgerBacked
<1>2. \A o \in OrderIds : orders[o] # NoOrder => Backed(orders[o], o)
  BY DEF LedgerBacked, Backed
<1>3. \A o \in OrderIds : broker[o].state = "filled" => broker'[o].state = "filled"
  BY BrokerStep DEF Placed
<1>4. CASE UNCHANGED <<orders, fills>>
  <2>1. \A o \in OrderIds : orders'[o] # NoOrder =>
          /\ Placed(o)' /\ orders'[o].day = broker'[o].day
          /\ orders'[o].status = "filled" => broker'[o].state = "filled"
    BY <1>1, <1>4
  <2>2. \A o \in fills' : orders'[o] # NoOrder /\ broker'[o].state = "filled"
    BY <1>3, <1>4 DEF LedgerBacked, TypeOK, LedgerType
  <2> QED
    BY <2>1, <2>2 DEF LedgerBacked
<1>5. ASSUME NEW p \in Procs, Commit(p), ~Conflict(p) PROVE LedgerBacked'
  <2>1. Id(p) \in OrderIds /\ UNCHANGED broker /\ NewRow(p) \in Rows
    BY <1>5, CommitRow DEF Commit, market
  <2>2. Backed(NewRow(p), Id(p)) /\ (resp[p] = "filled" => broker[Id(p)].state = "filled")
    BY <1>5 DEF Commit, AttemptSound, NewRow, Backed
  <2>3. orders'[Id(p)] \in Rows /\ Backed(orders'[Id(p)], Id(p))
    <3>1. CASE orders'[Id(p)] = NewRow(p)
      BY <2>1, <2>2, <3>1
    <3>2. CASE /\ orders[Id(p)] \in Rows /\ seen[p].row \in Rows
               /\ orders'[Id(p)] = Merge(orders[Id(p)], seen[p].row, NewRow(p))
      <4>1. Backed(orders[Id(p)], Id(p))
        BY <1>2, <2>1, <3>2, ExecutionAssumption
      <4> QED
        BY <2>1, <2>2, <3>2, <4>1, MergeTyped DEF Backed
    <3> QED
      BY <1>5, <3>1, <3>2, CommitRow
  <2>4. \A o \in OrderIds : o # Id(p) => orders'[o] = orders[o]
    <3>1. orders' = [orders EXCEPT ![Id(p)] = orders'[Id(p)]]
      BY <1>5, CommitRow
    <3>2. orders \in [OrderIds -> MaybeRow]
      BY DEF TypeOK, LedgerType
    <3> QED
      BY <3>1, <3>2
  <2>5. \A o \in OrderIds : orders'[o] # NoOrder => Backed(orders'[o], o)
    BY <1>2, <2>3, <2>4
  <2>6. \A o \in fills' : orders'[o] # NoOrder /\ broker[o].state = "filled"
    BY <1>5, <2>2, <2>3, <2>4, ExecutionAssumption
       DEF Commit, LedgerBacked, TypeOK, LedgerType
  <2> QED
    BY <2>1, <2>5, <2>6 DEF LedgerBacked, Backed, Placed
<1>6. ASSUME CommitPass, ~PassAborts PROVE LedgerBacked'
  <2>1. UNCHANGED broker
    BY <1>6 DEF CommitPass, market
  <2>2. orders' = [o \in OrderIds |-> Reconciled(o)] /\ fills' = fills \cup ReportedFills
    BY <1>6 DEF CommitPass
  <2>3. ASSUME NEW o \in Reported PROVE Reconciled(o) \in Rows /\ Backed(Reconciled(o), o)
    <3>0. /\ o \in OrderIds /\ Placed(o) /\ broker[o].day = payload.orders[o].day
          /\ payload.orders[o].state = "filled" => broker[o].state = "filled"
      BY DEF PayloadBacked, Reported
    <3>3. Reconciled(o) \in Rows
      BY <1>6, PassRow
    <3>1. CASE Reconciled(o) = [action |-> NoAction, status |-> payload.orders[o].state,
                                day |-> payload.orders[o].day]
      <4>1. /\ Reconciled(o).status = payload.orders[o].state
            /\ Reconciled(o).day = payload.orders[o].day
        BY <3>1
      <4> QED
        BY <3>0, <3>3, <4>1 DEF Backed
    <3>2. CASE /\ orders[o] \in Rows /\ view.orders[o] \in Rows
               /\ [view.orders[o] EXCEPT !.status = payload.orders[o].state] \in Rows
               /\ Reconciled(o) = Merge(orders[o], view.orders[o],
                     [view.orders[o] EXCEPT !.status = payload.orders[o].state])
      <4>1. Backed(orders[o], o)
        BY <1>2, <3>0, <3>2, ExecutionAssumption
      <4> DEFINE new == [view.orders[o] EXCEPT !.status = payload.orders[o].state]
      <4>2. new.day = view.orders[o].day /\ new.status = payload.orders[o].state
        BY <3>2 DEF Rows
      <4>3. new \in Rows /\ Reconciled(o) = Merge(orders[o], view.orders[o], new)
        BY <3>2
      <4> HIDE DEF new
      <4>4. /\ Reconciled(o).day = orders[o].day
            /\ Reconciled(o).status \in {orders[o].status, new.status}
        BY <3>2, <4>2, <4>3, MergeTyped
      <4> QED
        BY <3>0, <3>3, <4>1, <4>2, <4>4 DEF Backed
    <3> QED
      BY <1>6, <3>1, <3>2, PassRow
  <2>4. \A o \in OrderIds : orders'[o] # NoOrder => Backed(orders'[o], o)
    BY <1>2, <2>2, <2>3 DEF Reconciled
  <2>5. \A o \in fills' : orders'[o] # NoOrder /\ broker[o].state = "filled"
    <3>1. ASSUME NEW o \in ReportedFills PROVE orders'[o] # NoOrder /\ broker[o].state = "filled"
      BY <2>2, <2>3, ExecutionAssumption DEF ReportedFills, Reported, PayloadBacked
    <3>2. ASSUME NEW o \in fills PROVE orders'[o] # NoOrder /\ broker[o].state = "filled"
      BY <2>2, <2>3, ExecutionAssumption DEF LedgerBacked, Reconciled, TypeOK, LedgerType
    <3> QED
      BY <2>2, <3>1, <3>2
  <2> QED
    BY <2>1, <2>4, <2>5 DEF LedgerBacked, Backed, Placed
<1>7. CASE \E p \in Procs : Commit(p) /\ Conflict(p)
  BY <1>4, <1>7 DEF Commit
<1>8. CASE CommitPass /\ PassAborts
  BY <1>4, <1>8 DEF CommitPass
<1> QED
  BY <1>4, <1>5, <1>6, <1>7, <1>8, LedgerFootprint

\* An order of ours gets to the broker by the attempt of a process.
LEMMA NewlyPlaced ==
  ASSUME TypeOK, AttemptSound, [Next]_vars, NEW c \in Coids, Placed(c)', ~Placed(c)
  PROVE  \E p \in Procs : /\ pc[p] = "submit" /\ c = Id(p)
                          /\ BrokerAccepts(p) \/ AnswerLost(p)
<1>1. c \in OrderIds /\ c \notin External
  BY ExecutionAssumption DEF OrderIds
<1>2. PICK p \in Procs : BrokerAccepts(p) \/ AnswerLost(p)
  <2>1. ASSUME NEW o \in OrderIds, BrokerFill(o) \/ ExternalOrder(o) PROVE FALSE
    BY <1>1, <2>1 DEF BrokerFill, ExternalOrder, Placed, TypeOK, MarketType
  <2>2. ~(UNCHANGED broker)
    BY DEF Placed
  <2> QED
    BY <2>1, <2>2, BrokerFootprint
<1>3. PICK state \in Statuses : Accept(p, state)
  BY <1>2 DEF BrokerAccepts, AnswerLost
<1>4. c = Id(p) /\ pc[p] = "submit"
  BY <1>1, <1>3 DEF Accept, Placed, TypeOK, MarketType
<1> QED
  BY <1>2, <1>4

\* A submission follows the floors, which saw the audit row.
LEMMA AuditBeforeOrderStep ==
  ASSUME TypeOK, AttemptSound, AuditBeforeOrder, [Next]_vars
  PROVE  AuditBeforeOrder'
<1> SUFFICES ASSUME NEW c \in Coids, Placed(c)'
             PROVE  \E a \in audit', l \in Labels : Coid(a, l) = c
  BY DEF AuditBeforeOrder, Coid, Intent
<1>1. CASE Placed(c)
  BY <1>1, AuditGrows DEF AuditBeforeOrder
<1>2. CASE ~Placed(c)
  <2>1. PICK p \in Procs : pc[p] = "submit" /\ c = Id(p)
    BY <1>2, NewlyPlaced
  <2>2. Act(p) \in audit /\ job[p] \in Jobs
    BY <2>1 DEF AttemptSound
  <2> QED
    BY <2>1, <2>2, AuditGrows DEF Id, Act, Jobs
<1> QED
  BY <1>1, <1>2

\* Rows are never deleted.
LEMMA OrdersStay ==
  ASSUME TypeOK, AttemptSound, [Next]_vars, NEW o \in OrderIds, orders[o] # NoOrder
  PROVE  orders'[o] # NoOrder
<1>1. CASE UNCHANGED <<orders, fills>>
  BY <1>1
<1>2. ASSUME NEW p \in Procs, Commit(p) PROVE orders'[o] # NoOrder
  <2>1. CASE Conflict(p)
    BY <1>2, <2>1 DEF Commit
  <2>2. CASE ~Conflict(p)
    <3>1. orders' = [orders EXCEPT ![Id(p)] = orders'[Id(p)]] /\ orders'[Id(p)] \in Rows
      BY <1>2, <2>2, CommitRow
    <3>2. orders \in [OrderIds -> MaybeRow]
      BY DEF TypeOK, LedgerType
    <3> QED
      BY <3>1, <3>2, ExecutionAssumption
  <2> QED
    BY <2>1, <2>2
<1>3. CASE CommitPass
  <2>1. CASE PassAborts
    BY <1>3, <2>1 DEF CommitPass
  <2>2. CASE ~PassAborts
    <3>1. orders' = [q \in OrderIds |-> Reconciled(q)]
      BY <1>3, <2>2 DEF CommitPass
    <3>2. o \in Reported => Reconciled(o) \in Rows
      BY <2>2, PassRow
    <3> QED
      BY <3>1, <3>2, ExecutionAssumption DEF Reconciled
  <2> QED
    BY <2>1, <2>2
<1> QED
  BY <1>1, <1>2, <1>3, LedgerFootprint

\* The only verdict the end of an attempt changes is its own.
LEMMA RejectStatus ==
  ASSUME riskStatus \in [Actions -> Verdicts], NEW p \in Procs, NEW v, NEW r,
         Reject(p, v, r), NEW a \in Actions, riskStatus'[a] # riskStatus[a]
  PROVE  a = Act(p) /\ riskStatus'[a] = v
BY DEF Reject

\* A new approval comes with its row, and rows stay.
LEMMA ApprovedHasOrderStep ==
  ASSUME TypeOK, AttemptSound, ApprovedHasOrder, [Next]_vars
  PROVE  ApprovedHasOrder'
<1> SUFFICES ASSUME NEW a \in Actions, riskStatus'[a] = "approved"
             PROVE  \E l \in Labels : orders'[Coid(a, l)] # NoOrder
  BY DEF ApprovedHasOrder, Coid, Intent
<1>0. riskStatus \in [Actions -> Verdicts]
  BY DEF TypeOK, LedgerType
<1>1. CASE riskStatus[a] = "approved"
  BY <1>1, CoidTyped, OrdersStay DEF ApprovedHasOrder
<1>2. CASE riskStatus[a] # "approved"
  <2>1. ASSUME NEW p \in Procs, CheckFloors(p) PROVE FALSE
    <3>1. FloorVerdict(Act(p)) # "approved"
      BY DEF FloorVerdict
    <3> QED
      BY <1>0, <1>2, <2>1, <3>1, RejectStatus DEF CheckFloors
  <2>2. ASSUME NEW p \in Procs, Gate(p)
        PROVE  \E l \in Labels : orders'[Coid(a, l)] # NoOrder
    <3>1. Reject(p, "approved", "duplicate") /\ orders[Id(p)] # NoOrder /\ orders' = orders
      BY <1>0, <1>2, <2>2, RejectStatus DEF Gate
    <3>2. a = Act(p) /\ job[p] \in Jobs
      BY <1>0, <1>2, <2>2, <3>1, RejectStatus, AttemptTyped DEF Gate
    <3> QED
      BY <3>1, <3>2 DEF Id, Act, Jobs
  <2>3. ASSUME NEW p \in Procs, Commit(p)
        PROVE  \E l \in Labels : orders'[Coid(a, l)] # NoOrder
    <3>1. ~Conflict(p) /\ Reject(p, "approved", "submitted")
      BY <1>2, <2>3 DEF Commit
    <3>2. a = Act(p) /\ job[p] \in Jobs
      BY <1>0, <1>2, <2>3, <3>1, RejectStatus, AttemptTyped DEF Commit
    <3>3. orders'[Id(p)] # NoOrder
      BY <2>3, <3>1, CommitRow, ExecutionAssumption
    <3> QED
      BY <3>2, <3>3 DEF Id, Act, Jobs
  <2> QED
    BY <1>2, <2>1, <2>2, <2>3, StatusFootprint
<1> QED
  BY <1>1, <1>2

\* A row's action intends the order of the row.
Intended(row, o) ==
  row.action # NoAction =>
    row.action \in audit /\ \E l \in Labels : Coid(row.action, l) = o

\* The action of a row is set when the row is made.
LEMMA ProvenanceStep ==
  ASSUME TypeOK, AttemptSound, Provenance, [Next]_vars
  PROVE  Provenance'
<1> SUFFICES ASSUME NEW o \in OrderIds, orders'[o] # NoOrder
             PROVE  Intended(orders'[o], o)
  BY AuditGrows DEF Provenance, Intended, Coid, Intent
<1>0. orders[o] # NoOrder => Intended(orders[o], o)
  BY DEF Provenance, Intended
<1>1. CASE UNCHANGED <<orders, fills>>
  BY <1>0, <1>1
<1>2. ASSUME NEW p \in Procs, Commit(p), ~Conflict(p) PROVE Intended(orders'[o], o)
  <2>1. CASE o = Id(p)
    <3>1. Intended(NewRow(p), o)
      BY <1>2, <2>1, AttemptTyped DEF Commit, AttemptSound, Intended, NewRow, Id, Act, Jobs
    <3>2. orders'[o] = NewRow(p) \/
          (orders[o] # NoOrder /\ orders'[o].action \in {orders[o].action, NewRow(p).action})
      BY <1>2, <2>1, CommitRow, MergeTyped, ExecutionAssumption
    <3> QED
      BY <1>0, <3>1, <3>2 DEF Intended
  <2>2. CASE o # Id(p)
    <3>1. orders' = [orders EXCEPT ![Id(p)] = orders'[Id(p)]]
      BY <1>2, CommitRow
    <3>2. orders \in [OrderIds -> MaybeRow]
      BY DEF TypeOK, LedgerType
    <3> QED
      BY <1>0, <2>2, <3>1, <3>2
  <2> QED
    BY <2>1, <2>2
<1>3. ASSUME CommitPass, ~PassAborts PROVE Intended(orders'[o], o)
  <2>1. orders'[o] = Reconciled(o)
    BY <1>3 DEF CommitPass
  <2>2. CASE o \notin Reported
    BY <1>0, <2>1, <2>2 DEF Reconciled
  <2>3. CASE o \in Reported /\ orders[o] = NoOrder
    <3>1. Reconciled(o).action = NoAction
      BY <2>3 DEF Reconciled
    <3> QED
      BY <2>1, <3>1 DEF Intended
  <2>4. CASE o \in Reported /\ orders[o] # NoOrder
    <3>1. view.orders[o] \in Rows
      BY <1>3, <2>4, PassRow
    <3>2. Reconciled(o).action = orders[o].action
      <4>1. orders[o] \in Rows
        BY <1>3, <2>4, PassRow
      <4> QED
        BY <2>4, <3>1, <4>1 DEF Reconciled, Merge, Rows
    <3> QED
      BY <1>0, <2>1, <2>4, <3>2 DEF Intended
  <2> QED
    BY <2>2, <2>3, <2>4
<1>4. CASE \E p \in Procs : Commit(p) /\ Conflict(p)
  BY <1>1, <1>4 DEF Commit
<1>5. CASE CommitPass /\ PassAborts
  BY <1>1, <1>5 DEF CommitPass
<1> QED
  BY <1>1, <1>2, <1>3, <1>4, <1>5, LedgerFootprint

-----------------------------------------------------------------------------
(***************************************************************************)
(* IInv is inductive.                                                      *)
(***************************************************************************)
\* Every step keeps the invariant.
LEMMA StepInv ==
  ASSUME IInv, [Next]_vars
  PROVE  IInv'
BY TypeStep, AttemptSoundStep, PayloadBackedStep, LateSoundStep, LedgerBackedStep,
  AuditBeforeOrderStep, ApprovedHasOrderStep, ProvenanceStep DEF IInv

(***************************************************************************)
(* The inductive invariant holds of every execution.                       *)
(***************************************************************************)
THEOREM Invariance == Spec => []IInv
BY InitInv, StepInv, PTL DEF Spec

(***************************************************************************)
(* Type correctness, for every instance of the constants.                  *)
(***************************************************************************)
THEOREM TypeCorrect == Spec => []TypeOK
<1>1. IInv => TypeOK
  BY DEF IInv
<1> QED
  BY <1>1, Invariance, PTL

(***************************************************************************)
(* Rows and fills never run ahead of the broker.                           *)
(***************************************************************************)
THEOREM LedgerIsBacked == Spec => []LedgerBacked
<1>1. IInv => LedgerBacked
  BY DEF IInv
<1> QED
  BY <1>1, Invariance, PTL

(***************************************************************************)
(* Floor 9: no order of ours without an audited action that intends it.    *)
(***************************************************************************)
THEOREM AuditComplete == Spec => []AuditBeforeOrder
<1>1. IInv => AuditBeforeOrder
  BY DEF IInv
<1> QED
  BY <1>1, Invariance, PTL

(***************************************************************************)
(* A stored approval has its order row.                                    *)
(***************************************************************************)
THEOREM ApprovalsHaveOrders == Spec => []ApprovedHasOrder
<1>1. IInv => ApprovedHasOrder
  BY DEF IInv
<1> QED
  BY <1>1, Invariance, PTL

(***************************************************************************)
(* A row's action is audited and intends the row's order.                  *)
(***************************************************************************)
THEOREM ProvenanceHolds == Spec => []Provenance
<1>1. IInv => Provenance
  BY DEF IInv
<1> QED
  BY <1>1, Invariance, PTL

(***************************************************************************)
(* After a block at most one more order of each process reaches the broker *)
(* for the blocked track.                                                  *)
(***************************************************************************)
THEOREM LateOrdersBounded == Spec => AtMostOneLateOrder
<1>1. IInv /\ [Next]_vars =>
        [\A p \in Procs : GetsIn(p) => <<p, TrackOf(Act(p))>> \notin late]_vars
  <2> SUFFICES ASSUME IInv, NEW p \in Procs, pc[p] = "submit",
                      <<p, TrackOf(Act(p))>> \in late
               PROVE  FALSE
    BY DEF GetsIn
  <2>1. TrackOf(Act(p)) \in Tracks
    BY AttemptTyped, ExecutionAssumption DEF IInv, TrackOf
  <2> QED
    BY <2>1 DEF IInv, LateSound
<1> QED
  BY <1>1, Invariance, PTL DEF Spec, AtMostOneLateOrder

-----------------------------------------------------------------------------
(***************************************************************************)
(* What an attempt has passed on its way to the broker.                    *)
(***************************************************************************)
\* The floors and the gate let action a through, for some equity the account
\* has had.
GateCleared(a) ==
  /\ Policy[TrackOf(a)] # NoPolicy
  /\ \E e \in Equities \cup {StartEquity} :
       Evaluate(Item[a], [equity |-> e, positions |-> NoPositions], Policy[TrackOf(a)]) = {}
ClearedFor(p) ==
  /\ pc[p] # "idle" => Item[Act(p)].sizing = "usd"
  /\ pc[p] \in {"gate", "submit"} => TrackOf(Act(p)) \in KnownTracks
  /\ pc[p] = "submit" => GateCleared(Act(p))
AttemptCleared == \A p \in Procs : ClearedFor(p)

\* The gate reads an equity the account has had.
LEMMA GateReads ==
  ASSUME TypeOK, NEW a \in Actions, Policy[TrackOf(a)] # NoPolicy, GateCodes(a) = {}
  PROVE  GateCleared(a)
<1>1. equity[TrackOf(a)] \in Equities \cup {StartEquity}
  BY ExecutionAssumption DEF TypeOK, LedgerType, TrackOf
<1> QED
  BY <1>1 DEF GateCleared, GateCodes

\* An attempt past the gate stays cleared by it.
LEMMA AttemptClearedStep ==
  ASSUME TypeOK, AttemptSound, AttemptCleared, [Next]_vars
  PROVE  AttemptCleared'
<1> SUFFICES ASSUME NEW p \in Procs PROVE ClearedFor(p)'
  BY DEF AttemptCleared
<1>1. ClearedFor(p)
  BY DEF AttemptCleared
<1>2. CASE pc'[p] = pc[p] /\ job'[p] = job[p]
  BY <1>1, <1>2 DEF ClearedFor, GateCleared, Act, TrackOf
<1>3. CASE pc'[p] = "idle"
  BY <1>3 DEF ClearedFor
<1>4. ASSUME NEW a \in Actions, NEW l \in Labels, Begin(p, a, l) PROVE ClearedFor(p)'
  <2>1. pc'[p] = "idle" \/ (pc'[p] = "floors" /\ job'[p].action = a /\ Item[a].sizing = "usd")
    BY <1>4 DEF Begin, Finish, TypeOK, AdapterType
  <2> QED
    BY <2>1 DEF ClearedFor, Act
<1>5. CASE CheckFloors(p)
  <2>1. pc'[p] = "idle" \/ (pc'[p] = "gate" /\ job'[p] = job[p] /\ FloorVerdict(Act(p)) = "none")
    BY <1>5 DEF CheckFloors, Reject, Finish, Advance, TypeOK, AdapterType
  <2>2. FloorVerdict(Act(p)) = "none" => TrackOf(Act(p)) \in KnownTracks
    BY DEF FloorVerdict
  <2>3. pc[p] = "floors"
    BY <1>5 DEF CheckFloors
  <2> QED
    BY <1>1, <2>1, <2>2, <2>3 DEF ClearedFor, Act, TrackOf
<1>6. CASE Gate(p)
  <2>1. pc[p] = "gate" /\ Act(p) \in Actions
    BY <1>6, AttemptTyped DEF Gate
  <2>2. \/ pc'[p] = "idle"
        \/ pc'[p] = "submit" /\ job'[p] = job[p] /\ Policy[TrackOf(Act(p))] # NoPolicy /\ GateCodes(Act(p)) = {}
    BY <1>6 DEF Gate, Reject, Finish, Advance, TypeOK, AdapterType
  <2>3. pc'[p] = "submit" => GateCleared(Act(p))
    BY <2>1, <2>2, GateReads
  <2> QED
    BY <1>1, <2>1, <2>2, <2>3 DEF ClearedFor, GateCleared, Act, TrackOf
<1>7. CASE BrokerAccepts(p) \/ Upsert(p)
  <2>1. pc[p] # "idle" /\ job'[p] = job[p] /\ pc'[p] \in {"answered", "commit"}
    BY <1>7 DEF BrokerAccepts, Accept, Upsert, Advance, TypeOK, AdapterType
  <2> QED
    BY <1>1, <2>1 DEF ClearedFor, Act
<1> QED
  BY <1>2, <1>3, <1>4, <1>5, <1>6, <1>7, OthersStay

\* A submission carries the action the gate let through.
LEMMA PolicyStep ==
  ASSUME TypeOK, AttemptSound, AttemptCleared, OrdersWithinPolicy, [Next]_vars
  PROVE  OrdersWithinPolicy'
<1> SUFFICES ASSUME NEW c \in Coids, Placed(c)'
             PROVE  \E a \in audit', l \in Labels :
                      /\ Coid(a, l) = c /\ Item[a].sizing = "usd"
                      /\ TrackOf(a) \in KnownTracks /\ GateCleared(a)
  BY ZenonT(30) DEF OrdersWithinPolicy, GateCleared, Coid, Intent, TrackOf
<1>1. CASE Placed(c)
  BY <1>1, AuditGrows DEF OrdersWithinPolicy, GateCleared
<1>2. CASE ~Placed(c)
  <2>1. PICK p \in Procs : pc[p] = "submit" /\ c = Id(p)
    BY <1>2, NewlyPlaced
  <2>2. Act(p) \in audit /\ job[p] \in Jobs
    BY <2>1 DEF AttemptSound
  <2>3. ClearedFor(p)
    BY DEF AttemptCleared
  <2> QED
    BY <2>1, <2>2, <2>3, AuditGrows DEF ClearedFor, Id, Act, Jobs
<1> QED
  BY <1>1, <1>2

(***************************************************************************)
(* Every order of ours at the broker was let through by its track's policy *)
(* (floor 3 and the risk gate), whatever changed since the gate looked.    *)
(***************************************************************************)
THEOREM PolicyKept == Spec => []OrdersWithinPolicy
<1>1. Init => AttemptCleared /\ OrdersWithinPolicy
  BY DEF Init, AttemptCleared, ClearedFor, OrdersWithinPolicy, Placed, Unplaced, OrderIds
<1>2. IInv /\ AttemptCleared /\ OrdersWithinPolicy /\ [Next]_vars => (AttemptCleared /\ OrdersWithinPolicy)'
  BY AttemptClearedStep, PolicyStep DEF IInv
<1> QED
  BY <1>1, <1>2, Invariance, PTL DEF Spec

-----------------------------------------------------------------------------
(***************************************************************************)
(* Execution implements OrderLifecycle.                                    *)
(***************************************************************************)
\* A step that moves the broker is a Place or a Fill.
LEMMA BrokerRefines ==
  ASSUME IInv, [Next]_vars, UNCHANGED <<orders, fills>>
  PROVE  [OL!Next]_(OL!lifecycle)
<1> USE DEF AtBroker, FilledAtBroker, Placed
<1>0. Booked' = Booked /\ fills' = fills
  BY DEF Booked
<1>1. CASE UNCHANGED broker
  BY <1>0, <1>1 DEF OL!lifecycle
<1>2. ASSUME NEW o \in OrderIds, broker[o].state = "none",
             NEW e \in BrokerOrders, e.state # "none",
             broker' = [broker EXCEPT ![o] = e]
      PROVE  OL!Place(o)
  <2>1. AtBroker' = AtBroker \cup {o}
    BY <1>2 DEF IInv, TypeOK, MarketType
  <2>2. FilledAtBroker' \in {FilledAtBroker, FilledAtBroker \cup {o}}
    <3>1. CASE e.state = "filled"
      BY <1>2, <3>1 DEF IInv, TypeOK, MarketType
    <3>2. CASE e.state # "filled"
      BY <1>2, <3>2 DEF IInv, TypeOK, MarketType
    <3> QED
      BY <3>1, <3>2
  <2> QED
    BY <1>0, <1>2, <2>1, <2>2 DEF OL!Place
<1>3. ASSUME NEW o \in OrderIds, ExternalOrder(o) PROVE OL!Place(o)
  <2>1. [state |-> "new", day |-> day] \in BrokerOrders
    BY DEF IInv, TypeOK, MarketType, BrokerOrders, BrokerStates
  <2> QED
    BY <1>2, <1>3, <2>1 DEF ExternalOrder
<1>4. ASSUME NEW p \in Procs, BrokerAccepts(p) \/ AnswerLost(p)
      PROVE  \E o \in OrderIds : OL!Place(o)
  <2>1. PICK state \in Statuses : Accept(p, state)
    BY <1>4 DEF BrokerAccepts, AnswerLost
  <2>2. Id(p) \in OrderIds
    BY <2>1, AttemptTyped DEF Accept, IInv
  <2>3. [state |-> state, day |-> day] \in BrokerOrders /\ state # "none"
    BY DEF IInv, TypeOK, MarketType, BrokerOrders, BrokerStates, Statuses
  <2> QED
    BY <1>2, <2>1, <2>2, <2>3 DEF Accept
<1>5. ASSUME NEW o \in OrderIds, BrokerFill(o) PROVE OL!Fill(o)
  <2>1. broker' = [broker EXCEPT ![o].state = "filled"] /\ broker[o].state = "new"
    BY <1>5 DEF BrokerFill
  <2>2. broker \in [OrderIds -> BrokerOrders]
    BY DEF IInv, TypeOK, MarketType
  <2>3. AtBroker' = AtBroker /\ FilledAtBroker' = FilledAtBroker \cup {o}
    BY <2>1, <2>2 DEF BrokerOrders
  <2> QED
    BY <1>0, <2>1, <2>3 DEF OL!Fill
<1> QED
  BY <1>1, <1>3, <1>4, <1>5, BrokerFootprint DEF OL!Next, IInv

\* A step that adds rows is a Book.
LEMMA LedgerRefines ==
  ASSUME IInv, [Next]_vars, NEW S \in SUBSET OrderIds, NEW T \in SUBSET OrderIds,
         UNCHANGED broker, S \subseteq AtBroker, T \subseteq FilledAtBroker,
         T \subseteq S, Booked' = Booked \cup S, fills' = fills \cup T
  PROVE  OL!Next
BY DEF OL!Next, OL!Book, AtBroker, FilledAtBroker, Placed

\* Every step is a step of the abstract life or a stutter.
LEMMA StepRefines ==
  ASSUME IInv, [Next]_vars
  PROVE  [OL!Next]_(OL!lifecycle)
<1>0. TypeOK /\ AttemptSound /\ PayloadBacked
  BY DEF IInv
<1>1. CASE UNCHANGED <<orders, fills>>
  BY <1>1, BrokerRefines
<1>2. ASSUME NEW p \in Procs, Commit(p), ~Conflict(p) PROVE OL!Next
  <2> DEFINE T == IF resp[p] = "filled" THEN {Id(p)} ELSE {}
  <2>1. /\ Id(p) \in OrderIds /\ orders'[Id(p)] \in Rows
        /\ orders' = [orders EXCEPT ![Id(p)] = orders'[Id(p)]]
    BY <1>0, <1>2, CommitRow
  <2>2. Id(p) \in AtBroker /\ T \subseteq FilledAtBroker
    BY <1>0, <1>2, <2>1 DEF Commit, AttemptSound, AtBroker, FilledAtBroker
  <2>3. Booked' = Booked \cup {Id(p)}
    BY <1>0, <2>1, ExecutionAssumption DEF Booked, TypeOK, LedgerType
  <2>4. fills' = fills \cup T /\ UNCHANGED broker
    BY <1>2 DEF Commit, market
  <2>5. T \subseteq {Id(p)} /\ T \in SUBSET OrderIds /\ {Id(p)} \in SUBSET OrderIds
    BY <2>1
  <2> HIDE DEF T
  <2> QED
    BY <2>2, <2>3, <2>4, <2>5, LedgerRefines
<1>3. ASSUME CommitPass, ~PassAborts PROVE OL!Next
  <2>1. /\ orders' = [o \in OrderIds |-> Reconciled(o)]
        /\ fills' = fills \cup ReportedFills /\ UNCHANGED broker
    BY <1>3 DEF CommitPass, market
  <2>2. /\ Reported \subseteq AtBroker /\ ReportedFills \subseteq FilledAtBroker
        /\ ReportedFills \subseteq Reported /\ Reported \subseteq OrderIds
    BY <1>0 DEF PayloadBacked, Reported, ReportedFills, AtBroker, FilledAtBroker
  <2>3. \A o \in Reported : Reconciled(o) # NoOrder
    BY <1>0, <1>3, PassRow, ExecutionAssumption
  <2>4. Booked' = Booked \cup Reported
    BY <2>1, <2>2, <2>3 DEF Booked, Reconciled
  <2> QED
    BY <2>1, <2>2, <2>4, LedgerRefines
<1>4. CASE \E p \in Procs : Commit(p) /\ Conflict(p)
  BY <1>1, <1>4 DEF Commit
<1>5. CASE CommitPass /\ PassAborts
  BY <1>1, <1>5 DEF CommitPass
<1> QED
  BY <1>1, <1>2, <1>3, <1>4, <1>5, LedgerFootprint

(***************************************************************************)
(* The execution layer implements the abstract life of an order.           *)
(***************************************************************************)
THEOREM Refinement == Spec => Lifecycle
<1>1. Init => OL!Init
  BY DEF Init, OL!Init, AtBroker, FilledAtBroker, Booked, Placed, Unplaced
<1>2. IInv /\ [Next]_vars => [OL!Next]_(OL!lifecycle)
  BY StepRefines
<1> QED
  BY <1>1, <1>2, Invariance, PTL DEF Spec, Lifecycle, OL!Spec


-----------------------------------------------------------------------------
(***************************************************************************)
(* Part 2.  Windows.                                                       *)
(***************************************************************************)
(* The inductive invariant.                                                *)

Windows == [phase : Phases, result : [WorkItems -> Results], judged : SUBSET WorkItems,
            status : Results, todo : Seq(WorkItems), queue : Seq(Actions), reports : Seq(Reports)]
RowsType == /\ runs \in [Procs -> Results \cup {"running"}]
            /\ trackRuns \in [Procs -> [WorkItems -> Results]]
RunnerType == RowsType /\ win \in [Procs -> Windows]

\* What an aggregated status says of the results.
Tells(status, result) ==
  /\ status = "ok" => \A w \in WorkItems : result[w] \in {"ok", "skipped_paused"}
  /\ status = "failed" => \A w \in WorkItems : result[w] # "ok"
  /\ status # "aborted_kill" => \A w \in WorkItems : result[w] # "aborted_kill"

\* How far an invocation is, and what it knows by then.
StageOK(p) ==
  /\ win[p].phase \in {"off", "agents", "recheck"} => win[p].status = "none"
  /\ win[p].phase \in {"persist", "execute", "ended"} => win[p].status # "none"
  /\ win[p].phase = "execute" => win[p].status # "aborted_kill"
  /\ win[p].phase \in {"off", "agents"} =>
       win[p].judged = {} /\ \A w \in WorkItems : win[p].result[w] \in {"none", "skipped_paused"}
  /\ win[p].phase = "recheck" =>
       \A w \in WorkItems : win[p].result[w] \in {"ok", "partial", "failed", "skipped_paused"}
  /\ \A w \in win[p].judged : win[p].result[w] \in {"ok", "partial"}
  /\ Tells(win[p].status, win[p].result)

\* The rows of a run are those of its results, and come after them.
RowsOK(p) ==
  /\ runs[p] \in {"none", "running", win[p].status}
  /\ \A w \in WorkItems : trackRuns[p][w] \in {"none", win[p].result[w]}
  /\ win[p].status = "none" => \A w \in WorkItems : trackRuns[p][w] = "none"

\* Submissions and reports begin with the execution, and what is queued is
\* some judge's plan.
QueueOK(p) ==
  /\ win[p].phase \notin {"execute", "ended", "dead"} => win[p].queue = <<>> /\ win[p].reports = <<>>
  /\ \A a \in ToSet(win[p].queue) : \E w \in WorkItems : a \in PlanOf(p, w)

\* An attempt is for the first item of the queue.
AttemptOK(p) ==
  pc[p] # "idle" => /\ win[p].phase = "execute" /\ win[p].queue # <<>>
                    /\ job[p] = [action |-> Head(win[p].queue), label |-> LabelOf[p]]

\* EveryItemAnswered and ReportsBooked, for one invocation.
AnsweredOK(p) ==
  win[p].phase \in {"execute", "ended"} =>
    [i \in DOMAIN win[p].reports |-> win[p].reports[i].action] \o win[p].queue =
      IF win[p].status = "aborted_kill" THEN <<>> ELSE Submittable(p)
BookedOK(p) ==
  \A i \in DOMAIN win[p].reports :
    win[p].reports[i].status \in {"submitted", "duplicate"} =>
      orders[Coid(win[p].reports[i].action, LabelOf[p])] # NoOrder

\* An audited action was stored with the track run of its pair.
StoredOK ==
  \A a \in audit : \E p \in Procs, w \in WorkItems :
    a \in PlanOf(p, w) /\ trackRuns[p][w] \in {"ok", "partial"}

\* An order of ours was decided by a window that was not aborted.
DecidedBy(c, p) ==
  /\ \E w \in WorkItems, a \in Actions : a \in PlanOf(p, w) /\ Coid(a, c[3]) = c
  /\ LabelOf[p] = c[3] /\ win[p].status \notin {"none", "aborted_kill"}
DecidedOK == \A c \in Coids : Placed(c) => \E p \in Procs : DecidedBy(c, p)

RInv == /\ IInv /\ RunnerType /\ StoredOK /\ DecidedOK
        /\ \A p \in Procs : /\ StageOK(p) /\ RowsOK(p) /\ QueueOK(p)
                            /\ AttemptOK(p) /\ AnsweredOK(p) /\ BookedOK(p)

-----------------------------------------------------------------------------
(* The operators of the runner.                                            *)

\* The pairs of a list that ended in some way are pairs.
LEMMA ItemsTyped ==
  ASSUME NEW result, NEW some
  PROVE  ItemsWith(result, some) \in Seq(WorkItems)
<1> DEFINE parts == [i \in DOMAIN WorkList |->
                       IF result[WorkList[i]] \in some THEN <<WorkList[i]>> ELSE <<>>]
<1>1. parts \in Seq(Seq(WorkItems))
  <2>1. DOMAIN WorkList = 1..Len(WorkList) /\ Len(WorkList) \in Nat
        /\ \A i \in DOMAIN WorkList : WorkList[i] \in WorkItems
    BY RunnerAssumption
  <2>2. \A i \in 1..Len(WorkList) : (IF result[WorkList[i]] \in some THEN <<WorkList[i]>> ELSE <<>>) \in Seq(WorkItems)
    BY <2>1
  <2> QED
    BY <2>1, <2>2
<1> QED
  BY <1>1, FlattenElements DEF ItemsWith

\* A plan is of actions.
LEMMA PlanTyped ==
  ASSUME NEW p \in Procs, NEW w \in WorkItems
  PROVE  PlanOf(p, w) \subseteq Actions
<1>1. Plan[w] \in Seq(Actions)
  BY RunnerAssumption
<1> QED
  BY <1>1 DEF PlanOf, ToSet

\* What a window submits are items of the plans of its judged pairs.
LEMMA SubmittableSound ==
  ASSUME NEW p \in Procs
  PROVE  /\ Submittable(p) \in Seq(Actions)
         /\ \A a \in ToSet(Submittable(p)) : \E w \in WorkItems : a \in PlanOf(p, w)
<1> DEFINE part(i) == IF /\ win[p].result[WorkList[i]] \in {"ok", "partial"}
                         /\ WorkList[i] \in win[p].judged
                      THEN Plan[WorkList[i]] ELSE <<>>
           parts == [i \in DOMAIN WorkList |-> part(i)]
<1>1. /\ DOMAIN WorkList = 1..Len(WorkList) /\ Len(WorkList) \in Nat
      /\ \A i \in DOMAIN WorkList : WorkList[i] \in WorkItems
      /\ \A w \in WorkItems : Plan[w] \in Seq(Actions)
  BY RunnerAssumption
<1>2. \A i \in 1..Len(WorkList) : part(i) \in Seq(Actions)
  BY <1>1
<1>3. \A i \in DOMAIN WorkList : \A a \in ToSet(part(i)) : a \in PlanOf(p, WorkList[i])
  BY DEF PlanOf, ToSet
<1> HIDE DEF part
<1>4. parts \in Seq(Seq(Actions)) /\ DOMAIN parts = DOMAIN WorkList
      /\ \A i \in DOMAIN WorkList : parts[i] = part(i)
  BY <1>1, <1>2
<1>5. Submittable(p) = FlattenSeq(parts)
  BY DEF Submittable, part
<1> HIDE DEF parts
<1>6. /\ FlattenSeq(parts) \in Seq(Actions)
      /\ \A a \in ToSet(FlattenSeq(parts)) : \E i \in DOMAIN parts : a \in ToSet(parts[i])
  BY <1>4, FlattenElements
<1> QED
  BY <1>1, <1>3, <1>4, <1>5, <1>6

\* The status of a run says what its pairs came to.
LEMMA AggregateTells ==
  ASSUME NEW result, NEW killed \in BOOLEAN,
         \A w \in WorkItems : result[w] \in {"ok", "partial", "failed", "skipped_paused"}
  PROVE  /\ Tells(Aggregate(result, killed), result)
         /\ Aggregate(result, killed) \in {"ok", "partial", "failed", "aborted_kill"}
BY DEF Tells, Aggregate

-----------------------------------------------------------------------------
(* Steps.                                                                  *)

\* The steps of a window; every other step is the outside world's.
Steps(p) == \/ Preflight(p) \/ AgentsFinish(p) \/ Recheck(p) \/ PersistOutcome(p) \/ Finalize(p)
            \/ Submit(p) \/ Attempt(p) \/ AttemptFails(p) \/ EndExecution(p) \/ Dies(p)
\* A step is of the outside world, of one window, or none.
LEMMA RunnerCases ==
  ASSUME [RNext]_rvars
  PROVE  \/ Outside /\ UNCHANGED wvars
         \/ \E p \in Procs : Steps(p)
         \/ UNCHANGED <<vars, wvars>>
BY DEF RNext, Progress, Steps, rvars

\* The runner's calls are calls that Execution knows.
LEMMA StepDrives ==
  ASSUME RunnerType, [RNext]_rvars
  PROVE  [Next]_vars
<1>1. Outside => Next
  BY DEF Outside, Next, World
<1>2. ASSUME NEW p \in Procs, Preflight(p) \/ AgentsFinish(p) \/ Recheck(p) \/ Finalize(p) \/ EndExecution(p)
      PROVE  UNCHANGED vars
  BY <1>2 DEF Preflight, AgentsFinish, Recheck, Finalize, EndExecution
<1>3. ASSUME NEW p \in Procs, PersistOutcome(p) PROVE [Next]_vars
  <2>1. win[p] \in Windows /\ win[p].todo \in Seq(WorkItems) /\ win[p].todo # <<>>
    BY <1>3 DEF PersistOutcome, RunnerType, Windows
  <2>2. Outcome(p) \in WorkItems
    BY <2>1 DEF Outcome
  <2>3. PersistPlan(PlanOf(p, Outcome(p))) \/ UNCHANGED vars
    BY <1>3 DEF PersistOutcome, Store
  <2>4. PlanOf(p, Outcome(p)) \in SUBSET Actions
    BY <2>2, PlanTyped
  <2> QED
    BY <2>3, <2>4 DEF Next, World
<1>4. ASSUME NEW p \in Procs, Submit(p) PROVE Next
  <2>1. win[p] \in Windows /\ win[p].queue \in Seq(Actions) /\ win[p].queue # <<>>
    BY <1>4 DEF Submit, RunnerType, Windows
  <2>2. Head(win[p].queue) \in Actions /\ LabelOf[p] \in Labels
    BY <2>1, RunnerAssumption
  <2> QED
    BY <1>4, <2>2 DEF Submit, Next, Adapter
<1>5. ASSUME NEW p \in Procs, Attempt(p) \/ AttemptFails(p) PROVE Next
  BY <1>5 DEF Attempt, AttemptFails, Next, Adapter
<1>6. ASSUME NEW p \in Procs, Dies(p) PROVE [Next]_vars
  BY <1>6 DEF Dies, Next, Adapter
<1>7. UNCHANGED <<vars, wvars>> => UNCHANGED vars
  OBVIOUS
<1> QED
  BY <1>1, <1>2, <1>3, <1>4, <1>5, <1>6, <1>7, RunnerCases DEF Steps

-----------------------------------------------------------------------------
(* What an invocation does leaves the others alone.                        *)

\* The steps in which the invocation's own record is not touched, or only its
\* own.
LEMMA OwnWindow ==
  ASSUME RunnerType, NEW p \in Procs, Steps(p), NEW q \in Procs, q # p
  PROVE  win'[q] = win[q] /\ runs'[q] = runs[q] /\ trackRuns'[q] = trackRuns[q]
<1>1. win \in [Procs -> Windows] /\ runs \in [Procs -> Results \cup {"running"}]
      /\ trackRuns \in [Procs -> [WorkItems -> Results]]
  BY DEF RunnerType, RowsType
<1>2. ASSUME NEW w, Become(p, w) PROVE win'[q] = win[q]
  BY <1>1, <1>2 DEF Become
<1>3. ASSUME Record(p) PROVE win'[q] = win[q] /\ UNCHANGED <<runs, trackRuns>>
  BY <1>2, <1>3 DEF Record
<1>4. CASE Preflight(p)
  BY <1>1, <1>2, <1>4 DEF Preflight
<1>5. CASE AgentsFinish(p)
  BY <1>1, <1>2, <1>5 DEF AgentsFinish
<1>6. CASE Recheck(p)
  BY <1>1, <1>2, <1>6 DEF Recheck
<1>7. CASE PersistOutcome(p)
  <2>1. win'[q] = win[q] /\ runs' = runs
    BY <1>2, <1>7 DEF PersistOutcome
  <2>2. trackRuns'[q] = trackRuns[q]
    BY <1>1, <1>7 DEF PersistOutcome, Store
  <2> QED
    BY <2>1, <2>2
<1>8. CASE Finalize(p)
  BY <1>1, <1>2, <1>8 DEF Finalize
<1>9. CASE Submit(p) \/ Attempt(p) \/ AttemptFails(p)
  BY <1>3, <1>9 DEF Submit, Attempt, AttemptFails
<1>10. CASE EndExecution(p) \/ Dies(p)
  BY <1>1, <1>2, <1>10 DEF EndExecution, Dies
<1> QED
  BY <1>4, <1>5, <1>6, <1>7, <1>8, <1>9, <1>10 DEF Steps

\* An adapter's step of one process leaves the attempts of the others alone.
LEMMA OwnAttempt ==
  ASSUME TypeOK, NEW p \in Procs, Steps(p), NEW q \in Procs, q # p
  PROVE  pc'[q] = pc[q] /\ job'[q] = job[q]
<1>1. pc = [x \in Procs |-> pc[x]] /\ job = [x \in Procs |-> job[x]]
  BY DEF TypeOK, AdapterType
<1>2. UNCHANGED <<pc, job>> => pc'[q] = pc[q] /\ job'[q] = job[q]
  OBVIOUS
<1>3. ASSUME NEW r, Finish(p, r) PROVE pc'[q] = pc[q] /\ job'[q] = job[q]
  BY <1>1, <1>3 DEF Finish
<1>4. ASSUME NEW s, Advance(p, s) PROVE pc'[q] = pc[q] /\ job'[q] = job[q]
  BY <1>1, <1>4 DEF Advance
<1>5. ASSUME NEW v, NEW r, Reject(p, v, r) PROVE pc'[q] = pc[q] /\ job'[q] = job[q]
  BY <1>3, <1>5 DEF Reject
<1>6. CASE Preflight(p) \/ AgentsFinish(p) \/ Recheck(p) \/ Finalize(p) \/ EndExecution(p)
  <2>1. UNCHANGED vars
    BY <1>6 DEF Preflight, AgentsFinish, Recheck, Finalize, EndExecution
  <2> QED
    BY <2>1 DEF vars, adapter
<1>7. CASE PersistOutcome(p)
  BY <1>7 DEF PersistOutcome, Store, PersistPlan, vars, adapter
<1>8. CASE Submit(p)
  BY <1>1, <1>3, <1>8 DEF Submit, Begin
<1>9. CASE Fail(p) \/ AnswerLost(p) \/ BrokerRefuses(p)
  BY <1>3, <1>9 DEF Fail, AnswerLost, BrokerRefuses
<1>10. CASE CheckFloors(p) \/ Gate(p) \/ Commit(p)
  BY <1>3, <1>4, <1>5, <1>10 DEF CheckFloors, Gate, Commit
<1>11. CASE BrokerAccepts(p) \/ Upsert(p)
  BY <1>4, <1>11 DEF BrokerAccepts, Upsert
<1>12. CASE Dies(p) /\ UNCHANGED vars
  BY <1>12 DEF vars, adapter
<1> QED
  BY <1>6, <1>7, <1>8, <1>9, <1>10, <1>11, <1>12 DEF Steps, Attempt, AttemptFails, Dies

\* A step that is not the invocation's leaves its record, its rows and its
\* attempt alone.
LEMMA OthersFrame ==
  ASSUME TypeOK, RunnerType, [RNext]_rvars, NEW p \in Procs
  PROVE  \/ Steps(p)
         \/ UNCHANGED <<win[p], runs[p], trackRuns[p], pc[p], job[p]>>
<1>1. CASE Outside /\ UNCHANGED wvars
  <2>1. UNCHANGED adapter
    BY <1>1 DEF Outside, Operator, EngageKill, ReleaseKill, PauseTrack, ResumeTrack,
      AccountMoves, Pass, Fetch, Stage, CommitPass, PassFails, BrokerFill, ExternalOrder
  <2> QED
    BY <1>1, <2>1 DEF wvars, adapter
<1>2. ASSUME NEW q \in Procs, Steps(q), q # p
      PROVE  UNCHANGED <<win[p], runs[p], trackRuns[p], pc[p], job[p]>>
  BY <1>2, OwnWindow, OwnAttempt
<1>3. CASE UNCHANGED <<vars, wvars>>
  BY <1>3 DEF vars, adapter, wvars
<1> QED
  BY <1>1, <1>2, <1>3, RunnerCases

-----------------------------------------------------------------------------
(* The attempts of a window.                                               *)

\* What an attempt can be left as: over, with an outcome that is true of the
\* order row, or going on for the same item.
LEMMA AttemptEnds ==
  ASSUME IInv, RunnerType, NEW p \in Procs, AttemptOK(p),
         Submit(p) \/ Attempt(p) \/ AttemptFails(p)
  PROVE  /\ win[p].phase = "execute" /\ win[p].queue # <<>> /\ Record(p)
         /\ pc'[p] = "idle" => outcome'[p] \in Outcomes \ {"none"}
         /\ pc'[p] = "idle" /\ outcome'[p] \in {"submitted", "duplicate"} =>
              orders'[Coid(Head(win[p].queue), LabelOf[p])] # NoOrder
         /\ pc'[p] # "idle" => job'[p] = [action |-> Head(win[p].queue), label |-> LabelOf[p]]
<1> DEFINE a == Head(win[p].queue)
           Good == /\ pc'[p] = "idle" => outcome'[p] \in Outcomes \ {"none"}
                   /\ pc'[p] = "idle" /\ outcome'[p] \in {"submitted", "duplicate"} =>
                        orders'[Coid(a, LabelOf[p])] # NoOrder
                   /\ pc'[p] # "idle" => job'[p] = [action |-> a, label |-> LabelOf[p]]
<1> USE DEF Outcomes
<1>0. /\ TypeOK /\ AttemptSound
      /\ pc = [x \in Procs |-> pc[x]] /\ job = [x \in Procs |-> job[x]]
      /\ outcome = [x \in Procs |-> outcome[x]]
  BY DEF IInv, TypeOK, AdapterType
<1>1. ASSUME NEW r, Finish(p, r), r \in {"rejected_floor", "rejected_risk", "exception"}
      PROVE  Good
  BY <1>0, <1>1 DEF Finish
<1>2. ASSUME NEW v, NEW r, Reject(p, v, r), r \in {"rejected_floor", "rejected_risk"}
      PROVE  Good
  BY <1>1, <1>2 DEF Reject
<1>3. ASSUME pc[p] # "idle"
      PROVE  /\ win[p].phase = "execute" /\ win[p].queue # <<>>
             /\ job[p] = [action |-> a, label |-> LabelOf[p]] /\ Id(p) = Coid(a, LabelOf[p])
  BY <1>3 DEF AttemptOK, Id
<1>4. ASSUME NEW s, Advance(p, s), pc[p] # "idle", s # "idle" PROVE Good
  BY <1>0, <1>3, <1>4 DEF Advance
<1>5. ASSUME NEW v, NEW r, Reject(p, v, r), r \in {"submitted", "duplicate"},
             orders'[Coid(a, LabelOf[p])] # NoOrder
      PROVE  Good
  BY <1>0, <1>5 DEF Reject, Finish
<1> HIDE DEF a, Good
<1>6. CASE Submit(p)
  <2>1. Begin(p, a, LabelOf[p]) /\ Record(p) /\ win[p].phase = "execute" /\ win[p].queue # <<>>
    BY <1>6 DEF Submit, a
  <2>2. ASSUME Item[a].sizing = "usd" PROVE Good
    BY <1>0, <2>1, <2>2 DEF Begin, Good
  <2>3. ASSUME Item[a].sizing # "usd" PROVE Good
    BY <1>1, <2>1, <2>3 DEF Begin
  <2> QED
    BY <2>1, <2>2, <2>3 DEF a, Good
<1>7. CASE Attempt(p)
  <2>1. Record(p)
    BY <1>7 DEF Attempt
  <2>2. ASSUME CheckFloors(p) PROVE Good
    BY <1>2, <1>4, <2>2 DEF CheckFloors
  <2>3. ASSUME Gate(p) PROVE Good
    <3>1. pc[p] # "idle" /\ orders' = orders
      BY <2>3 DEF Gate
    <3>2. ASSUME Reject(p, "missing_policy", "rejected_floor") \/ Reject(p, "risk", "rejected_risk") PROVE Good
      BY <1>2, <3>2
    <3>3. ASSUME Reject(p, "approved", "duplicate") /\ orders[Id(p)] # NoOrder PROVE Good
      BY <1>3, <1>5, <3>1, <3>3
    <3>4. ASSUME Advance(p, "submit") PROVE Good
      BY <1>4, <3>1, <3>4
    <3> QED
      BY <2>3, <3>2, <3>3, <3>4 DEF Gate
  <2>4. ASSUME BrokerAccepts(p) PROVE Good
    BY <1>4, <2>4 DEF BrokerAccepts, Accept
  <2>5. ASSUME BrokerRefuses(p) PROVE Good
    BY <1>1, <2>5 DEF BrokerRefuses
  <2>6. ASSUME Upsert(p) PROVE Good
    BY <1>4, <2>6 DEF Upsert
  <2>7. ASSUME Commit(p) /\ Conflict(p) PROVE Good
    BY <1>1, <2>7 DEF Commit
  <2>8. ASSUME Commit(p) /\ ~Conflict(p) PROVE Good
    <3>1. orders'[Id(p)] \in Rows
      BY <1>0, <2>8, CommitRow
    <3>2. pc[p] # "idle" /\ Reject(p, "approved", "submitted")
      BY <2>8 DEF Commit
    <3>3. orders'[Coid(a, LabelOf[p])] # NoOrder
      BY <1>3, <3>1, <3>2, ExecutionAssumption
    <3> QED
      BY <1>5, <3>2, <3>3
  <2>9. pc[p] # "idle"
    BY <1>7 DEF Attempt, CheckFloors, Gate, BrokerAccepts, Accept, BrokerRefuses, Upsert, Commit
  <2> QED
    BY <1>3, <1>7, <2>1, <2>2, <2>3, <2>4, <2>5, <2>6, <2>7, <2>8, <2>9 DEF Attempt, a, Good
<1>8. CASE AttemptFails(p)
  <2>1. pc[p] # "idle" /\ Finish(p, "exception") /\ Record(p)
    BY <1>8 DEF AttemptFails, AnswerLost, Accept, Fail
  <2> QED
    BY <1>1, <1>3, <2>1 DEF a, Good
<1> QED
  BY <1>6, <1>7, <1>8

\* The reports of a window that has recorded an attempt.
LEMMA Recorded ==
  ASSUME RunnerType, NEW p \in Procs, Record(p), pc'[p] = "idle",
         win[p].queue # <<>>, outcome'[p] \in Outcomes \ {"none"}
  PROVE  /\ Report(p) \in Reports /\ Report(p).action = Head(win[p].queue)
         /\ Report(p).status \in {"submitted", "duplicate"} =>
              outcome'[p] \in {"submitted", "duplicate"}
         /\ win'[p] = [win[p] EXCEPT !.queue = Tail(@), !.reports = Append(@, Report(p))]
         /\ win'[p] \in Windows
<1>1. win[p] \in Windows /\ win \in [Procs -> Windows]
  BY DEF RunnerType
<1>2. win[p].queue \in Seq(Actions) /\ win[p].reports \in Seq(Reports)
  BY <1>1 DEF Windows
<1>3. Head(win[p].queue) \in Actions /\ Tail(win[p].queue) \in Seq(Actions)
  BY <1>2
<1>4. /\ Report(p) \in Reports /\ Report(p).action = Head(win[p].queue)
      /\ Report(p).status \in {"submitted", "duplicate"} => outcome'[p] \in {"submitted", "duplicate"}
  BY <1>3 DEF Report, Reports, Outcomes
<1>5. win'[p] = [win[p] EXCEPT !.queue = Tail(@), !.reports = Append(@, Report(p))]
  BY <1>1 DEF Record, Become
<1>6. Append(win[p].reports, Report(p)) \in Seq(Reports)
  BY <1>2, <1>4
<1>7. win'[p] \in Windows
  BY <1>1, <1>3, <1>5, <1>6 DEF Windows
<1> QED
  BY <1>4, <1>5, <1>7

\* While an attempt goes on nothing is recorded.
LEMMA NotRecorded ==
  ASSUME NEW p, Record(p), pc'[p] # "idle"
  PROVE  UNCHANGED <<win, runs, trackRuns>>
BY DEF Record

\* The types survive every step.
LEMMA RunnerTypeStep ==
  ASSUME IInv, RunnerType, NEW p \in Procs, AttemptOK(p), Steps(p)
  PROVE  RunnerType'
<1>1. /\ win \in [Procs -> Windows] /\ win[p] \in Windows
      /\ runs \in [Procs -> Results \cup {"running"}]
      /\ trackRuns \in [Procs -> [WorkItems -> Results]]
      /\ kill \in BOOLEAN
  BY DEF RunnerType, RowsType, IInv, TypeOK, ControlType
<1>2. ASSUME NEW w \in Windows, Become(p, w) PROVE win' \in [Procs -> Windows]
  BY <1>1, <1>2 DEF Become
<1>3. ASSUME UNCHANGED trackRuns, runs' \in [Procs -> Results \cup {"running"}]
      PROVE  RowsType'
  BY <1>1, <1>3 DEF RowsType
<1>4. CASE Preflight(p)
  <2>1. RowsType'
    BY <1>1, <1>3, <1>4 DEF Preflight
  <2>2. WorkList \in Seq(WorkItems)
    BY RunnerAssumption
  <2>3. PICK w : /\ Become(p, w)
                 /\ \/ w = [win[p] EXCEPT !.phase = "persist", !.status = "aborted_kill",
                              !.result = [x \in WorkItems |-> "aborted_kill"], !.todo = WorkList]
                    \/ w = [win[p] EXCEPT !.phase = "agents",
                              !.result = [x \in WorkItems |->
                                IF ItemTrack[x] \in paused THEN "skipped_paused" ELSE "none"]]
    BY <1>4 DEF Preflight
  <2> DEFINE aborted == [x \in WorkItems |-> "aborted_kill"]
             began   == [x \in WorkItems |->
                           IF ItemTrack[x] \in paused THEN "skipped_paused" ELSE "none"]
  <2>4. aborted \in [WorkItems -> Results] /\ began \in [WorkItems -> Results]
    BY DEF Results
  <2> HIDE DEF aborted, began
  <2>5. /\ [win[p] EXCEPT !.phase = "persist", !.status = "aborted_kill",
              !.result = aborted, !.todo = WorkList] \in Windows
        /\ [win[p] EXCEPT !.phase = "agents", !.result = began] \in Windows
    BY <1>1, <2>2, <2>4 DEF Windows, Phases, Results
  <2>6. w \in Windows
    BY <2>3, <2>5 DEF aborted, began
  <2> QED
    BY <1>2, <2>1, <2>3, <2>6 DEF RunnerType
<1>5. CASE AgentsFinish(p)
  <2>1. RowsType'
    BY <1>1, <1>3, <1>5 DEF AgentsFinish
  <2> DEFINE runnable == {w \in WorkItems : win[p].result[w] = "none"}
  <2> DEFINE ending(r, judged) ==
               [win[p] EXCEPT !.phase = "recheck",
                  !.result = [w \in WorkItems |-> IF w \in runnable THEN r[w] ELSE win[p].result[w]],
                  !.judged = judged \cup {w \in runnable : r[w] = "ok"}]
  <2>2a. PICK r \in [runnable -> AgentResults] :
           \E judged \in SUBSET {w \in runnable : r[w] = "partial"} : Become(p, ending(r, judged))
    BY <1>5 DEF AgentsFinish
  <2>2. PICK judged \in SUBSET {w \in runnable : r[w] = "partial"} : Become(p, ending(r, judged))
    BY <2>2a
  <2>3. win[p].result \in [WorkItems -> Results] /\ AgentResults \subseteq Results
    BY <1>1, RunnerAssumption DEF Windows, Results
  <2>4. [w \in WorkItems |-> IF w \in runnable THEN r[w] ELSE win[p].result[w]]
           \in [WorkItems -> Results]
        /\ judged \cup {w \in runnable : r[w] = "ok"} \in SUBSET WorkItems
    BY <2>3
  <2> HIDE DEF runnable
  <2>5. ending(r, judged) \in Windows
    BY <1>1, <2>4 DEF Windows, Phases
  <2> QED
    BY <1>2, <2>1, <2>2, <2>5 DEF RunnerType
<1>6. CASE Recheck(p)
  <2>1. RowsType'
    BY <1>1, <1>3, <1>6 DEF Recheck
  <2> DEFINE r == win[p].result
             todo == ItemsWith(r, {"skipped_paused"}) \o ItemsWith(r, Results \ {"skipped_paused"})
  <2>2. Become(p, [win[p] EXCEPT !.phase = "persist", !.status = Aggregate(r, kill), !.todo = todo])
    BY <1>6 DEF Recheck
  <2>3. todo \in Seq(WorkItems)
    BY ItemsTyped
  <2>4. Aggregate(r, kill) \in Results
    BY DEF Aggregate, Results
  <2> HIDE DEF todo, r
  <2>5. [win[p] EXCEPT !.phase = "persist", !.status = Aggregate(r, kill), !.todo = todo] \in Windows
    BY <1>1, <2>3, <2>4 DEF Windows, Phases
  <2> QED
    BY <1>2, <2>1, <2>2, <2>5 DEF RunnerType
<1>7. CASE PersistOutcome(p)
  <2>1. win[p].todo \in Seq(WorkItems) /\ win[p].todo # <<>> /\ win[p].result \in [WorkItems -> Results]
    BY <1>1, <1>7 DEF PersistOutcome, Windows
  <2>2. Tail(win[p].todo) \in Seq(WorkItems) /\ Outcome(p) \in WorkItems
    BY <2>1 DEF Outcome
  <2>3. RowsType'
    BY <1>1, <1>7, <2>1, <2>2 DEF PersistOutcome, Store, RowsType
  <2>4. [win[p] EXCEPT !.todo = Tail(@)] \in Windows
    BY <1>1, <2>2 DEF Windows
  <2> QED
    BY <1>2, <1>7, <2>3, <2>4 DEF PersistOutcome, RunnerType
<1>8. CASE Finalize(p)
  <2>1. RowsType'
    BY <1>1, <1>3, <1>8 DEF Finalize, Windows
  <2>2. Submittable(p) \in Seq(Actions)
    BY SubmittableSound
  <2>3. [win[p] EXCEPT !.phase = "ended"] \in Windows
        /\ [win[p] EXCEPT !.phase = "execute", !.queue = Submittable(p)] \in Windows
    BY <1>1, <2>2 DEF Windows, Phases
  <2> QED
    BY <1>2, <1>8, <2>1, <2>3 DEF Finalize, RunnerType
<1>9. CASE Submit(p) \/ Attempt(p) \/ AttemptFails(p)
  <2>1. Record(p) /\ win[p].queue # <<>>
        /\ (pc'[p] = "idle" => outcome'[p] \in Outcomes \ {"none"})
    BY <1>9, AttemptEnds
  <2>2. RowsType'
    BY <1>1, <1>3, <2>1 DEF Record
  <2>3. win' \in [Procs -> Windows]
    <3>1. CASE pc'[p] = "idle"
      <4>1. win'[p] \in Windows
        BY <2>1, <3>1, Recorded
      <4>2. PICK w : Become(p, w)
        BY <2>1, <3>1 DEF Record
      <4>3. win'[p] = w
        BY <1>1, <4>2 DEF Become
      <4> QED
        BY <1>2, <4>1, <4>2, <4>3
    <3>2. CASE pc'[p] # "idle"
      BY <1>1, <2>1, <3>2, NotRecorded
    <3> QED
      BY <3>1, <3>2
  <2> QED
    BY <2>2, <2>3 DEF RunnerType
<1>10. CASE EndExecution(p) \/ Dies(p)
  <2>1. RowsType'
    BY <1>1, <1>3, <1>10 DEF EndExecution, Dies
  <2>2. [win[p] EXCEPT !.phase = "ended"] \in Windows /\ [win[p] EXCEPT !.phase = "dead"] \in Windows
    BY <1>1 DEF Windows, Phases
  <2> QED
    BY <1>2, <1>10, <2>1, <2>2 DEF EndExecution, Dies, RunnerType
<1> QED
  BY <1>4, <1>5, <1>6, <1>7, <1>8, <1>9, <1>10 DEF Steps

-----------------------------------------------------------------------------
(* What each step makes of the invocation's record.                        *)

\* The record of an invocation after its step.
LEMMA NewWindow ==
  ASSUME RunnerType, NEW p \in Procs, NEW w, Become(p, w)
  PROVE  win'[p] = w
BY DEF Become, RunnerType

\* The stages: what is known of the results and the judges at each of them.
LEMMA StageStep ==
  ASSUME IInv, RunnerType, NEW p \in Procs, AttemptOK(p), StageOK(p), Steps(p)
  PROVE  StageOK(p)'
<1>1. win[p] \in Windows /\ kill \in BOOLEAN
  BY DEF RunnerType, IInv, TypeOK, ControlType
<1>2. ASSUME win'[p].result = win[p].result, win'[p].judged = win[p].judged,
             win'[p].status = win[p].status, win'[p].phase = win[p].phase
      PROVE  StageOK(p)'
  BY <1>2 DEF StageOK, Tells
<1>3. ASSUME NEW f \in {"ended", "dead"}, win[p].phase \notin {"off", "agents", "recheck", "dead"} \/ f = "dead",
             win'[p] = [win[p] EXCEPT !.phase = f]
      PROVE  StageOK(p)'
  <2>1. /\ win'[p].result = win[p].result /\ win'[p].judged = win[p].judged
        /\ win'[p].status = win[p].status /\ win'[p].phase = f
    BY <1>1, <1>3 DEF Windows
  <2>2. win[p].phase \in Phases
    BY <1>1 DEF Windows
  <2> QED
    BY <1>3, <2>1, <2>2 DEF StageOK, Tells, Phases
<1>4. CASE Preflight(p)
  <2>1. win[p].judged = {} /\ win[p].status = "none"
    BY <1>4 DEF Preflight, StageOK
  <2>2. CASE kill
    <3>1. win'[p] = [win[p] EXCEPT !.phase = "persist", !.status = "aborted_kill",
                       !.result = [w \in WorkItems |-> "aborted_kill"], !.todo = WorkList]
      BY <1>4, <2>2, NewWindow DEF Preflight
    <3>2. /\ win'[p].phase = "persist" /\ win'[p].status = "aborted_kill"
          /\ win'[p].judged = {}
      BY <1>1, <2>1, <3>1 DEF Windows
    <3> QED
      BY <3>2 DEF StageOK, Tells
  <2>3. CASE ~kill
    <3>1. win'[p] = [win[p] EXCEPT !.phase = "agents",
                       !.result = [w \in WorkItems |->
                         IF ItemTrack[w] \in paused THEN "skipped_paused" ELSE "none"]]
      BY <1>4, <2>3, NewWindow DEF Preflight
    <3>2. /\ win'[p].phase = "agents" /\ win'[p].status = "none" /\ win'[p].judged = {}
          /\ win'[p].result = [w \in WorkItems |->
                         IF ItemTrack[w] \in paused THEN "skipped_paused" ELSE "none"]
      BY <1>1, <2>1, <3>1 DEF Windows
    <3>3. \A w \in WorkItems : win'[p].result[w] \in {"none", "skipped_paused"}
      BY <3>2
    <3> QED
      BY <3>2, <3>3 DEF StageOK, Tells
  <2> QED
    BY <2>2, <2>3
<1>5. CASE AgentsFinish(p)
  <2> DEFINE runnable == {w \in WorkItems : win[p].result[w] = "none"}
             ending(r, judged) ==
               [win[p] EXCEPT !.phase = "recheck",
                  !.result = [w \in WorkItems |-> IF w \in runnable THEN r[w] ELSE win[p].result[w]],
                  !.judged = judged \cup {w \in runnable : r[w] = "ok"}]
  <2>1. PICK r \in [runnable -> AgentResults] :
           \E judged \in SUBSET {w \in runnable : r[w] = "partial"} : Become(p, ending(r, judged))
    BY <1>5 DEF AgentsFinish
  <2>2. PICK judged \in SUBSET {w \in runnable : r[w] = "partial"} : Become(p, ending(r, judged))
    BY <2>1
  <2>3. win'[p] = ending(r, judged)
    BY <2>2, NewWindow
  <2>4. win[p].status = "none" /\ \A w \in WorkItems : win[p].result[w] \in {"none", "skipped_paused"}
    BY <1>5 DEF AgentsFinish, StageOK
  <2>5. \A w \in runnable : r[w] \in {"ok", "partial", "failed"}
    BY RunnerAssumption
  <2>6. /\ win'[p].phase = "recheck" /\ win'[p].status = "none"
        /\ win'[p].judged = judged \cup {w \in runnable : r[w] = "ok"}
        /\ win'[p].result = [w \in WorkItems |-> IF w \in runnable THEN r[w] ELSE win[p].result[w]]
    BY <1>1, <2>3, <2>4 DEF Windows
  <2>7. \A w \in WorkItems : win'[p].result[w] \in {"ok", "partial", "failed", "skipped_paused"}
    BY <2>4, <2>5, <2>6
  <2>8. \A w \in win'[p].judged : win'[p].result[w] \in {"ok", "partial"}
    BY <2>6
  <2> QED
    BY <2>6, <2>7, <2>8 DEF StageOK, Tells
<1>6. CASE Recheck(p)
  <2> DEFINE r == win[p].result
             todo == ItemsWith(r, {"skipped_paused"}) \o ItemsWith(r, Results \ {"skipped_paused"})
  <2>1. win'[p] = [win[p] EXCEPT !.phase = "persist", !.status = Aggregate(r, kill), !.todo = todo]
    BY <1>6, NewWindow DEF Recheck
  <2>2. /\ \A w \in WorkItems : r[w] \in {"ok", "partial", "failed", "skipped_paused"}
        /\ \A w \in win[p].judged : r[w] \in {"ok", "partial"}
    BY <1>6 DEF Recheck, StageOK
  <2>3. Tells(Aggregate(r, kill), r) /\ Aggregate(r, kill) \in {"ok", "partial", "failed", "aborted_kill"}
    BY <1>1, <2>2, AggregateTells
  <2> HIDE DEF todo
  <2>4. /\ win'[p].phase = "persist" /\ win'[p].status = Aggregate(r, kill)
        /\ win'[p].judged = win[p].judged /\ win'[p].result = r
    BY <1>1, <2>1 DEF Windows
  <2> HIDE DEF r
  <2> QED
    BY <2>2, <2>3, <2>4 DEF StageOK, Tells
<1>7. CASE PersistOutcome(p)
  <2>1. win'[p] = [win[p] EXCEPT !.todo = Tail(@)]
    BY <1>7, NewWindow DEF PersistOutcome
  <2> QED
    BY <1>1, <1>2, <2>1 DEF Windows
<1>8. CASE Finalize(p)
  <2>1. CASE win[p].status = "aborted_kill"
    BY <1>3, <1>8, <2>1, NewWindow DEF Finalize
  <2>2. CASE win[p].status # "aborted_kill"
    <3>1. win'[p] = [win[p] EXCEPT !.phase = "execute", !.queue = Submittable(p)]
      BY <1>8, <2>2, NewWindow DEF Finalize
    <3>2. /\ win'[p].result = win[p].result /\ win'[p].judged = win[p].judged
          /\ win'[p].status = win[p].status /\ win'[p].phase = "execute"
      BY <1>1, <3>1 DEF Windows
    <3>3. win[p].phase = "persist"
      BY <1>8 DEF Finalize
    <3> QED
      BY <2>2, <3>2, <3>3 DEF StageOK, Tells
  <2> QED
    BY <2>1, <2>2
<1>9. CASE Submit(p) \/ Attempt(p) \/ AttemptFails(p)
  <2>1. Record(p) /\ win[p].queue # <<>>
        /\ (pc'[p] = "idle" => outcome'[p] \in Outcomes \ {"none"})
    BY <1>9, AttemptEnds
  <2>2. CASE pc'[p] = "idle"
    <3>1. win'[p] = [win[p] EXCEPT !.queue = Tail(@), !.reports = Append(@, Report(p))]
      BY <2>1, <2>2, Recorded
    <3> QED
      BY <1>1, <1>2, <3>1 DEF Windows
  <2>3. CASE pc'[p] # "idle"
    BY <1>2, <2>1, <2>3, NotRecorded
  <2> QED
    BY <2>2, <2>3
<1>10. CASE EndExecution(p)
  BY <1>3, <1>10, NewWindow DEF EndExecution
<1>11. CASE Dies(p)
  BY <1>3, <1>11, NewWindow DEF Dies
<1> QED
  BY <1>4, <1>5, <1>6, <1>7, <1>8, <1>9, <1>10, <1>11 DEF Steps

\* Once a window has a status, its results and its judges' decisions stay.
LEMMA DecisionsStay ==
  ASSUME IInv, RunnerType, NEW p \in Procs, AttemptOK(p), StageOK(p), Steps(p),
         win[p].status # "none"
  PROVE  /\ win'[p].status = win[p].status /\ win'[p].result = win[p].result
         /\ win'[p].judged = win[p].judged
<1>1. win[p] \in Windows
  BY DEF RunnerType
<1>2. win[p].phase \notin {"off", "agents", "recheck"}
  BY DEF StageOK
<1>3. CASE PersistOutcome(p)
  <2>1. win'[p] = [win[p] EXCEPT !.todo = Tail(@)]
    BY <1>3, NewWindow DEF PersistOutcome
  <2> QED
    BY <1>1, <2>1 DEF Windows
<1>4. CASE Finalize(p)
  <2>1. \/ win'[p] = [win[p] EXCEPT !.phase = "execute", !.queue = Submittable(p)]
        \/ win'[p] = [win[p] EXCEPT !.phase = "ended"]
    BY <1>4, NewWindow DEF Finalize
  <2> QED
    BY <1>1, <2>1 DEF Windows
<1>5. CASE Submit(p) \/ Attempt(p) \/ AttemptFails(p)
  <2>1. Record(p) /\ win[p].queue # <<>>
        /\ (pc'[p] = "idle" => outcome'[p] \in Outcomes \ {"none"})
    BY <1>5, AttemptEnds
  <2>2. CASE pc'[p] = "idle"
    <3>1. win'[p] = [win[p] EXCEPT !.queue = Tail(@), !.reports = Append(@, Report(p))]
      BY <2>1, <2>2, Recorded
    <3> QED
      BY <1>1, <3>1 DEF Windows
  <2>3. CASE pc'[p] # "idle"
    BY <2>1, <2>3, NotRecorded
  <2> QED
    BY <2>2, <2>3
<1>6. CASE EndExecution(p) \/ Dies(p)
  <2>1. win'[p] = [win[p] EXCEPT !.phase = "ended"] \/ win'[p] = [win[p] EXCEPT !.phase = "dead"]
    BY <1>6, NewWindow DEF EndExecution, Dies
  <2> QED
    BY <1>1, <2>1 DEF Windows
<1> QED
  BY <1>2, <1>3, <1>4, <1>5, <1>6 DEF Steps, Preflight, AgentsFinish, Recheck

\* A window writes its rows when it has a status, from its status and results.
LEMMA RowsStep ==
  ASSUME IInv, RunnerType, NEW p \in Procs, AttemptOK(p), StageOK(p), RowsOK(p), Steps(p)
  PROVE  RowsOK(p)'
<1>1. /\ win[p] \in Windows /\ runs \in [Procs -> Results \cup {"running"}]
      /\ trackRuns \in [Procs -> [WorkItems -> Results]]
  BY DEF RunnerType, RowsType
<1>2. CASE win[p].status = "none"
  <2>1. \A w \in WorkItems : trackRuns[p][w] = "none"
    BY <1>2 DEF RowsOK
  <2>2. runs[p] \in {"none", "running"}
    BY <1>2 DEF RowsOK
  <2>3. win[p].phase \notin {"persist", "execute", "ended"}
    BY <1>2 DEF StageOK
  <2>4. ~(Submit(p) \/ Attempt(p) \/ AttemptFails(p) \/ PersistOutcome(p) \/ Finalize(p) \/ EndExecution(p))
    BY <2>3 DEF Submit, Attempt, AttemptFails, PersistOutcome, Finalize, EndExecution
  <2>5. UNCHANGED trackRuns /\ runs'[p] \in {"none", "running"}
    BY <1>1, <2>2, <2>4 DEF Steps, Preflight, AgentsFinish, Recheck, Dies
  <2> QED
    BY <2>1, <2>5 DEF RowsOK
<1>3. CASE win[p].status # "none"
  <2>1. /\ win'[p].status = win[p].status /\ win'[p].result = win[p].result
    BY <1>3, DecisionsStay
  <2>2. win[p].phase \notin {"off", "agents", "recheck"}
    BY <1>3 DEF StageOK
  <2>3. \A w \in WorkItems : trackRuns'[p][w] = trackRuns[p][w] \/ trackRuns'[p][w] = win[p].result[w]
    <3>1. CASE UNCHANGED trackRuns
      BY <3>1
    <3>2. CASE PersistOutcome(p)
      BY <1>1, <3>2 DEF PersistOutcome, Store
    <3> QED
      BY <2>2, <3>1, <3>2 DEF Steps, Preflight, AgentsFinish, Recheck, Finalize, Submit, Attempt,
        AttemptFails, EndExecution, Dies, Record
  <2>4. runs'[p] = runs[p] \/ runs'[p] = win[p].status
    <3>1. CASE UNCHANGED runs
      BY <3>1
    <3>2. CASE Finalize(p)
      BY <1>1, <3>2 DEF Finalize
    <3> QED
      BY <2>2, <3>1, <3>2 DEF Steps, Preflight, AgentsFinish, Recheck, PersistOutcome, Submit, Attempt,
        AttemptFails, EndExecution, Dies, Record
  <2> QED
    BY <1>3, <2>1, <2>3, <2>4 DEF RowsOK
<1> QED
  BY <1>2, <1>3

\* An attempt is for the head of the queue, which waits until it is over.
LEMMA AttemptStep ==
  ASSUME IInv, RunnerType, NEW p \in Procs, AttemptOK(p), Steps(p)
  PROVE  AttemptOK(p)'
<1>0. win[p] \in Windows /\ pc \in [Procs -> {"idle", "floors", "gate", "submit", "answered", "commit"}]
  BY DEF RunnerType, IInv, TypeOK, AdapterType
<1>1. ASSUME UNCHANGED vars, win[p].phase # "execute" PROVE AttemptOK(p)'
  BY <1>1 DEF AttemptOK, vars, adapter
<1>2. CASE Preflight(p) \/ AgentsFinish(p) \/ Recheck(p) \/ Finalize(p)
  BY <1>1, <1>2 DEF Preflight, AgentsFinish, Recheck, Finalize
<1>3. CASE PersistOutcome(p)
  BY <1>3 DEF PersistOutcome, Store, PersistPlan, AttemptOK, vars, adapter
<1>4. CASE EndExecution(p)
  BY <1>4 DEF EndExecution, AttemptOK, vars, adapter
<1>5. CASE Submit(p) \/ Attempt(p) \/ AttemptFails(p)
  <2>1. CASE pc'[p] = "idle"
    BY <2>1 DEF AttemptOK
  <2>2. CASE pc'[p] # "idle"
    BY <1>5, <2>2, AttemptEnds, NotRecorded DEF AttemptOK
  <2> QED
    BY <2>1, <2>2
<1>6. CASE Dies(p)
  BY <1>0, <1>6 DEF Dies, Fail, Finish, AttemptOK, vars, adapter
<1> QED
  BY <1>2, <1>3, <1>4, <1>5, <1>6 DEF Steps

\* What is queued was decided by a judge, and no report precedes the
\* execution.
LEMMA QueueStep ==
  ASSUME IInv, RunnerType, NEW p \in Procs, AttemptOK(p), StageOK(p), QueueOK(p), Steps(p)
  PROVE  QueueOK(p)'
<1>1. /\ win[p] \in Windows /\ win[p].queue \in Seq(Actions)
  BY DEF RunnerType, Windows
<1>2. ASSUME win'[p].queue = win[p].queue, win'[p].reports = win[p].reports,
             win'[p].judged = win[p].judged \/ win[p].queue = <<>>,
             win'[p].phase \in {"execute", "ended", "dead"}
                \/ win[p].phase \notin {"execute", "ended", "dead"}
      PROVE  QueueOK(p)'
  <2>1. CASE win[p].queue = <<>>
    BY <1>2, <2>1 DEF QueueOK, ToSet
  <2>2. CASE win'[p].judged = win[p].judged
    BY <1>2, <2>2 DEF QueueOK, PlanOf
  <2> QED
    BY <1>2, <2>1, <2>2
<1>3. CASE Preflight(p)
  <2>1. win[p].queue = <<>> /\ win[p].phase = "off"
    BY <1>3 DEF Preflight, QueueOK
  <2>2. PICK r, t, s, f : \/ Become(p, [win[p] EXCEPT !.phase = f, !.status = s, !.result = r, !.todo = t])
                          \/ Become(p, [win[p] EXCEPT !.phase = f, !.result = r])
    BY <1>3 DEF Preflight
  <2>3. win'[p].queue = win[p].queue /\ win'[p].reports = win[p].reports
    BY <1>1, <2>2, NewWindow DEF Windows
  <2> QED
    BY <1>2, <2>1, <2>3
<1>4. CASE AgentsFinish(p)
  <2>1. win[p].queue = <<>> /\ win[p].phase = "agents"
    BY <1>4 DEF AgentsFinish, QueueOK
  <2>2. PICK r, j : Become(p, [win[p] EXCEPT !.phase = "recheck", !.result = r, !.judged = j])
    BY <1>4 DEF AgentsFinish
  <2>3. win'[p].queue = win[p].queue /\ win'[p].reports = win[p].reports
    BY <1>1, <2>2, NewWindow DEF Windows
  <2> QED
    BY <1>2, <2>1, <2>3
<1>5. CASE Recheck(p)
  <2>1. win[p].queue = <<>> /\ win[p].phase = "recheck"
    BY <1>5 DEF Recheck, QueueOK
  <2>2. PICK s, t : Become(p, [win[p] EXCEPT !.phase = "persist", !.status = s, !.todo = t])
    BY <1>5 DEF Recheck
  <2>3. win'[p].queue = win[p].queue /\ win'[p].reports = win[p].reports
    BY <1>1, <2>2, NewWindow DEF Windows
  <2> QED
    BY <1>2, <2>1, <2>3
<1>6. CASE PersistOutcome(p)
  <2>1. win'[p] = [win[p] EXCEPT !.todo = Tail(@)]
    BY <1>6, NewWindow DEF PersistOutcome
  <2>2. /\ win'[p].queue = win[p].queue /\ win'[p].reports = win[p].reports
        /\ win'[p].judged = win[p].judged /\ win'[p].phase = win[p].phase
    BY <1>1, <2>1 DEF Windows
  <2> QED
    BY <1>2, <2>2
<1>7. CASE Finalize(p)
  <2>0. win[p].queue = <<>> /\ win[p].reports = <<>>
    BY <1>7 DEF Finalize, QueueOK
  <2>1. CASE win[p].status = "aborted_kill"
    <3>1. win'[p] = [win[p] EXCEPT !.phase = "ended"]
      BY <1>7, <2>1, NewWindow DEF Finalize
    <3>2. /\ win'[p].queue = win[p].queue /\ win'[p].reports = win[p].reports
          /\ win'[p].phase = "ended"
      BY <1>1, <3>1 DEF Windows
    <3> QED
      BY <1>2, <2>0, <3>2
  <2>2. CASE win[p].status # "aborted_kill"
    <3>1. win'[p] = [win[p] EXCEPT !.phase = "execute", !.queue = Submittable(p)]
      BY <1>7, <2>2, NewWindow DEF Finalize
    <3>2. /\ win'[p].queue = Submittable(p) /\ win'[p].phase = "execute"
          /\ win'[p].judged = win[p].judged
      BY <1>1, <3>1 DEF Windows
    <3>3. \A a \in ToSet(Submittable(p)) : \E w \in WorkItems : a \in PlanOf(p, w)
      BY SubmittableSound
    <3> HIDE DEF ToSet
    <3> QED
      BY <3>2, <3>3 DEF QueueOK, PlanOf
  <2> QED
    BY <2>1, <2>2
<1>8. CASE Submit(p) \/ Attempt(p) \/ AttemptFails(p)
  <2>1. Record(p) /\ win[p].queue # <<>> /\ win[p].phase = "execute"
        /\ (pc'[p] = "idle" => outcome'[p] \in Outcomes \ {"none"})
    BY <1>8, AttemptEnds
  <2>2. CASE pc'[p] = "idle"
    <3>1. win'[p] = [win[p] EXCEPT !.queue = Tail(@), !.reports = Append(@, Report(p))]
      BY <2>1, <2>2, Recorded
    <3>2. /\ win'[p].queue = Tail(win[p].queue) /\ win'[p].phase = "execute"
          /\ win'[p].judged = win[p].judged
      BY <1>1, <2>1, <3>1 DEF Windows
    <3>3. ToSet(Tail(win[p].queue)) \subseteq ToSet(win[p].queue)
      BY <1>1, <2>1 DEF ToSet
    <3>4. \A a \in ToSet(win[p].queue) : \E w \in WorkItems : a \in PlanOf(p, w)
      BY DEF QueueOK
    <3> QED
      BY <3>2, <3>3, <3>4 DEF QueueOK, PlanOf
  <2>3. CASE pc'[p] # "idle"
    BY <1>2, <2>1, <2>3, NotRecorded
  <2> QED
    BY <2>2, <2>3
<1>9. CASE EndExecution(p) \/ Dies(p)
  <2>1. win'[p] = [win[p] EXCEPT !.phase = "ended"] \/ win'[p] = [win[p] EXCEPT !.phase = "dead"]
    BY <1>9, NewWindow DEF EndExecution, Dies
  <2>2. /\ win'[p].queue = win[p].queue /\ win'[p].reports = win[p].reports
        /\ win'[p].judged = win[p].judged /\ win'[p].phase \in {"ended", "dead"}
    BY <1>1, <2>1 DEF Windows
  <2> QED
    BY <1>2, <2>2
<1> QED
  BY <1>3, <1>4, <1>5, <1>6, <1>7, <1>8, <1>9 DEF Steps

-----------------------------------------------------------------------------
(* Answers and reports.                                                    *)

\* Reporting the head of the queue moves it from the queue to the reports.
LEMMA AnswerMoves ==
  ASSUME NEW reports \in Seq(Reports), NEW queue \in Seq(Actions), queue # <<>>,
         NEW r \in Reports, r.action = Head(queue)
  PROVE  [i \in DOMAIN Append(reports, r) |-> Append(reports, r)[i].action] \o Tail(queue)
           = [i \in DOMAIN reports |-> reports[i].action] \o queue
<1> DEFINE done == [i \in DOMAIN reports |-> reports[i].action]
           more == [i \in DOMAIN Append(reports, r) |-> Append(reports, r)[i].action]
<1>1. /\ DOMAIN reports = 1..Len(reports) /\ Len(reports) \in Nat
      /\ DOMAIN Append(reports, r) = 1..(Len(reports) + 1)
      /\ \A i \in 1..Len(reports) : Append(reports, r)[i] = reports[i]
      /\ Append(reports, r)[Len(reports) + 1] = r
  OBVIOUS
<1>2. \A x \in Reports : x.action \in Actions
  BY DEF Reports
<1>3. done \in Seq(Actions) /\ Len(done) = Len(reports)
      /\ \A i \in 1..Len(reports) : done[i] = reports[i].action
  <2>1. \A i \in 1..Len(reports) : reports[i].action \in Actions
    BY <1>2
  <2> QED
    BY <1>1, <2>1
<1>4. more = Append(done, Head(queue))
  <2>1. Append(done, Head(queue)) = [i \in 1..(Len(done) + 1) |->
            IF i = Len(done) + 1 THEN Head(queue) ELSE done[i]]
    BY <1>3
  <2>2. \A i \in 1..(Len(reports) + 1) :
          Append(reports, r)[i].action = IF i = Len(reports) + 1 THEN Head(queue) ELSE done[i]
    BY <1>1, <1>3
  <2> HIDE DEF done
  <2> QED
    BY <1>1, <1>3, <2>1, <2>2
<1>5. queue = <<Head(queue)>> \o Tail(queue)
  OBVIOUS
<1> HIDE DEF done, more
<1>6. Append(done, Head(queue)) \o Tail(queue) = done \o queue
  <2>1. Head(queue) \in Actions /\ Tail(queue) \in Seq(Actions)
    OBVIOUS
  <2> QED
    BY <1>3, <2>1
<1> QED
  BY <1>4, <1>6 DEF done, more

\* Reports and queue together stay what the window set out to submit.
LEMMA AnsweredStep ==
  ASSUME IInv, RunnerType, NEW p \in Procs, AttemptOK(p), StageOK(p), QueueOK(p),
         AnsweredOK(p), Steps(p)
  PROVE  AnsweredOK(p)'
<1> DEFINE Answers(reports) == [i \in DOMAIN reports |-> reports[i].action]
           Due == IF win[p].status = "aborted_kill" THEN <<>> ELSE Submittable(p)
           Sum == Answers(win[p].reports) \o win[p].queue
<1>1. /\ win[p] \in Windows /\ win[p].queue \in Seq(Actions) /\ win[p].reports \in Seq(Reports)
  BY DEF RunnerType, Windows
<1>2. CASE win'[p].phase \notin {"execute", "ended"}
  BY <1>2 DEF AnsweredOK
<1>3. CASE win'[p].phase \in {"execute", "ended"}
  <2>1. Finalize(p) \/ Submit(p) \/ Attempt(p) \/ AttemptFails(p) \/ EndExecution(p)
    <3>1. ASSUME NEW w, Become(p, w), w.phase \notin {"execute", "ended"} PROVE FALSE
      BY <1>3, <3>1, NewWindow
    <3>2. CASE Preflight(p)
      <4>1. PICK r, t, s :
              \/ Become(p, [win[p] EXCEPT !.phase = "persist", !.status = s, !.result = r, !.todo = t])
              \/ Become(p, [win[p] EXCEPT !.phase = "agents", !.result = r])
        BY <3>2 DEF Preflight
      <4> QED
        BY <1>1, <3>1, <4>1 DEF Windows
    <3>3. CASE AgentsFinish(p)
      <4>1. PICK r, j : Become(p, [win[p] EXCEPT !.phase = "recheck", !.result = r, !.judged = j])
        BY <3>3 DEF AgentsFinish
      <4> QED
        BY <1>1, <3>1, <4>1 DEF Windows
    <3>4. CASE Recheck(p)
      <4>1. PICK s, t : Become(p, [win[p] EXCEPT !.phase = "persist", !.status = s, !.todo = t])
        BY <3>4 DEF Recheck
      <4> QED
        BY <1>1, <3>1, <4>1 DEF Windows
    <3>5. CASE PersistOutcome(p)
      <4>1. win[p].phase = "persist" /\ Become(p, [win[p] EXCEPT !.todo = Tail(@)])
        BY <3>5 DEF PersistOutcome
      <4> QED
        BY <1>1, <3>1, <4>1 DEF Windows
    <3>6. CASE Dies(p)
      BY <1>1, <3>1, <3>6 DEF Dies, Windows
    <3> QED
      BY <3>2, <3>3, <3>4, <3>5, <3>6 DEF Steps
  <2>2. win[p].phase \in {"persist", "execute"}
    BY <2>1 DEF Finalize, Submit, Attempt, AttemptFails, EndExecution
  <2>3. win[p].status # "none"
    BY <2>2 DEF StageOK
  <2>4. win'[p].status = win[p].status /\ Submittable(p)' = Submittable(p)
    BY <2>3, DecisionsStay DEF Submittable
  <2>5. ASSUME Answers(win'[p].reports) \o win'[p].queue = Due PROVE AnsweredOK(p)'
    BY <2>4, <2>5 DEF AnsweredOK
  <2>6. win[p].phase = "execute" => Sum = Due
    BY DEF AnsweredOK
  <2> HIDE DEF Due
  <2>7. CASE Finalize(p)
    <3>1. win[p].queue = <<>> /\ win[p].reports = <<>>
      BY <2>7 DEF Finalize, QueueOK
    <3>2. CASE win[p].status = "aborted_kill"
      <4>1. win'[p] = [win[p] EXCEPT !.phase = "ended"]
        BY <2>7, <3>2, NewWindow DEF Finalize
      <4>2. win'[p].queue = <<>> /\ win'[p].reports = <<>>
        BY <1>1, <3>1, <4>1 DEF Windows
      <4>3. Answers(<<>>) \o <<>> = <<>>
        OBVIOUS
      <4> QED
        BY <2>5, <3>2, <4>2, <4>3 DEF Due
    <3>3. CASE win[p].status # "aborted_kill"
      <4>1. win'[p] = [win[p] EXCEPT !.phase = "execute", !.queue = Submittable(p)]
        BY <2>7, <3>3, NewWindow DEF Finalize
      <4>2. win'[p].queue = Submittable(p) /\ win'[p].reports = <<>>
        BY <1>1, <3>1, <4>1 DEF Windows
      <4>3. Submittable(p) \in Seq(Actions)
        BY SubmittableSound
      <4>4. Answers(<<>>) \o Submittable(p) = Submittable(p)
        BY <4>3
      <4> QED
        BY <2>5, <3>3, <4>2, <4>4 DEF Due
    <3> QED
      BY <3>2, <3>3
  <2>8. CASE Submit(p) \/ Attempt(p) \/ AttemptFails(p)
    <3>1. Record(p) /\ win[p].queue # <<>> /\ win[p].phase = "execute"
          /\ (pc'[p] = "idle" => outcome'[p] \in Outcomes \ {"none"})
      BY <2>8, AttemptEnds
    <3>2. CASE pc'[p] = "idle"
      <4>1. /\ win'[p] = [win[p] EXCEPT !.queue = Tail(@), !.reports = Append(@, Report(p))]
            /\ Report(p) \in Reports /\ Report(p).action = Head(win[p].queue)
        BY <3>1, <3>2, Recorded
      <4>2. win'[p].queue = Tail(win[p].queue) /\ win'[p].reports = Append(win[p].reports, Report(p))
        BY <1>1, <4>1 DEF Windows
      <4>3. Answers(Append(win[p].reports, Report(p))) \o Tail(win[p].queue) = Sum
        BY <1>1, <3>1, <4>1, AnswerMoves
      <4> QED
        BY <2>5, <2>6, <3>1, <4>2, <4>3
    <3>3. CASE pc'[p] # "idle"
      <4>1. win' = win
        BY <3>1, <3>3, NotRecorded
      <4> QED
        BY <2>5, <2>6, <3>1, <4>1
    <3> QED
      BY <3>2, <3>3
  <2>9. CASE EndExecution(p)
    <3>1. win'[p] = [win[p] EXCEPT !.phase = "ended"] /\ win[p].phase = "execute"
      BY <2>9, NewWindow DEF EndExecution
    <3>2. win'[p].queue = win[p].queue /\ win'[p].reports = win[p].reports
      BY <1>1, <3>1 DEF Windows
    <3> QED
      BY <2>5, <2>6, <3>1, <3>2
  <2> QED
    BY <2>1, <2>7, <2>8, <2>9
<1> QED
  BY <1>2, <1>3

\* A report of a submission has its row, also after the steps of others.
LEMMA BookedStep ==
  ASSUME IInv, RunnerType, [RNext]_rvars, NEW p \in Procs, AttemptOK(p), BookedOK(p)
  PROVE  BookedOK(p)'
<1>1. /\ win[p] \in Windows /\ win[p].reports \in Seq(Reports) /\ LabelOf[p] \in Labels
      /\ TypeOK /\ AttemptSound /\ [Next]_vars
  BY StepDrives, RunnerAssumption DEF RunnerType, Windows, IInv
<1>2. \A a \in Actions : orders[Coid(a, LabelOf[p])] # NoOrder => orders'[Coid(a, LabelOf[p])] # NoOrder
  BY <1>1, CoidTyped, OrdersStay
<1>3. \A i \in DOMAIN win[p].reports : win[p].reports[i].action \in Actions
  <2>1. \A i \in DOMAIN win[p].reports : win[p].reports[i] \in Reports
    BY <1>1
  <2> QED
    BY <2>1 DEF Reports
<1>4. \A i \in DOMAIN win[p].reports :
        win[p].reports[i].status \in {"submitted", "duplicate"} =>
          orders'[Coid(win[p].reports[i].action, LabelOf[p])] # NoOrder
  BY <1>2, <1>3 DEF BookedOK
<1>5. CASE win'[p].reports = win[p].reports
  BY <1>4, <1>5 DEF BookedOK, Coid, Intent
<1>6. CASE Submit(p) \/ Attempt(p) \/ AttemptFails(p)
  <2>1. /\ Record(p) /\ win[p].queue # <<>>
        /\ (pc'[p] = "idle" => outcome'[p] \in Outcomes \ {"none"})
        /\ pc'[p] = "idle" /\ outcome'[p] \in {"submitted", "duplicate"} =>
             orders'[Coid(Head(win[p].queue), LabelOf[p])] # NoOrder
    BY <1>6, AttemptEnds
  <2>2. CASE pc'[p] = "idle"
    <3>1. /\ win'[p] = [win[p] EXCEPT !.queue = Tail(@), !.reports = Append(@, Report(p))]
          /\ Report(p) \in Reports /\ Report(p).action = Head(win[p].queue)
          /\ Report(p).status \in {"submitted", "duplicate"} => outcome'[p] \in {"submitted", "duplicate"}
      BY <2>1, <2>2, Recorded
    <3>2. win'[p].reports = Append(win[p].reports, Report(p))
      BY <1>1, <3>1 DEF Windows
    <3>3. Report(p).status \in {"submitted", "duplicate"} =>
            orders'[Coid(Report(p).action, LabelOf[p])] # NoOrder
      BY <2>1, <2>2, <3>1
    <3> DEFINE new == Report(p)
    <3> HIDE DEF new
    <3>4. \A i \in DOMAIN Append(win[p].reports, new) :
            \/ i \in DOMAIN win[p].reports /\ Append(win[p].reports, new)[i] = win[p].reports[i]
            \/ Append(win[p].reports, new)[i] = new
      BY <1>1
    <3>5. \A i \in DOMAIN win'[p].reports :
            win'[p].reports[i].status \in {"submitted", "duplicate"} =>
              orders'[Coid(win'[p].reports[i].action, LabelOf[p])] # NoOrder
      BY <1>4, <3>2, <3>3, <3>4 DEF new
    <3> QED
      BY <3>5 DEF BookedOK, Coid, Intent
  <2>3. CASE pc'[p] # "idle"
    BY <1>5, <2>1, <2>3, NotRecorded
  <2> QED
    BY <2>2, <2>3
<1>7. CASE Preflight(p) \/ AgentsFinish(p) \/ Recheck(p) \/ PersistOutcome(p) \/ Finalize(p)
            \/ EndExecution(p) \/ Dies(p)
  <2>1. ASSUME NEW w, Become(p, w), w.reports = win[p].reports PROVE win'[p].reports = win[p].reports
    <3>1. RunnerType
      OBVIOUS
    <3> QED
      BY <2>1, <3>1, NewWindow
  <2>2. CASE Preflight(p)
    <3>1. PICK r, t, s, f : \/ Become(p, [win[p] EXCEPT !.phase = f, !.status = s, !.result = r, !.todo = t])
                            \/ Become(p, [win[p] EXCEPT !.phase = f, !.result = r])
      BY <2>2 DEF Preflight
    <3> QED
      BY <1>1, <1>5, <2>1, <3>1 DEF Windows
  <2>3. CASE AgentsFinish(p)
    <3>1. PICK r, j : Become(p, [win[p] EXCEPT !.phase = "recheck", !.result = r, !.judged = j])
      BY <2>3 DEF AgentsFinish
    <3> QED
      BY <1>1, <1>5, <2>1, <3>1 DEF Windows
  <2>4. CASE Recheck(p)
    <3>1. PICK s, t : Become(p, [win[p] EXCEPT !.phase = "persist", !.status = s, !.todo = t])
      BY <2>4 DEF Recheck
    <3> QED
      BY <1>1, <1>5, <2>1, <3>1 DEF Windows
  <2>5. CASE PersistOutcome(p)
    BY <1>1, <1>5, <2>1, <2>5 DEF PersistOutcome, Windows
  <2>6. CASE Finalize(p)
    BY <1>1, <1>5, <2>1, <2>6 DEF Finalize, Windows
  <2>7. CASE EndExecution(p) \/ Dies(p)
    BY <1>1, <1>5, <2>1, <2>7 DEF EndExecution, Dies, Windows
  <2> QED
    BY <1>7, <2>2, <2>3, <2>4, <2>5, <2>6, <2>7
<1> QED
  BY <1>1, <1>5, <1>6, <1>7, OthersFrame DEF Steps

-----------------------------------------------------------------------------
(* Orders and decisions.                                                   *)

\* Where a window has a status, a step of anybody leaves its decisions.
LEMMA StatusStays ==
  ASSUME IInv, RunnerType, [RNext]_rvars, NEW p \in Procs, AttemptOK(p), StageOK(p),
         win[p].status # "none"
  PROVE  /\ win'[p].status = win[p].status /\ win'[p].result = win[p].result
         /\ \A w \in WorkItems : PlanOf(p, w)' = PlanOf(p, w)
<1>1. /\ win'[p].status = win[p].status /\ win'[p].result = win[p].result
      /\ win'[p].judged = win[p].judged
  BY OthersFrame, DecisionsStay DEF IInv
<1> QED
  BY <1>1 DEF PlanOf

\* The plan and the track run of a pair are stored together.
LEMMA StoredStep ==
  ASSUME RInv, [RNext]_rvars, \A p \in Procs : RowsOK(p)'
  PROVE  StoredOK'
<1> SUFFICES ASSUME NEW a \in audit'
             PROVE  \E p \in Procs, w \in WorkItems :
                      a \in PlanOf(p, w)' /\ trackRuns'[p][w] \in {"ok", "partial"}
  BY DEF StoredOK
<1>1. IInv /\ RunnerType /\ \A p \in Procs : StageOK(p) /\ AttemptOK(p) /\ RowsOK(p)
  BY DEF RInv
<1>2. trackRuns \in [Procs -> [WorkItems -> Results]]
  BY <1>1 DEF RunnerType, RowsType
<1>3. ASSUME NEW p \in Procs, NEW w \in WorkItems, a \in PlanOf(p, w),
             trackRuns[p][w] \in {"ok", "partial"}
      PROVE  a \in PlanOf(p, w)' /\ trackRuns'[p][w] \in {"ok", "partial"}
  <2>1. win[p].status # "none" /\ trackRuns[p][w] = win[p].result[w]
    BY <1>1, <1>3 DEF RowsOK
  <2>2. a \in PlanOf(p, w)' /\ win'[p].result = win[p].result
    BY <1>1, <1>3, <2>1, StatusStays
  <2>3. trackRuns'[p][w] = trackRuns[p][w] \/ trackRuns'[p][w] = win[p].result[w]
    <3>1. CASE UNCHANGED trackRuns[p]
      BY <3>1
    <3>2. CASE PersistOutcome(p)
      BY <1>2, <3>2 DEF PersistOutcome, Store
    <3>3. CASE Steps(p) /\ ~PersistOutcome(p)
      BY <3>3 DEF Steps, Preflight, AgentsFinish, Recheck, Finalize, Submit, Attempt,
        AttemptFails, EndExecution, Dies, Record
    <3> QED
      BY <1>1, <3>1, <3>2, <3>3, OthersFrame DEF IInv
  <2> QED
    BY <1>3, <2>1, <2>2, <2>3
<1>4. CASE a \in audit
  <2>1. PICK p \in Procs, w \in WorkItems : a \in PlanOf(p, w) /\ trackRuns[p][w] \in {"ok", "partial"}
    BY <1>4 DEF RInv, StoredOK
  <2> QED
    BY <1>3, <2>1
<1>5. CASE a \notin audit
  <2>1. PICK p \in Procs : PersistOutcome(p) /\ audit' # audit
    <3>1. ASSUME NEW p \in Procs, Steps(p), ~PersistOutcome(p) PROVE audit' = audit
      BY <3>1 DEF Steps, Preflight, AgentsFinish, Recheck, Finalize, Submit, Attempt,
        AttemptFails, EndExecution, Dies, vars, ledger, Begin, CheckFloors, Gate, BrokerAccepts,
        BrokerRefuses, Accept, Upsert, Commit, AnswerLost, Fail
    <3>2. ASSUME Outside PROVE audit' = audit
      BY <3>2 DEF Outside, Operator, EngageKill, ReleaseKill, PauseTrack, ResumeTrack, ledger,
        AccountMoves, Pass, Fetch, Stage, CommitPass, PassFails, BrokerFill, ExternalOrder
    <3>3. UNCHANGED <<vars, wvars>> => audit' = audit
      BY DEF vars, ledger
    <3> QED
      BY <1>5, <3>1, <3>2, <3>3, RunnerCases
  <2>2. Store(p, Outcome(p)) /\ win[p].todo # <<>> /\ win[p].phase = "persist"
    BY <2>1 DEF PersistOutcome, vars, ledger
  <2>3. Outcome(p) \in WorkItems
    <3>1. win[p] \in Windows /\ win[p].todo \in Seq(WorkItems)
      BY <1>1 DEF RunnerType, Windows
    <3> QED
      BY <2>2, <3>1 DEF Outcome
  <2>4. PICK w \in WorkItems : w = Outcome(p)
    BY <2>3
  <2>5. a \in PlanOf(p, w) /\ trackRuns'[p][w] = win[p].result[w]
    BY <1>2, <1>5, <2>2, <2>4 DEF Store, PersistPlan
  <2>6. win[p].result[w] \in {"ok", "partial"}
    BY <1>1, <2>5 DEF StageOK, PlanOf
  <2>7. win[p].status # "none"
    BY <1>1, <2>2 DEF StageOK
  <2>8. a \in PlanOf(p, w)'
    BY <1>1, <2>5, <2>7, StatusStays
  <2> QED
    BY <2>5, <2>6, <2>8
<1> QED
  BY <1>4, <1>5

\* An order gets in only for an item that is queued, and stays decided.
LEMMA DecidedStep ==
  ASSUME RInv, [RNext]_rvars
  PROVE  DecidedOK'
<1> SUFFICES ASSUME NEW c \in Coids, Placed(c)' PROVE \E p \in Procs : DecidedBy(c, p)'
  BY DEF DecidedOK
<1>1. /\ IInv /\ RunnerType /\ TypeOK /\ AttemptSound /\ [Next]_vars
      /\ \A p \in Procs : StageOK(p) /\ AttemptOK(p) /\ QueueOK(p)
  BY StepDrives DEF RInv, IInv
<1>2. ASSUME NEW p \in Procs, DecidedBy(c, p) PROVE DecidedBy(c, p)'
  BY <1>1, <1>2, StatusStays DEF DecidedBy, Coid, Intent
<1>3. CASE Placed(c)
  BY <1>2, <1>3 DEF RInv, DecidedOK
<1>4. CASE ~Placed(c)
  <2>1. PICK p \in Procs : pc[p] = "submit" /\ c = Id(p)
    BY <1>1, <1>4, NewlyPlaced
  <2>2. /\ win[p].phase = "execute" /\ win[p].queue # <<>>
        /\ job[p] = [action |-> Head(win[p].queue), label |-> LabelOf[p]]
    BY <1>1, <2>1 DEF AttemptOK
  <2>3. win[p].status \notin {"none", "aborted_kill"}
    BY <1>1, <2>2 DEF StageOK
  <2>4. Head(win[p].queue) \in Actions /\ Head(win[p].queue) \in ToSet(win[p].queue)
    <3>1. win[p] \in Windows /\ win[p].queue \in Seq(Actions)
      BY <1>1 DEF RunnerType, Windows
    <3> QED
      BY <2>2, <3>1 DEF ToSet
  <2>5. PICK w \in WorkItems : Head(win[p].queue) \in PlanOf(p, w)
    BY <1>1, <2>4 DEF QueueOK
  <2>6. c = Coid(Head(win[p].queue), LabelOf[p]) /\ c[3] = LabelOf[p]
    BY <2>1, <2>2 DEF Id, Coid
  <2>7. DecidedBy(c, p)
    BY <2>3, <2>4, <2>5, <2>6 DEF DecidedBy
  <2> QED
    BY <1>2, <2>7
<1> QED
  BY <1>3, <1>4

-----------------------------------------------------------------------------
(* The invariant.                                                          *)

\* Nothing has begun.
LEMMA RunnerInit == RInit => RInv
<1> SUFFICES ASSUME RInit PROVE RInv
  OBVIOUS
<1>1. IInv
  BY InitInv DEF RInit
<1> DEFINE w0 == [w \in WorkItems |-> "none"]
<1>2. RunnerType
  <2>1. w0 \in [WorkItems -> Results]
    BY DEF Results
  <2> HIDE DEF w0
  <2>2. NoWindow \in Windows
    BY <2>1 DEF NoWindow, Windows, Phases, Results, w0
  <2> QED
    BY <2>1, <2>2 DEF RInit, RunnerType, RowsType, w0, Results
<1>3. audit = {} /\ \A c \in Coids : ~Placed(c)
  BY DEF RInit, Init, Placed, Unplaced, OrderIds
<1>4. StoredOK /\ DecidedOK
  BY <1>3 DEF StoredOK, DecidedOK
<1>5. ASSUME NEW p \in Procs
      PROVE  StageOK(p) /\ RowsOK(p) /\ QueueOK(p) /\ AttemptOK(p) /\ AnsweredOK(p) /\ BookedOK(p)
  <2>1. /\ win[p].phase = "off" /\ win[p].result = w0 /\ win[p].judged = {}
        /\ win[p].status = "none" /\ win[p].queue = <<>> /\ win[p].reports = <<>>
        /\ runs[p] = "none" /\ trackRuns[p] = w0 /\ pc[p] = "idle"
    BY DEF RInit, Init, NoWindow
  <2>2. \A w \in WorkItems : w0[w] = "none"
    OBVIOUS
  <2> HIDE DEF w0
  <2>3. StageOK(p)
    BY <2>1, <2>2 DEF StageOK, Tells
  <2>4. RowsOK(p) /\ AttemptOK(p) /\ AnsweredOK(p)
    BY <2>1, <2>2 DEF RowsOK, AttemptOK, AnsweredOK
  <2>5. QueueOK(p) /\ BookedOK(p)
    BY <2>1 DEF QueueOK, BookedOK, ToSet
  <2> QED
    BY <2>3, <2>4, <2>5
<1> QED
  BY <1>1, <1>2, <1>4, <1>5 DEF RInv

\* The parts that speak of one invocation.
OneOK(p) == StageOK(p) /\ RowsOK(p) /\ QueueOK(p) /\ AttemptOK(p) /\ AnsweredOK(p)

\* An invocation that makes no step keeps them.
LEMMA OneStays ==
  ASSUME NEW p \in Procs, OneOK(p),
         UNCHANGED <<win[p], runs[p], trackRuns[p], pc[p], job[p]>>
  PROVE  OneOK(p)'
<1>1. StageOK(p)' /\ RowsOK(p)'
  BY DEF OneOK, StageOK, RowsOK, Tells
<1>2. QueueOK(p)' /\ AttemptOK(p)'
  BY DEF OneOK, QueueOK, PlanOf, AttemptOK
<1>3. Submittable(p)' = Submittable(p)
  BY DEF Submittable
<1>4. AnsweredOK(p)'
  BY <1>3 DEF OneOK, AnsweredOK
<1> QED
  BY <1>1, <1>2, <1>4 DEF OneOK

\* The invariant is inductive.
LEMMA RunnerStep ==
  ASSUME RInv, [RNext]_rvars
  PROVE  RInv'
<1>1. /\ IInv /\ TypeOK /\ RunnerType
      /\ \A p \in Procs : OneOK(p) /\ BookedOK(p)
  BY DEF RInv, IInv, OneOK
<1>2. IInv'
  BY <1>1, StepDrives, StepInv
<1>3. ASSUME NEW p \in Procs PROVE OneOK(p)'
  <2>1. CASE Steps(p)
    BY <1>1, <2>1, StageStep, RowsStep, QueueStep, AttemptStep, AnsweredStep DEF OneOK
  <2>2. CASE UNCHANGED <<win[p], runs[p], trackRuns[p], pc[p], job[p]>>
    BY <1>1, <2>2, OneStays
  <2> QED
    BY <1>1, <2>1, <2>2, OthersFrame
<1>4. RunnerType'
  <2>1. CASE \E p \in Procs : Steps(p)
    BY <1>1, <2>1, RunnerTypeStep DEF OneOK
  <2>2. CASE UNCHANGED wvars
    BY <1>1, <2>2 DEF wvars, RunnerType, RowsType
  <2> QED
    BY <2>1, <2>2, RunnerCases DEF wvars
<1>5. \A p \in Procs : BookedOK(p)'
  BY <1>1, BookedStep DEF OneOK
<1>6. StoredOK' /\ DecidedOK'
  BY <1>3, StoredStep, DecidedStep DEF OneOK
<1> QED
  BY <1>2, <1>3, <1>4, <1>5, <1>6 DEF RInv, OneOK

(***************************************************************************)
(* The inductive invariant holds of windows, however many invocations      *)
(* overlap, fail or die.                                                   *)
(***************************************************************************)
THEOREM RunnerInvariance == RSpec => []RInv
BY RunnerInit, RunnerStep, PTL DEF RSpec

(***************************************************************************)
(* Windows use the adapter, the ledger and the control plane as Execution  *)
(* says any caller may: the runner implements Execution's next-state       *)
(* relation, so Execution's theorems hold of every window.                 *)
(***************************************************************************)
THEOREM Drives == RSpec => DrivesExecution
<1>1. RInit => Init
  BY DEF RInit
<1>2. RInv /\ [RNext]_rvars => [Next]_vars
  BY StepDrives DEF RInv
<1> QED
  BY <1>1, <1>2, RunnerInvariance, PTL DEF RSpec, DrivesExecution, Spec

(***************************************************************************)
(* Types of the rows and of the runner's own state.                        *)
(***************************************************************************)
THEOREM RunnerTypeCorrect == RSpec => []RTypeOK
<1>1. RInv => RTypeOK
  BY DEF RInv, RunnerType, RowsType, RTypeOK, Windows
<1> QED
  BY <1>1, RunnerInvariance, PTL

(***************************************************************************)
(* No order is without its decision: an order at the broker comes from a   *)
(* judge's plan of a window that was not aborted, and the ledger has a     *)
(* track run, ok or partial, with a plan that intends it.                  *)
(***************************************************************************)
THEOREM OrdersTraced == RSpec => []OrdersTraceToRuns
<1>1. ASSUME RInv PROVE OrdersTraceToRuns
  <2> SUFFICES ASSUME NEW c \in Coids, Placed(c)
               PROVE  /\ \E e \in PlansToOrder(c) :
                           LabelOf[e[1]] = c[3] /\ win[e[1]].status \notin {"none", "aborted_kill"}
                             /\ runs[e[1]] # "aborted_kill"
                      /\ \E e \in PlansToOrder(c) : trackRuns[e[1]][e[2]] \in {"ok", "partial"}
    BY DEF OrdersTraceToRuns
  <2>1. ASSUME NEW p \in Procs, NEW w \in WorkItems, NEW a \in PlanOf(p, w), Coid(a, c[3]) = c
        PROVE  \E e \in PlansToOrder(c) : e[1] = p /\ e[2] = w
    <3>1. <<p, w>> \in PlansToOrder(c)
      BY <2>1 DEF PlansToOrder
    <3> QED
      BY <3>1
  <2>2. PICK p \in Procs : DecidedBy(c, p)
    BY <1>1 DEF RInv, DecidedOK
  <2>3. PICK w \in WorkItems, a \in Actions : a \in PlanOf(p, w) /\ Coid(a, c[3]) = c
    BY <2>2 DEF DecidedBy
  <2>4. runs[p] # "aborted_kill"
    BY <1>1, <2>2 DEF RInv, RowsOK, DecidedBy
  <2>5. \E e \in PlansToOrder(c) : e[1] = p /\ e[2] = w
    BY <2>1, <2>3
  <2>6. PICK b \in audit, l \in Labels : Coid(b, l) = c
    BY <1>1 DEF RInv, IInv, AuditBeforeOrder
  <2>7. PICK q \in Procs, v \in WorkItems : b \in PlanOf(q, v) /\ trackRuns[q][v] \in {"ok", "partial"}
    BY <1>1 DEF RInv, StoredOK
  <2>8. Coid(b, c[3]) = c
    BY <2>6 DEF Coid
  <2>9. \E e \in PlansToOrder(c) : e[1] = q /\ e[2] = v
    BY <2>1, <2>7, <2>8
  <2>10. LabelOf[p] = c[3] /\ win[p].status \notin {"none", "aborted_kill"}
    BY <2>2 DEF DecidedBy
  <2> QED
    BY <2>4, <2>5, <2>7, <2>9, <2>10
<1>2. RInv => OrdersTraceToRuns
  BY <1>1
<1> QED
  BY <1>2, RunnerInvariance, PTL

(***************************************************************************)
(* Each item of each plan is answered once and in order, whatever an       *)
(* earlier one did; an aborted window and a paused pair submit nothing.    *)
(***************************************************************************)
THEOREM ItemsAnswered == RSpec => []EveryItemAnswered
<1>1. RInv => EveryItemAnswered
  BY DEF RInv, AnsweredOK, EveryItemAnswered
<1> QED
  BY <1>1, RunnerInvariance, PTL

(***************************************************************************)
(* The rows of a run agree with each other, and what is reported submitted *)
(* or a duplicate has its order row.                                       *)
(***************************************************************************)
THEOREM AccountsTrue == RSpec => []AccountsTruthful
<1>1. ASSUME RInv PROVE RunRowTruthful
  <2> SUFFICES ASSUME NEW p \in Procs
               PROVE  LET rows == {trackRuns[p][w] : w \in WorkItems} IN
                      /\ runs[p] = "ok" => rows \subseteq {"none", "ok", "skipped_paused"}
                      /\ runs[p] = "failed" => "ok" \notin rows
                      /\ runs[p] \in {"ok", "partial", "failed"} => "aborted_kill" \notin rows
    BY DEF RunRowTruthful
  <2>1. /\ runs[p] \in {"none", "running", win[p].status}
        /\ \A w \in WorkItems : trackRuns[p][w] \in {"none", win[p].result[w]}
        /\ Tells(win[p].status, win[p].result)
    BY <1>1 DEF RInv, RowsOK, StageOK
  <2> QED
    BY <2>1 DEF Tells
<1>2. RInv => ReportsBooked
  BY DEF RInv, BookedOK, ReportsBooked
<1>3. RInv => AccountsTruthful
  BY <1>1, <1>2 DEF AccountsTruthful
<1> QED
  BY <1>3, RunnerInvariance, PTL

(***************************************************************************)
(* What Execution promises any caller, it promises overlapping windows: no *)
(* order without an audited action, no row ahead of the broker, only       *)
(* orders their policy allows, and after a block at most one more order of *)
(* each invocation for the blocked track.                                  *)
(***************************************************************************)
THEOREM WindowsKeepExecution ==
  RSpec => /\ [](AuditBeforeOrder /\ LedgerBacked /\ OrdersWithinPolicy)
           /\ AtMostOneLateOrder
<1>1. RSpec => Spec
  BY Drives DEF DrivesExecution
<1> QED
  BY <1>1, AuditComplete, LedgerIsBacked, PolicyKept, LateOrdersBounded, PTL

=============================================================================
