---------------------------- MODULE WindowRunner ----------------------------
(***************************************************************************)
(* run_window (agents/window_runner.py): one pass of every (track, symbol) *)
(* pair of a window through the agents, the rows it leaves behind, and the *)
(* submission of the judges' plans through the execution adapter.  Each    *)
(* process is one invocation of run_window (a run_id contains started_at,  *)
(* so no two invocations share one); invocations may overlap, and share    *)
(* the database and the broker of Execution, whose actions this module     *)
(* drives.                                                                 *)
(*                                                                         *)
(* A window walks through                                                  *)
(*   off -> agents -> recheck -> persist -> execute -> ended               *)
(* skips to persist when the kill switch is engaged at the start, and may  *)
(* die anywhere.                                                           *)
(***************************************************************************)
EXTENDS Execution, Sequences, SequencesExt

CONSTANTS
  WorkList,   \* (track, symbol) pairs of a window, in order
  ItemTrack,  \* pair -> its track
  Plan,       \* pair -> action items of the plan its judge may decide on
  LabelOf,    \* process -> window label
  AgentResults  \* bound: how a pair may end, of ok, partial and failed

WorkItems == ToSet(WorkList)

ASSUME RunnerAssumption ==
  /\ WorkList \in Seq(WorkItems)
  /\ ItemTrack \in [WorkItems -> Tracks]
  /\ Plan \in [WorkItems -> Seq(Actions)]
  /\ LabelOf \in [Procs -> Labels]
  /\ AgentResults \subseteq {"ok", "partial", "failed"}

VARIABLES
  runs,       \* runs.status of each invocation's row
  trackRuns,  \* track_runs.status of each pair of the invocation
  win         \* the invocation's own state

wvars == <<runs, trackRuns, win>>
rvars == <<vars, wvars>>

Results == {"none", "ok", "partial", "failed", "skipped_paused", "aborted_kill"}

\* result: outcome of each pair; judged: pairs with a judge decision;
\* status: final_status; todo: outcomes to persist; queue: action items to
\* submit; reports: the submission results so far.
NoWindow == [phase |-> "off", result |-> [w \in WorkItems |-> "none"],
             judged |-> {}, status |-> "none",
             todo |-> <<>>, queue |-> <<>>, reports |-> <<>>]

RInit == /\ Init
         /\ runs = [p \in Procs |-> "none"]
         /\ trackRuns = [p \in Procs |-> [w \in WorkItems |-> "none"]]
         /\ win = [p \in Procs |-> NoWindow]

Become(p, window) == win' = [win EXCEPT ![p] = window]
\* The pairs that ended in one of these results, in the order of the list.
ItemsWith(result, some) ==
  FlattenSeq([i \in DOMAIN WorkList |->
                IF result[WorkList[i]] \in some THEN <<WorkList[i]>> ELSE <<>>])

-----------------------------------------------------------------------------
\* create_run and the first look at the control plane.
Preflight(p) ==
  /\ win[p].phase = "off"
  /\ runs' = [runs EXCEPT ![p] = "running"]
  /\ IF kill
     THEN Become(p, [win[p] EXCEPT !.phase = "persist", !.status = "aborted_kill",
                       !.result = [w \in WorkItems |-> "aborted_kill"],
                       !.todo = WorkList])
     ELSE Become(p, [win[p] EXCEPT !.phase = "agents",
                       !.result = [w \in WorkItems |->
                         IF ItemTrack[w] \in paused THEN "skipped_paused" ELSE "none"]])
  /\ UNCHANGED <<vars, trackRuns>>

\* asyncio.gather: every pair that is not paused ends, some raise, some are
\* partial (an agent was quarantined, perhaps the judge).
AgentsFinish(p) ==
  /\ win[p].phase = "agents"
  /\ LET runnable == {w \in WorkItems : win[p].result[w] = "none"} IN
     \E r \in [runnable -> AgentResults] :
       \E judged \in SUBSET {w \in runnable : r[w] = "partial"} :
         Become(p, [win[p] EXCEPT !.phase = "recheck",
                      !.result = [w \in WorkItems |->
                        IF w \in runnable THEN r[w] ELSE win[p].result[w]],
                      !.judged = judged \cup {w \in runnable : r[w] = "ok"}])
  /\ UNCHANGED <<vars, runs, trackRuns>>

\* Mutant: one pair that is ok makes the window ok.
Aggregate_AnyOk(result, killed) ==
  LET Some(s) == \E w \in WorkItems : result[w] = s IN
  IF killed THEN "aborted_kill"
  ELSE IF Some("ok") THEN "ok"
  ELSE IF Some("failed") THEN "failed" ELSE "partial"

\* _aggregate_status.
Aggregate(result, killed) ==
  LET Some(s) == \E w \in WorkItems : result[w] = s IN
  IF killed THEN "aborted_kill"
  ELSE IF Some("failed") THEN (IF Some("ok") THEN "partial" ELSE "failed")
  ELSE IF Some("partial") THEN "partial" ELSE "ok"

\* The second look at the kill switch, once the agents are done.
Recheck(p) ==
  /\ win[p].phase = "recheck"
  /\ LET r == win[p].result IN
     Become(p, [win[p] EXCEPT !.phase = "persist",
                  !.status = Aggregate(r, kill),
                  !.todo = ItemsWith(r, {"skipped_paused"})
                             \o ItemsWith(r, Results \ {"skipped_paused"})])
  /\ UNCHANGED <<vars, runs, trackRuns>>

-----------------------------------------------------------------------------
(***************************************************************************)
(* Persistence: one transaction per outcome, then one for the run's row;   *)
(* an exception is logged and the next one is tried.                       *)
(***************************************************************************)
Outcome(p) == Head(win[p].todo)
PlanOf(p, w) == IF w \in win[p].judged THEN ToSet(Plan[w]) ELSE {}

\* Mutants: the plan without its track run; verdicts of a window before wiped
\* out by the same plan.
Store_PlanOnly(p, w) ==
  /\ Strict => ItemTrack[w] \in KnownTracks
  /\ PersistPlan(PlanOf(p, w))
  /\ UNCHANGED trackRuns
Store_ResetsVerdicts(p, w) ==
  /\ Strict => ItemTrack[w] \in KnownTracks
  /\ audit' = audit \cup PlanOf(p, w)
  /\ riskStatus' = [a \in Actions |-> IF a \in PlanOf(p, w) THEN "none" ELSE riskStatus[a]]
  /\ trackRuns' = [trackRuns EXCEPT ![p][w] = win[p].result[w]]
  /\ UNCHANGED <<control, orders, fills, equity, market, adapter, recon, bounds>>

\* The track run, and with it the judge's plan.
Store(p, w) ==
  /\ Strict => ItemTrack[w] \in KnownTracks
  /\ PersistPlan(PlanOf(p, w))
  /\ trackRuns' = [trackRuns EXCEPT ![p][w] = win[p].result[w]]

PersistOutcome(p) ==
  /\ win[p].phase = "persist" /\ win[p].todo # <<>>
  /\ \/ Store(p, Outcome(p))
     \/ UNCHANGED <<vars, trackRuns>>
  /\ Become(p, [win[p] EXCEPT !.todo = Tail(@)])
  /\ UNCHANGED runs

\* Action items of the ok and partial outcomes, in the order of the outcomes.
Submittable(p) ==
  FlattenSeq([i \in DOMAIN WorkList |->
                IF /\ win[p].result[WorkList[i]] \in {"ok", "partial"}
                   /\ WorkList[i] \in win[p].judged
                THEN Plan[WorkList[i]] ELSE <<>>])

\* _finalize_run; a window that is not aborted goes on to its submissions,
\* whether or not its rows could be written.
Finalize(p) ==
  /\ win[p].phase = "persist" /\ win[p].todo = <<>>
  /\ \/ runs' = [runs EXCEPT ![p] = win[p].status]
     \/ UNCHANGED runs
  /\ IF win[p].status = "aborted_kill"
     THEN Become(p, [win[p] EXCEPT !.phase = "ended"])
     ELSE Become(p, [win[p] EXCEPT !.phase = "execute", !.queue = Submittable(p)])
  /\ UNCHANGED <<vars, trackRuns>>

-----------------------------------------------------------------------------
(***************************************************************************)
(* _execute_actions: the plans' items one after the other through the      *)
(* adapter; an exception is reported as a rejection and the next is tried. *)
(***************************************************************************)

\* Mutant: an exception is taken for a success.
Report_AssumesDone(p) ==
  [action |-> Head(win[p].queue),
   status |-> IF outcome'[p] = "exception" THEN "submitted" ELSE outcome'[p]]

Report(p) ==
  [action |-> Head(win[p].queue),
   status |-> IF outcome'[p] = "exception" THEN "rejected_floor" ELSE outcome'[p]]

\* Mutants: an exception ends the loop; an exception is tried again.
Record_StopsOnException(p) ==
  /\ IF pc'[p] = "idle"
     THEN Become(p, [win[p] EXCEPT !.reports = Append(@, Report(p)),
                       !.queue = IF outcome'[p] = "exception" THEN <<>> ELSE Tail(@)])
     ELSE UNCHANGED win
  /\ UNCHANGED <<runs, trackRuns>>
Record_Retries(p) ==
  /\ IF pc'[p] = "idle" /\ outcome'[p] # "exception"
     THEN Become(p, [win[p] EXCEPT !.queue = Tail(@), !.reports = Append(@, Report(p))])
     ELSE UNCHANGED win
  /\ UNCHANGED <<runs, trackRuns>>

\* The attempt either goes on or is over and reported.
Record(p) ==
  /\ IF pc'[p] = "idle"
     THEN Become(p, [win[p] EXCEPT !.queue = Tail(@), !.reports = Append(@, Report(p))])
     ELSE UNCHANGED win
  /\ UNCHANGED <<runs, trackRuns>>

Submit(p) ==
  /\ win[p].phase = "execute" /\ win[p].queue # <<>>
  /\ Begin(p, Head(win[p].queue), LabelOf[p])
  /\ Record(p)

Attempt(p) ==
  /\ win[p].phase = "execute"
  /\ \/ CheckFloors(p) \/ Gate(p) \/ BrokerAccepts(p) \/ BrokerRefuses(p)
     \/ Upsert(p) \/ Commit(p)
  /\ Record(p)

\* submit_action raises for any other reason.
AttemptFails(p) == /\ win[p].phase = "execute"
                   /\ AnswerLost(p) \/ Fail(p)
                   /\ Record(p)

EndExecution(p) ==
  /\ win[p].phase = "execute" /\ win[p].queue = <<>>
  /\ Become(p, [win[p] EXCEPT !.phase = "ended"])
  /\ UNCHANGED <<vars, runs, trackRuns>>

\* The process dies: its run row stays as it is, nobody takes over.
Dies(p) ==
  /\ win[p].phase \notin {"off", "ended", "dead"}
  /\ IF pc[p] = "idle" THEN UNCHANGED vars ELSE Fail(p)
  /\ Become(p, [win[p] EXCEPT !.phase = "dead"])
  /\ UNCHANGED <<runs, trackRuns>>

-----------------------------------------------------------------------------
Progress(p) == \/ Preflight(p) \/ AgentsFinish(p) \/ Recheck(p)
               \/ PersistOutcome(p) \/ Finalize(p)
               \/ Submit(p) \/ Attempt(p) \/ EndExecution(p)

Outside == \/ Operator \/ AccountMoves \/ Pass
           \/ \E o \in OrderIds : BrokerFill(o) \/ ExternalOrder(o)

RNext == \/ Outside /\ UNCHANGED wvars
         \/ \E p \in Procs : Progress(p) \/ AttemptFails(p) \/ Dies(p)

RSpec == RInit /\ [][RNext]_rvars

\* An invocation is a coroutine that runs until it returns and waits for no
\* other process.  Calls to models have a timeout; that those to the database
\* and the broker return is assumed.
RFairSpec == RSpec /\ \A p \in Procs : WF_rvars(Progress(p))

-----------------------------------------------------------------------------
Phases == {"off", "agents", "recheck", "persist", "execute", "ended", "dead"}
Reports == [action : Actions, status : Outcomes \ {"none", "exception"}]

RTypeOK ==
  /\ runs \in [Procs -> Results \cup {"running"}]
  /\ trackRuns \in [Procs -> [WorkItems -> Results]]
  /\ \A p \in Procs :
       /\ win[p].phase \in Phases /\ win[p].status \in Results
       /\ win[p].result \in [WorkItems -> Results]
       /\ win[p].judged \subseteq WorkItems
       /\ win[p].todo \in Seq(WorkItems) /\ win[p].queue \in Seq(Actions)
       /\ win[p].reports \in Seq(Reports)

(***************************************************************************)
(* Every order of ours at the broker comes from a judge's plan of a window *)
(* that was not aborted, and the ledger holds a track run with a plan that *)
(* intends it, maybe another window's: although persistence failures are   *)
(* swallowed and windows overlap, no order is without its decision.        *)
(***************************************************************************)
PlansToOrder(c) == {e \in Procs \X WorkItems :
                      \E a \in PlanOf(e[1], e[2]) : Coid(a, c[3]) = c}
OrdersTraceToRuns ==
  \A c \in Coids : Placed(c) =>
    /\ \E e \in PlansToOrder(c) :
         LabelOf[e[1]] = c[3] /\ win[e[1]].status \notin {"none", "aborted_kill"}
           /\ runs[e[1]] # "aborted_kill"
    /\ \E e \in PlansToOrder(c) : trackRuns[e[1]][e[2]] \in {"ok", "partial"}

(***************************************************************************)
(* Isolation: each item of each plan is answered exactly once and in       *)
(* order, whatever an earlier one did; a window aborted by the kill switch *)
(* and a pair whose track was paused at the start submit nothing.          *)
(***************************************************************************)
EveryItemAnswered ==
  \A p \in Procs : win[p].phase \in {"execute", "ended"} =>
    [i \in DOMAIN win[p].reports |-> win[p].reports[i].action] \o win[p].queue =
      IF win[p].status = "aborted_kill" THEN <<>> ELSE Submittable(p)

(***************************************************************************)
(* The rows of a run do not contradict each other: "ok" has no failed,     *)
(* partial or aborted track run, "failed" none that is ok, and a track run *)
(* is aborted only in an aborted run.                                      *)
(***************************************************************************)
RunRowTruthful ==
  \A p \in Procs :
    LET rows == {trackRuns[p][w] : w \in WorkItems} IN
    /\ runs[p] = "ok" => rows \subseteq {"none", "ok", "skipped_paused"}
    /\ runs[p] = "failed" => "ok" \notin rows
    /\ runs[p] \in {"ok", "partial", "failed"} => "aborted_kill" \notin rows

(***************************************************************************)
(* A submission reported as submitted or as a duplicate has its order row, *)
(* whoever wrote it.                                                       *)
(***************************************************************************)
ReportsBooked ==
  \A p \in Procs : \A i \in DOMAIN win[p].reports :
    LET r == win[p].reports[i] IN
    r.status \in {"submitted", "duplicate"} =>
      orders[Coid(r.action, LabelOf[p])] # NoOrder

(***************************************************************************)
(* What a window leaves behind to read tells what happened: the rows of    *)
(* the run agree with each other, and its reports with the order rows.     *)
(***************************************************************************)
AccountsTruthful == RunRowTruthful /\ ReportsBooked

\* The runner drives the adapter as Execution allows any caller to: what is
\* shown of Execution holds of windows.
DrivesExecution == Spec

\* A window that has begun ends, or its process dies.
WindowsEnd ==
  \A p \in Procs : win[p].phase # "off" ~> win[p].phase \in {"ended", "dead"}

=============================================================================
