------------------------------ MODULE TrackRun ------------------------------
(***************************************************************************)
(* The pairs of one window: run_track (agents/orchestrator.py) for each    *)
(* (track, symbol), all at once, and then their rows, one after the other  *)
(* (agents/persistence.py).                                                *)
(*                                                                         *)
(* A pair walks through                                                    *)
(*   waiting -> climate -> council -> adversarial -> judge -> ended        *)
(* (baseline tracks: waiting -> council -> judge -> ended) or fails.  Each *)
(* agent of a stage runs in a thread of its own (asyncio.to_thread), so    *)
(* the agents of a stage end in any order, and those of a pair that has    *)
(* already failed still end.                                               *)
(*                                                                         *)
(* An agent's answer is whatever the model returns, about whichever symbol *)
(* and track, with whichever ids.  Only CannedCouncilLLM, the client of a  *)
(* window without a factory of its own, answers from a packet that it is   *)
(* bound to.  What goes wrong counts against MaxFaults.                    *)
(***************************************************************************)
EXTENDS Baselines, TLC, FiniteSetsExt

CONSTANTS
  PairList,     \* <<track, symbol>> pairs of the window, in the order they are persisted
  LLMTracks,    \* tracks with an LLM judge
  CouncilList,  \* COUNCIL, in order
  Excluded,     \* LLM track -> council agents that do not run on it
  KnownTracks,  \* strategy_tracks rows
  Strict,       \* are foreign keys enforced (PostgreSQL) or not (SQLite)
  Answers,      \* council agent -> recommendations it may return
  JudgePlans,   \* plans an LLM judge may return
  BadAnswers,   \* recommendations and
  BadPlans,     \* plans with a fault: invalid, or with somebody else's id,
                \* symbol or track
  Reused,       \* an id several answers carry
  MaxFaults     \* bound on what goes wrong

Pairs == ToSet(PairList)
TrackOf(p) == p[1]
SymbolOf(p) == p[2]
IsLLM(p) == TrackOf(p) \in LLMTracks
BaselineTracks == {"quant_signal", "random_baseline", "benchmark"}

ASSUME TrackRunAssumption ==
  /\ LLMTracks \cap BaselineTracks = {}
  /\ \A p \in Pairs : TrackOf(p) \in LLMTracks \cup BaselineTracks
  /\ Excluded \in [LLMTracks -> SUBSET ToSet(CouncilList)]
  /\ DOMAIN Answers = ToSet(CouncilList)
  /\ CouncilList \in Seq(ToSet(CouncilList)) /\ PairList \in Seq(Pairs)
  /\ ToSet(CouncilList) \cap {"market_climate", "skeptic", "risk_manager", "judge"} = {}
  /\ None \notin Pairs /\ None # "report" /\ None # "empty"
  /\ Strict \in BOOLEAN /\ MaxFaults \in Nat

VARIABLES
  canned,   \* is the clients' factory the default one; never changes
  stage,    \* pair -> where run_track is
  runs,     \* pair -> agent -> its envelope: status and output
  seen,     \* pair -> agent -> the AgentRunInput it was given
  client,   \* pair -> the LLM client its factory gave it
  bound,    \* canned client -> the pair whose packet it is bound to
  events,   \* pair -> what was published about it
  rows,     \* the ledger's rows about the window
  booked,   \* how many of PairList have been through their transaction
  faults    \* bound: faults so far

vars == <<canned, stage, runs, seen, client, bound, events, rows, booked, faults>>

-----------------------------------------------------------------------------
AgentIds == ToSet(CouncilList) \cup {"market_climate", "skeptic", "risk_manager", "judge"}

\* The agents of a sequence that are in a set, in order.
OnlyIn(agents, some) ==
  FlattenSeq([i \in DOMAIN agents |-> IF agents[i] \in some THEN <<agents[i]>> ELSE <<>>])

\* AgentRegistry: who runs on a pair.
CouncilFor ==
  [p \in Pairs |-> IF IsLLM(p) THEN OnlyIn(CouncilList, AgentIds \ Excluded[TrackOf(p)])
                   ELSE CouncilList]

Members(p, s) ==
  CASE s = "climate" -> {"market_climate"}
    [] s = "council" -> ToSet(CouncilFor[p])
    [] s = "adversarial" -> {"skeptic", "risk_manager"}
    [] s = "judge" -> {"judge"}
    [] OTHER -> {}

\* TrackRunResult.all_runs
AllRuns ==
  [p \in Pairs |->
     IF IsLLM(p)
     THEN <<"market_climate">> \o CouncilFor[p] \o <<"skeptic", "risk_manager", "judge">>
     ELSE CouncilFor[p] \o <<"judge">>]

NotRun == [status |-> "none", output |-> None]
Running == [NotRun EXCEPT !.status = "running"]
Quarantined == [NotRun EXCEPT !.status = "quarantined"]
Raised == [NotRun EXCEPT !.status = "raised"]
Ok(output) == [status |-> "ok", output |-> output]

\* The reports of the earlier stages as a later one gets them: an agent that is
\* not ok is stood in for by an empty report, or left out of the council.
Report(p, a) == IF runs[p][a].status = "ok" THEN "report" ELSE "empty"
Climate(p) == IF IsLLM(p) THEN Report(p, "market_climate") ELSE None

Recommendations(p) ==
  LET ok == OnlyIn(CouncilFor[p], {a \in AgentIds : runs[p][a].status = "ok"})
  IN [i \in DOMAIN ok |-> runs[p][ok[i]].output]

RecIds == (Pairs \X ToSet(CouncilList)) \cup {Reused}
PlanIds == (Pairs \X {"judge"}) \cup {Reused}
ActIds == (Pairs \X {"judge"} \X (1..Max({QuantTop, RandomPicks}))) \cup {Reused}

NoRows == [track |-> [p \in Pairs |-> "none"],
           agent |-> [p \in Pairs |-> [a \in AgentIds |-> "none"]],
           rec   |-> [i \in RecIds |-> None],
           plan  |-> [i \in PlanIds |-> None],
           act   |-> [i \in ActIds |-> None]]

Init == /\ canned \in BOOLEAN
        /\ stage = [p \in Pairs |-> "waiting"]
        /\ runs = [p \in Pairs |-> [a \in AgentIds |-> NotRun]]
        /\ seen = [p \in Pairs |-> [a \in AgentIds |-> None]]
        /\ client = [p \in Pairs |-> None]
        /\ bound = [p \in Pairs |-> None]
        /\ events = [p \in Pairs |-> <<>>]
        /\ rows = NoRows /\ booked = 0 /\ faults = 0

MayFail == faults < MaxFaults /\ faults' = faults + 1
ledger == <<rows, booked>>

-----------------------------------------------------------------------------
\* asyncio.gather over a stage: all its agents start with the same reports.
Launch(p, s, council, skeptic, risk) ==
  /\ stage' = [stage EXCEPT ![p] = s]
  /\ runs' = [runs EXCEPT ![p] = [a \in AgentIds |->
                IF a \in Members(p, s) THEN Running ELSE runs[p][a]]]
  /\ seen' = [seen EXCEPT ![p] = [a \in AgentIds |->
                IF a \in Members(p, s)
                THEN [climate |-> IF s = "climate" THEN None ELSE Climate(p),
                      council |-> council, skeptic |-> skeptic, risk |-> risk]
                ELSE seen[p][a]]]

\* Mutant: one client for the whole window.
LLMFactory_Shared(p) == PairList[1]

\* LLMClientFactory: a client of its own for every pair.
LLMFactory(p) == p

\* _run_one_track up to the first stage: the packet is built, a client is made
\* and, if it is a canned one, bound to the packet.  Either may raise, and a
\* factory other than the default one may make no client.
Begin(p) ==
  /\ stage[p] = "waiting"
  /\ events' = [events EXCEPT ![p] = <<<<"track_started">>>>]
  /\ \/ /\ client' = [client EXCEPT ![p] = LLMFactory(p)]
        /\ bound' = IF canned THEN [bound EXCEPT ![LLMFactory(p)] = p] ELSE bound
        /\ Launch(p, IF IsLLM(p) THEN "climate" ELSE "council", <<>>, None, None)
        /\ UNCHANGED faults
     \/ /\ ~canned /\ MayFail
        /\ Launch(p, IF IsLLM(p) THEN "climate" ELSE "council", <<>>, None, None)
        /\ UNCHANGED <<client, bound>>
     \/ /\ MayFail
        /\ stage' = [stage EXCEPT ![p] = "failed"]
        /\ UNCHANGED <<runs, seen, client, bound>>
  /\ UNCHANGED <<canned, ledger>>

-----------------------------------------------------------------------------
(***************************************************************************)
(* BaseAgent.run in its thread.                                            *)
(***************************************************************************)
RequiresLLM(p, a) == a # "judge" \/ IsLLM(p)

\* What a model makes of a packet.  It is asked for its own id and about the
\* packet's track and symbol (None), and may answer with any other: nothing
\* compares them.
OwnId(answer, id) == IF answer.id = Reused THEN Reused ELSE id
Own(value, asked) == IF value = None THEN asked ELSE value
Recommendation(q, a, answer) ==
  [answer EXCEPT !.id = OwnId(answer, <<q, a>>), !.agent = Own(@, a),
                 !.track = Own(@, TrackOf(q)), !.symbol = Own(@, SymbolOf(q))]

Decision(q, plan) ==
  [plan EXCEPT !.id = OwnId(plan, <<q, "judge">>), !.track = Own(@, TrackOf(q)),
               !.items = [i \in DOMAIN plan.items |->
                 [plan.items[i] EXCEPT !.id = OwnId(plan.items[i], <<q, "judge", i>>),
                    !.track = Own(@, TrackOf(q)), !.symbol = Own(@, SymbolOf(q))]]]

\* CannedCouncilLLM holds, at a conviction of 0.1 (they are in tenths), and
\* keeps the cash.
CannedAnswer ==
  [id |-> None, agent |-> None, track |-> None, symbol |-> None, instrument |-> "equity",
   action |-> "hold", conviction |-> 1, notional |-> None, pct |-> None,
   evidence |-> {}, legs |-> None, pairLegs |-> None]
CannedPlan ==
  [id |-> None, track |-> None, judge |-> "judge", posture |-> "cash", items |-> <<>>]

\* The legs of an answer are a list, a conviction is a number, and None stands
\* for no row.
AnyAnswer(a) == Answers[a] \cup BadAnswers \cup {CannedAnswer}
ASSUME AnswersAssumption ==
  /\ \A p \in Pairs : SymbolOf(p) \in DOMAIN SymbolRank
  /\ \A a \in ToSet(CouncilList) : \A answer \in AnyAnswer(a) :
       /\ DOMAIN answer = DOMAIN CannedAnswer
       /\ answer.symbol \in DOMAIN SymbolRank \cup {None}
       /\ answer.legs # None => answer.legs \in Seq(ToSet(answer.legs))
       /\ answer.conviction \in Int
       /\ \A p \in Pairs : RecommendationRow(p, Recommendation(p, a, answer)) # None

\* A baseline's plan has fresh ids (uuid4).
Baseline(p) ==
  {[d EXCEPT !.id = <<p, "judge">>,
             !.items = [i \in DOMAIN d.items |-> [d.items[i] EXCEPT !.id = <<p, "judge", i>>]]] :
     d \in BaselinePlans(TrackOf(p), TrackOf(p), "judge", seen[p]["judge"].council)}

Returns(q, a, answers, plans) ==
  CASE a \in ToSet(CouncilList) -> {Recommendation(q, a, r) : r \in answers}
    [] a = "judge" -> {Decision(q, d) : d \in plans}
    [] OTHER -> {"report"}

\* An output is an instance of the agent's output schema.
Accepts(a, output) ==
  /\ output # None
  /\ CASE a \in ToSet(CouncilList) -> RecommendationValid(output)
       [] a = "judge" -> PlanValid(output)
       [] OTHER -> TRUE

Return(p, a, envelope) ==
  /\ runs[p][a].status = "running"
  /\ runs' = [runs EXCEPT ![p][a] = envelope]
  /\ UNCHANGED <<canned, stage, seen, client, bound, events, ledger>>

\* The response is validated against the agent's output schema.
Checked(a, output) == IF Accepts(a, output) THEN Ok(output) ELSE Quarantined

AnswersOf(a) == IF a \in ToSet(CouncilList) THEN Answers[a] ELSE {}

\* The model answers the message it was sent; a canned client looks at nothing
\* but the packet it is bound to.
Answer(p, a) ==
  /\ runs[p][a].status = "running"
  /\ RequiresLLM(p, a) /\ client[p] # None
  /\ \E output \in IF canned THEN Returns(bound[client[p]], a, {CannedAnswer}, {CannedPlan})
                              ELSE Returns(p, a, AnswersOf(a), JudgePlans) :
       Return(p, a, Checked(a, output))
  /\ UNCHANGED faults

\* It answers what it should not.
AnswerBadly(p, a) ==
  /\ ~canned /\ runs[p][a].status = "running"
  /\ RequiresLLM(p, a) /\ client[p] # None
  /\ a \in ToSet(CouncilList) \cup {"judge"}
  /\ \E output \in Returns(p, a, BadAnswers, BadPlans) : Return(p, a, Checked(a, output))
  /\ MayFail

\* A baseline decides by itself (run_local).
DecideLocally(p, a) ==
  /\ ~ RequiresLLM(p, a)
  /\ runs[p][a].status = "running"
  /\ \E plan \in Baseline(p) : Return(p, a, Checked(a, plan))
  /\ UNCHANGED faults

\* No client: quarantined at once.
NoClient(p, a) ==
  /\ RequiresLLM(p, a) /\ client[p] = None
  /\ Return(p, a, Quarantined)
  /\ UNCHANGED faults

\* ValueError, KeyError or RuntimeError of the call (the OpenAI client makes a
\* RuntimeError of everything), or anything from rendering the message.
CallFails(p, a) ==
  /\ RequiresLLM(p, a) /\ client[p] # None
  /\ Return(p, a, Quarantined) /\ MayFail

\* Any other exception leaves the agent.
Raise(p, a) ==
  /\ RequiresLLM(p, a) /\ client[p] # None
  /\ Return(p, a, Raised) /\ MayFail

Thread(p, a) == \/ Answer(p, a) \/ AnswerBadly(p, a) \/ DecideLocally(p, a)
                \/ NoClient(p, a) \/ CallFails(p, a) \/ Raise(p, a)

-----------------------------------------------------------------------------
(***************************************************************************)
(* run_track between the stages.                                           *)
(***************************************************************************)
\* Mutants: the stage is over as soon as an agent is; when all are ok.
StageOver_First(p) ==
  \E a \in Members(p, stage[p]) : runs[p][a].status \in {"ok", "quarantined"}
StageOver_AllOk(p) ==
  /\ Members(p, stage[p]) # {}
  /\ \A a \in Members(p, stage[p]) : runs[p][a].status = "ok"

StageOver(p) ==
  /\ Members(p, stage[p]) # {}
  /\ \A a \in Members(p, stage[p]) : runs[p][a].status \in {"ok", "quarantined"}

AfterClimate(p) ==
  /\ stage[p] = "climate" /\ StageOver(p)
  /\ Launch(p, "council", <<>>, None, None)
  /\ UNCHANGED <<canned, client, bound, events, ledger, faults>>

AfterCouncil(p) ==
  /\ stage[p] = "council" /\ StageOver(p)
  /\ \E recs \in {Recommendations(p)} :
       Launch(p, IF IsLLM(p) THEN "adversarial" ELSE "judge", recs, None, None)
  /\ UNCHANGED <<canned, client, bound, events, ledger, faults>>

AfterAdversarial(p) ==
  /\ stage[p] = "adversarial" /\ StageOver(p)
  /\ \E recs \in {Recommendations(p)} :
       Launch(p, "judge", recs, Report(p, "skeptic"), Report(p, "risk_manager"))
  /\ UNCHANGED <<canned, client, bound, events, ledger, faults>>

\* Mutant: a recommendation is announced for every council member.
EventsOf_AllCouncil(p) ==
  LET Each(agents, name) == [i \in DOMAIN agents |-> <<name, agents[i]>>]
      spoke == {a \in AgentIds : runs[p][a].output # None}
  IN Each(AllRuns[p], "agent_completed")
       \o Each(CouncilFor[p], "recommendation_emitted")
       \o Each(OnlyIn(<<"judge">>, spoke), "judge_decided")
       \o <<<<"track_completed">>>>

\* What _run_one_track publishes once run_track has returned.
EventsOf(p) ==
  LET Each(agents, name) == [i \in DOMAIN agents |-> <<name, agents[i]>>]
      spoke == {a \in AgentIds : runs[p][a].output # None}
  IN Each(AllRuns[p], "agent_completed")
       \o Each(OnlyIn(CouncilFor[p], spoke), "recommendation_emitted")
       \o Each(OnlyIn(<<"judge">>, spoke), "judge_decided")
       \o <<<<"track_completed">>>>

AfterJudge(p) ==
  /\ stage[p] = "judge" /\ StageOver(p)
  /\ stage' = [stage EXCEPT ![p] = "ended"]
  /\ events' = [events EXCEPT ![p] = @ \o EventsOf(p)]
  /\ UNCHANGED <<canned, runs, seen, client, bound, ledger, faults>>

\* Mutant: a quarantined agent takes its track down as well.
Broken_Quarantine(p) ==
  \E a \in Members(p, stage[p]) : runs[p][a].status \in {"raised", "quarantined"}

Broken(p) == \E a \in Members(p, stage[p]) : runs[p][a].status = "raised"

\* gather raises the first exception; the other threads go on.
Abort(p) ==
  /\ Broken(p)
  /\ stage' = [stage EXCEPT ![p] = "failed"]
  /\ UNCHANGED <<canned, runs, seen, client, bound, events, ledger, faults>>

Step(p) == \/ Begin(p) \/ AfterClimate(p) \/ AfterCouncil(p) \/ AfterAdversarial(p)
           \/ AfterJudge(p) \/ Abort(p)

-----------------------------------------------------------------------------
(***************************************************************************)
(* _persist_window_outcomes, once every pair has ended.                    *)
(***************************************************************************)
AllEnded == \A p \in Pairs : stage[p] \in {"ended", "failed"}

\* Mutant: only the council's quarantines count.
RunStatus_CouncilOnly(p) ==
  IF \E a \in ToSet(CouncilFor[p]) : runs[p][a].status = "quarantined"
  THEN "partial" ELSE "ok"

RunStatus(p) ==
  IF \E a \in ToSet(AllRuns[p]) : runs[p][a].status = "quarantined"
  THEN "partial" ELSE "ok"

\* upsert_recommendation, upsert_judge_decision, upsert_decision_action: a row
\* with the same id takes every value of the new one.
Upsert(table, writes) ==
  [id \in DOMAIN table |->
     LET at == {i \in DOMAIN writes : writes[i].id = id}
     IN IF at = {} THEN table[id] ELSE writes[Max(at)].row]

\* The judge's plan, as a sequence of at most one.
Plans(p) == IF runs[p]["judge"].status = "ok" THEN <<runs[p]["judge"].output>> ELSE <<>>
Write(id, row) == [id |-> id, row |-> row]

\* persist_track_run and persist_failed_track.
Store(p) ==
  IF stage[p] = "failed" THEN [rows EXCEPT !.track[p] = "failed"]
  ELSE LET recs == Recommendations(p)
           plans == Plans(p)
           items == IF plans = <<>> THEN <<>> ELSE plans[1].items
       IN [track |-> [rows.track EXCEPT ![p] = RunStatus(p)],
           agent |-> [rows.agent EXCEPT ![p] = [a \in AgentIds |-> runs[p][a].status]],
           rec |-> Upsert(rows.rec, [i \in DOMAIN recs |->
                     Write(recs[i].id, RecommendationRow(p, recs[i]))]),
           plan |-> Upsert(rows.plan, [i \in DOMAIN plans |->
                      Write(plans[i].id, DecisionRow(p, plans[i]))]),
           act |-> Upsert(rows.act, [i \in DOMAIN items |->
                     Write(items[i].id, ActionRow(plans[1], items[i]))])]

\* Every row's track is a strategy_tracks row.
TracksExist(p) ==
  /\ TrackOf(p) \in KnownTracks
  /\ stage[p] = "ended" =>
    LET recs == Recommendations(p)
        plans == Plans(p)
    IN /\ \A i \in DOMAIN recs : recs[i].track \in KnownTracks
       /\ \A i \in DOMAIN plans :
            {plans[i].track} \cup {plans[i].items[j].track : j \in DOMAIN plans[i].items}
              \subseteq KnownTracks

\* A transaction per pair; one that fails is logged and leaves nothing.
Persist ==
  /\ AllEnded /\ booked < Len(PairList)
  /\ booked' = booked + 1
  /\ LET p == PairList[booked + 1] IN
     \/ /\ Strict => TracksExist(p)
        /\ rows' = Store(p)
        /\ UNCHANGED faults
     \/ /\ Strict /\ ~ TracksExist(p)
        /\ UNCHANGED <<rows, faults>>
     \/ MayFail /\ UNCHANGED rows
  /\ UNCHANGED <<canned, stage, runs, seen, client, bound, events>>

Next == \/ \E p \in Pairs : Step(p) \/ \E a \in AgentIds : Thread(p, a)
        \/ Persist

Spec == Init /\ [][Next]_vars

\* The event loop runs until run_window returns; a call to the model has a
\* timeout, so every thread returns.
FairSpec ==
  /\ Spec
  /\ \A p \in Pairs : WF_vars(Step(p)) /\ WF_vars(\E a \in AgentIds : Thread(p, a))
  /\ WF_vars(Persist)

-----------------------------------------------------------------------------
Stages == {"waiting", "climate", "council", "adversarial", "judge", "ended", "failed"}
Statuses == {"none", "running", "ok", "quarantined", "raised"}

TypeOK ==
  /\ stage \in [Pairs -> Stages]
  /\ \A p \in Pairs, a \in AgentIds :
       /\ runs[p][a].status \in Statuses
       /\ (runs[p][a].output # None) = (runs[p][a].status = "ok")
       /\ rows.agent[p][a] \in {"none", "ok", "quarantined"}
  /\ canned \in BOOLEAN
  /\ client \in [Pairs -> Pairs \cup {None}] /\ bound \in [Pairs -> Pairs \cup {None}]
  /\ rows.track \in [Pairs -> {"none", "ok", "partial", "failed"}]
  /\ booked \in 0..Len(PairList) /\ faults \in 0..MaxFaults

(***************************************************************************)
(* The stages are barriers: whatever order the threads end in, an agent    *)
(* was given exactly what the earlier stages came to, every recommendation *)
(* of the council that is ok and no other, and on an LLM track the judge   *)
(* has all three reports, empty ones for agents that were quarantined.     *)
(***************************************************************************)
InputsComplete ==
  \A p \in Pairs, a \in AgentIds : seen[p][a] # None =>
    LET in == seen[p][a] IN
    /\ a \in ToSet(CouncilList) => in.climate = Climate(p)
    /\ a \in {"skeptic", "risk_manager", "judge"} =>
         in.climate = Climate(p) /\ in.council = Recommendations(p)
    /\ a = "judge" /\ IsLLM(p) =>
         /\ in.skeptic = Report(p, "skeptic") /\ in.risk = Report(p, "risk_manager")
         /\ None \notin {in.climate, in.skeptic, in.risk}

(***************************************************************************)
(* Nobody downstream is shown a trade nobody sized or nothing supports:    *)
(* what an agent was given of the council is sized exactly once and cites  *)
(* evidence wherever it trades, and legs share their underlying.           *)
(***************************************************************************)
TradesSupported ==
  \A p \in Pairs, a \in AgentIds : seen[p][a] # None =>
    \A i \in DOMAIN seen[p][a].council :
      LET r == seen[p][a].council[i] IN
      /\ r.action \notin {"hold", "avoid"} =>
           r.evidence # {} /\ Cardinality({r.notional, r.pct} \ {None}) = 1
      /\ r.legs # None => r.action = "multi_leg" /\ \A j \in DOMAIN r.legs : r.legs[j] = r.legs[1]

(***************************************************************************)
(* Every stage of every pair works on complete and valid input, although   *)
(* the agents before it ended in any order, some of them quarantined.      *)
(***************************************************************************)
InputsSound == InputsComplete /\ TradesSupported

(***************************************************************************)
(* However the pairs of a window interleave, a canned client answers its   *)
(* own pair: every recommendation and every plan is about that pair's      *)
(* track, and the recommendation about its symbol.  No pair speaks through *)
(* a client that another one has bound to its packet meanwhile             *)
(* (orchestrator.py:211-223).  Nothing of the kind holds of a model.       *)
(***************************************************************************)
OwnPacket ==
  canned => \A p \in Pairs, a \in AgentIds : runs[p][a].status = "ok" =>
    LET output == runs[p][a].output IN
    /\ a \in ToSet(CouncilList) => output.symbol = SymbolOf(p) /\ output.track = TrackOf(p)
    /\ a = "judge" /\ IsLLM(p) => output.track = TrackOf(p) /\ output.items = <<>>

(***************************************************************************)
(* A quarantined agent never takes its track down: a pair fails only when  *)
(* it could not start or an agent let an exception out, and one that ends  *)
(* has an envelope of every agent of its binding and of no other.          *)
(***************************************************************************)
QuarantineContained ==
  \A p \in Pairs :
    /\ stage[p] = "failed" =>
         \/ \A a \in AgentIds : runs[p][a].status = "none"
         \/ \E a \in AgentIds : runs[p][a].status = "raised"
    /\ stage[p] = "ended" =>
         \A a \in AgentIds :
           runs[p][a].status \in
             IF a \in ToSet(AllRuns[p]) THEN {"ok", "quarantined"} ELSE {"none"}

(***************************************************************************)
(* The rows of a window agree with each other: "ok" means every agent of   *)
(* the pair has an ok row, "partial" that one has a quarantined row, and a *)
(* pair that failed, or whose transaction did, has no agent rows.  Every   *)
(* recommendation row is, whole, what an agent of a pair with a stored     *)
(* track run said, though agents may use the same id.                      *)
(***************************************************************************)
RowsTellTheRun ==
  LET Stored == {p \in Pairs : rows.track[p] \in {"ok", "partial"}}
      Agents(p) == {rows.agent[p][a] : a \in ToSet(AllRuns[p])}
  IN
  /\ \A p \in Pairs :
       CASE rows.track[p] = "ok" -> Agents(p) = {"ok"}
         [] rows.track[p] = "partial" ->
              "quarantined" \in Agents(p) /\ Agents(p) \subseteq {"ok", "quarantined"}
         [] OTHER -> Agents(p) = {"none"}
  /\ \A id \in RecIds : rows.rec[id] # None =>
       \E p \in Stored :
         \E i \in DOMAIN Recommendations(p) :
           /\ Recommendations(p)[i].id = id
           /\ rows.rec[id] = RecommendationRow(p, Recommendations(p)[i])
  /\ \A p \in Stored : \A i \in DOMAIN Recommendations(p) :
       LET r == Recommendations(p)[i] IN
       /\ rows.rec[r.id] # None
       /\ \/ rows.rec[r.id] = RecommendationRow(p, r)
          \/ \E q \in Stored : \E j \in DOMAIN Recommendations(q) :
               Recommendations(q)[j].id = r.id /\ <<q, j>> # <<p, i>>

(***************************************************************************)
(* A baseline's plan is what its description says of it, whatever the      *)
(* council came to: it never weighs more than the whole equity; each of    *)
(* its items follows one buy of this pair's council, another one each; a   *)
(* buy is left out only of a full plan, and by the quant baseline only for *)
(* convictions at least as strong.                                         *)
(***************************************************************************)
BaselineSound ==
  \A p \in Pairs : ~ IsLLM(p) /\ runs[p]["judge"].status = "ok" =>
    LET items == runs[p]["judge"].output.items
        recs  == Recommendations(p)
        Buy(i) == recs[i].action = "buy" /\ recs[i].instrument \in Tradable
        quant == TrackOf(p) = "quant_signal"
    IN
    /\ FoldLeft(LAMBDA sum, item : sum + item.pct, 0, items) <= One
    /\ IF TrackOf(p) = "benchmark" THEN Len(items) = 1 /\ items[1].pct = One
       ELSE \E f \in [DOMAIN items -> DOMAIN recs] :
              /\ \A k, l \in DOMAIN items : f[k] = f[l] => k = l
              /\ \A k \in DOMAIN items :
                   Buy(f[k]) /\ items[k].from = {recs[f[k]].id} /\ items[k].symbol = recs[f[k]].symbol
              /\ \A j \in DOMAIN recs \ Range(f) : Buy(j) =>
                   /\ Len(items) = IF quant THEN QuantTop ELSE RandomPicks
                   /\ quant => \A k \in DOMAIN items : recs[j].conviction <= recs[f[k]].conviction

(***************************************************************************)
(* The dashboard and the ledger tell the same story: a pair with a stored  *)
(* track run was announced as completed, with a recommendation for each    *)
(* council agent whose row is ok and a decision if the judge's is; a pair  *)
(* that failed was never announced as completed.                           *)
(***************************************************************************)
EventsMatchRows ==
  \A p \in Pairs :
    LET told == ToSet(events[p])
        okRows == {a \in AgentIds : rows.agent[p][a] = "ok"}
    IN
    /\ rows.track[p] \in {"ok", "partial"} =>
         /\ <<"track_completed">> \in told
         /\ {a \in ToSet(CouncilList) : <<"recommendation_emitted", a>> \in told}
              = okRows \cap ToSet(CouncilList)
         /\ (<<"judge_decided", "judge">> \in told) = ("judge" \in okRows)
    /\ rows.track[p] = "failed" => <<"track_completed">> \notin told

(***************************************************************************)
(* What a window leaves behind of its pairs, in the ledger and on the      *)
(* dashboard, is one consistent account of what their agents did.          *)
(***************************************************************************)
AccountsAgree == RowsTellTheRun /\ EventsMatchRows

(***************************************************************************)
(* The window runner may treat a pair as PairLifecycle does.               *)
(***************************************************************************)
Lifecycle ==
  INSTANCE PairLifecycle WITH
    outcome <- [p \in Pairs |-> CASE stage[p] = "ended" -> RunStatus(p)
                                  [] stage[p] = "failed" -> "failed"
                                  [] OTHER -> "none"],
    judged <- {p \in Pairs : stage[p] = "ended" /\ runs[p]["judge"].status = "ok"},
    row <- rows.track

ImplementsPairs == Lifecycle!LSpec

\* Every pair ends and has been through its transaction: quarantines, lost
\* clients and exceptions never leave the window waiting for a pair.
PairsEnd == <>(AllEnded /\ booked = Len(PairList))

(***************************************************************************)
(* ids.py: every persisted row has an id derived from its stable inputs.   *)
(* Then the recommendations of different agent runs never share a row.     *)
(***************************************************************************)
RowPerRecommendation ==
  \A p, q \in Pairs : {rows.track[p], rows.track[q]} \subseteq {"ok", "partial"} =>
    \A i \in DOMAIN Recommendations(p), j \in DOMAIN Recommendations(q) :
      <<p, i>> # <<q, j>> => Recommendations(p)[i].id # Recommendations(q)[j].id

=============================================================================
