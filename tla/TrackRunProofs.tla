--------------------------- MODULE TrackRunProofs ---------------------------
(***************************************************************************)
(* What TrackRun promises of the pairs of a window, for every window,      *)
(* every council, every answer and any number of faults.                   *)
(*                                                                         *)
(* The argument rests on IInv.  A pair's stage says which of its agents    *)
(* have settled, which are out and which have not begun (StageOK); an      *)
(* agent that has settled never changes again (Settled), so what a later   *)
(* stage was given of it stays what it came to (SeenOK), and so do the     *)
(* rows and the events about it (RowsOK, RecordsOK, EventsOK).             *)
(*                                                                         *)
(* The plans of the deterministic judges are proved to be what they should *)
(* whatever the council said (QuantSound, RandomSound, BenchmarkSound);    *)
(* JudgeOK says that such a judge has decided on what it was launched with.*)
(***************************************************************************)
EXTENDS TrackRun, DataLemmas, FiniteSetTheorems, TLAPS

CouncilIds == ToSet(CouncilList)
CouncilOf(p) == ToSet(CouncilFor[p])
Settled == {"ok", "quarantined"}

\* The agents of the stages before stage s.
Before(p, s) ==
  CASE s = "council" -> IF IsLLM(p) THEN {"market_climate"} ELSE {}
    [] s = "adversarial" -> {"market_climate"} \cup CouncilOf(p)
    [] s = "judge" -> CouncilOf(p) \cup
                        IF IsLLM(p) THEN {"market_climate", "skeptic", "risk_manager"} ELSE {}
    [] s = "ended" -> ToSet(AllRuns[p])
    [] OTHER -> {}

\* What is published about a pair.
EventSet ==
  {<<"track_started">>, <<"track_completed">>} \cup
    ({"agent_completed", "recommendation_emitted", "judge_decided"} \X AgentIds)

ShapeOK ==
  /\ canned \in BOOLEAN
  /\ stage \in [Pairs -> Stages]
  /\ runs = [p \in Pairs |-> runs[p]] /\ seen = [p \in Pairs |-> seen[p]]
  /\ \A p \in Pairs : /\ runs[p] = [a \in AgentIds |-> runs[p][a]]
                      /\ seen[p] = [a \in AgentIds |-> seen[p][a]]
  /\ \A p \in Pairs, a \in AgentIds :
       /\ runs[p][a].status \in Statuses
       /\ (runs[p][a].output # None) = (runs[p][a].status = "ok")
  /\ client \in [Pairs -> Pairs \cup {None}] /\ bound \in [Pairs -> Pairs \cup {None}]
  /\ events \in [Pairs -> Seq(EventSet)]
  /\ booked \in 0..Len(PairList) /\ faults \in 0..MaxFaults

ClientOK == \A p \in Pairs : client[p] # None => client[p] = p /\ (canned => bound[p] = p)

StageOK ==
  \A p \in Pairs :
    /\ stage[p] \in {"climate", "adversarial"} => IsLLM(p)
    /\ stage[p] = "failed" =>
         \/ \A a \in AgentIds : runs[p][a].status = "none"
         \/ \E a \in AgentIds : runs[p][a].status = "raised"
    /\ stage[p] # "failed" =>
         \A a \in AgentIds :
           IF a \in Before(p, stage[p]) THEN runs[p][a].status \in Settled
           ELSE (runs[p][a].status = "none") = (a \notin Members(p, stage[p]))

\* What a canned client says of its pair.
IsCanned(p, a, output) ==
  /\ a \in CouncilIds => output = Recommendation(p, a, CannedAnswer)
  /\ a = "judge" /\ IsLLM(p) => output = Decision(p, CannedPlan)

CannedOK ==
  canned => \A p \in Pairs : \A a \in AgentIds :
    runs[p][a].status = "ok" => IsCanned(p, a, runs[p][a].output)

\* A council agent's answer was validated.
OutputsOK ==
  \A p \in Pairs : \A a \in CouncilIds : runs[p][a].status = "ok" =>
    /\ RecommendationValid(runs[p][a].output)
    /\ \E answer \in AnyAnswer(a) :
         runs[p][a].output = Recommendation(p, a, answer)

\* What an agent was given is what the agents before it, all settled, came to.
SeenOK ==
  \A p \in Pairs : \A a \in AgentIds : seen[p][a] # None =>
    LET in == seen[p][a] IN
    /\ a # "market_climate" =>
         /\ IsLLM(p) => runs[p]["market_climate"].status \in Settled
         /\ in.climate = Climate(p)
    /\ IF a \in {"skeptic", "risk_manager", "judge"}
       THEN /\ \A c \in CouncilOf(p) : runs[p][c].status \in Settled
            /\ in.council = Recommendations(p)
       ELSE in.council = <<>>
    /\ a = "judge" /\ IsLLM(p) =>
         /\ \A b \in {"skeptic", "risk_manager"} : runs[p][b].status \in Settled
         /\ in.skeptic = Report(p, "skeptic") /\ in.risk = Report(p, "risk_manager")

EventsOK ==
  \A p \in Pairs :
    LET told == ToSet(events[p]) IN
    IF stage[p] = "ended"
    THEN /\ <<"track_completed">> \in told
         /\ \A a \in CouncilIds :
              (<<"recommendation_emitted", a>> \in told) = (runs[p][a].status = "ok")
         /\ (<<"judge_decided", "judge">> \in told) = (runs[p]["judge"].status = "ok")
    ELSE told \subseteq {<<"track_started">>}

Stored == {p \in Pairs : rows.track[p] \in {"ok", "partial"}}

RowsOK ==
  /\ rows = [track |-> rows.track, agent |-> rows.agent, rec |-> rows.rec,
             plan |-> rows.plan, act |-> rows.act]
  /\ rows.track \in [Pairs -> {"none", "ok", "partial", "failed"}]
  /\ rows.agent \in [Pairs -> [AgentIds -> {"none", "ok", "quarantined"}]]
  /\ rows.rec = [id \in RecIds |-> rows.rec[id]]
  /\ \A p \in Pairs :
       /\ rows.track[p] = "failed" => stage[p] = "failed"
       /\ IF p \in Stored
          THEN /\ stage[p] = "ended" /\ rows.track[p] = RunStatus(p)
               /\ \A a \in AgentIds : rows.agent[p][a] = runs[p][a].status
          ELSE \A a \in AgentIds : rows.agent[p][a] = "none"

RecordsOK ==
  /\ \A id \in RecIds : rows.rec[id] # None =>
       \E p \in Stored : \E i \in DOMAIN Recommendations(p) :
         /\ Recommendations(p)[i].id = id
         /\ rows.rec[id] = RecommendationRow(p, Recommendations(p)[i])
  /\ \A p \in Stored : \A i \in DOMAIN Recommendations(p) :
       LET r == Recommendations(p)[i] IN
       /\ rows.rec[r.id] # None
       /\ \/ rows.rec[r.id] = RecommendationRow(p, r)
          \/ \E q \in Stored : \E j \in DOMAIN Recommendations(q) :
               Recommendations(q)[j].id = r.id /\ <<q, j>> # <<p, i>>

IInv == /\ ShapeOK /\ ClientOK /\ StageOK /\ OutputsOK /\ CannedOK /\ SeenOK
        /\ EventsOK /\ RowsOK /\ RecordsOK

-----------------------------------------------------------------------------
(* The registry: who runs on a pair, and in which stage.                   *)

\* Keeping only some agents of a list keeps exactly those.
LEMMA OnlyInElements ==
  ASSUME NEW S, NEW agents \in Seq(S), NEW some
  PROVE  /\ OnlyIn(agents, some) \in Seq(S)
         /\ ToSet(OnlyIn(agents, some)) = ToSet(agents) \cap some
<1> DEFINE parts == [i \in DOMAIN agents |-> IF agents[i] \in some THEN <<agents[i]>> ELSE <<>>]
<1>1. DOMAIN agents = 1..Len(agents) /\ Len(agents) \in Nat /\ \A i \in DOMAIN agents : agents[i] \in S
  OBVIOUS
<1>2. parts \in Seq(Seq(S)) /\ DOMAIN parts = DOMAIN agents
  <2>1. \A i \in 1..Len(agents) : parts[i] \in Seq(S)
    BY <1>1
  <2>2. parts = [i \in 1..Len(agents) |-> parts[i]]
    BY <1>1
  <2> HIDE DEF parts
  <2>3. parts \in [1..Len(agents) -> Seq(S)]
    BY <2>1, <2>2
  <2> QED
    BY <1>1, <2>3
<1>3. ASSUME NEW x, NEW i \in DOMAIN agents
      PROVE  x \in ToSet(parts[i]) <=> x = agents[i] /\ x \in some
  BY DEF ToSet
<1>4. OnlyIn(agents, some) = FlattenSeq(parts)
  BY DEF OnlyIn
<1> HIDE DEF parts
<1>5. /\ FlattenSeq(parts) \in Seq(S)
      /\ \A x : x \in ToSet(FlattenSeq(parts)) <=> \E i \in DOMAIN parts : x \in ToSet(parts[i])
  BY <1>2, FlattenElements
<1>6. ASSUME NEW x PROVE x \in ToSet(OnlyIn(agents, some)) <=> x \in ToSet(agents) \cap some
  <2>1. x \in ToSet(agents) <=> \E i \in DOMAIN agents : x = agents[i]
    BY DEF ToSet
  <2> QED
    BY <1>2, <1>3, <1>4, <1>5, <2>1
<1> QED
  BY <1>4, <1>5, <1>6

\* It does not matter what else is in the set.
LEMMA OnlyInSame ==
  ASSUME NEW agents, NEW some, NEW others,
         \A a \in ToSet(agents) : a \in some <=> a \in others
  PROVE  OnlyIn(agents, some) = OnlyIn(agents, others)
<1>1. \A i \in DOMAIN agents : agents[i] \in some <=> agents[i] \in others
  BY DEF ToSet
<1>2. [i \in DOMAIN agents |-> IF agents[i] \in some THEN <<agents[i]>> ELSE <<>>]
        = [i \in DOMAIN agents |-> IF agents[i] \in others THEN <<agents[i]>> ELSE <<>>]
  BY <1>1
<1> QED
  BY <1>2 DEF OnlyIn

\* The council of a pair is a part of COUNCIL, in sequence.
LEMMA CouncilFacts ==
  ASSUME NEW p \in Pairs
  PROVE  /\ CouncilFor[p] \in Seq(CouncilIds) /\ CouncilFor[p] \in Seq(AgentIds)
         /\ CouncilOf(p) \subseteq CouncilIds
<1>1. CouncilList \in Seq(CouncilIds)
  BY TrackRunAssumption DEF CouncilIds
<1>2. CouncilFor[p] \in Seq(CouncilIds) /\ CouncilOf(p) \subseteq CouncilIds
  <2>1. CASE IsLLM(p)
    BY <1>1, <2>1, OnlyInElements DEF CouncilFor, CouncilOf, CouncilIds
  <2>2. CASE ~ IsLLM(p)
    BY <1>1, <2>2 DEF CouncilFor, CouncilOf, CouncilIds
  <2> QED
    BY <2>1, <2>2
<1>3. CouncilIds \subseteq AgentIds
  BY DEF CouncilIds, AgentIds
<1> QED
  BY <1>2, <1>3

Fixed == {"market_climate", "skeptic", "risk_manager", "judge"}

\* The ids of the four other agents are no council agent's.
LEMMA AgentFacts ==
  /\ CouncilIds \cap Fixed = {} /\ AgentIds = CouncilIds \cup Fixed
  /\ \A p \in Pairs : CouncilOf(p) \subseteq CouncilIds
BY TrackRunAssumption, CouncilFacts DEF CouncilIds, AgentIds, Fixed

\* TrackRunResult.all_runs has the agents of all the pair's stages.
LEMMA AllRunsFacts ==
  ASSUME NEW p \in Pairs
  PROVE  /\ AllRuns[p] \in Seq(AgentIds)
         /\ ToSet(AllRuns[p]) = CouncilOf(p) \cup
              IF IsLLM(p) THEN Fixed ELSE {"judge"}
<1>1. CouncilFor[p] \in Seq(AgentIds)
  BY CouncilFacts
<1>2. CASE IsLLM(p)
  <2> DEFINE head == <<"market_climate">>
             tail == <<"skeptic", "risk_manager", "judge">>
             front == head \o CouncilFor[p]
  <2>1. AllRuns[p] = front \o tail
    BY <1>2 DEF AllRuns
  <2>2. head \in Seq(AgentIds) /\ tail \in Seq(AgentIds)
    BY DEF AgentIds
  <2>3. /\ \A e : e \in ToSet(head) <=> e = "market_climate"
        /\ \A e : e \in ToSet(tail) <=> e \in {"skeptic", "risk_manager", "judge"}
    BY DEF ToSet
  <2> HIDE DEF head, tail
  <2>4. front \in Seq(AgentIds) /\ \A e : e \in ToSet(front) <=> e \in ToSet(head) \/ e \in CouncilOf(p)
    BY <1>1, <2>2, ConcatElements DEF CouncilOf
  <2> HIDE DEF front
  <2>5. /\ front \o tail \in Seq(AgentIds)
        /\ \A e : e \in ToSet(front \o tail) <=> e \in ToSet(front) \/ e \in ToSet(tail)
    BY <2>2, <2>4, ConcatElements
  <2>6. \A e : e \in ToSet(AllRuns[p]) <=> e \in CouncilOf(p) \cup Fixed
    BY <2>1, <2>3, <2>4, <2>5 DEF Fixed
  <2> QED
    BY <1>2, <2>1, <2>5, <2>6
<1>3. CASE ~ IsLLM(p)
  <2> DEFINE tail == <<"judge">>
  <2>1. AllRuns[p] = CouncilFor[p] \o tail
    BY <1>3 DEF AllRuns
  <2>2. tail \in Seq(AgentIds) /\ \A e : e \in ToSet(tail) <=> e = "judge"
    BY DEF AgentIds, ToSet
  <2> HIDE DEF tail
  <2>3. /\ CouncilFor[p] \o tail \in Seq(AgentIds)
        /\ \A e : e \in ToSet(CouncilFor[p] \o tail) <=> e \in CouncilOf(p) \/ e \in ToSet(tail)
    BY <1>1, <2>2, ConcatElements DEF CouncilOf
  <2>4. \A e : e \in ToSet(AllRuns[p]) <=> e \in CouncilOf(p) \cup {"judge"}
    BY <2>1, <2>2, <2>3
  <2> QED
    BY <1>3, <2>1, <2>3, <2>4
<1> QED
  BY <1>2, <1>3

-----------------------------------------------------------------------------
(* The stages, and the steps between them.                                 *)

\* Which stage comes after which.
Follows(p, s, t) ==
  \/ s = "waiting" /\ t = IF IsLLM(p) THEN "climate" ELSE "council"
  \/ s = "climate" /\ IsLLM(p) /\ t = "council"
  \/ s = "council" /\ t = IF IsLLM(p) THEN "adversarial" ELSE "judge"
  \/ s = "adversarial" /\ IsLLM(p) /\ t = "judge"
  \/ s = "judge" /\ t = "ended"

\* Who is in a stage, and who before it.
LEMMA StageSets ==
  ASSUME NEW p \in Pairs
  PROVE  /\ Members(p, "waiting") = {} /\ Members(p, "climate") = {"market_climate"}
         /\ Members(p, "council") = CouncilOf(p)
         /\ Members(p, "adversarial") = {"skeptic", "risk_manager"}
         /\ Members(p, "judge") = {"judge"}
         /\ Members(p, "ended") = {} /\ Members(p, "failed") = {}
         /\ Before(p, "waiting") = {} /\ Before(p, "climate") = {}
         /\ Before(p, "council") = IF IsLLM(p) THEN {"market_climate"} ELSE {}
         /\ Before(p, "adversarial") = {"market_climate"} \cup CouncilOf(p)
         /\ Before(p, "judge") =
              IF IsLLM(p) THEN CouncilOf(p) \cup {"market_climate", "skeptic", "risk_manager"}
              ELSE CouncilOf(p)
         /\ Before(p, "ended") =
              IF IsLLM(p) THEN CouncilOf(p) \cup Fixed ELSE CouncilOf(p) \cup {"judge"}
<1>1. ToSet(AllRuns[p]) = IF IsLLM(p) THEN CouncilOf(p) \cup Fixed ELSE CouncilOf(p) \cup {"judge"}
  BY AllRunsFacts
<1> QED
  BY <1>1 DEF Members, Before, CouncilOf

\* Every stage begins with agents that were in no stage before.
LEMMA StageOrder ==
  ASSUME NEW p \in Pairs, NEW s \in Stages, NEW t, Follows(p, s, t)
  PROVE  /\ t \in Stages /\ t # "failed" /\ t # "waiting" /\ s # "failed" /\ s # "ended"
         /\ t \in {"climate", "adversarial"} => IsLLM(p)
         /\ Before(p, t) = Before(p, s) \cup Members(p, s)
         /\ Members(p, t) \cap Before(p, t) = {}
         /\ Members(p, t) \subseteq AgentIds
         /\ t # "ended" => s # "judge" /\ s # "ended"
<1> USE StageSets, AgentFacts DEF Follows, Stages, Fixed
<1>1. CASE s = "waiting"
  BY <1>1
<1>2. CASE s = "climate"
  BY <1>2
<1>3. CASE s = "council"
  BY <1>3
<1>4. CASE s = "adversarial"
  BY <1>4
<1>5. CASE s = "judge"
  BY <1>5
<1> QED
  BY <1>1, <1>2, <1>3, <1>4, <1>5

\* A stage begins: what has gone before it, and what its agents are given.
Starts(p, t, council, skeptic, risk) ==
  /\ Follows(p, stage[p], t) /\ t # "ended"
  /\ stage[p] # "waiting" => StageOver(p)
  /\ council = IF t \in {"adversarial", "judge"} THEN Recommendations(p) ELSE <<>>
  /\ t = "judge" /\ IsLLM(p) =>
       skeptic = Report(p, "skeptic") /\ risk = Report(p, "risk_manager")
  /\ Launch(p, t, council, skeptic, risk)

\* A pair cannot start.
StartFails(p) == /\ stage[p] = "waiting" /\ stage' = [stage EXCEPT ![p] = "failed"]
                 /\ UNCHANGED <<runs, seen, client, bound>>

\* What a step of run_track is.
LEMMA StepKinds ==
  ASSUME NEW p \in Pairs, StageOK, Step(p)
  PROVE  \/ \E t, council, skeptic, risk : Starts(p, t, council, skeptic, risk)
         \/ AfterJudge(p) \/ Abort(p) \/ StartFails(p)
<1>1. CASE Begin(p)
  <2> DEFINE t == IF IsLLM(p) THEN "climate" ELSE "council"
  <2>1. StartFails(p) \/ Launch(p, t, <<>>, None, None)
    BY <1>1 DEF Begin, StartFails
  <2>2. ASSUME Launch(p, t, <<>>, None, None) PROVE Starts(p, t, <<>>, None, None)
    BY <1>1, <2>2 DEF Begin, Starts, Follows
  <2> QED
    BY <2>1, <2>2
<1>2. CASE AfterClimate(p)
  <2>1. Starts(p, "council", <<>>, None, None)
    BY <1>2 DEF AfterClimate, Starts, Follows, StageOK
  <2> QED
    BY <2>1
<1>3. CASE AfterCouncil(p)
  <2>1. Starts(p, IF IsLLM(p) THEN "adversarial" ELSE "judge", Recommendations(p), None, None)
    BY <1>3 DEF AfterCouncil, Starts, Follows
  <2> QED
    BY <2>1
<1>4. CASE AfterAdversarial(p)
  <2>1. Starts(p, "judge", Recommendations(p), Report(p, "skeptic"), Report(p, "risk_manager"))
    BY <1>4 DEF AfterAdversarial, Starts, Follows, StageOK
  <2> QED
    BY <2>1
<1> QED
  BY <1>1, <1>2, <1>3, <1>4 DEF Step

\* The envelopes.
LEMMA Envelopes ==
  /\ NotRun.status = "none" /\ NotRun.output = None
  /\ Running.status = "running" /\ Running.output = None
  /\ Quarantined.status = "quarantined" /\ Quarantined.output = None
  /\ Raised.status = "raised" /\ Raised.output = None
  /\ \A output : Ok(output).status = "ok" /\ Ok(output).output = output
BY DEF NotRun, Running, Quarantined, Raised, Ok

KeepsShape ==
  /\ runs' = [q \in Pairs |-> runs'[q]] /\ seen' = [q \in Pairs |-> seen'[q]]
  /\ \A q \in Pairs : /\ runs'[q] = [a \in AgentIds |-> runs'[q][a]]
                      /\ seen'[q] = [a \in AgentIds |-> seen'[q][a]]

SetsOut(p, t) ==
  \A q \in Pairs, a \in AgentIds :
    runs'[q][a] = IF q = p /\ a \in Members(p, t) THEN Running ELSE runs[q][a]

Shows(p, t, council, skeptic, risk) ==
  /\ \A q \in Pairs, a \in AgentIds :
       ~(q = p /\ a \in Members(p, t)) => seen'[q][a] = seen[q][a]
  /\ \A a \in AgentIds \cap Members(p, t) :
       seen'[p][a] = [climate |-> IF t = "climate" THEN None ELSE Climate(p),
                      council |-> council, skeptic |-> skeptic, risk |-> risk]

\* A stage that begins sets its own agents out, and touches nothing else.
LEMMA LaunchEffect ==
  ASSUME ShapeOK, NEW p \in Pairs, NEW t, NEW council, NEW skeptic, NEW risk,
         Launch(p, t, council, skeptic, risk)
  PROVE  /\ stage' = [stage EXCEPT ![p] = t]
         /\ KeepsShape /\ SetsOut(p, t) /\ Shows(p, t, council, skeptic, risk)
<1> DEFINE mine == [a \in AgentIds |-> IF a \in Members(p, t) THEN Running ELSE runs[p][a]]
           given == [climate |-> IF t = "climate" THEN None ELSE Climate(p),
                     council |-> council, skeptic |-> skeptic, risk |-> risk]
           shown == [a \in AgentIds |-> IF a \in Members(p, t) THEN given ELSE seen[p][a]]
<1>1. /\ stage' = [stage EXCEPT ![p] = t]
      /\ runs' = [runs EXCEPT ![p] = mine] /\ seen' = [seen EXCEPT ![p] = shown]
  BY DEF Launch
<1>2. /\ \A a \in AgentIds : mine[a] = IF a \in Members(p, t) THEN Running ELSE runs[p][a]
      /\ \A a \in AgentIds : shown[a] = IF a \in Members(p, t) THEN given ELSE seen[p][a]
      /\ mine = [a \in AgentIds |-> mine[a]] /\ shown = [a \in AgentIds |-> shown[a]]
  OBVIOUS
<1> HIDE DEF mine, shown, given
<1>3. /\ runs = [q \in Pairs |-> runs[q]] /\ seen = [q \in Pairs |-> seen[q]]
      /\ \A q \in Pairs : /\ runs[q] = [a \in AgentIds |-> runs[q][a]]
                          /\ seen[q] = [a \in AgentIds |-> seen[q][a]]
  BY DEF ShapeOK
<1>4. \A q \in Pairs : /\ runs'[q] = IF q = p THEN mine ELSE runs[q]
                       /\ seen'[q] = IF q = p THEN shown ELSE seen[q]
  BY <1>1, <1>3
<1>5. runs' = [q \in Pairs |-> runs'[q]] /\ seen' = [q \in Pairs |-> seen'[q]]
  BY <1>1, <1>3
<1>6. \A q \in Pairs : /\ runs'[q] = [a \in AgentIds |-> runs'[q][a]]
                       /\ seen'[q] = [a \in AgentIds |-> seen'[q][a]]
  BY <1>2, <1>3, <1>4
<1> QED
  <2>1. KeepsShape
    BY <1>5, <1>6 DEF KeepsShape
  <2>2. SetsOut(p, t)
    BY <1>2, <1>4 DEF SetsOut
  <2>3. Shows(p, t, council, skeptic, risk)
    BY <1>2, <1>4 DEF Shows, given
  <2> QED
    BY <1>1, <2>1, <2>2, <2>3

\* What an agent may return on a pair.
IsEnvelope(p, a, e) ==
  /\ e.status \in {"ok", "quarantined", "raised"}
  /\ (e.output # None) = (e.status = "ok")
  /\ a \in CouncilIds /\ e.status = "ok" =>
       /\ RecommendationValid(e.output)
       /\ \E answer \in AnyAnswer(a) : e.output = Recommendation(p, a, answer)
  /\ canned /\ e.status = "ok" => IsCanned(p, a, e.output)

\* A thread returns an envelope of its agent: what it says was validated, and
\* what a canned client says is made of the packet of the pair it is bound to.
LEMMA ThreadKinds ==
  ASSUME ShapeOK, ClientOK, NEW p \in Pairs, NEW a \in AgentIds, Thread(p, a)
  PROVE  /\ \E e : IsEnvelope(p, a, e) /\ Return(p, a, e)
         /\ faults' \in 0..MaxFaults
<1>0. a \in CouncilIds => a # "judge"
  BY AgentFacts DEF Fixed
<1>1. faults \in 0..MaxFaults /\ MaxFaults \in Nat
  BY TrackRunAssumption DEF ShapeOK
<1>2. IsEnvelope(p, a, Quarantined) /\ IsEnvelope(p, a, Raised)
  BY Envelopes DEF IsEnvelope
<1>3. ASSUME NEW output,
             a \in CouncilIds => \E answer \in AnyAnswer(a) :
                                   output = Recommendation(p, a, answer),
             canned => IsCanned(p, a, output)
      PROVE  IsEnvelope(p, a, Checked(a, output))
  <2>1. CASE Accepts(a, output)
    <3>1. output # None /\ (a \in CouncilIds => RecommendationValid(output))
      BY <1>0, <2>1 DEF Accepts, CouncilIds
    <3>2. Checked(a, output) = Ok(output)
      BY <2>1 DEF Checked
    <3> QED
      BY <1>3, <3>1, <3>2, Envelopes DEF IsEnvelope
  <2>2. CASE ~ Accepts(a, output)
    BY <1>2, <2>2 DEF Checked
  <2> QED
    BY <2>1, <2>2
<1>4. ASSUME NEW answers, NEW plans, NEW output \in Returns(p, a, answers, plans),
             a \in CouncilIds => answers \subseteq AnyAnswer(a),
             canned => answers = {CannedAnswer} /\ plans = {CannedPlan}
      PROVE  IsEnvelope(p, a, Checked(a, output))
  <2>1. a \in CouncilIds => output \in {Recommendation(p, a, r) : r \in answers}
    BY <1>0, <1>4 DEF Returns, CouncilIds
  <2>2. a \notin CouncilIds /\ a = "judge" => output \in {Decision(p, d) : d \in plans}
    BY <1>4 DEF Returns, CouncilIds
  <2>3. a \in CouncilIds => \E answer \in AnyAnswer(a) : output = Recommendation(p, a, answer)
    BY <1>4, <2>1
  <2>4. canned => IsCanned(p, a, output)
    BY <1>0, <1>4, <2>1, <2>2 DEF IsCanned
  <2> QED
    BY <1>3, <2>3, <2>4
<1>5. CASE Answer(p, a)
  <2>1. client[p] # None /\ faults' = faults
    BY <1>5 DEF Answer
  <2>2. ASSUME canned PROVE \E e : IsEnvelope(p, a, e) /\ Return(p, a, e)
    <3>1. bound[client[p]] = p
      BY <2>1, <2>2 DEF ClientOK
    <3>2. PICK output \in Returns(p, a, {CannedAnswer}, {CannedPlan}) : Return(p, a, Checked(a, output))
      BY <1>5, <2>2, <3>1 DEF Answer
    <3>3. {CannedAnswer} \subseteq AnyAnswer(a)
      BY DEF AnyAnswer
    <3> QED
      BY <1>4, <3>2, <3>3
  <2>3. ASSUME ~canned PROVE \E e : IsEnvelope(p, a, e) /\ Return(p, a, e)
    <3>1. PICK output \in Returns(p, a, AnswersOf(a), JudgePlans) : Return(p, a, Checked(a, output))
      BY <1>5, <2>3 DEF Answer
    <3>2. a \in CouncilIds => AnswersOf(a) \subseteq AnyAnswer(a)
      BY DEF AnswersOf, AnyAnswer, CouncilIds
    <3> QED
      BY <1>4, <2>3, <3>1, <3>2
  <2> QED
    BY <1>1, <2>1, <2>2, <2>3
<1>6. CASE AnswerBadly(p, a)
  <2>1. ~canned
    BY <1>6 DEF AnswerBadly
  <2>2. PICK output \in Returns(p, a, BadAnswers, BadPlans) : Return(p, a, Checked(a, output))
    BY <1>6 DEF AnswerBadly
  <2>3. BadAnswers \subseteq AnyAnswer(a)
    BY DEF AnyAnswer
  <2>4. IsEnvelope(p, a, Checked(a, output))
    BY <1>4, <2>1, <2>2, <2>3
  <2>5. faults' \in 0..MaxFaults
    BY <1>1, <1>6 DEF AnswerBadly, MayFail
  <2> QED
    BY <2>2, <2>4, <2>5
<1>7. CASE DecideLocally(p, a)
  <2>1. a = "judge" /\ faults' = faults
    BY <1>7 DEF DecideLocally, RequiresLLM
  <2>2. PICK plan \in Baseline(p) : Return(p, a, Checked(a, plan))
    BY <1>7 DEF DecideLocally
  <2>3. a \notin CouncilIds
    BY <2>1, AgentFacts DEF Fixed
  <2>4. ~IsLLM(p)
    BY <1>7 DEF DecideLocally, RequiresLLM
  <2>5. IsEnvelope(p, a, Checked(a, plan))
    BY <1>3, <2>3, <2>4 DEF IsCanned
  <2> QED
    BY <1>1, <2>1, <2>2, <2>5
<1>8. CASE NoClient(p, a) \/ CallFails(p, a) \/ Raise(p, a)
  <2>1. Return(p, a, Quarantined) \/ Return(p, a, Raised)
    BY <1>8 DEF NoClient, CallFails, Raise
  <2>2. faults' \in 0..MaxFaults
    BY <1>1, <1>8 DEF NoClient, CallFails, Raise, MayFail
  <2> QED
    BY <1>2, <2>1, <2>2
<1> QED
  BY <1>5, <1>6, <1>7, <1>8 DEF Thread

\* A thread that returns settles its own agent, and touches nothing else.
LEMMA ReturnEffect ==
  ASSUME ShapeOK, NEW p \in Pairs, NEW a \in AgentIds, NEW e, Return(p, a, e)
  PROVE  /\ runs' = [q \in Pairs |-> runs'[q]]
         /\ \A q \in Pairs : runs'[q] = [b \in AgentIds |-> runs'[q][b]]
         /\ \A q \in Pairs, b \in AgentIds :
              runs'[q][b] = IF q = p /\ b = a THEN e ELSE runs[q][b]
         /\ runs[p][a].status = "running"
         /\ UNCHANGED <<stage, seen, client, bound, events, rows, booked>>
<1>1. /\ runs = [q \in Pairs |-> runs[q]]
      /\ \A q \in Pairs : runs[q] = [b \in AgentIds |-> runs[q][b]]
  BY DEF ShapeOK
<1>2. runs' = [runs EXCEPT ![p] = [runs[p] EXCEPT ![a] = e]]
  BY DEF Return
<1> DEFINE mine == [runs[p] EXCEPT ![a] = e]
<1>3. /\ mine = [b \in AgentIds |-> mine[b]]
      /\ \A b \in AgentIds : mine[b] = IF b = a THEN e ELSE runs[p][b]
  <2> DEFINE r == runs[p]
  <2>1. r = [b \in AgentIds |-> r[b]]
    BY <1>1
  <2> HIDE DEF r
  <2>2. /\ [r EXCEPT ![a] = e] = [b \in AgentIds |-> [r EXCEPT ![a] = e][b]]
        /\ \A b \in AgentIds : [r EXCEPT ![a] = e][b] = IF b = a THEN e ELSE r[b]
    BY <2>1
  <2> QED
    BY <2>2 DEF r
<1>4. runs' = [runs EXCEPT ![p] = mine]
  BY <1>2
<1> HIDE DEF mine
<1>5. \A q \in Pairs : runs'[q] = IF q = p THEN mine ELSE runs[q]
  BY <1>1, <1>4
<1>6. runs' = [q \in Pairs |-> runs'[q]]
  BY <1>1, <1>4
<1>7. \A q \in Pairs : runs'[q] = [b \in AgentIds |-> runs'[q][b]]
  BY <1>1, <1>3, <1>5
<1>8. \A q \in Pairs, b \in AgentIds :
        runs'[q][b] = IF q = p /\ b = a THEN e ELSE runs[q][b]
  BY <1>3, <1>5
<1>9. runs[p][a].status = "running" /\ UNCHANGED <<stage, seen, client, bound, events, rows, booked>>
  BY DEF Return, ledger
<1> QED
  BY <1>6, <1>7, <1>8, <1>9

\* The factory of a window's clients is one and the same.
LEMMA FactoryStays ==
  ASSUME [Next]_vars
  PROVE  canned' = canned
BY DEF Next, Step, Thread, Begin, AfterClimate, AfterCouncil, AfterAdversarial, AfterJudge, Abort,
       Answer, AnswerBadly, DecideLocally, NoClient, CallFails, Raise, Return, Persist, vars

\* What any step is, for the agents and their stages.
LEMMA Moves ==
  ASSUME ShapeOK, ClientOK, StageOK, [Next]_vars
  PROVE  \/ \E p \in Pairs : /\ \E t, council, skeptic, risk : Starts(p, t, council, skeptic, risk)
                             /\ UNCHANGED <<rows, booked>>
         \/ \E p \in Pairs : AfterJudge(p)
         \/ \E p \in Pairs : (Abort(p) \/ StartFails(p)) /\ UNCHANGED <<rows, booked>>
         \/ \E p \in Pairs, a \in AgentIds : \E e : IsEnvelope(p, a, e) /\ Return(p, a, e)
         \/ UNCHANGED <<stage, runs, seen, client, bound, events>>
<1>1. ASSUME NEW p \in Pairs, Step(p) PROVE UNCHANGED <<rows, booked>>
  BY <1>1 DEF Step, Begin, AfterClimate, AfterCouncil, AfterAdversarial, AfterJudge, Abort, ledger
<1>2. ASSUME NEW p \in Pairs, Step(p)
      PROVE  \/ \E t, council, skeptic, risk : Starts(p, t, council, skeptic, risk)
             \/ AfterJudge(p) \/ Abort(p) \/ StartFails(p)
  BY <1>2, StepKinds
<1>3. ASSUME NEW p \in Pairs, NEW a \in AgentIds, Thread(p, a)
      PROVE  \E e : IsEnvelope(p, a, e) /\ Return(p, a, e)
  BY <1>3, ThreadKinds
<1>4. Persist => UNCHANGED <<stage, runs, seen, client, bound, events>>
  BY DEF Persist
<1>5. UNCHANGED vars => UNCHANGED <<stage, runs, seen, client, bound, events>>
  BY DEF vars
<1>6. \/ \E p \in Pairs : Step(p) \/ \E a \in AgentIds : Thread(p, a)
      \/ Persist \/ UNCHANGED vars
  BY DEF Next
<1> QED
  BY <1>1, <1>2, <1>3, <1>4, <1>5, <1>6

\* An agent that has settled or raised is never heard of again.
LEMMA SettledStay ==
  ASSUME ShapeOK, ClientOK, StageOK, [Next]_vars
  PROVE  \A p \in Pairs, a \in AgentIds :
           runs[p][a].status \in Settled \cup {"raised"} => runs'[p][a] = runs[p][a]
<1> SUFFICES ASSUME NEW p \in Pairs, NEW a \in AgentIds, runs[p][a].status \in Settled \cup {"raised"}
             PROVE  runs'[p][a] = runs[p][a]
  OBVIOUS
<1>1. ASSUME NEW q \in Pairs, NEW t, NEW council, NEW skeptic, NEW risk,
             Starts(q, t, council, skeptic, risk)
      PROVE  runs'[p][a] = runs[p][a]
  <2>1. Launch(q, t, council, skeptic, risk) /\ Follows(q, stage[q], t) /\ t # "ended" /\ stage[q] \in Stages
    BY <1>1 DEF Starts, ShapeOK
  <2>2. \A r \in Pairs, b \in AgentIds :
          runs'[r][b] = IF r = q /\ b \in Members(q, t) THEN Running ELSE runs[r][b]
    BY <2>1, LaunchEffect DEF SetsOut
  <2>3. /\ stage[q] # "failed" /\ Before(q, t) = Before(q, stage[q]) \cup Members(q, stage[q])
        /\ Members(q, t) \cap Before(q, t) = {}
    BY <2>1, StageOrder
  <2>4. ASSUME p = q, a \in Members(q, t) PROVE FALSE
    <3>1. a \notin Before(q, stage[q]) /\ a \notin Members(q, stage[q])
      BY <2>3, <2>4
    <3>2. runs[q][a].status = "none"
      BY <2>3, <3>1 DEF StageOK
    <3> QED
      BY <2>4, <3>2 DEF Settled
  <2> QED
    BY <2>2, <2>4
<1>2. ASSUME NEW q \in Pairs, NEW b \in AgentIds, NEW e, Return(q, b, e)
      PROVE  runs'[p][a] = runs[p][a]
  <2>1. /\ runs'[p][a] = IF p = q /\ a = b THEN e ELSE runs[p][a]
        /\ runs[q][b].status = "running"
    BY <1>2, ReturnEffect
  <2> QED
    BY <2>1 DEF Settled
<1>3. ASSUME NEW q \in Pairs, AfterJudge(q) \/ Abort(q) \/ StartFails(q) PROVE runs' = runs
  BY <1>3 DEF AfterJudge, Abort, StartFails
<1>4. \/ \E q \in Pairs : \E t, council, skeptic, risk : Starts(q, t, council, skeptic, risk)
      \/ \E q \in Pairs : AfterJudge(q) \/ Abort(q) \/ StartFails(q)
      \/ \E q \in Pairs : \E b \in AgentIds : \E e : Return(q, b, e)
      \/ UNCHANGED runs
  BY Moves
<1> QED
  BY <1>1, <1>2, <1>3, <1>4

\* What the council of a pair came to, once all of it has settled, stands.
LEMMA CouncilStands ==
  ASSUME NEW p \in Pairs, \A c \in CouncilOf(p) : runs'[p][c] = runs[p][c]
  PROVE  Recommendations(p)' = Recommendations(p)
<1> DEFINE some == {a \in AgentIds : runs[p][a].status = "ok"}
           others == {a \in AgentIds : runs'[p][a].status = "ok"}
           ok == OnlyIn(CouncilFor[p], some)
           now == OnlyIn(CouncilFor[p], others)
<1>1. ok = now
  <2>1. \A a \in CouncilOf(p) : a \in some <=> a \in others
    OBVIOUS
  <2> HIDE DEF some, others
  <2> QED
    BY <2>1, OnlyInSame DEF CouncilOf
<1>2. ToSet(ok) \subseteq CouncilOf(p)
  <2> HIDE DEF some
  <2> QED
    BY CouncilFacts, OnlyInElements DEF CouncilOf
<1>3. Recommendations(p) = [i \in DOMAIN ok |-> runs[p][ok[i]].output]
  BY DEF Recommendations
<1>4. Recommendations(p)' = [i \in DOMAIN now |-> runs'[p][now[i]].output]
  BY DEF Recommendations
<1> HIDE DEF ok, now
<1>5. \A i \in DOMAIN ok : ok[i] \in CouncilOf(p)
  BY <1>2 DEF ToSet
<1>6. \A i \in DOMAIN ok : runs'[p][ok[i]] = runs[p][ok[i]]
  BY <1>5
<1> QED
  BY <1>1, <1>3, <1>4, <1>6

-----------------------------------------------------------------------------
(* What is published about a pair.                                         *)

EventNames == {"agent_completed", "recommendation_emitted", "judge_decided"}

\* An event for each agent of a list.
LEMMA EachElements ==
  ASSUME NEW agents \in Seq(AgentIds), NEW name \in EventNames
  PROVE  LET each == [i \in DOMAIN agents |-> <<name, agents[i]>>] IN
         /\ each \in Seq(EventSet)
         /\ \A e : e \in ToSet(each) <=> \E a \in ToSet(agents) : e = <<name, a>>
<1> DEFINE each == [i \in DOMAIN agents |-> <<name, agents[i]>>]
<1>1. DOMAIN agents = 1..Len(agents) /\ Len(agents) \in Nat /\ \A i \in DOMAIN agents : agents[i] \in AgentIds
  OBVIOUS
<1>2. \A i \in DOMAIN agents : <<name, agents[i]>> \in EventSet
  BY <1>1 DEF EventSet, EventNames
<1>3. each \in [1..Len(agents) -> EventSet]
  BY <1>1, <1>2
<1>4. each \in Seq(EventSet)
  BY <1>1, <1>3
<1>5. ASSUME NEW e PROVE e \in ToSet(each) <=> \E a \in ToSet(agents) : e = <<name, a>>
  BY DEF ToSet
<1> QED
  BY <1>4, <1>5

\* What _run_one_track publishes of a pair that has ended.
LEMMA EventsOfFacts ==
  ASSUME ShapeOK, NEW p \in Pairs
  PROVE  /\ EventsOf(p) \in Seq(EventSet)
         /\ <<"track_completed">> \in ToSet(EventsOf(p))
         /\ \A a \in AgentIds :
              <<"recommendation_emitted", a>> \in ToSet(EventsOf(p))
                <=> a \in CouncilOf(p) /\ runs[p][a].status = "ok"
         /\ <<"judge_decided", "judge">> \in ToSet(EventsOf(p)) <=> runs[p]["judge"].status = "ok"
<1> DEFINE Each(agents, name) == [i \in DOMAIN agents |-> <<name, agents[i]>>]
           spoke == {a \in AgentIds : runs[p][a].output # None}
           judge == <<"judge">>
           said == OnlyIn(CouncilFor[p], spoke)
           decided == OnlyIn(judge, spoke)
           w == Each(AllRuns[p], "agent_completed")
           x == Each(said, "recommendation_emitted")
           y == Each(decided, "judge_decided")
           z == <<<<"track_completed">>>>
<1>1. EventsOf(p) = ((w \o x) \o y) \o z
  BY DEF EventsOf
<1>2. \A a \in AgentIds : a \in spoke <=> runs[p][a].status = "ok"
  BY DEF ShapeOK
<1>3. judge \in Seq(AgentIds) /\ ToSet(judge) = {"judge"} /\ "judge" \in AgentIds
  BY DEF AgentIds, ToSet
<1>4. /\ AllRuns[p] \in Seq(AgentIds) /\ CouncilFor[p] \in Seq(AgentIds)
      /\ CouncilOf(p) \subseteq AgentIds
  BY AllRunsFacts, CouncilFacts, AgentFacts
<1> HIDE DEF spoke, judge
<1>5. /\ said \in Seq(AgentIds) /\ ToSet(said) = CouncilOf(p) \cap spoke
      /\ decided \in Seq(AgentIds) /\ ToSet(decided) = {"judge"} \cap spoke
  BY <1>3, <1>4, OnlyInElements DEF CouncilOf
<1> HIDE DEF said, decided
<1>6. w \in Seq(EventSet) /\ \A e : e \in ToSet(w) <=> \E a \in ToSet(AllRuns[p]) : e = <<"agent_completed", a>>
  BY <1>4, EachElements DEF EventNames
<1>7. x \in Seq(EventSet) /\ \A e : e \in ToSet(x) <=> \E a \in ToSet(said) : e = <<"recommendation_emitted", a>>
  BY <1>5, EachElements DEF EventNames
<1>8. y \in Seq(EventSet) /\ \A e : e \in ToSet(y) <=> \E a \in ToSet(decided) : e = <<"judge_decided", a>>
  BY <1>5, EachElements DEF EventNames
<1>9. z \in Seq(EventSet) /\ \A e : e \in ToSet(z) <=> e = <<"track_completed">>
  BY DEF EventSet, ToSet
<1> HIDE DEF w, x, y, z
<1>10. w \o x \in Seq(EventSet) /\ \A e : e \in ToSet(w \o x) <=> e \in ToSet(w) \/ e \in ToSet(x)
  BY <1>6, <1>7, ConcatElements
<1>11. /\ (w \o x) \o y \in Seq(EventSet)
       /\ \A e : e \in ToSet((w \o x) \o y) <=> e \in ToSet(w \o x) \/ e \in ToSet(y)
  BY <1>8, <1>10, ConcatElements, ZenonT(30)
<1>12. /\ EventsOf(p) \in Seq(EventSet)
       /\ \A e : e \in ToSet(EventsOf(p)) <=> e \in ToSet((w \o x) \o y) \/ e \in ToSet(z)
  <2> DEFINE v == (w \o x) \o y
  <2>1. v \in Seq(EventSet)
    BY <1>11
  <2> HIDE DEF v
  <2>2. v \o z \in Seq(EventSet) /\ \A e : e \in ToSet(v \o z) <=> e \in ToSet(v) \/ e \in ToSet(z)
    BY <1>9, <2>1, ConcatElements
  <2>3. EventsOf(p) = v \o z
    BY <1>1 DEF v
  <2>4. EventsOf(p) \in Seq(EventSet) /\ \A e : e \in ToSet(EventsOf(p)) <=> e \in ToSet(v) \/ e \in ToSet(z)
    BY <2>2, <2>3
  <2> QED
    BY <2>4 DEF v
<1>13. \A e : e \in ToSet(EventsOf(p)) <=>
         \/ \E a \in ToSet(AllRuns[p]) : e = <<"agent_completed", a>>
         \/ \E a \in CouncilOf(p) \cap spoke : e = <<"recommendation_emitted", a>>
         \/ \E a \in {"judge"} \cap spoke : e = <<"judge_decided", a>>
         \/ e = <<"track_completed">>
  BY <1>5, <1>6, <1>7, <1>8, <1>9, <1>10, <1>11, <1>12
<1>14. ASSUME NEW a, NEW b, NEW m, NEW n
       PROVE  <<m, a>> # <<"track_completed">> /\ (<<m, a>> = <<n, b>> => m = n /\ a = b)
  OBVIOUS
<1>15. \A a \in AgentIds : <<"recommendation_emitted", a>> \in ToSet(EventsOf(p))
                             <=> a \in CouncilOf(p) \cap spoke
  <2> TAKE a \in AgentIds
  <2>1. /\ \A b : <<"recommendation_emitted", a>> # <<"agent_completed", b>>
        /\ \A b : <<"recommendation_emitted", a>> # <<"judge_decided", b>>
        /\ \A b : <<"recommendation_emitted", a>> = <<"recommendation_emitted", b>> => a = b
        /\ <<"recommendation_emitted", a>> # <<"track_completed">>
    BY <1>14
  <2> QED
    BY <1>13, <2>1
<1>16. <<"judge_decided", "judge">> \in ToSet(EventsOf(p)) <=> "judge" \in spoke
  <2>1. /\ \A b : <<"judge_decided", "judge">> # <<"agent_completed", b>>
        /\ \A b : <<"judge_decided", "judge">> # <<"recommendation_emitted", b>>
        /\ <<"judge_decided", "judge">> # <<"track_completed">>
    BY <1>14
  <2> QED
    BY <1>13, <2>1
<1> QED
  BY <1>2, <1>3, <1>4, <1>12, <1>13, <1>15, <1>16

-----------------------------------------------------------------------------
(* Each part of the invariant is kept.                                     *)

\* What run_track's steps do to the clients and to what is published.
LEMMA BeginEffect ==
  ASSUME NEW p \in Pairs, Step(p)
  PROVE  \/ /\ stage[p] = "waiting" /\ events' = [events EXCEPT ![p] = <<<<"track_started">>>>]
            /\ stage' = [stage EXCEPT ![p] = stage'[p]]
            /\ faults' = faults \/ MayFail
            /\ \/ /\ client' = [client EXCEPT ![p] = p]
                  /\ bound' = IF canned THEN [bound EXCEPT ![p] = p] ELSE bound
               \/ UNCHANGED <<client, bound>>
         \/ UNCHANGED <<client, bound, faults>> /\ (AfterJudge(p) \/ UNCHANGED events)
<1>1. CASE Begin(p)
  BY <1>1 DEF Begin, LLMFactory, Launch
<1>2. CASE ~ Begin(p)
  BY <1>2 DEF Step, AfterClimate, AfterCouncil, AfterAdversarial, AfterJudge, Abort
<1> QED
  BY <1>1, <1>2

\* The types are kept.
LEMMA ShapeKept ==
  ASSUME ShapeOK, ClientOK, StageOK, [Next]_vars
  PROVE  ShapeOK'
<1>1. stage' \in [Pairs -> Stages] /\ KeepsShape
  <2>1. ASSUME NEW p \in Pairs, NEW t, NEW council, NEW skeptic, NEW risk,
               Starts(p, t, council, skeptic, risk)
        PROVE  stage' \in [Pairs -> Stages] /\ KeepsShape
    <3>1. Launch(p, t, council, skeptic, risk) /\ Follows(p, stage[p], t) /\ stage[p] \in Stages
      BY <2>1 DEF Starts, ShapeOK
    <3>2. t \in Stages
      BY <3>1, StageOrder
    <3>3. stage' = [stage EXCEPT ![p] = t] /\ KeepsShape
      BY <3>1, LaunchEffect
    <3> QED
      BY <3>2, <3>3 DEF ShapeOK
  <2>2. ASSUME NEW p \in Pairs, AfterJudge(p) \/ Abort(p) \/ StartFails(p)
        PROVE  stage' \in [Pairs -> Stages] /\ KeepsShape
    <3>1. UNCHANGED <<runs, seen>> /\ \E t \in {"ended", "failed"} : stage' = [stage EXCEPT ![p] = t]
      BY <2>2 DEF AfterJudge, Abort, StartFails
    <3> QED
      BY <3>1 DEF ShapeOK, KeepsShape, Stages
  <2>3. ASSUME NEW p \in Pairs, NEW a \in AgentIds, NEW e, Return(p, a, e)
        PROVE  stage' \in [Pairs -> Stages] /\ KeepsShape
    <3>1. /\ runs' = [q \in Pairs |-> runs'[q]]
          /\ \A q \in Pairs : runs'[q] = [b \in AgentIds |-> runs'[q][b]]
          /\ seen' = seen /\ stage' = stage
      BY <2>3, ReturnEffect
    <3> QED
      BY <3>1 DEF ShapeOK, KeepsShape
  <2>4. CASE UNCHANGED <<stage, runs, seen>>
    BY <2>4 DEF ShapeOK, KeepsShape
  <2>5. \/ \E p \in Pairs : \E t, council, skeptic, risk : Starts(p, t, council, skeptic, risk)
        \/ \E p \in Pairs : AfterJudge(p) \/ Abort(p) \/ StartFails(p)
        \/ \E p \in Pairs, a \in AgentIds : \E e : Return(p, a, e)
        \/ UNCHANGED <<stage, runs, seen>>
    BY Moves
  <2> QED
    BY <2>1, <2>2, <2>3, <2>4, <2>5
<1>2. ASSUME NEW q \in Pairs, NEW b \in AgentIds
      PROVE  /\ runs'[q][b].status \in Statuses
             /\ (runs'[q][b].output # None) = (runs'[q][b].status = "ok")
  <2>0. /\ runs[q][b].status \in Statuses
        /\ (runs[q][b].output # None) = (runs[q][b].status = "ok")
    BY DEF ShapeOK
  <2>1. ASSUME NEW p \in Pairs, NEW t, NEW council, NEW skeptic, NEW risk,
               Starts(p, t, council, skeptic, risk)
        PROVE  runs'[q][b] \in {Running, runs[q][b]}
    <3>1. Launch(p, t, council, skeptic, risk)
      BY <2>1 DEF Starts
    <3> QED
      BY <3>1, LaunchEffect DEF SetsOut
  <2>2. ASSUME NEW p \in Pairs, AfterJudge(p) \/ Abort(p) \/ StartFails(p) PROVE runs' = runs
    BY <2>2 DEF AfterJudge, Abort, StartFails
  <2>3. ASSUME NEW p \in Pairs, NEW a \in AgentIds, NEW e, IsEnvelope(p, a, e), Return(p, a, e)
        PROVE  /\ runs'[q][b].status \in Statuses
               /\ (runs'[q][b].output # None) = (runs'[q][b].status = "ok")
    <3>1. runs'[q][b] \in {e, runs[q][b]}
      BY <2>3, ReturnEffect
    <3> QED
      BY <2>0, <2>3, <3>1 DEF IsEnvelope, Statuses
  <2>4. \/ \E p \in Pairs : \E t, council, skeptic, risk : Starts(p, t, council, skeptic, risk)
        \/ \E p \in Pairs : AfterJudge(p) \/ Abort(p) \/ StartFails(p)
        \/ \E p \in Pairs, a \in AgentIds : \E e : IsEnvelope(p, a, e) /\ Return(p, a, e)
        \/ UNCHANGED <<stage, runs, seen>>
    BY Moves
  <2> QED
    BY <2>0, <2>1, <2>2, <2>3, <2>4, Envelopes DEF Statuses
<1>3. /\ client' \in [Pairs -> Pairs \cup {None}] /\ bound' \in [Pairs -> Pairs \cup {None}]
      /\ events' \in [Pairs -> Seq(EventSet)] /\ faults' \in 0..MaxFaults /\ booked' \in 0..Len(PairList)
  <2>0. /\ client \in [Pairs -> Pairs \cup {None}] /\ bound \in [Pairs -> Pairs \cup {None}]
        /\ events \in [Pairs -> Seq(EventSet)] /\ booked \in 0..Len(PairList)
        /\ faults \in 0..MaxFaults /\ MaxFaults \in Nat
    BY TrackRunAssumption DEF ShapeOK
  <2>1. ASSUME NEW p \in Pairs, Step(p)
        PROVE  /\ client' \in [Pairs -> Pairs \cup {None}] /\ bound' \in [Pairs -> Pairs \cup {None}]
               /\ events' \in [Pairs -> Seq(EventSet)] /\ faults' \in 0..MaxFaults /\ booked' = booked
    <3>0. booked' = booked
      BY <2>1 DEF Step, Begin, AfterClimate, AfterCouncil, AfterAdversarial, AfterJudge, Abort, ledger
    <3>1. AfterJudge(p) => events' \in [Pairs -> Seq(EventSet)]
      <4>1. events[p] \in Seq(EventSet) /\ EventsOf(p) \in Seq(EventSet)
        BY <2>0, EventsOfFacts
      <4>2. events[p] \o EventsOf(p) \in Seq(EventSet)
        BY <4>1, ConcatElements
      <4> QED
        BY <2>0, <4>2 DEF AfterJudge
    <3>2. <<<<"track_started">>>> \in Seq(EventSet)
      BY DEF EventSet
    <3>3. MayFail => faults' \in 0..MaxFaults
      BY <2>0 DEF MayFail
    <3> QED
      BY <2>0, <2>1, <3>0, <3>1, <3>2, <3>3, BeginEffect, ZenonT(30)
  <2>2. ASSUME NEW p \in Pairs, NEW a \in AgentIds, Thread(p, a)
        PROVE  UNCHANGED <<client, bound, events, booked>> /\ faults' \in 0..MaxFaults
    <3>1. PICK e : Return(p, a, e)
      BY <2>2, ThreadKinds
    <3> QED
      BY <2>2, <3>1, ThreadKinds DEF Return, ledger
  <2>3. ASSUME Persist
        PROVE  UNCHANGED <<client, bound, events>> /\ faults' \in 0..MaxFaults /\ booked' \in 0..Len(PairList)
    <3>1. booked < Len(PairList) /\ booked' = booked + 1 /\ (UNCHANGED faults \/ MayFail)
      BY <2>3 DEF Persist
    <3>2. Len(PairList) \in Nat
      BY TrackRunAssumption
    <3>3. booked' \in 0..Len(PairList)
      BY <2>0, <3>1, <3>2
    <3> QED
      BY <2>0, <2>3, <3>1, <3>3 DEF Persist, MayFail
  <2>4. \/ \E p \in Pairs : Step(p) \/ \E a \in AgentIds : Thread(p, a)
        \/ Persist \/ UNCHANGED vars
    BY DEF Next
  <2> QED
    BY <2>0, <2>1, <2>2, <2>3, <2>4 DEF vars
<1>4. canned' \in BOOLEAN
  BY FactoryStays DEF ShapeOK
<1> QED
  BY <1>1, <1>2, <1>3, <1>4 DEF ShapeOK, KeepsShape

\* A client that was made for a pair stays bound to that pair's packet.
LEMMA ClientKept ==
  ASSUME ShapeOK, ClientOK, StageOK, [Next]_vars
  PROVE  ClientOK'
<1>0. /\ client \in [Pairs -> Pairs \cup {None}] /\ bound \in [Pairs -> Pairs \cup {None}]
  BY DEF ShapeOK
<1>1. \/ UNCHANGED <<client, bound>>
      \/ \E p \in Pairs : /\ client' = [client EXCEPT ![p] = p]
                          /\ bound' = IF canned THEN [bound EXCEPT ![p] = p] ELSE bound
  <2>1. ASSUME NEW p \in Pairs, Step(p)
        PROVE  \/ UNCHANGED <<client, bound>>
               \/ /\ client' = [client EXCEPT ![p] = p]
                  /\ bound' = IF canned THEN [bound EXCEPT ![p] = p] ELSE bound
    BY <2>1, BeginEffect
  <2>2. \/ \E p \in Pairs : Step(p)
        \/ \E p \in Pairs, a \in AgentIds : \E e : Return(p, a, e)
        \/ Persist \/ UNCHANGED vars
    BY ThreadKinds DEF Next
  <2> QED
    BY <2>1, <2>2 DEF Return, Persist, vars
<1> QED
  BY <1>0, <1>1, FactoryStays DEF ClientOK

\* What StageOK says of one pair.
StageOf(p) ==
  /\ stage[p] \in {"climate", "adversarial"} => IsLLM(p)
  /\ stage[p] = "failed" =>
       \/ \A a \in AgentIds : runs[p][a].status = "none"
       \/ \E a \in AgentIds : runs[p][a].status = "raised"
  /\ stage[p] # "failed" =>
       \A a \in AgentIds :
         IF a \in Before(p, stage[p]) THEN runs[p][a].status \in Settled
         ELSE (runs[p][a].status = "none") = (a \notin Members(p, stage[p]))

\* The stages are kept: they end only when all their agents have settled.
LEMMA StageKept ==
  ASSUME ShapeOK, ClientOK, StageOK, [Next]_vars
  PROVE  StageOK'
<1> SUFFICES ASSUME NEW q \in Pairs PROVE StageOf(q)'
  BY DEF StageOK, StageOf
<1>0. StageOf(q) /\ stage \in [Pairs -> Stages]
  BY DEF StageOK, StageOf, ShapeOK
<1>1. ASSUME NEW p \in Pairs, NEW t, NEW council, NEW skeptic, NEW risk,
             Starts(p, t, council, skeptic, risk)
      PROVE  StageOf(q)'
  <2>1. /\ Launch(p, t, council, skeptic, risk) /\ Follows(p, stage[p], t) /\ t # "ended"
        /\ stage[p] \in Stages /\ (stage[p] # "waiting" => StageOver(p))
    BY <1>1 DEF Starts, ShapeOK
  <2>2. stage' = [stage EXCEPT ![p] = t] /\ SetsOut(p, t)
    BY <2>1, LaunchEffect
  <2>3. CASE q # p
    <3>1. stage'[q] = stage[q] /\ \A a \in AgentIds : runs'[q][a] = runs[q][a]
      BY <1>0, <2>2, <2>3 DEF SetsOut
    <3> QED
      BY <1>0, <3>1 DEF StageOf
  <2>4. CASE q = p
    <3>1. /\ t # "failed" /\ stage[q] # "failed"
          /\ t \in {"climate", "adversarial"} => IsLLM(q)
          /\ Before(q, t) = Before(q, stage[q]) \cup Members(q, stage[q])
          /\ Members(q, t) \cap Before(q, t) = {}
      BY <2>1, <2>4, StageOrder
    <3>2. stage'[q] = t /\ \A a \in AgentIds : runs'[q][a] = IF a \in Members(q, t) THEN Running ELSE runs[q][a]
      BY <1>0, <2>2, <2>4 DEF SetsOut
    <3>3. \A a \in AgentIds : a \in Members(q, stage[q]) => runs[q][a].status \in Settled
      <4>1. CASE stage[q] = "waiting"
        BY <4>1, StageSets
      <4>2. CASE stage[q] # "waiting"
        BY <2>1, <2>4, <4>2 DEF StageOver, Settled
      <4> QED
        BY <4>1, <4>2
    <3>4. ASSUME NEW a \in AgentIds
          PROVE  IF a \in Before(q, t) THEN runs'[q][a].status \in Settled
                 ELSE (runs'[q][a].status = "none") = (a \notin Members(q, t))
      <4>1. CASE a \in Before(q, t)
        <5>1. runs[q][a].status \in Settled
          BY <1>0, <3>1, <3>3, <4>1 DEF StageOf
        <5> QED
          BY <3>1, <3>2, <4>1, <5>1
      <4>2. CASE a \notin Before(q, t)
        <5>1. runs[q][a].status = "none"
          BY <1>0, <3>1, <4>2 DEF StageOf
        <5> QED
          BY <3>2, <4>2, <5>1, Envelopes
      <4> QED
        BY <4>1, <4>2
    <3> QED
      BY <3>1, <3>2, <3>4 DEF StageOf
  <2> QED
    BY <2>3, <2>4
<1>2. ASSUME NEW p \in Pairs, AfterJudge(p)
      PROVE  StageOf(q)'
  <2>1. stage' = [stage EXCEPT ![p] = "ended"] /\ UNCHANGED runs /\ stage[p] = "judge" /\ StageOver(p)
    BY <1>2 DEF AfterJudge
  <2>2. CASE q # p
    BY <1>0, <2>1, <2>2 DEF StageOf
  <2>3. CASE q = p
    <3>1. Before(q, "ended") = Before(q, "judge") \cup Members(q, "judge") /\ Members(q, "ended") = {}
      BY StageSets DEF Fixed
    <3>2. \A a \in Members(q, "judge") : runs[q][a].status \in Settled
      BY <2>1, <2>3 DEF StageOver, Settled
    <3>3. \A a \in AgentIds : IF a \in Before(q, "ended") THEN runs[q][a].status \in Settled
                              ELSE runs[q][a].status = "none"
      BY <1>0, <2>1, <2>3, <3>1, <3>2 DEF StageOf
    <3>4. stage'[q] = "ended"
      BY <1>0, <2>1, <2>3
    <3> QED
      BY <2>1, <3>1, <3>3, <3>4 DEF StageOf
  <2> QED
    BY <2>2, <2>3
<1>3. ASSUME NEW p \in Pairs, Abort(p) \/ StartFails(p)
      PROVE  StageOf(q)'
  <2>1. stage' = [stage EXCEPT ![p] = "failed"] /\ UNCHANGED runs
    BY <1>3 DEF Abort, StartFails
  <2>2. CASE q # p
    BY <1>0, <2>1, <2>2 DEF StageOf
  <2>3. CASE q = p
    <3>1. stage'[q] = "failed"
      BY <1>0, <2>1, <2>3
    <3>2. Abort(p) => \E a \in AgentIds : runs[q][a].status = "raised"
      <4>1. Members(q, stage[q]) \subseteq AgentIds
        BY <1>0, StageSets, AgentFacts DEF Stages, Fixed
      <4> QED
        BY <2>3, <4>1 DEF Abort, Broken
    <3>3. StartFails(p) => \A a \in AgentIds : runs[q][a].status = "none"
      BY <1>0, <2>3, StageSets DEF StartFails, StageOf
    <3> QED
      BY <1>3, <2>1, <3>1, <3>2, <3>3 DEF StageOf
  <2> QED
    BY <2>2, <2>3
<1>4. ASSUME NEW p \in Pairs, NEW a \in AgentIds, NEW e, IsEnvelope(p, a, e), Return(p, a, e)
      PROVE  StageOf(q)'
  <2>1. /\ stage' = stage /\ runs[p][a].status = "running"
        /\ \A b \in AgentIds : runs'[q][b] = IF q = p /\ b = a THEN e ELSE runs[q][b]
    BY <1>4, ReturnEffect
  <2>2. e.status # "none" /\ e.status \in Settled \cup {"raised"}
    BY <1>4 DEF IsEnvelope, Settled
  <2>3. \A b \in AgentIds : runs'[q][b] = runs[q][b] \/ (runs[q][b].status = "running" /\ runs'[q][b] = e)
    BY <2>1
  <2>4. CASE stage[q] = "failed"
    BY <1>0, <2>1, <2>2, <2>3, <2>4 DEF StageOf
  <2>5. CASE stage[q] # "failed"
    <3>1. ASSUME NEW b \in AgentIds
          PROVE  IF b \in Before(q, stage[q]) THEN runs'[q][b].status \in Settled
                 ELSE (runs'[q][b].status = "none") = (b \notin Members(q, stage[q]))
      BY <1>0, <2>2, <2>3, <2>5 DEF StageOf, Settled
    <3> QED
      BY <1>0, <2>1, <2>5, <3>1 DEF StageOf
  <2> QED
    BY <2>4, <2>5
<1>5. CASE UNCHANGED <<stage, runs>>
  BY <1>0, <1>5 DEF StageOf
<1>6. \/ \E p \in Pairs : \E t, council, skeptic, risk : Starts(p, t, council, skeptic, risk)
      \/ \E p \in Pairs : AfterJudge(p)
      \/ \E p \in Pairs : Abort(p) \/ StartFails(p)
      \/ \E p \in Pairs, a \in AgentIds : \E e : IsEnvelope(p, a, e) /\ Return(p, a, e)
      \/ UNCHANGED <<stage, runs>>
  BY Moves
<1> QED
  BY <1>1, <1>2, <1>3, <1>4, <1>5, <1>6

\* An agent's output, once it has one, stays what its thread returned.
LEMMA OutputStands ==
  ASSUME ShapeOK, ClientOK, StageOK, [Next]_vars, NEW q \in Pairs, NEW b \in AgentIds,
         runs'[q][b].status = "ok"
  PROVE  runs'[q][b] = runs[q][b] \/ IsEnvelope(q, b, runs'[q][b])
<1>2. ASSUME NEW p \in Pairs, NEW t, NEW council, NEW skeptic, NEW risk,
             Starts(p, t, council, skeptic, risk)
      PROVE  runs'[q][b] = runs[q][b]
  <2>1. Launch(p, t, council, skeptic, risk)
    BY <1>2 DEF Starts
  <2>2. runs'[q][b] \in {Running, runs[q][b]}
    BY <2>1, LaunchEffect DEF SetsOut
  <2> QED
    BY <2>2, Envelopes
<1>3. ASSUME NEW p \in Pairs, NEW a \in AgentIds, NEW e, IsEnvelope(p, a, e), Return(p, a, e)
      PROVE  runs'[q][b] = runs[q][b] \/ IsEnvelope(q, b, runs'[q][b])
  <2>1. runs'[q][b] = IF q = p /\ b = a THEN e ELSE runs[q][b]
    BY <1>3, ReturnEffect
  <2> QED
    BY <1>3, <2>1
<1>4. ASSUME NEW p \in Pairs, AfterJudge(p) \/ Abort(p) \/ StartFails(p) PROVE runs' = runs
  BY <1>4 DEF AfterJudge, Abort, StartFails
<1>5. \/ \E p \in Pairs : \E t, council, skeptic, risk : Starts(p, t, council, skeptic, risk)
      \/ \E p \in Pairs : AfterJudge(p) \/ Abort(p) \/ StartFails(p)
      \/ \E p \in Pairs, a \in AgentIds : \E e : IsEnvelope(p, a, e) /\ Return(p, a, e)
      \/ UNCHANGED <<stage, runs>>
  BY Moves
<1> QED
  BY <1>2, <1>3, <1>4, <1>5

\* What the council said was validated, and stays so.
LEMMA OutputsKept ==
  ASSUME ShapeOK, ClientOK, StageOK, OutputsOK, [Next]_vars
  PROVE  OutputsOK'
<1> SUFFICES ASSUME NEW q \in Pairs, NEW b \in CouncilIds, runs'[q][b].status = "ok"
             PROVE  /\ RecommendationValid(runs'[q][b].output)
                    /\ \E answer \in AnyAnswer(b) :
                         runs'[q][b].output = Recommendation(q, b, answer)
  BY DEF OutputsOK
<1>1. runs'[q][b] = runs[q][b] \/ IsEnvelope(q, b, runs'[q][b])
  BY AgentFacts, OutputStands
<1> QED
  BY <1>1 DEF IsEnvelope, OutputsOK

\* What a canned client said is about its own pair, and stays so.
LEMMA CannedKept ==
  ASSUME ShapeOK, ClientOK, StageOK, CannedOK, [Next]_vars
  PROVE  CannedOK'
<1> SUFFICES ASSUME canned, NEW q \in Pairs, NEW b \in AgentIds, runs'[q][b].status = "ok"
             PROVE  IsCanned(q, b, runs'[q][b].output)
  BY FactoryStays DEF CannedOK, IsCanned
<1>1. runs'[q][b] = runs[q][b] \/ IsEnvelope(q, b, runs'[q][b])
  BY OutputStands
<1> QED
  BY <1>1 DEF IsEnvelope, CannedOK

\* What SeenOK says of one agent.
SeenOf(p, a) ==
  LET in == seen[p][a] IN
  /\ a # "market_climate" =>
       /\ IsLLM(p) => runs[p]["market_climate"].status \in Settled
       /\ in.climate = Climate(p)
  /\ IF a \in {"skeptic", "risk_manager", "judge"}
     THEN /\ \A c \in CouncilOf(p) : runs[p][c].status \in Settled
          /\ in.council = Recommendations(p)
     ELSE in.council = <<>>
  /\ a = "judge" /\ IsLLM(p) =>
       /\ \A b \in {"skeptic", "risk_manager"} : runs[p][b].status \in Settled
       /\ in.skeptic = Report(p, "skeptic") /\ in.risk = Report(p, "risk_manager")

\* The reports of agents that have settled stand.
LEMMA ReportStands ==
  ASSUME NEW p \in Pairs, NEW a \in AgentIds, runs'[p][a] = runs[p][a]
  PROVE  Report(p, a)' = Report(p, a)
BY DEF Report

\* What an agent was given stays true of the agents it is about.
LEMMA SeenStands ==
  ASSUME ShapeOK, ClientOK, StageOK, [Next]_vars, NEW p \in Pairs, NEW a \in AgentIds,
         SeenOf(p, a), seen'[p][a] = seen[p][a]
  PROVE  SeenOf(p, a)'
<1>1. \A b \in AgentIds : runs[p][b].status \in Settled => runs'[p][b] = runs[p][b]
  BY SettledStay
<1>2. {"market_climate", "skeptic", "risk_manager"} \cup CouncilOf(p) \subseteq AgentIds
  BY AgentFacts DEF Fixed
<1>3. ASSUME a # "market_climate"
      PROVE  /\ IsLLM(p) => runs'[p]["market_climate"].status \in Settled
             /\ Climate(p)' = Climate(p)
  <2>1. IsLLM(p) => runs[p]["market_climate"].status \in Settled
    BY <1>3 DEF SeenOf
  <2>2. IsLLM(p) => runs'[p]["market_climate"] = runs[p]["market_climate"]
    BY <1>1, <1>2, <2>1
  <2>3. IsLLM(p) => Report(p, "market_climate")' = Report(p, "market_climate")
    BY <1>2, <2>2, ReportStands
  <2> QED
    BY <2>1, <2>2, <2>3 DEF Climate
<1>4. ASSUME a \in {"skeptic", "risk_manager", "judge"}
      PROVE  /\ \A c \in CouncilOf(p) : runs'[p][c].status \in Settled
             /\ Recommendations(p)' = Recommendations(p)
  <2>1. \A c \in CouncilOf(p) : runs[p][c].status \in Settled
    BY <1>4 DEF SeenOf
  <2>2. \A c \in CouncilOf(p) : runs'[p][c] = runs[p][c]
    BY <1>1, <1>2, <2>1
  <2> QED
    BY <2>1, <2>2, CouncilStands
<1>5. ASSUME a = "judge", IsLLM(p), NEW b \in {"skeptic", "risk_manager"}
      PROVE  runs'[p][b].status \in Settled /\ Report(p, b)' = Report(p, b)
  <2>1. runs[p][b].status \in Settled
    BY <1>5 DEF SeenOf
  <2>2. runs'[p][b] = runs[p][b] /\ b \in AgentIds
    BY <1>1, <1>2, <2>1
  <2> QED
    BY <2>1, <2>2, ReportStands
<1>6. a # "market_climate" => seen'[p][a].climate = Climate(p)'
  BY <1>3 DEF SeenOf
<1>7. IF a \in {"skeptic", "risk_manager", "judge"}
      THEN seen'[p][a].council = Recommendations(p)' ELSE seen'[p][a].council = <<>>
  BY <1>4 DEF SeenOf
<1>8. a = "judge" /\ IsLLM(p) =>
        seen'[p][a].skeptic = Report(p, "skeptic")' /\ seen'[p][a].risk = Report(p, "risk_manager")'
  <2>1. a = "judge" /\ IsLLM(p) =>
          seen[p][a].skeptic = Report(p, "skeptic") /\ seen[p][a].risk = Report(p, "risk_manager")
    BY DEF SeenOf
  <2> QED
    BY <1>5, <2>1
<1> QED
  BY <1>3, <1>4, <1>5, <1>6, <1>7, <1>8 DEF SeenOf

\* An agent is given what the agents before it came to, all settled.
LEMMA StartsSeen ==
  ASSUME ShapeOK, ClientOK, StageOK, [Next]_vars, NEW q \in Pairs, NEW b \in AgentIds,
         NEW t, NEW council, NEW skeptic, NEW risk, Starts(q, t, council, skeptic, risk),
         b \in Members(q, t)
  PROVE  SeenOf(q, b)'
<1>1. /\ Launch(q, t, council, skeptic, risk) /\ Follows(q, stage[q], t) /\ t # "ended"
      /\ stage[q] \in Stages /\ (stage[q] # "waiting" => StageOver(q))
      /\ council = IF t \in {"adversarial", "judge"} THEN Recommendations(q) ELSE <<>>
      /\ t = "judge" /\ IsLLM(q) =>
           skeptic = Report(q, "skeptic") /\ risk = Report(q, "risk_manager")
  BY DEF Starts, ShapeOK
<1>2. /\ seen'[q][b].climate = (IF t = "climate" THEN None ELSE Climate(q))
      /\ seen'[q][b].council = council
      /\ seen'[q][b].skeptic = skeptic /\ seen'[q][b].risk = risk
  <2>1. seen'[q][b] = [climate |-> IF t = "climate" THEN None ELSE Climate(q),
                       council |-> council, skeptic |-> skeptic, risk |-> risk]
    BY <1>1, LaunchEffect DEF Shows
  <2> QED
    BY <2>1
<1>3. /\ stage[q] # "failed" /\ Before(q, t) = Before(q, stage[q]) \cup Members(q, stage[q])
      /\ t \in Stages /\ t \notin {"waiting", "failed", "ended"} /\ (t \in {"climate", "adversarial"} => IsLLM(q))
  BY <1>1, StageOrder
<1>4. ASSUME NEW a \in AgentIds, a \in Before(q, t) PROVE runs[q][a].status \in Settled
  <2>1. CASE a \in Before(q, stage[q])
    BY <1>3, <2>1 DEF StageOK
  <2>2. CASE a \in Members(q, stage[q])
    BY <1>1, <2>2, StageSets DEF StageOver, Settled
  <2> QED
    BY <1>3, <1>4, <2>1, <2>2
<1>5. \A a \in AgentIds : a \in Before(q, t) => runs'[q][a] = runs[q][a]
  BY <1>4, SettledStay
<1>6. Before(q, t) \subseteq AgentIds
  BY <1>3, StageSets, AgentFacts DEF Stages, Fixed
<1>7. ASSUME t # "climate"
      PROVE  /\ IsLLM(q) => runs'[q]["market_climate"].status \in Settled
             /\ Climate(q)' = Climate(q)
  <2>1. IsLLM(q) => "market_climate" \in Before(q, t)
    BY <1>3, <1>7, StageSets DEF Stages
  <2>2. IsLLM(q) => /\ runs'[q]["market_climate"] = runs[q]["market_climate"]
                    /\ runs[q]["market_climate"].status \in Settled
    BY <1>4, <1>5, <1>6, <2>1
  <2>3. IsLLM(q) => Report(q, "market_climate")' = Report(q, "market_climate")
    BY <1>6, <2>1, <2>2, ReportStands
  <2> QED
    BY <2>2, <2>3 DEF Climate
<1>8. ASSUME t \in {"adversarial", "judge"}
      PROVE  /\ \A c \in CouncilOf(q) : runs'[q][c].status \in Settled
             /\ Recommendations(q)' = Recommendations(q)
  <2>1. CouncilOf(q) \subseteq Before(q, t)
    BY <1>8, StageSets
  <2>2. \A c \in CouncilOf(q) : runs'[q][c] = runs[q][c] /\ runs[q][c].status \in Settled
    BY <1>4, <1>5, <1>6, <2>1
  <2> QED
    BY <2>2, CouncilStands
<1>9. ASSUME t = "judge", IsLLM(q), NEW a \in {"skeptic", "risk_manager"}
      PROVE  runs'[q][a].status \in Settled /\ Report(q, a)' = Report(q, a)
  <2>1. a \in Before(q, t)
    BY <1>9, StageSets
  <2>2. runs'[q][a] = runs[q][a] /\ runs[q][a].status \in Settled /\ a \in AgentIds
    BY <1>4, <1>5, <1>6, <2>1
  <2> QED
    BY <2>2, ReportStands
<1>10. CASE t = "climate"
  <2>1. b = "market_climate"
    BY <1>10, StageSets
  <2> QED
    BY <1>1, <1>2, <1>10, <2>1 DEF SeenOf
<1>11. CASE t = "council"
  <2>1. b \in CouncilIds /\ b \notin {"market_climate", "skeptic", "risk_manager", "judge"}
    BY <1>11, StageSets, AgentFacts DEF Fixed
  <2> QED
    BY <1>1, <1>2, <1>7, <1>11, <2>1 DEF SeenOf
<1>12. CASE t = "adversarial"
  <2>1. b \in {"skeptic", "risk_manager"}
    BY <1>12, StageSets
  <2> QED
    BY <1>1, <1>2, <1>7, <1>8, <1>12, <2>1 DEF SeenOf
<1>13. CASE t = "judge"
  <2>1. b = "judge"
    BY <1>13, StageSets
  <2>2. IsLLM(q) => /\ seen'[q][b].skeptic = Report(q, "skeptic")'
                    /\ seen'[q][b].risk = Report(q, "risk_manager")'
    BY <1>1, <1>2, <1>9, <1>13
  <2>3. seen'[q][b].climate = Climate(q)' /\ seen'[q][b].council = Recommendations(q)'
    BY <1>1, <1>2, <1>7, <1>8, <1>13
  <2> QED
    BY <1>7, <1>8, <1>9, <1>13, <2>1, <2>2, <2>3 DEF SeenOf
<1> QED
  BY <1>3, <1>10, <1>11, <1>12, <1>13 DEF Stages

\* Nobody after that can change it.
LEMMA SeenKept ==
  ASSUME ShapeOK, ClientOK, StageOK, SeenOK, [Next]_vars
  PROVE  SeenOK'
<1> SUFFICES ASSUME NEW q \in Pairs, NEW b \in AgentIds, seen'[q][b] # None PROVE SeenOf(q, b)'
  BY DEF SeenOK, SeenOf
<1>1. CASE seen'[q][b] = seen[q][b]
  <2>1. SeenOf(q, b)
    BY <1>1 DEF SeenOK, SeenOf
  <2> QED
    BY <1>1, <2>1, SeenStands
<1>2. ASSUME NEW t, NEW council, NEW skeptic, NEW risk, Starts(q, t, council, skeptic, risk),
             b \in Members(q, t)
      PROVE  SeenOf(q, b)'
  BY <1>2, StartsSeen
<1>3. ASSUME NEW p \in Pairs, NEW t, NEW council, NEW skeptic, NEW risk,
             Starts(p, t, council, skeptic, risk)
      PROVE  seen'[q][b] = seen[q][b] \/ (p = q /\ b \in Members(q, t))
  <2>1. Launch(p, t, council, skeptic, risk)
    BY <1>3 DEF Starts
  <2>2. Shows(p, t, council, skeptic, risk)
    BY <2>1, LaunchEffect
  <2>3. ~(q = p /\ b \in Members(p, t)) => seen'[q][b] = seen[q][b]
    BY <2>2 DEF Shows
  <2>4. p = q /\ b \in Members(p, t) => b \in Members(q, t)
    OBVIOUS
  <2> QED
    BY <2>3, <2>4
<1>4. ASSUME NEW p \in Pairs, AfterJudge(p) \/ Abort(p) \/ StartFails(p) PROVE seen' = seen
  BY <1>4 DEF AfterJudge, Abort, StartFails
<1>5. \/ \E p \in Pairs : \E t, council, skeptic, risk : Starts(p, t, council, skeptic, risk)
      \/ \E p \in Pairs : AfterJudge(p) \/ Abort(p) \/ StartFails(p)
      \/ \E p \in Pairs, a \in AgentIds : \E e : Return(p, a, e)
      \/ UNCHANGED seen
  BY Moves
<1>6. \A p \in Pairs, a \in AgentIds : \A e : Return(p, a, e) => seen' = seen
  BY DEF Return
<1> QED
  BY <1>1, <1>2, <1>3, <1>4, <1>5, <1>6

\* A pair that is over stays as it is, and one that has ended keeps its runs.
LEMMA EndedStay ==
  ASSUME ShapeOK, ClientOK, StageOK, [Next]_vars, NEW p \in Pairs,
         stage[p] \in {"ended", "failed"}
  PROVE  /\ stage'[p] = stage[p]
         /\ stage[p] = "ended" => \A a \in AgentIds : runs'[p][a] = runs[p][a]
<1>0. stage \in [Pairs -> Stages] /\ Members(p, stage[p]) = {}
  BY StageSets DEF ShapeOK
<1>1. ASSUME NEW q \in Pairs, NEW t, NEW council, NEW skeptic, NEW risk,
             Starts(q, t, council, skeptic, risk)
      PROVE  q # p /\ stage'[p] = stage[p] /\ \A a \in AgentIds : runs'[p][a] = runs[p][a]
  <2>1. Launch(q, t, council, skeptic, risk) /\ Follows(q, stage[q], t)
    BY <1>1 DEF Starts
  <2>2. q # p
    BY <2>1 DEF Follows
  <2>3. stage' = [stage EXCEPT ![q] = t] /\ SetsOut(q, t)
    BY <2>1, LaunchEffect
  <2> QED
    BY <1>0, <2>2, <2>3 DEF SetsOut
<1>2. ASSUME NEW q \in Pairs, AfterJudge(q) \/ Abort(q) \/ StartFails(q)
      PROVE  stage'[p] = stage[p] /\ runs' = runs
  <2>1. q # p
    BY <1>0, <1>2 DEF AfterJudge, Abort, StartFails, Broken
  <2> QED
    BY <1>0, <1>2, <2>1 DEF AfterJudge, Abort, StartFails
<1>3. ASSUME NEW q \in Pairs, NEW b \in AgentIds, NEW e, Return(q, b, e)
      PROVE  /\ stage' = stage
             /\ stage[p] = "ended" => \A a \in AgentIds : runs'[p][a] = runs[p][a]
  <2>1. /\ stage' = stage /\ runs[q][b].status = "running"
        /\ \A a \in AgentIds : runs'[p][a] = IF p = q /\ a = b THEN e ELSE runs[p][a]
    BY <1>3, ReturnEffect
  <2>2. stage[p] = "ended" => \A a \in AgentIds : runs[p][a].status # "running"
    BY <1>0 DEF StageOK, Settled
  <2> QED
    BY <2>1, <2>2
<1>4. \/ \E q \in Pairs : \E t, council, skeptic, risk : Starts(q, t, council, skeptic, risk)
      \/ \E q \in Pairs : AfterJudge(q) \/ Abort(q) \/ StartFails(q)
      \/ \E q \in Pairs, b \in AgentIds : \E e : Return(q, b, e)
      \/ UNCHANGED <<stage, runs>>
  BY Moves
<1> QED
  BY <1>1, <1>2, <1>3, <1>4

\* What EventsOK says of one pair.
EventsFor(p) ==
  LET told == ToSet(events[p]) IN
  IF stage[p] = "ended"
  THEN /\ <<"track_completed">> \in told
       /\ \A a \in CouncilIds :
            (<<"recommendation_emitted", a>> \in told) = (runs[p][a].status = "ok")
       /\ (<<"judge_decided", "judge">> \in told) = (runs[p]["judge"].status = "ok")
  ELSE told \subseteq {<<"track_started">>}

\* A step that is not the pair's own leaves its stage and its events alone.
LEMMA OthersStay ==
  ASSUME ShapeOK, ClientOK, StageOK, [Next]_vars, NEW p \in Pairs, ~ Step(p)
  PROVE  stage'[p] = stage[p] /\ events'[p] = events[p]
<1>0. stage \in [Pairs -> Stages] /\ events \in [Pairs -> Seq(EventSet)]
  BY DEF ShapeOK
<1>1. ASSUME NEW q \in Pairs, Step(q) PROVE stage'[p] = stage[p] /\ events'[p] = events[p]
  <2>1. q # p
    BY <1>1
  <2>2. \E t : stage' = [stage EXCEPT ![q] = t]
    BY <1>1 DEF Step, Begin, AfterClimate, AfterCouncil, AfterAdversarial, AfterJudge, Abort, Launch
  <2>3. events' = events \/ \E e : events' = [events EXCEPT ![q] = e]
    BY <1>1 DEF Step, Begin, AfterClimate, AfterCouncil, AfterAdversarial, AfterJudge, Abort
  <2> QED
    BY <1>0, <2>1, <2>2, <2>3
<1>2. ASSUME NEW q \in Pairs, NEW a \in AgentIds, Thread(q, a) PROVE UNCHANGED <<stage, events>>
  BY <1>2, ThreadKinds DEF Return
<1> QED
  BY <1>1, <1>2 DEF Next, Persist, vars

\* The dashboard hears of a pair's end once, and what it hears is what it was.
LEMMA EventsKept ==
  ASSUME ShapeOK, ClientOK, StageOK, EventsOK, [Next]_vars
  PROVE  EventsOK'
<1> SUFFICES ASSUME NEW p \in Pairs PROVE EventsFor(p)'
  BY DEF EventsOK, EventsFor
<1>0. /\ EventsFor(p) /\ stage \in [Pairs -> Stages] /\ events \in [Pairs -> Seq(EventSet)]
      /\ \A q \in Pairs : CouncilOf(q) \subseteq CouncilIds
      /\ CouncilIds \subseteq AgentIds /\ "judge" \in AgentIds
  BY CouncilFacts DEF EventsOK, EventsFor, ShapeOK, CouncilIds, AgentIds
<1>1. ASSUME stage'[p] = stage[p], events'[p] = events[p] PROVE EventsFor(p)'
  <2>1. stage[p] = "ended" => \A a \in AgentIds : runs'[p][a] = runs[p][a]
    BY EndedStay
  <2> QED
    BY <1>0, <1>1, <2>1, ZenonT(30) DEF EventsFor
<1>2. CASE AfterJudge(p)
  <2>1. /\ stage[p] = "judge" /\ stage'[p] = "ended" /\ runs' = runs
        /\ events'[p] = events[p] \o EventsOf(p)
    BY <1>0, <1>2 DEF AfterJudge
  <2>2. ToSet(events[p]) \subseteq {<<"track_started">>}
    BY <1>0, <2>1 DEF EventsFor
  <2>3. \A e : e \in ToSet(events'[p]) <=> e \in ToSet(events[p]) \/ e \in ToSet(EventsOf(p))
    <3>1. EventsOf(p) \in Seq(EventSet) /\ events[p] \in Seq(EventSet)
      BY <1>0, EventsOfFacts
    <3> QED
      BY <2>1, <3>1, ConcatElements
  <2>4. \A a : /\ <<"recommendation_emitted", a>> # <<"track_started">>
               /\ <<"judge_decided", a>> # <<"track_started">>
    OBVIOUS
  <2>5. ASSUME NEW a \in CouncilIds
        PROVE  <<"recommendation_emitted", a>> \in ToSet(events'[p]) <=> runs[p][a].status = "ok"
    <3>1. <<"recommendation_emitted", a>> \in ToSet(events'[p])
            <=> a \in CouncilOf(p) /\ runs[p][a].status = "ok"
      BY <1>0, <2>2, <2>3, <2>4, EventsOfFacts
    <3>2. runs[p][a].status = "ok" => a \in CouncilOf(p)
      <4>1. StageOK' /\ a \in AgentIds /\ a \notin Fixed
        BY <1>0, StageKept, AgentFacts
      <4>2. a \notin CouncilOf(p) => a \notin Before(p, "ended") /\ a \notin Members(p, "ended")
        BY <4>1, StageSets DEF Fixed
      <4>3. IF a \in Before(p, "ended") THEN runs'[p][a].status \in Settled
            ELSE (runs'[p][a].status = "none") = (a \notin Members(p, "ended"))
        <5>1. stage'[p] = "ended"
          BY <2>1
        <5> QED
          BY <4>1, <5>1 DEF StageOK
      <4> QED
        BY <2>1, <4>2, <4>3
    <3> QED
      BY <3>1, <3>2
  <2>6. <<"judge_decided", "judge">> \in ToSet(events'[p]) <=> runs[p]["judge"].status = "ok"
    BY <2>2, <2>3, <2>4, EventsOfFacts
  <2>7. <<"track_completed">> \in ToSet(events'[p])
    BY <2>3, EventsOfFacts
  <2> QED
    BY <2>1, <2>5, <2>6, <2>7 DEF EventsFor
<1>3. CASE Step(p) /\ ~ AfterJudge(p)
  <2>1. \/ stage[p] = "waiting" /\ events' = [events EXCEPT ![p] = <<<<"track_started">>>>]
        \/ UNCHANGED events
    BY <1>3, BeginEffect
  <2>2. ToSet(<<<<"track_started">>>>) = {<<"track_started">>}
    BY DEF ToSet
  <2>3. stage[p] # "ended" => ToSet(events'[p]) \subseteq {<<"track_started">>}
    BY <1>0, <2>1, <2>2 DEF EventsFor
  <2>4. stage[p] # "ended" => stage'[p] # "ended"
    BY <1>0, <1>3 DEF Step, Begin, AfterClimate, AfterCouncil, AfterAdversarial, Abort, Launch
  <2>5. CASE stage[p] = "ended"
    <3>1. stage'[p] = stage[p] /\ events'[p] = events[p]
      BY <2>1, <2>5, EndedStay
    <3> QED
      BY <1>1, <3>1
  <2>6. CASE stage[p] # "ended"
    BY <2>3, <2>4, <2>6 DEF EventsFor
  <2> QED
    BY <2>5, <2>6
<1>4. CASE ~ Step(p)
  BY <1>1, <1>4, OthersStay
<1> QED
  BY <1>2, <1>3, <1>4

-----------------------------------------------------------------------------
(* The ledger.                                                             *)

\* After an upsert a row is the one that was there or one that was written.
LEMMA UpsertRow ==
  ASSUME NEW table, NEW writes, NEW n \in Nat, DOMAIN writes = 1..n, NEW id \in DOMAIN table
  PROVE  IF \A i \in DOMAIN writes : writes[i].id # id
         THEN Upsert(table, writes)[id] = table[id]
         ELSE \E i \in DOMAIN writes : writes[i].id = id /\ Upsert(table, writes)[id] = writes[i].row
<1> DEFINE at == {i \in DOMAIN writes : writes[i].id = id}
<1>1. Upsert(table, writes)[id] = IF at = {} THEN table[id] ELSE writes[Max(at)].row
  BY DEF Upsert
<1>2. at \in SUBSET (0..n)
  OBVIOUS
<1>3. at # {} => Max(at) \in at
  BY <1>2, Greatest
<1>4. CASE at = {}
  BY <1>1, <1>4
<1>5. CASE at # {}
  BY <1>1, <1>3, <1>5
<1> QED
  BY <1>4, <1>5

\* What of a recommendation is the model's.
LEMMA AnswerFields ==
  ASSUME NEW p \in Pairs, NEW a \in CouncilIds, NEW answer \in AnyAnswer(a)
  PROVE  LET r == Recommendation(p, a, answer) IN
         /\ r.id = OwnId(answer, <<p, a>>) /\ r.symbol = Own(answer.symbol, SymbolOf(p))
         /\ r.track = Own(answer.track, TrackOf(p))
         /\ r.conviction = answer.conviction /\ r.legs = answer.legs
<1>1. DOMAIN answer = DOMAIN CannedAnswer
  BY AnswersAssumption DEF CouncilIds
<1>2. {"id", "symbol", "track", "conviction", "legs", "agent"} \subseteq DOMAIN answer
  BY <1>1 DEF CannedAnswer
<1> QED
  BY <1>2 DEF Recommendation

\* The recommendations of a pair: each is what one agent of its council said.
LEMMA RecommendationFacts ==
  ASSUME OutputsOK, NEW p \in Pairs
  PROVE  /\ \E n \in Nat : DOMAIN Recommendations(p) = 1..n
         /\ \A i \in DOMAIN Recommendations(p) :
              /\ RecommendationValid(Recommendations(p)[i])
              /\ \E a \in CouncilIds : \E answer \in AnyAnswer(a) :
                   Recommendations(p)[i] = Recommendation(p, a, answer)
<1> DEFINE some == {a \in AgentIds : runs[p][a].status = "ok"}
           ok == OnlyIn(CouncilFor[p], some)
<1>1. ok \in Seq(CouncilIds) /\ ToSet(ok) = CouncilOf(p) \cap some
  <2> HIDE DEF some
  <2> QED
    BY CouncilFacts, OnlyInElements DEF CouncilOf
<1>2. Recommendations(p) = [i \in DOMAIN ok |-> runs[p][ok[i]].output]
  BY DEF Recommendations
<1> HIDE DEF ok
<1>3. Len(ok) \in Nat /\ DOMAIN ok = 1..Len(ok)
  BY <1>1
<1>4. ASSUME NEW i \in DOMAIN Recommendations(p)
      PROVE  /\ RecommendationValid(Recommendations(p)[i])
             /\ \E a \in CouncilIds : \E answer \in AnyAnswer(a) :
                  Recommendations(p)[i] = Recommendation(p, a, answer)
  <2>1. Recommendations(p)[i] = runs[p][ok[i]].output /\ ok[i] \in CouncilOf(p) \cap some
    BY <1>1, <1>2 DEF ToSet
  <2>2. ok[i] \in CouncilIds /\ runs[p][ok[i]].status = "ok"
    BY <2>1, CouncilFacts
  <2> QED
    BY <2>1, <2>2 DEF OutputsOK
<1> QED
  BY <1>2, <1>3, <1>4

\* A recommendation has an id of the ledger, and a row.
LEMMA RecommendationRows ==
  ASSUME OutputsOK, NEW p \in Pairs, NEW i \in DOMAIN Recommendations(p)
  PROVE  /\ Recommendations(p)[i].id \in RecIds
         /\ RecommendationRow(p, Recommendations(p)[i]) # None
<1>1. PICK a \in CouncilIds : \E answer \in AnyAnswer(a) :
             Recommendations(p)[i] = Recommendation(p, a, answer)
  BY RecommendationFacts
<1>2. PICK answer \in AnyAnswer(a) :
             Recommendations(p)[i] = Recommendation(p, a, answer)
  BY <1>1
<1>3. Recommendation(p, a, answer).id \in RecIds
  <2>1. Recommendation(p, a, answer).id = OwnId(answer, <<p, a>>)
    BY <1>2, AnswerFields
  <2> QED
    BY <2>1 DEF OwnId, RecIds, CouncilIds
<1> QED
  BY <1>2, <1>3, AnswersAssumption DEF CouncilIds

\* What a transaction does to the rows.
LEMMA PersistEffect ==
  ASSUME ShapeOK, Persist
  PROVE  /\ UNCHANGED <<stage, runs, seen, client, bound, events>>
         /\ \E p \in Pairs : /\ stage[p] \in {"ended", "failed"}
                             /\ rows' \in {rows, Store(p)}
         /\ \A q \in Pairs : stage[q] \in {"ended", "failed"}
<1> DEFINE p == PairList[booked + 1]
<1>1. p \in Pairs
  <2>1. PairList \in Seq(Pairs) /\ booked \in Nat /\ booked < Len(PairList) /\ Len(PairList) \in Nat
    BY TrackRunAssumption DEF ShapeOK, Persist
  <2>2. booked + 1 \in 1..Len(PairList)
    BY <2>1
  <2> QED
    BY <2>1, <2>2
<1>2. rows' \in {rows, Store(p)}
  BY DEF Persist
<1> HIDE DEF p
<1> QED
  BY <1>1, <1>2 DEF Persist, AllEnded

\* What persist_track_run writes of a pair that has ended, as sequences.
RecWrites(p) ==
  [i \in DOMAIN Recommendations(p) |->
     Write(Recommendations(p)[i].id, RecommendationRow(p, Recommendations(p)[i]))]

\* What is stored of a pair.
LEMMA StoreEffect ==
  ASSUME RowsOK, NEW p \in Pairs, rows' = Store(p)
  PROVE  /\ rows' = [track |-> rows'.track, agent |-> rows'.agent, rec |-> rows'.rec,
                     plan |-> rows'.plan, act |-> rows'.act]
         /\ IF stage[p] = "failed"
            THEN /\ rows'.track = [rows.track EXCEPT ![p] = "failed"]
                 /\ rows'.agent = rows.agent /\ rows'.rec = rows.rec
            ELSE /\ rows'.track = [rows.track EXCEPT ![p] = RunStatus(p)]
                 /\ rows'.agent = [rows.agent EXCEPT ![p] = [a \in AgentIds |-> runs[p][a].status]]
                 /\ rows'.rec = Upsert(rows.rec, RecWrites(p))
<1>1. CASE stage[p] = "failed"
  <2> DEFINE t == rows.track
             s == [t EXCEPT ![p] = "failed"]
  <2>1. rows' = [rows EXCEPT !.track = s]
    BY <1>1 DEF Store
  <2>2. rows = [track |-> rows.track, agent |-> rows.agent, rec |-> rows.rec,
                plan |-> rows.plan, act |-> rows.act]
    BY DEF RowsOK
  <2> HIDE DEF s
  <2>3. rows' = [track |-> s, agent |-> rows.agent, rec |-> rows.rec,
                 plan |-> rows.plan, act |-> rows.act]
    BY <2>1, <2>2
  <2>4. rows'.track = s /\ rows'.agent = rows.agent /\ rows'.rec = rows.rec
    BY <2>3
  <2> QED
    BY <1>1, <2>3, <2>4 DEF s
<1>2. CASE stage[p] # "failed"
  <2> DEFINE t == [rows.track EXCEPT ![p] = RunStatus(p)]
             g == [rows.agent EXCEPT ![p] = [a \in AgentIds |-> runs[p][a].status]]
             r == Upsert(rows.rec, RecWrites(p))
  <2>1. \E x, y : rows' = [track |-> t, agent |-> g, rec |-> r, plan |-> x, act |-> y]
    BY <1>2 DEF Store, RecWrites
  <2> HIDE DEF t, g, r
  <2>2. PICK x, y : rows' = [track |-> t, agent |-> g, rec |-> r, plan |-> x, act |-> y]
    BY <2>1
  <2>3. rows'.track = t /\ rows'.agent = g /\ rows'.rec = r
    BY <2>2
  <2>4. rows' = [track |-> rows'.track, agent |-> rows'.agent, rec |-> rows'.rec,
                 plan |-> rows'.plan, act |-> rows'.act]
    BY <2>2
  <2> QED
    BY <1>2, <2>3, <2>4 DEF t, g, r
<1> QED
  BY <1>1, <1>2

\* Only a transaction writes rows.
LEMMA RowsMove ==
  ASSUME ShapeOK, [Next]_vars
  PROVE  rows' = rows \/ \E p \in Pairs : Persist /\ stage[p] \in {"ended", "failed"} /\ rows' = Store(p)
<1>1. CASE Persist
  <2>1. PICK p \in Pairs : stage[p] \in {"ended", "failed"} /\ rows' \in {rows, Store(p)}
    BY <1>1, PersistEffect
  <2> QED
    BY <1>1, <2>1
<1>2. CASE ~ Persist
  BY <1>2 DEF Next, vars, Step, Begin, AfterClimate, AfterCouncil, AfterAdversarial, AfterJudge, Abort,
          ledger, Thread, Answer, AnswerBadly, DecideLocally, NoClient, CallFails, Raise, Return
<1> QED
  BY <1>1, <1>2

\* The rows of a pair are kept: what they say of its agents is what became of
\* them.
LEMMA RowsKept ==
  ASSUME ShapeOK, ClientOK, StageOK, RowsOK, [Next]_vars
  PROVE  RowsOK'
<1> DEFINE PairRows(p) ==
      /\ rows.track[p] = "failed" => stage[p] = "failed"
      /\ IF p \in Stored
         THEN /\ stage[p] = "ended" /\ rows.track[p] = RunStatus(p)
              /\ \A a \in AgentIds : rows.agent[p][a] = runs[p][a].status
         ELSE \A a \in AgentIds : rows.agent[p][a] = "none"
<1>0. /\ \A p \in Pairs : PairRows(p)
      /\ \A p \in Pairs : p \in Stored <=> rows.track[p] \in {"ok", "partial"}
      /\ \A p \in Pairs : p \in Stored' <=> rows'.track[p] \in {"ok", "partial"}
      /\ rows.track \in [Pairs -> {"none", "ok", "partial", "failed"}]
      /\ rows.agent \in [Pairs -> [AgentIds -> {"none", "ok", "quarantined"}]]
  BY DEF RowsOK, Stored
<1>1. \A p \in Pairs : RunStatus(p) \in {"ok", "partial"}
  BY DEF RunStatus
<1>2. ASSUME NEW p \in Pairs, stage[p] = "ended" PROVE RunStatus(p)' = RunStatus(p)
  <2>1. \A a \in AgentIds : runs'[p][a] = runs[p][a]
    BY <1>2, EndedStay
  <2>2. ToSet(AllRuns[p]) \subseteq AgentIds
    BY AllRunsFacts, AgentFacts DEF Fixed
  <2> QED
    BY <2>1, <2>2 DEF RunStatus
<1>3. ASSUME NEW q \in Pairs, rows'.track[q] = rows.track[q], rows'.agent[q] = rows.agent[q]
      PROVE  PairRows(q)'
  <2>1. /\ stage[q] \in {"ended", "failed"} => stage'[q] = stage[q]
        /\ stage[q] = "ended" => \A a \in AgentIds : runs'[q][a] = runs[q][a]
    BY EndedStay
  <2>2. q \in Stored' <=> q \in Stored
    BY <1>0, <1>3
  <2>3. PairRows(q)
    BY <1>0
  <2>4. rows'.track[q] = "failed" => stage'[q] = "failed"
    BY <1>3, <2>1, <2>3
  <2>5. CASE q \in Stored
    BY <1>2, <1>3, <2>1, <2>2, <2>3, <2>4, <2>5
  <2>6. CASE q \notin Stored
    BY <1>3, <2>2, <2>3, <2>4, <2>6
  <2> QED
    BY <2>5, <2>6
<1>4. CASE rows' = rows
  BY <1>3, <1>4 DEF RowsOK
<1>5. ASSUME NEW p \in Pairs, Persist, stage[p] \in {"ended", "failed"}, rows' = Store(p)
      PROVE  RowsOK'
  <2>0. /\ rows' = [track |-> rows'.track, agent |-> rows'.agent, rec |-> rows'.rec,
                    plan |-> rows'.plan, act |-> rows'.act]
        /\ IF stage[p] = "failed"
           THEN /\ rows'.track = [rows.track EXCEPT ![p] = "failed"]
                /\ rows'.agent = rows.agent /\ rows'.rec = rows.rec
           ELSE /\ rows'.track = [rows.track EXCEPT ![p] = RunStatus(p)]
                /\ rows'.agent = [rows.agent EXCEPT ![p] = [a \in AgentIds |-> runs[p][a].status]]
                /\ rows'.rec = Upsert(rows.rec, RecWrites(p))
    BY <1>5, StoreEffect
  <2>1. UNCHANGED <<stage, runs>>
    BY <1>5 DEF Persist
  <2>2. rows.rec = [id \in RecIds |-> rows.rec[id]]
    BY DEF RowsOK
  <2>3. CASE stage[p] = "failed"
    <3>1. /\ rows'.track = [rows.track EXCEPT ![p] = "failed"]
          /\ rows'.agent = rows.agent /\ rows'.rec = rows.rec
      BY <2>0, <2>3
    <3>2. /\ rows'.track \in [Pairs -> {"none", "ok", "partial", "failed"}]
          /\ rows'.track[p] = "failed"
          /\ \A q \in Pairs : q # p => rows'.track[q] = rows.track[q]
      BY <1>0, <3>1
    <3>3. PairRows(p)'
      <4>1. p \notin Stored /\ p \notin Stored'
        BY <1>0, <2>3, <3>2
      <4> QED
        BY <1>0, <2>1, <2>3, <3>1, <4>1
    <3>4. \A q \in Pairs : PairRows(q)'
      BY <1>3, <3>1, <3>2, <3>3
    <3> HIDE DEF PairRows
    <3>5. rows'.agent \in [Pairs -> [AgentIds -> {"none", "ok", "quarantined"}]]
      BY <1>0, <3>1
    <3>6. rows'.rec = [id \in RecIds |-> rows'.rec[id]]
      BY <2>2, <3>1
    <3> QED
      BY <2>0, <3>2, <3>4, <3>5, <3>6 DEF RowsOK, PairRows
  <2>4. CASE stage[p] = "ended"
    <3> DEFINE statuses == [a \in AgentIds |-> runs[p][a].status]
    <3>1. /\ rows'.track = [rows.track EXCEPT ![p] = RunStatus(p)]
          /\ rows'.agent = [rows.agent EXCEPT ![p] = statuses]
          /\ rows'.rec = Upsert(rows.rec, RecWrites(p))
      BY <2>0, <2>4
    <3>2. /\ rows'.track \in [Pairs -> {"none", "ok", "partial", "failed"}]
          /\ rows'.track[p] = RunStatus(p)
          /\ \A q \in Pairs : q # p => rows'.track[q] = rows.track[q]
      BY <1>0, <1>1, <3>1
    <3>3. \A a \in AgentIds : runs[p][a].status \in {"none", "ok", "quarantined"}
      BY <2>4, StageSets DEF StageOK, Settled
    <3>4. statuses \in [AgentIds -> {"none", "ok", "quarantined"}] /\ \A a \in AgentIds : statuses[a] = runs[p][a].status
      BY <3>3
    <3> HIDE DEF statuses
    <3>5. /\ rows'.agent \in [Pairs -> [AgentIds -> {"none", "ok", "quarantined"}]]
          /\ rows'.agent[p] = statuses
          /\ \A q \in Pairs : q # p => rows'.agent[q] = rows.agent[q]
      BY <1>0, <3>1, <3>4
    <3>6. PairRows(p)'
      <4>1. p \in Stored' /\ rows'.track[p] = RunStatus(p)' /\ rows'.track[p] # "failed"
        BY <1>0, <1>1, <1>2, <2>4, <3>2
      <4>2. \A a \in AgentIds : rows'.agent[p][a] = runs'[p][a].status
        BY <2>1, <3>4, <3>5
      <4> QED
        BY <2>1, <2>4, <4>1, <4>2
    <3>7. \A q \in Pairs : PairRows(q)'
      BY <1>3, <3>2, <3>5, <3>6
    <3>8. rows'.rec = [id \in RecIds |-> rows'.rec[id]]
      <4>1. DOMAIN rows.rec = RecIds
        BY <2>2
      <4> QED
        BY <3>1, <4>1 DEF Upsert
    <3> HIDE DEF PairRows
    <3> QED
      BY <2>0, <3>2, <3>5, <3>7, <3>8 DEF RowsOK, PairRows
  <2> QED
    BY <1>5, <2>3, <2>4
<1>6. rows' = rows \/ \E p \in Pairs : Persist /\ stage[p] \in {"ended", "failed"} /\ rows' = Store(p)
  BY RowsMove
<1> QED
  BY <1>4, <1>5, <1>6

\* RecordsOK, recommendation by recommendation.
RecordOf(id) ==
  rows.rec[id] # None =>
    \E p \in Pairs : \E i \in DOMAIN Recommendations(p) :
      /\ p \in Stored /\ Recommendations(p)[i].id = id
      /\ rows.rec[id] = RecommendationRow(p, Recommendations(p)[i])

Recorded(p, i) ==
  LET r == Recommendations(p)[i] IN
  /\ rows.rec[r.id] # None
  /\ \/ rows.rec[r.id] = RecommendationRow(p, r)
     \/ \E q \in Pairs : \E j \in DOMAIN Recommendations(q) :
          q \in Stored /\ Recommendations(q)[j].id = r.id /\ <<q, j>> # <<p, i>>

\* A row is what a stored pair's agent said last under its id.
LEMMA RecordsKept ==
  ASSUME ShapeOK, ClientOK, StageOK, OutputsOK, RowsOK, RecordsOK, [Next]_vars
  PROVE  RecordsOK'
<1>0. /\ \A p \in Pairs : p \in Stored <=> rows.track[p] \in {"ok", "partial"}
      /\ \A p \in Pairs : p \in Stored' <=> rows'.track[p] \in {"ok", "partial"}
      /\ rows.track \in [Pairs -> {"none", "ok", "partial", "failed"}]
      /\ \A p \in Stored : p \in Pairs /\ stage[p] = "ended"
      /\ \A p \in Stored' : p \in Pairs
      /\ DOMAIN rows.rec = RecIds
  BY DEF RowsOK, Stored
<1>1. /\ \A id \in RecIds : RecordOf(id)
      /\ \A p \in Pairs : \A i \in DOMAIN Recommendations(p) : p \in Stored => Recorded(p, i)
  BY <1>0 DEF RecordsOK, RecordOf, Recorded
<1>2. SUFFICES /\ \A id \in RecIds : RecordOf(id)'
               /\ \A p \in Pairs : \A i \in DOMAIN Recommendations(p)' : p \in Stored' => Recorded(p, i)'
  BY <1>0 DEF RecordsOK, RecordOf, Recorded
<1>3. ASSUME NEW p \in Pairs, stage[p] = "ended"
      PROVE  Recommendations(p)' = Recommendations(p)
  <2>1. \A a \in AgentIds : runs'[p][a] = runs[p][a]
    BY <1>3, EndedStay
  <2>2. CouncilOf(p) \subseteq AgentIds
    BY AgentFacts
  <2> QED
    BY <2>1, <2>2, CouncilStands
<1>4. CASE rows' = rows
  <2>1. \A p \in Stored : Recommendations(p)' = Recommendations(p)
    BY <1>0, <1>3
  <2>2. \A p \in Pairs : p \in Stored' <=> p \in Stored
    BY <1>0, <1>4
  <2>3. ASSUME NEW id \in RecIds PROVE RecordOf(id)'
    BY <1>0, <1>1, <1>4, <2>1, <2>2 DEF RecordOf
  <2>4. ASSUME NEW p \in Pairs, NEW i \in DOMAIN Recommendations(p)', p \in Stored'
        PROVE  Recorded(p, i)'
    <3>1. p \in Stored /\ i \in DOMAIN Recommendations(p) /\ Recommendations(p)' = Recommendations(p)
      BY <2>1, <2>2, <2>4
    <3>2. Recorded(p, i)
      BY <1>1, <3>1
    <3> QED
      BY <1>4, <2>1, <2>2, <3>1, <3>2 DEF Recorded
  <2> QED
    BY <2>3, <2>4
<1>5. ASSUME NEW p \in Pairs, Persist, stage[p] = "failed", rows' = Store(p)
      PROVE  /\ rows'.rec = rows.rec /\ UNCHANGED <<stage, runs>>
             /\ \A q \in Pairs : q \in Stored' <=> q \in Stored
  <2>1. rows'.track = [rows.track EXCEPT ![p] = "failed"] /\ rows'.rec = rows.rec
    BY <1>5, StoreEffect
  <2>2. p \notin Stored
    BY <1>0, <1>5
  <2>3. \A q \in Pairs : q \in Stored' <=> q \in Stored
    BY <1>0, <2>1, <2>2
  <2> QED
    BY <1>5, <2>1, <2>3 DEF Persist
<1>6. ASSUME NEW p \in Pairs, Persist, stage[p] = "failed", rows' = Store(p)
      PROVE  /\ \A id \in RecIds : RecordOf(id)'
             /\ \A q \in Pairs : \A i \in DOMAIN Recommendations(q)' : q \in Stored' => Recorded(q, i)'
  <2>1. /\ rows'.rec = rows.rec /\ \A q \in Pairs : q \in Stored' <=> q \in Stored
    BY <1>5, <1>6
  <2>2. \A q \in Stored : Recommendations(q)' = Recommendations(q)
    BY <1>0, <1>3
  <2>3. ASSUME NEW id \in RecIds PROVE RecordOf(id)'
    BY <1>0, <1>1, <2>1, <2>2 DEF RecordOf
  <2>4. ASSUME NEW q \in Pairs, NEW i \in DOMAIN Recommendations(q)', q \in Stored'
        PROVE  Recorded(q, i)'
    <3>1. q \in Stored /\ i \in DOMAIN Recommendations(q) /\ Recommendations(q)' = Recommendations(q)
      BY <2>1, <2>2, <2>4
    <3>2. Recorded(q, i)
      BY <1>1, <3>1
    <3> QED
      BY <2>1, <2>2, <3>1, <3>2 DEF Recorded
  <2> QED
    BY <2>3, <2>4
<1>7. ASSUME NEW p \in Pairs, Persist, stage[p] = "ended", rows' = Store(p)
      PROVE  /\ \A id \in RecIds : RecordOf(id)'
             /\ \A q \in Pairs : \A i \in DOMAIN Recommendations(q)' : q \in Stored' => Recorded(q, i)'
  <2> DEFINE w == RecWrites(p)
             mine == Recommendations(p)
  <2>1. /\ rows'.track = [rows.track EXCEPT ![p] = RunStatus(p)]
        /\ rows'.rec = Upsert(rows.rec, w)
    BY <1>7, StoreEffect
  <2>2. \A q \in Pairs : q \in Stored' <=> q \in Stored \/ q = p
    <3>1. RunStatus(p) \in {"ok", "partial"}
      BY DEF RunStatus
    <3> QED
      BY <1>0, <2>1, <3>1
  <2>3. \A q \in Pairs : q \in Stored' => Recommendations(q)' = Recommendations(q)
    BY <1>0, <1>3, <1>7, <2>2
  <2>4. PICK n \in Nat : DOMAIN mine = 1..n
    BY RecommendationFacts
  <2>5. /\ DOMAIN w = 1..n /\ DOMAIN w = DOMAIN mine
        /\ \A i \in DOMAIN mine : w[i].id = mine[i].id /\ w[i].row = RecommendationRow(p, mine[i])
    BY <2>4 DEF RecWrites, Write
  <2> HIDE DEF w
  <2>6. ASSUME NEW id \in RecIds
        PROVE  \/ rows'.rec[id] = rows.rec[id] /\ \A i \in DOMAIN mine : mine[i].id # id
               \/ \E i \in DOMAIN mine : mine[i].id = id /\ rows'.rec[id] = RecommendationRow(p, mine[i])
    <3>1. IF \A i \in DOMAIN w : w[i].id # id
          THEN Upsert(rows.rec, w)[id] = rows.rec[id]
          ELSE \E i \in DOMAIN w : w[i].id = id /\ Upsert(rows.rec, w)[id] = w[i].row
      BY <1>0, <2>5, UpsertRow
    <3> QED
      BY <2>1, <2>5, <3>1
  <2>7. ASSUME NEW id \in RecIds PROVE RecordOf(id)'
    <3>1. CASE rows'.rec[id] = rows.rec[id]
      <4>1. RecordOf(id)
        BY <1>1
      <4> QED
        BY <2>2, <2>3, <3>1, <4>1 DEF RecordOf
    <3>2. ASSUME NEW i \in DOMAIN mine, mine[i].id = id, rows'.rec[id] = RecommendationRow(p, mine[i])
          PROVE  RecordOf(id)'
      <4>1. p \in Stored' /\ Recommendations(p)' = Recommendations(p)
        BY <2>2, <2>3
      <4> QED
        BY <3>2, <4>1 DEF RecordOf
    <3> QED
      BY <2>6, <3>1, <3>2
  <2>8. ASSUME NEW q \in Pairs, NEW i \in DOMAIN Recommendations(q)', q \in Stored'
        PROVE  Recorded(q, i)'
    <3> DEFINE r == Recommendations(q)[i]
    <3>1. /\ i \in DOMAIN Recommendations(q) /\ Recommendations(q)' = Recommendations(q)
          /\ r.id \in RecIds
      BY <2>3, <2>8, RecommendationRows
    <3>2. CASE rows'.rec[r.id] = rows.rec[r.id] /\ \A j \in DOMAIN mine : mine[j].id # r.id
      <4>1. q # p
        BY <3>1, <3>2
      <4>2. Recorded(q, i)
        BY <1>1, <2>2, <2>8, <3>1, <4>1
      <4> QED
        BY <2>2, <2>3, <3>1, <3>2, <4>2 DEF Recorded
    <3>3. ASSUME NEW j \in DOMAIN mine, mine[j].id = r.id, rows'.rec[r.id] = RecommendationRow(p, mine[j])
          PROVE  Recorded(q, i)'
      <4>1. rows'.rec[r.id] # None
        BY <3>3, RecommendationRows
      <4>2. p \in Stored' /\ Recommendations(p)' = Recommendations(p)
        BY <2>2, <2>3
      <4>3. CASE <<p, j>> = <<q, i>>
        <5>1. p = q /\ j = i
          BY <4>3
        <5> QED
          BY <3>1, <3>3, <4>1, <5>1 DEF Recorded
      <4>4. CASE <<p, j>> # <<q, i>>
        BY <3>1, <3>3, <4>1, <4>2, <4>4 DEF Recorded
      <4> QED
        BY <4>3, <4>4
    <3> QED
      BY <2>6, <3>1, <3>2, <3>3
  <2> QED
    BY <2>7, <2>8
<1>8. rows' = rows \/ \E p \in Pairs : Persist /\ stage[p] \in {"ended", "failed"} /\ rows' = Store(p)
  BY RowsMove
<1> QED
  BY <1>2, <1>4, <1>6, <1>7, <1>8

-----------------------------------------------------------------------------
(* The invariant holds, and what follows from it.                          *)

\* It holds before any pair has begun.
LEMMA InitInv == Init => IInv
<1> SUFFICES ASSUME Init PROVE IInv
  OBVIOUS
<1>1. /\ canned \in BOOLEAN /\ stage = [p \in Pairs |-> "waiting"]
      /\ runs = [p \in Pairs |-> [a \in AgentIds |-> NotRun]]
      /\ seen = [p \in Pairs |-> [a \in AgentIds |-> None]]
      /\ client = [p \in Pairs |-> None] /\ bound = [p \in Pairs |-> None]
      /\ events = [p \in Pairs |-> <<>>]
      /\ rows = NoRows /\ booked = 0 /\ faults = 0
  BY DEF Init
<1>2. \A p \in Pairs, a \in AgentIds :
        runs[p][a].status = "none" /\ runs[p][a].output = None /\ seen[p][a] = None
  BY <1>1, Envelopes
<1>3. ShapeOK
  <2>1. Len(PairList) \in Nat /\ MaxFaults \in Nat
    BY TrackRunAssumption
  <2>2. 0 \in 0..Len(PairList) /\ 0 \in 0..MaxFaults
    BY <2>1
  <2>3. events \in [Pairs -> Seq(EventSet)]
    BY <1>1
  <2>4. /\ runs = [p \in Pairs |-> runs[p]] /\ seen = [p \in Pairs |-> seen[p]]
        /\ \A p \in Pairs : /\ runs[p] = [a \in AgentIds |-> runs[p][a]]
                            /\ seen[p] = [a \in AgentIds |-> seen[p][a]]
    BY <1>1
  <2> QED
    BY <1>1, <1>2, <2>2, <2>3, <2>4 DEF ShapeOK, Stages, Statuses
<1>4. ClientOK
  BY <1>1 DEF ClientOK
<1>5. StageOK
  BY <1>1, <1>2, StageSets DEF StageOK
<1>6. OutputsOK /\ CannedOK
  BY <1>2, AgentFacts DEF OutputsOK, CannedOK
<1>7. SeenOK
  BY <1>2 DEF SeenOK
<1>8. EventsOK
  BY <1>1 DEF EventsOK, ToSet
<1>9. /\ rows.track = [p \in Pairs |-> "none"]
      /\ rows.agent = [p \in Pairs |-> [a \in AgentIds |-> "none"]]
      /\ rows.rec = [i \in RecIds |-> None]
      /\ rows = [track |-> rows.track, agent |-> rows.agent, rec |-> rows.rec,
                 plan |-> rows.plan, act |-> rows.act]
  BY <1>1 DEF NoRows
<1>10. Stored = {}
  BY <1>9 DEF Stored
<1>11. RowsOK
  BY <1>9, <1>10 DEF RowsOK
<1>12. RecordsOK
  BY <1>9, <1>10 DEF RecordsOK
<1> QED
  BY <1>3, <1>4, <1>5, <1>6, <1>7, <1>8, <1>11, <1>12 DEF IInv

\* Every step keeps it.
LEMMA StepInv == IInv /\ [Next]_vars => IInv'
BY ShapeKept, ClientKept, StageKept, OutputsKept, CannedKept, SeenKept, EventsKept, RowsKept, RecordsKept DEF IInv

\* The invariant the claims rest on.
THEOREM Invariance == Spec => []IInv
BY InitInv, StepInv, PTL DEF Spec

\* The types.
THEOREM TypeCorrect == Spec => []TypeOK
<1>1. IInv => TypeOK
  BY DEF IInv, ShapeOK, RowsOK, TypeOK
<1> QED
  BY <1>1, Invariance, PTL

(***************************************************************************)
(* Whatever the interleaving of a window's pairs and of the agents in      *)
(* them, a canned client answers for its own pair: OwnPacket, of the       *)
(* default LLMClientFactory and bind_packet, for every number of pairs.    *)
(***************************************************************************)
THEOREM AnswersForOwnPair == Spec => []OwnPacket
<1>1. ASSUME IInv PROVE OwnPacket
  <2> SUFFICES ASSUME canned, NEW p \in Pairs, NEW a \in AgentIds, runs[p][a].status = "ok"
               PROVE  LET output == runs[p][a].output IN
                      /\ a \in CouncilIds => output.symbol = SymbolOf(p) /\ output.track = TrackOf(p)
                      /\ a = "judge" /\ IsLLM(p) => output.track = TrackOf(p) /\ output.items = <<>>
    BY DEF OwnPacket, CouncilIds
  <2>1. IsCanned(p, a, runs[p][a].output)
    BY <1>1 DEF IInv, CannedOK
  <2>2. ASSUME a \in CouncilIds
        PROVE  runs[p][a].output.symbol = SymbolOf(p) /\ runs[p][a].output.track = TrackOf(p)
    <3>1. runs[p][a].output = Recommendation(p, a, CannedAnswer) /\ CannedAnswer \in AnyAnswer(a)
      BY <2>1, <2>2 DEF IsCanned, AnyAnswer
    <3>2. CannedAnswer.symbol = None /\ CannedAnswer.track = None
      BY DEF CannedAnswer
    <3>3. LET r == Recommendation(p, a, CannedAnswer) IN
          r.symbol = Own(None, SymbolOf(p)) /\ r.track = Own(None, TrackOf(p))
      BY <2>2, <3>1, <3>2, AnswerFields
    <3> QED
      BY <3>1, <3>3 DEF Own
  <2>3. ASSUME a = "judge", IsLLM(p)
        PROVE  runs[p][a].output.track = TrackOf(p) /\ runs[p][a].output.items = <<>>
    <3>1. runs[p][a].output = Decision(p, CannedPlan)
      BY <2>1, <2>3 DEF IsCanned
    <3>2. CannedPlan.items = <<>> /\ CannedPlan.track = None
          /\ {"id", "track", "items"} \subseteq DOMAIN CannedPlan
      BY DEF CannedPlan
    <3>3. Decision(p, CannedPlan).track = TrackOf(p)
      BY <3>2 DEF Decision, Own
    <3>4. Decision(p, CannedPlan).items = [i \in DOMAIN CannedPlan.items |->
             [CannedPlan.items[i] EXCEPT !.id = OwnId(CannedPlan.items[i], <<p, "judge", i>>),
                !.track = Own(@, TrackOf(p)), !.symbol = Own(@, SymbolOf(p))]]
      BY <3>2 DEF Decision
    <3>5. Decision(p, CannedPlan).items = <<>>
      BY <3>2, <3>4
    <3> QED
      BY <3>1, <3>3, <3>5
  <2> QED
    BY <2>2, <2>3
<1> QED
  BY <1>1, Invariance, PTL

(***************************************************************************)
(* However many agents are quarantined and in whatever order the threads   *)
(* end, a pair fails only when it could not start or something was raised, *)
(* and one that ends has heard of every agent of its binding.              *)
(***************************************************************************)
THEOREM QuarantinesContained == Spec => []QuarantineContained
<1>1. ASSUME IInv PROVE QuarantineContained
  <2> SUFFICES ASSUME NEW p \in Pairs
               PROVE  /\ stage[p] = "failed" =>
                           \/ \A a \in AgentIds : runs[p][a].status = "none"
                           \/ \E a \in AgentIds : runs[p][a].status = "raised"
                      /\ stage[p] = "ended" =>
                           \A a \in AgentIds :
                             runs[p][a].status \in
                               IF a \in ToSet(AllRuns[p]) THEN {"ok", "quarantined"} ELSE {"none"}
    BY DEF QuarantineContained
  <2>1. Before(p, "ended") = ToSet(AllRuns[p]) /\ Members(p, "ended") = {}
    BY StageSets, AllRunsFacts
  <2> QED
    BY <1>1, <2>1 DEF IInv, StageOK, Settled
<1> QED
  BY <1>1, Invariance, PTL

\* A set with one element has no two.
LEMMA OneElement ==
  ASSUME NEW S, IsFiniteSet(S), Cardinality(S) = 1
  PROVE  \A x, y \in S : x = y
<1>1. PICK x : S = {x}
  BY FS_Singleton
<1> QED
  BY <1>1

\* What the validator leaves of a recommendation's size, evidence and legs.
LEMMA ValidSupported ==
  ASSUME NEW r, RecommendationValid(r), r.legs # None => r.legs \in Seq(ToSet(r.legs))
  PROVE  /\ r.action \notin {"hold", "avoid"} =>
              r.evidence # {} /\ Cardinality({r.notional, r.pct} \ {None}) = 1
         /\ r.legs # None => r.action = "multi_leg" /\ \A j \in DOMAIN r.legs : r.legs[j] = r.legs[1]
<1>1. ASSUME r.action \notin {"hold", "avoid"}
      PROVE  r.evidence # {} /\ Cardinality({r.notional, r.pct} \ {None}) = 1
  <2>1. r.evidence # {} /\ (r.notional = None) # (r.pct = None)
    BY <1>1 DEF RecommendationValid, SizedOnce, NonTrading
  <2>2. \E x : {r.notional, r.pct} \ {None} = {x}
    <3>1. CASE r.notional = None
      <4>1. {r.notional, r.pct} \ {None} = {r.pct}
        BY <2>1, <3>1
      <4> QED
        BY <4>1
    <3>2. CASE r.notional # None
      <4>1. {r.notional, r.pct} \ {None} = {r.notional}
        BY <2>1, <3>2
      <4> QED
        BY <4>1
    <3> QED
      BY <3>1, <3>2
  <2>3. PICK x : {r.notional, r.pct} \ {None} = {x}
    BY <2>2
  <2>4. Cardinality({x}) = 1
    BY FS_Singleton
  <2> QED
    BY <2>1, <2>3, <2>4
<1>2. ASSUME r.legs # None
      PROVE  r.action = "multi_leg" /\ \A j \in DOMAIN r.legs : r.legs[j] = r.legs[1]
  <2> DEFINE l == r.legs
  <2>1. r.action = "multi_leg" /\ Len(l) \in 2..6 /\ Cardinality(ToSet(l)) = 1
    BY <1>2 DEF RecommendationValid
  <2>2. l \in Seq(ToSet(l))
    BY <1>2
  <2> HIDE DEF l
  <2>3. DOMAIN l = 1..Len(l) /\ Len(l) \in Nat
    BY <2>2
  <2>4. IsFiniteSet(ToSet(l))
    <3>1. IsFiniteSet(DOMAIN l)
      BY <2>3, FS_Interval
    <3>2. l \in Surjection(DOMAIN l, ToSet(l))
      BY <2>2, <2>3 DEF Surjection, ToSet
    <3> QED
      BY <3>1, <3>2, FS_Surjection
  <2>5. \A x, y \in ToSet(l) : x = y
    BY <2>1, <2>4, OneElement
  <2>6. 1 \in DOMAIN l
    BY <2>1, <2>3
  <2>7. \A j \in DOMAIN l : l[j] = l[1]
    BY <2>5, <2>6 DEF ToSet
  <2> QED
    BY <2>1, <2>7 DEF l
<1> QED
  BY <1>1, <1>2

(***************************************************************************)
(* The stages are barriers and what passes them is valid: InputsSound, of  *)
(* run_track's gather over a stage and of the schemas' validators, for     *)
(* every council and every order its threads end in.                       *)
(***************************************************************************)
THEOREM InputsAreSound == Spec => []InputsSound
<1>1. ASSUME IInv PROVE InputsComplete
  <2> SUFFICES ASSUME NEW p \in Pairs, NEW a \in AgentIds, seen[p][a] # None
               PROVE  /\ a \in CouncilIds => seen[p][a].climate = Climate(p)
                      /\ a \in {"skeptic", "risk_manager", "judge"} =>
                           seen[p][a].climate = Climate(p) /\ seen[p][a].council = Recommendations(p)
                      /\ a = "judge" /\ IsLLM(p) =>
                           /\ seen[p][a].skeptic = Report(p, "skeptic")
                           /\ seen[p][a].risk = Report(p, "risk_manager")
                           /\ None \notin {seen[p][a].climate, seen[p][a].skeptic, seen[p][a].risk}
    BY DEF InputsComplete, CouncilIds
  <2>1. a \in CouncilIds => a # "market_climate"
    BY AgentFacts DEF Fixed
  <2>2. \A b \in AgentIds : Report(p, b) # None
    BY TrackRunAssumption DEF Report
  <2>3. {"market_climate", "skeptic", "risk_manager"} \subseteq AgentIds
    BY DEF AgentIds
  <2>4. IsLLM(p) => Climate(p) # None
    BY <2>2, <2>3 DEF Climate
  <2> QED
    BY <1>1, <2>1, <2>2, <2>3, <2>4 DEF IInv, SeenOK
<1>2. ASSUME IInv PROVE TradesSupported
  <2> SUFFICES ASSUME NEW p \in Pairs, NEW a \in AgentIds, seen[p][a] # None,
                      NEW i \in DOMAIN seen[p][a].council
               PROVE  LET r == seen[p][a].council[i] IN
                      /\ r.action \notin {"hold", "avoid"} =>
                           r.evidence # {} /\ Cardinality({r.notional, r.pct} \ {None}) = 1
                      /\ r.legs # None =>
                           r.action = "multi_leg" /\ \A j \in DOMAIN r.legs : r.legs[j] = r.legs[1]
    BY DEF TradesSupported
  <2>1. seen[p][a].council = Recommendations(p) \/ seen[p][a].council = <<>>
    BY <1>2 DEF IInv, SeenOK
  <2>2. seen[p][a].council = Recommendations(p) /\ i \in DOMAIN Recommendations(p)
    BY <2>1
  <2> DEFINE r == Recommendations(p)[i]
  <2>3. RecommendationValid(r)
    BY <1>2, <2>2, RecommendationFacts DEF IInv
  <2>4. r.legs # None => r.legs \in Seq(ToSet(r.legs))
    <3>1. PICK b \in CouncilIds : \E answer \in AnyAnswer(b) : r = Recommendation(p, b, answer)
      BY <1>2, <2>2, RecommendationFacts DEF IInv
    <3>2. PICK answer \in AnyAnswer(b) : r = Recommendation(p, b, answer)
      BY <3>1
    <3>3. r.legs = answer.legs
      BY <3>2, AnswerFields
    <3> QED
      BY <3>3, AnswersAssumption DEF CouncilIds
  <2> HIDE DEF r
  <2>5. /\ r.action \notin {"hold", "avoid"} =>
             r.evidence # {} /\ Cardinality({r.notional, r.pct} \ {None}) = 1
        /\ r.legs # None => r.action = "multi_leg" /\ \A j \in DOMAIN r.legs : r.legs[j] = r.legs[1]
    BY <2>3, <2>4, ValidSupported
  <2> QED
    BY <2>2, <2>5 DEF r
<1> QED
  BY <1>1, <1>2, Invariance, PTL DEF InputsSound

\* The rows of a pair say what became of its agents, and every recommendation
\* row is what one of them said.
LEMMA RowsTell ==
  ASSUME IInv
  PROVE  RowsTellTheRun
<1> DEFINE Agents(p) == {rows.agent[p][a] : a \in ToSet(AllRuns[p])}
<1>1. ASSUME NEW p \in Pairs
      PROVE  CASE rows.track[p] = "ok" -> Agents(p) = {"ok"}
               [] rows.track[p] = "partial" ->
                    "quarantined" \in Agents(p) /\ Agents(p) \subseteq {"ok", "quarantined"}
               [] OTHER -> Agents(p) = {"none"}
  <2>1. ToSet(AllRuns[p]) \subseteq AgentIds /\ "judge" \in ToSet(AllRuns[p])
    BY AllRunsFacts, AgentFacts DEF Fixed
  <2>2. CASE p \in Stored
    <3>1. /\ stage[p] = "ended" /\ rows.track[p] = RunStatus(p)
          /\ \A a \in AgentIds : rows.agent[p][a] = runs[p][a].status
      BY <2>2 DEF IInv, RowsOK
    <3>2. \A a \in ToSet(AllRuns[p]) : runs[p][a].status \in {"ok", "quarantined"}
      <4>1. Before(p, "ended") = ToSet(AllRuns[p])
        BY DEF Before
      <4> QED
        BY <2>1, <3>1, <4>1 DEF IInv, StageOK, Settled
    <3>3. CASE \E a \in ToSet(AllRuns[p]) : runs[p][a].status = "quarantined"
      <4>1. rows.track[p] = "partial"
        BY <3>1, <3>3 DEF RunStatus
      <4> QED
        BY <2>1, <3>1, <3>2, <3>3, <4>1
    <3>4. CASE ~ \E a \in ToSet(AllRuns[p]) : runs[p][a].status = "quarantined"
      <4>1. rows.track[p] = "ok"
        BY <3>1, <3>4 DEF RunStatus
      <4>2. \A a \in ToSet(AllRuns[p]) : rows.agent[p][a] = "ok"
        BY <2>1, <3>1, <3>2, <3>4
      <4> QED
        BY <2>1, <4>1, <4>2
    <3> QED
      BY <3>3, <3>4
  <2>3. CASE p \notin Stored
    <3>1. rows.track[p] \notin {"ok", "partial"} /\ \A a \in AgentIds : rows.agent[p][a] = "none"
      BY <2>3 DEF IInv, RowsOK, Stored
    <3>2. \A a \in ToSet(AllRuns[p]) : rows.agent[p][a] = "none"
      BY <2>1, <3>1
    <3>3. Agents(p) = {"none"}
      BY <2>1, <3>2
    <3> QED
      BY <3>1, <3>3
  <2> QED
    BY <2>2, <2>3
<1>2. RecordsOK
  BY DEF IInv
<1> QED
  BY <1>1, <1>2 DEF RowsTellTheRun, RecordsOK, Stored

\* What the dashboard was told of a pair agrees with its rows.
LEMMA EventsTell ==
  ASSUME IInv
  PROVE  EventsMatchRows
<1> SUFFICES ASSUME NEW p \in Pairs
             PROVE  LET told == ToSet(events[p])
                        okRows == {a \in AgentIds : rows.agent[p][a] = "ok"}
                    IN
                    /\ rows.track[p] \in {"ok", "partial"} =>
                         /\ <<"track_completed">> \in told
                         /\ {a \in ToSet(CouncilList) : <<"recommendation_emitted", a>> \in told}
                              = okRows \cap ToSet(CouncilList)
                         /\ (<<"judge_decided", "judge">> \in told) = ("judge" \in okRows)
                    /\ rows.track[p] = "failed" => <<"track_completed">> \notin told
  BY DEF EventsMatchRows
<1> DEFINE told == ToSet(events[p])
           okRows == {a \in AgentIds : rows.agent[p][a] = "ok"}
<1>1. CouncilIds \subseteq AgentIds /\ "judge" \in AgentIds
  BY DEF CouncilIds, AgentIds
<1>2. ASSUME rows.track[p] \in {"ok", "partial"}
      PROVE  /\ <<"track_completed">> \in told
             /\ {a \in CouncilIds : <<"recommendation_emitted", a>> \in told} = okRows \cap CouncilIds
             /\ (<<"judge_decided", "judge">> \in told) = ("judge" \in okRows)
  <2>1. stage[p] = "ended" /\ \A a \in AgentIds : rows.agent[p][a] = runs[p][a].status
    BY <1>2 DEF IInv, RowsOK, Stored
  <2>2. /\ <<"track_completed">> \in told
        /\ \A a \in CouncilIds :
             (<<"recommendation_emitted", a>> \in told) = (runs[p][a].status = "ok")
        /\ (<<"judge_decided", "judge">> \in told) = (runs[p]["judge"].status = "ok")
    BY <2>1 DEF IInv, EventsOK
  <2> HIDE DEF told
  <2>3. {a \in CouncilIds : <<"recommendation_emitted", a>> \in told} = okRows \cap CouncilIds
    BY <1>1, <2>1, <2>2
  <2>4. (<<"judge_decided", "judge">> \in told) = ("judge" \in okRows)
    BY <1>1, <2>1, <2>2
  <2> QED
    BY <2>2, <2>3, <2>4
<1>3. ASSUME rows.track[p] = "failed" PROVE <<"track_completed">> \notin told
  <2>1. stage[p] = "failed"
    BY <1>3 DEF IInv, RowsOK
  <2>2. told \subseteq {<<"track_started">>}
    BY <2>1 DEF IInv, EventsOK
  <2>3. <<"track_completed">> # <<"track_started">>
    OBVIOUS
  <2> QED
    BY <2>2, <2>3
<1> QED
  BY <1>2, <1>3 DEF CouncilIds

(***************************************************************************)
(* The ledger and the dashboard tell the same story of every pair, however *)
(* its agents ended, whatever ids they used and whichever transactions     *)
(* failed: AccountsAgree, of persist_track_run and _run_one_track.         *)
(***************************************************************************)
THEOREM AccountsOfWindowAgree == Spec => []AccountsAgree
<1>1. IInv => AccountsAgree
  BY RowsTell, EventsTell DEF AccountsAgree
<1> QED
  BY <1>1, Invariance, PTL

-----------------------------------------------------------------------------
(* The refinement: a step of a pair is a step of PairLifecycle, or none.   *)

OutcomeOf(p) == CASE stage[p] = "ended" -> RunStatus(p)
                  [] stage[p] = "failed" -> "failed"
                  [] OTHER -> "none"
Outcome == [p \in Pairs |-> OutcomeOf(p)]
Judged == {p \in Pairs : stage[p] = "ended" /\ runs[p]["judge"].status = "ok"}

\* A pair that is over keeps its outcome.
LEMMA OutcomeStands ==
  ASSUME IInv, [Next]_vars, NEW p \in Pairs, stage'[p] = stage[p]
  PROVE  OutcomeOf(p)' = OutcomeOf(p) /\ (p \in Judged' <=> p \in Judged)
<1>1. stage[p] = "ended" => \A a \in AgentIds : runs'[p][a] = runs[p][a]
  BY EndedStay DEF IInv
<1>2. ToSet(AllRuns[p]) \subseteq AgentIds /\ "judge" \in AgentIds
  BY AllRunsFacts, AgentFacts DEF Fixed
<1>3. stage[p] = "ended" => RunStatus(p)' = RunStatus(p)
  BY <1>1, <1>2 DEF RunStatus
<1> QED
  BY <1>1, <1>2, <1>3 DEF OutcomeOf, Judged

\* A pair's end is an End of the abstract lifecycle.
LEMMA EndsOnce ==
  ASSUME IInv, [Next]_vars, NEW p \in Pairs, stage[p] \notin {"ended", "failed"},
         stage' = [stage EXCEPT ![p] = stage'[p]], UNCHANGED <<runs, rows>>,
         stage'[p] = "failed" \/ AfterJudge(p)
  PROVE  Lifecycle!End(p)
<1>0. stage \in [Pairs -> Stages]
  BY DEF IInv, ShapeOK
<1>1. \A q \in Pairs : q # p => OutcomeOf(q)' = OutcomeOf(q) /\ (q \in Judged' <=> q \in Judged)
  <2> TAKE q \in Pairs
  <2>1. q # p => stage'[q] = stage[q]
    BY <1>0
  <2> QED
    BY <2>1, OutcomeStands
<1>2. OutcomeOf(p) = "none" /\ p \notin Judged
  BY DEF OutcomeOf, Judged
<1>3. Outcome = [q \in Pairs |-> OutcomeOf(q)] /\ Outcome' = [q \in Pairs |-> OutcomeOf(q)']
  BY DEF Outcome
<1>4. Judged \subseteq Pairs /\ Judged' \subseteq Pairs
  BY DEF Judged
<1>5. \A o : OutcomeOf(p)' = o => Outcome' = [Outcome EXCEPT ![p] = o]
  BY <1>1, <1>3
<1>6. CASE stage'[p] = "failed"
  <2>1. OutcomeOf(p)' = "failed" /\ p \notin Judged'
    BY <1>6 DEF OutcomeOf, Judged
  <2>2. Judged' = Judged
    BY <1>1, <1>2, <1>4, <2>1
  <2>3. Outcome[p] = "none" /\ Outcome' = [Outcome EXCEPT ![p] = "failed"]
    BY <1>2, <1>3, <1>5, <2>1
  <2> QED
    BY <2>2, <2>3 DEF Lifecycle!End, Outcome, OutcomeOf, Judged
<1>7. CASE AfterJudge(p)
  <2>1. stage'[p] = "ended"
    BY <1>0, <1>7 DEF AfterJudge
  <2>2. OutcomeOf(p)' = RunStatus(p) /\ (p \in Judged' <=> runs[p]["judge"].status = "ok")
    BY <2>1 DEF OutcomeOf, Judged, RunStatus
  <2>3. StageOK'
    BY StepInv DEF IInv
  <2>4. \A a \in ToSet(AllRuns[p]) : runs[p][a].status \in Settled
    <3>1. Before(p, "ended") = ToSet(AllRuns[p]) /\ ToSet(AllRuns[p]) \subseteq AgentIds
      BY AllRunsFacts, AgentFacts DEF Before, Fixed
    <3> QED
      BY <2>1, <2>3, <3>1 DEF StageOK
  <2>5. "judge" \in ToSet(AllRuns[p])
    BY AllRunsFacts DEF Fixed
  <2>6. RunStatus(p) = "ok" => p \in Judged'
    BY <2>2, <2>4, <2>5 DEF RunStatus, Settled
  <2>7. Judged' = Judged \cup {p} \/ (p \notin Judged' /\ Judged' = Judged)
    BY <1>1, <1>2, <1>4
  <2>8. RunStatus(p) \in {"ok", "partial"}
    BY DEF RunStatus
  <2>9. Outcome[p] = "none" /\ Outcome' = [Outcome EXCEPT ![p] = RunStatus(p)]
    BY <1>2, <1>3, <1>5, <2>2
  <2> QED
    BY <2>6, <2>7, <2>8, <2>9 DEF Lifecycle!End, Outcome, OutcomeOf, Judged
<1> QED
  BY <1>6, <1>7

\* A transaction is a Book of the abstract lifecycle, or leaves no trace.
LEMMA BooksOutcome ==
  ASSUME IInv, Persist
  PROVE  (\E p \in Pairs : Lifecycle!Book(p)) \/ UNCHANGED <<Outcome, Judged, rows.track>>
<1>1. UNCHANGED <<stage, runs>> /\ \A q \in Pairs : stage[q] \in {"ended", "failed"}
  BY PersistEffect DEF IInv
<1>2. PICK p \in Pairs : stage[p] \in {"ended", "failed"} /\ rows' \in {rows, Store(p)}
  BY PersistEffect DEF IInv
<1>3. UNCHANGED <<Outcome, Judged>>
  BY <1>1 DEF Outcome, OutcomeOf, RunStatus, Judged
<1>4. CASE rows' = rows
  BY <1>3, <1>4
<1>5. CASE rows' = Store(p)
  <2>1. rows'.track = [rows.track EXCEPT ![p] = OutcomeOf(p)]
    BY <1>2, <1>5, StoreEffect DEF IInv, OutcomeOf
  <2>2. \A q \in Pairs : OutcomeOf(q) # "none"
    BY <1>1 DEF OutcomeOf, RunStatus
  <2>3. \A q \in Pairs : Outcome[q] = OutcomeOf(q)
    BY DEF Outcome
  <2>4. Lifecycle!Book(p)
    BY <1>3, <2>1, <2>2, <2>3 DEF Lifecycle!Book, Outcome, OutcomeOf, Judged
  <2> QED
    BY <2>4
<1> QED
  BY <1>2, <1>4, <1>5

(***************************************************************************)
(* The window runner may treat a pair as PairLifecycle does, which is what *)
(* WindowRunner assumes of the orchestrator: ImplementsPairs.              *)
(***************************************************************************)
THEOREM Implements == Spec => ImplementsPairs
<1>1. Init => Lifecycle!LInit
  <2> SUFFICES ASSUME Init PROVE Lifecycle!LInit
    OBVIOUS
  <2>1. \A p \in Pairs : stage[p] = "waiting"
    BY DEF Init
  <2>2. rows.track = [p \in Pairs |-> "none"]
    BY DEF Init, NoRows
  <2> QED
    BY <2>1, <2>2 DEF Lifecycle!LInit
<1>2. IInv /\ [Next]_vars => [\E p \in Pairs : Lifecycle!End(p) \/ Lifecycle!Book(p)]_(Lifecycle!lvars)
  <2> SUFFICES ASSUME IInv, [Next]_vars
               PROVE  \/ \E p \in Pairs : Lifecycle!End(p) \/ Lifecycle!Book(p)
                      \/ UNCHANGED <<Outcome, Judged, rows.track>>
    BY DEF Lifecycle!lvars, Outcome, OutcomeOf, Judged
  <2>0. stage \in [Pairs -> Stages]
    BY DEF IInv, ShapeOK
  <2>1. ASSUME \A p \in Pairs : \/ stage'[p] = stage[p]
                                \/ {stage[p], stage'[p]} \cap {"ended", "failed"} = {}
        PROVE  UNCHANGED <<Outcome, Judged>>
    <3>1. ASSUME NEW p \in Pairs
          PROVE  OutcomeOf(p)' = OutcomeOf(p) /\ (p \in Judged' <=> p \in Judged)
      <4>1. CASE stage'[p] = stage[p]
        BY <4>1, OutcomeStands
      <4>2. CASE {stage[p], stage'[p]} \cap {"ended", "failed"} = {}
        BY <4>2 DEF OutcomeOf, Judged
      <4> QED
        BY <2>1, <4>1, <4>2
    <3>2. Outcome' = Outcome
      BY <3>1 DEF Outcome
    <3>3. Judged' = Judged
      <4>1. Judged \subseteq Pairs /\ Judged' \subseteq Pairs
        BY DEF Judged
      <4> QED
        BY <3>1, <4>1
    <3> QED
      BY <3>2, <3>3
  <2>2. ASSUME NEW p \in Pairs, NEW t, NEW council, NEW skeptic, NEW risk,
               Starts(p, t, council, skeptic, risk), UNCHANGED rows
        PROVE  UNCHANGED <<Outcome, Judged, rows.track>>
    <3>1. Launch(p, t, council, skeptic, risk) /\ Follows(p, stage[p], t) /\ t # "ended" /\ stage[p] \in Stages
      BY <2>0, <2>2 DEF Starts
    <3>2. {stage[p], t} \cap {"ended", "failed"} = {} /\ stage' = [stage EXCEPT ![p] = t]
      BY <3>1, StageOrder DEF Launch
    <3>3. \A q \in Pairs : \/ stage'[q] = stage[q]
                           \/ {stage[q], stage'[q]} \cap {"ended", "failed"} = {}
      BY <2>0, <3>2
    <3> QED
      BY <2>1, <2>2, <3>3
  <2>3. ASSUME NEW p \in Pairs, AfterJudge(p) \/ ((Abort(p) \/ StartFails(p)) /\ UNCHANGED rows)
        PROVE  Lifecycle!End(p)
    <3>1. UNCHANGED <<runs, rows>>
      BY <2>3 DEF AfterJudge, Abort, StartFails, ledger
    <3>2. stage[p] \notin {"ended", "failed"}
      BY <2>3, StageSets DEF AfterJudge, Abort, StartFails, Broken
    <3>3. /\ stage' = [stage EXCEPT ![p] = stage'[p]] 
          /\ stage'[p] = "failed" \/ AfterJudge(p)
      BY <2>0, <2>3 DEF AfterJudge, Abort, StartFails
    <3> QED
      BY <3>1, <3>2, <3>3, EndsOnce
  <2>4. ASSUME NEW p \in Pairs, NEW a \in AgentIds, NEW e, Return(p, a, e)
        PROVE  UNCHANGED <<Outcome, Judged, rows.track>>
    BY <2>1, <2>4 DEF Return, ledger
  <2>5. CASE Persist
    BY <2>5, BooksOutcome
  <2>6. CASE UNCHANGED vars
    BY <2>1, <2>6 DEF vars
  <2>7. \/ \E p \in Pairs : /\ \E t, council, skeptic, risk : Starts(p, t, council, skeptic, risk)
                            /\ UNCHANGED rows
        \/ \E p \in Pairs : AfterJudge(p) \/ ((Abort(p) \/ StartFails(p)) /\ UNCHANGED rows)
        \/ \E p \in Pairs, a \in AgentIds : \E e : Return(p, a, e)
        \/ Persist \/ UNCHANGED vars
    <3>1. ASSUME NEW p \in Pairs, Step(p)
          PROVE  /\ UNCHANGED rows
                 /\ \/ \E t, council, skeptic, risk : Starts(p, t, council, skeptic, risk)
                    \/ AfterJudge(p) \/ Abort(p) \/ StartFails(p)
      <4>1. UNCHANGED rows
        BY <3>1 DEF Step, Begin, AfterClimate, AfterCouncil, AfterAdversarial, AfterJudge, Abort, ledger
      <4> QED
        BY <3>1, <4>1, StepKinds DEF IInv
    <3>2. ASSUME NEW p \in Pairs, NEW a \in AgentIds, Thread(p, a)
          PROVE  \E e : Return(p, a, e)
      BY <3>2, ThreadKinds DEF IInv
    <3> QED
      BY <3>1, <3>2 DEF Next
  <2> QED
    BY <2>2, <2>3, <2>4, <2>5, <2>6, <2>7
<1> QED
  BY <1>1, <1>2, Invariance, PTL DEF Spec, ImplementsPairs, Lifecycle!LSpec

-----------------------------------------------------------------------------
(* The deterministic judges: what their plans are, whatever the council     *)
(* recommends.                                                              *)

Buyable(r) == r.action = "buy" /\ r.instrument \in Tradable
Weight(items) == FoldLeft(LAMBDA sum, item : sum + item.pct, 0, items)

\* What BaselineSound says of the items of one plan.
ItemsFollow(items, recs, f) ==
  /\ f \in [DOMAIN items -> DOMAIN recs]
  /\ \A k, l \in DOMAIN items : f[k] = f[l] => k = l
  /\ \A k \in DOMAIN items : /\ Buyable(recs[f[k]]) /\ items[k].from = {recs[f[k]].id}
                             /\ items[k].symbol = recs[f[k]].symbol
LeavesOut(items, recs, f, quant) ==
  \A j \in DOMAIN recs \ Range(f) : Buyable(recs[j]) =>
    /\ Len(items) = IF quant THEN QuantTop ELSE RandomPicks
    /\ quant => \A k \in DOMAIN items : recs[j].conviction <= recs[f[k]].conviction
PlanSound(kind, items, recs) ==
  /\ Weight(items) <= One
  /\ IF kind = "benchmark" THEN Len(items) = 1 /\ items[1].pct = One
     ELSE \E f : ItemsFollow(items, recs, f) /\ LeavesOut(items, recs, f, kind = "quant_signal")

\* Equal weights add up to their multiple.
LEMMA WeightsSum ==
  ASSUME NEW n \in Nat, NEW items, DOMAIN items = 1..n, NEW w \in Nat,
         \A k \in 1..n : items[k].pct = w
  PROVE  Weight(items) = n * w
<1> DEFINE q == [k \in 1..n |-> w]
           F == [p \in Nat \X Nat |-> p[1] + p[2]]
           Sums(g) == g = [s \in SUBSET DOMAIN items |->
                             IF s = {} THEN 0 ELSE g[s \ {Max(s)}] + items[Max(s)].pct]
           G == CHOOSE g : Sums(g)
           T == {k \in Nat : k <= n => G[1..k] = k * w}
<1>1. Weight(items) = G[DOMAIN items]
  BY DEF Weight, FoldLeft, MapThenFoldSet
<1>2. PICK g \in [SUBSET DOMAIN q -> Nat] : FoldsUp(g, F, 0, q, Len(q))
  <2>1. F \in [Nat \X Nat -> Nat] /\ 0 \in Nat /\ q \in Seq(Nat)
    OBVIOUS
  <2> HIDE DEF F, q
  <2> QED
    BY <2>1, FoldExists
<1>3. DOMAIN q = 1..n /\ Len(q) = n /\ \A k \in 1..n : q[k] = w
  OBVIOUS
<1> HIDE DEF q
<1>4. Sums(g)
  <2>1. ASSUME NEW s \in SUBSET (1..n)
        PROVE  g[s] = IF s = {} THEN 0 ELSE g[s \ {Max(s)}] + items[Max(s)].pct
    <3>1. g[s] = IF s = {} THEN 0 ELSE F[<<g[s \ {Max(s)}], q[Max(s)]>>]
      BY <1>2, <1>3 DEF FoldsUp
    <3>2. CASE s = {}
      BY <3>1, <3>2
    <3>3. CASE s # {}
      <4>1. s \in SUBSET (0..n)
        OBVIOUS
      <4>2. Max(s) \in s
        BY <3>3, <4>1, Greatest
      <4>3. g[s \ {Max(s)}] \in Nat /\ q[Max(s)] = w /\ items[Max(s)].pct = w
        BY <1>2, <1>3, <4>2
      <4> QED
        BY <3>1, <3>3, <4>3
    <3> QED
      BY <3>2, <3>3
  <2> QED
    BY <1>2, <1>3, <2>1
<1>5. Sums(G)
  <2> HIDE DEF Sums
  <2> QED
    BY <1>4
<1>6. \A s \in SUBSET (1..n) : G[s] = IF s = {} THEN 0 ELSE G[s \ {Max(s)}] + items[Max(s)].pct
  BY <1>5
<1> HIDE DEF G, Sums, F
<1>7. 0 \in T
  <2>1. 1..0 = {} /\ 1..0 \in SUBSET (1..n)
    OBVIOUS
  <2>2. G[1..0] = 0
    BY <1>6, <2>1
  <2> QED
    BY <2>2
<1>8. ASSUME NEW k \in Nat, k \in T PROVE k + 1 \in T
  <2> SUFFICES ASSUME k + 1 <= n PROVE G[1..k + 1] = (k + 1) * w
    OBVIOUS
  <2>1. G[1..k] = k * w /\ k + 1 \in 1..n /\ k + 1 \in Nat \ {0} /\ (k + 1) - 1 = k
    BY <1>8
  <2>2. Max(1..k + 1) = k + 1 /\ (1..k + 1) \ {k + 1} = 1..(k + 1) - 1 /\ 1..k + 1 # {}
    BY <2>1, LastPlace
  <2>3. 1..k + 1 \in SUBSET (1..n)
    BY <2>1
  <2>4. G[1..k + 1] = k * w + w
    BY <1>6, <2>1, <2>2, <2>3
  <2>5. k * w + w = (k + 1) * w
    BY SMTT(30)
  <2> QED
    BY <2>4, <2>5
<1> HIDE DEF T
<1>9. n \in T
  BY <1>7, <1>8, Induction
<1> QED
  BY <1>1, <1>9 DEF T

\* The candidates of a baseline are the buys of the council.
LEMMA EligibleFacts ==
  ASSUME NEW S, NEW recs \in Seq(S)
  PROVE  LET good == Eligible(recs) IN
         /\ good \in Seq(S) /\ DOMAIN good = 1..Len(good)
         /\ \E p \in [DOMAIN good -> DOMAIN recs] :
              /\ \A k \in DOMAIN good : good[k] = recs[p[k]] /\ Buyable(recs[p[k]])
              /\ \A k, l \in DOMAIN good : p[k] = p[l] => k = l
              /\ \A j \in DOMAIN recs : Buyable(recs[j]) => \E k \in DOMAIN good : p[k] = j
<1> DEFINE I == {j \in DOMAIN recs : Buyable(recs[j])}
           good == Eligible(recs)
<1>1. good = Chosen(recs, I)
  BY DEF Eligible, Only, Chosen, InOrder, Buyable
<1>2. I \in SUBSET DOMAIN recs /\ \A j \in DOMAIN recs : j \in I <=> Buyable(recs[j])
  OBVIOUS
<1> HIDE DEF I, good
<1>3. /\ good \in Seq(S) /\ DOMAIN good = 1..Len(good) /\ Len(good) \in Nat
  BY <1>1, <1>2, ChosenElements
<1>4. PICK p \in [DOMAIN good -> I] :
        /\ \A k \in DOMAIN good : good[k] = recs[p[k]]
        /\ \A i \in I : \E k \in DOMAIN good : p[k] = i
        /\ \A k, l \in DOMAIN good : k < l => p[k] < p[l]
  <2> DEFINE c == Chosen(recs, I)
  <2>1. \E p \in [DOMAIN c -> I] : /\ \A k \in DOMAIN c : c[k] = recs[p[k]]
                                   /\ \A i \in I : \E k \in DOMAIN c : p[k] = i
                                   /\ \A k, l \in DOMAIN c : k < l => p[k] < p[l]
    <3>1. I \in SUBSET DOMAIN recs
      BY <1>2
    <3> QED
      BY SMTT(30), <3>1, ChosenElements
  <2> HIDE DEF c
  <2>2. c = good
    BY <1>1 DEF c
  <2> QED
    BY <2>1, <2>2
<1>5. \A k, l \in DOMAIN good : p[k] = p[l] => k = l
  <2> TAKE k, l \in DOMAIN good
  <2>1. DOMAIN recs \subseteq Int
    OBVIOUS
  <2>2. k \in Int /\ l \in Int /\ p[k] \in Int /\ p[l] \in Int
    BY <1>2, <1>3, <1>4, <2>1
  <2>3. (k < l => p[k] < p[l]) /\ (l < k => p[l] < p[k])
    BY <1>4
  <2> QED
    BY <2>2, <2>3
<1>6. p \in [DOMAIN good -> DOMAIN recs]
  BY <1>2, <1>4
<1>7. \A k \in DOMAIN good : good[k] = recs[p[k]] /\ Buyable(recs[p[k]])
  BY <1>2, <1>4
<1>8. \A j \in DOMAIN recs : Buyable(recs[j]) => \E k \in DOMAIN good : p[k] = j
  BY <1>2, <1>4
<1> QED
  BY <1>3, <1>5, <1>6, <1>7, <1>8 DEF good

\* The candidates are the buys at the places p, another one each.
Buys(good, recs, p) ==
  /\ p \in [DOMAIN good -> DOMAIN recs]
  /\ \A k \in DOMAIN good : good[k] = recs[p[k]] /\ Buyable(recs[p[k]])
  /\ \A k, l \in DOMAIN good : p[k] = p[l] => k = l

\* The first n of a choice of candidates, another one each.
Picks(s, n, good) ==
  /\ n \in Nat /\ s \in [1..n -> DOMAIN good]
  /\ \A k, l \in 1..n : s[k] = s[l] => k = l

\* The recommendations the picks come from.
Through(p, s, n) == [k \in 1..n |-> p[s[k]]]

\* Buying the picks follows their recommendations.
LEMMA BuysFollow ==
  ASSUME NEW recs, NEW good, NEW n, NEW p, Buys(good, recs, p), NEW s, Picks(s, n, good),
         NEW items, DOMAIN items = 1..n,
         \A k \in 1..n : items[k].from = {good[s[k]].id} /\ items[k].symbol = good[s[k]].symbol
  PROVE  ItemsFollow(items, recs, Through(p, s, n))
<1> DEFINE f == Through(p, s, n)
<1>1. \A k \in 1..n : s[k] \in DOMAIN good /\ f[k] = p[s[k]]
  BY DEF Picks, Through
<1>2. f \in [1..n -> DOMAIN recs]
  BY <1>1 DEF Buys, Through
<1> HIDE DEF f
<1>3. \A k, l \in 1..n : f[k] = f[l] => k = l
  BY <1>1 DEF Buys, Picks
<1>4. \A k \in 1..n : /\ Buyable(recs[f[k]]) /\ items[k].from = {recs[f[k]].id}
                      /\ items[k].symbol = recs[f[k]].symbol
  BY <1>1 DEF Buys
<1>5. ItemsFollow(items, recs, f)
  BY <1>2, <1>3, <1>4 DEF ItemsFollow
<1> QED
  BY <1>5 DEF f

\* The candidates in the quant baseline's order, as many as it takes.
TopOf(good) ==
  FirstOf(Sorted(DOMAIN good, LAMBDA i, j : Stronger(good, i, j)), QuantTop)

\* What QuantTop and QuantWeight guarantee.
LEMMA QuantLimits ==
  /\ QuantTop \in Nat /\ QuantWeight \in Nat
  /\ QuantTop * QuantWeight <= One /\ One \in Nat
<1>1. QuantTop \in Nat \ {0} /\ QuantWeight \in 1..One /\ QuantTop * QuantWeight <= One
  BY Zenon, BaselineAssumption
<1> QED
  BY <1>1 DEF One

\* A recommendation has a place in the sort.
Placed(r) == r.conviction \in Int /\ r.symbol \in DOMAIN SymbolRank

LEMMA StrongestFirst ==
  ASSUME NEW S, NEW good \in Seq(S), \A i \in DOMAIN good : Placed(good[i])
  PROVE  LET top == TopOf(good)
             n == Len(top)
         IN  /\ n \in Nat /\ n <= QuantTop /\ DOMAIN top = 1..n
             /\ top \in [1..n -> DOMAIN good] /\ \A k, l \in 1..n : top[k] = top[l] => k = l
             /\ \A g \in DOMAIN good : (\A k \in 1..n : top[k] # g) =>
                  n = QuantTop /\ \A k \in 1..n : good[g].conviction <= good[top[k]].conviction
<1> DEFINE D == DOMAIN good
           R == {p \in D \X D : Stronger(good, p[1], p[2])}
           rank == SortedBy(D, R)
           c == Cardinality(D)
           m == IF c < QuantTop THEN c ELSE QuantTop
           top == SubSeq(rank, 1, m)
<1>1. D = 1..Len(good) /\ Len(good) \in Nat
  OBVIOUS
<1>2. IsFiniteSet(D) /\ c \in Nat /\ \A x \in D : x \in Nat
  BY SMTT(30), <1>1, FS_Interval, FS_CardinalityType
<1>3. \A x \in D : good[x].conviction \in Int /\ good[x].symbol \in DOMAIN SymbolRank
  BY DEF Placed
<1> HIDE DEF D
<1>e. /\ \A x \in D : ~Earlier(good, x, x)
      /\ \A x, y \in D : x = y \/ Earlier(good, x, y) \/ Earlier(good, y, x)
      /\ \A x, y, z \in D : (Earlier(good, x, y) /\ Earlier(good, y, z)) => Earlier(good, x, z)
  <2> DEFINE place(x) == SymbolRank[good[x].symbol]
  <2>1. \A x \in D : x \in Nat /\ place(x) \in Nat
    <3>1. SymbolRank \in [DOMAIN SymbolRank -> Nat]
      BY Zenon, BaselineAssumption
    <3> QED
      BY <1>2, <1>3, <3>1
  <2>2. \A x, y \in D : Earlier(good, x, y) <=> (place(x) < place(y) \/ (place(x) = place(y) /\ x < y))
    BY DEF Earlier
  <2> HIDE DEF place
  <2>3. \A x \in D : ~Earlier(good, x, x)
    BY <2>1, <2>2
  <2>4. \A x, y \in D : x = y \/ Earlier(good, x, y) \/ Earlier(good, y, x)
    BY <2>1, <2>2
  <2>5. \A x, y, z \in D : (Earlier(good, x, y) /\ Earlier(good, y, z)) => Earlier(good, x, z)
    BY <2>1, <2>2
  <2> QED
    BY <2>3, <2>4, <2>5
<1>4. \A x, y \in D : <<x, y>> \in R <=> \/ good[x].conviction > good[y].conviction
                                         \/ good[x].conviction = good[y].conviction /\ Earlier(good, x, y)
  BY DEF Stronger
<1>5. \A x, y \in D : <<x, y>> \in R <=> Stronger(good, x, y)
  OBVIOUS
<1> HIDE DEF R
<1>6. StrictOrder(D, R)
  <2>1. \A x \in D : <<x, x>> \notin R
    BY <1>3, <1>4, <1>e
  <2>2. ASSUME NEW x \in D, NEW y \in D PROVE x = y \/ <<x, y>> \in R \/ <<y, x>> \in R
    <3>1. good[x].conviction \in Int /\ good[y].conviction \in Int
      BY <1>3
    <3>2. x = y \/ Earlier(good, x, y) \/ Earlier(good, y, x)
      BY <1>e
    <3> QED
      BY <1>4, <3>1, <3>2
  <2>3. ASSUME NEW x \in D, NEW y \in D, NEW z \in D, <<x, y>> \in R, <<y, z>> \in R
        PROVE  <<x, z>> \in R
    <3>1. /\ good[x].conviction \in Int /\ good[y].conviction \in Int
          /\ good[z].conviction \in Int
      BY <1>3
    <3>2. Earlier(good, x, y) /\ Earlier(good, y, z) => Earlier(good, x, z)
      BY <1>e
    <3> QED
      BY <1>4, <2>3, <3>1, <3>2
  <2> QED
    BY <2>1, <2>2, <2>3 DEF StrictOrder
<1>7. Sorted(D, LAMBDA i, j : Stronger(good, i, j)) = rank
  <2>1. \A x \in D : {y \in D : Stronger(good, y, x)} = Below(D, R, x)
    BY <1>5 DEF Below
  <2>2. \A x \in D : 1 + Cardinality({y \in D : Stronger(good, y, x)}) = PlaceBy(D, R, x)
    BY <2>1 DEF PlaceBy
  <2>3. Sorted(D, LAMBDA i, j : Stronger(good, i, j)) =
          [i \in 1..Cardinality(D) |->
             CHOOSE x \in D : 1 + Cardinality({y \in D : Stronger(good, y, x)}) = i]
    BY DEF Sorted, PlaceIn
  <2>4. \A i : (CHOOSE x \in D : 1 + Cardinality({y \in D : Stronger(good, y, x)}) = i)
                 = CHOOSE x \in D : PlaceBy(D, R, x) = i
    BY <2>2
  <2> QED
    BY <2>3, <2>4 DEF SortedBy
<1>8. /\ rank \in Seq(D) /\ Len(rank) = c /\ DOMAIN rank = 1..c
      /\ \A x \in D : \E i \in DOMAIN rank : rank[i] = x
      /\ \A i, j \in DOMAIN rank : i < j => <<rank[i], rank[j]>> \in R
      /\ \A i, j \in DOMAIN rank : rank[i] = rank[j] => i = j
  BY <1>2, <1>6, SortedSequence
<1> HIDE DEF rank, c
<1>9. m \in Nat /\ m <= QuantTop /\ m <= c /\ (m < c => m = QuantTop)
  BY <1>2, QuantLimits
<1>10. TopOf(good) = top
  BY <1>7, <1>8 DEF FirstOf, TopOf, D
<1> HIDE DEF m
<1>11. \A i \in 1..m : i \in 1..c /\ rank[i] \in D
  BY <1>2, <1>8, <1>9
<1>12. /\ top \in Seq(D) /\ DOMAIN top = 1..m /\ Len(top) = m /\ \A i \in 1..m : top[i] = rank[i]
  <2>1. /\ top \in Seq(D) /\ Len(top) = (IF 1 <= m THEN m - 1 + 1 ELSE 0)
        /\ \A i \in 1..m - 1 + 1 : top[i] = rank[1 + i - 1]
    BY <1>9, <1>11, SubSeqProperties
  <2> HIDE DEF top
  <2>2. Len(top) = m
    BY <1>9, <2>1
  <2>3. \A i \in 1..m : top[i] = rank[i]
    <3> TAKE i \in 1..m
    <3>1. i \in 1..m - 1 + 1 /\ 1 + i - 1 = i
      BY <1>9
    <3> QED
      BY <2>1, <3>1
  <2> QED
    BY <2>1, <2>2, <2>3
<1> HIDE DEF top
<1>13. top \in [1..m -> D]
  BY <1>11, <1>12
<1>14. \A k, l \in 1..m : top[k] = top[l] => k = l
  BY <1>8, <1>11, <1>12
<1>15. ASSUME NEW g \in D, \A k \in 1..m : top[k] # g
       PROVE  m = QuantTop /\ \A k \in 1..m : good[g].conviction <= good[top[k]].conviction
  <2>1. PICK i \in 1..c : rank[i] = g
    BY <1>8
  <2>2. i \notin 1..m
    BY <1>12, <1>15, <2>1
  <2>3. m < c /\ m < i
    BY <1>2, <1>9, <2>1, <2>2
  <2>4. ASSUME NEW k \in 1..m PROVE good[g].conviction <= good[top[k]].conviction
    <3>1. k < i /\ k \in 1..c /\ top[k] = rank[k] /\ rank[k] \in D
      BY <1>9, <1>11, <1>12, <2>1, <2>3
    <3>2. <<rank[k], g>> \in R
      BY <1>8, <2>1, <3>1
    <3> QED
      BY <1>3, <1>4, <3>1, <3>2
  <2> QED
    BY <1>9, <2>3, <2>4
<1> QED
  BY <1>9, <1>10, <1>12, <1>13, <1>14, <1>15 DEF D

\* A plan of a baseline: its items, with their ids.
IsPlan(items, made, ids) == items = [k \in DOMAIN made |-> [made[k] EXCEPT !.id = ids[k]]]

LEMMA QuantSound ==
  ASSUME NEW S, NEW recs \in Seq(S), \A i \in DOMAIN recs : Placed(recs[i]),
         NEW track, NEW ids, NEW items, IsPlan(items, QuantItems(track, Eligible(recs)), ids)
  PROVE  PlanSound("quant_signal", items, recs)
<1> DEFINE good == Eligible(recs)
           top == TopOf(good)
           n == Len(top)
<1>1. items = [k \in DOMAIN top |-> [BuyOf(track, good[top[k]], QuantWeight) EXCEPT !.id = ids[k]]]
  BY DEF IsPlan, QuantItems, TopOf
<1> HIDE DEF good
<1>2. good \in Seq(S) /\ DOMAIN good = 1..Len(good)
  BY EligibleFacts DEF good
<1>3. PICK p \in [DOMAIN good -> DOMAIN recs] :
        /\ \A k \in DOMAIN good : good[k] = recs[p[k]] /\ Buyable(recs[p[k]])
        /\ \A k, l \in DOMAIN good : p[k] = p[l] => k = l
        /\ \A j \in DOMAIN recs : Buyable(recs[j]) => \E k \in DOMAIN good : p[k] = j
  BY EligibleFacts DEF good
<1>4. \A k \in DOMAIN good : p[k] \in DOMAIN recs /\ Placed(good[k])
  BY <1>3
<1>5. /\ n \in Nat /\ n <= QuantTop /\ DOMAIN top = 1..n
      /\ top \in [1..n -> DOMAIN good] /\ \A k, l \in 1..n : top[k] = top[l] => k = l
      /\ \A g \in DOMAIN good : (\A k \in 1..n : top[k] # g) =>
           n = QuantTop /\ \A k \in 1..n : good[g].conviction <= good[top[k]].conviction
  BY <1>2, <1>4, StrongestFirst
<1> DEFINE f == [k \in 1..n |-> p[top[k]]]
<1> HIDE DEF top, n
<1>6. items = [k \in 1..n |-> [BuyOf(track, good[top[k]], QuantWeight) EXCEPT !.id = ids[k]]]
  BY <1>1, <1>5
<1>7. ItemsFollow(items, recs, f) /\ \A k \in 1..n : items[k].pct = QuantWeight
  <2>1. Buys(good, recs, p)
    BY <1>3 DEF Buys
  <2>2. Picks(top, n, good)
    BY <1>5 DEF Picks
  <2>3. DOMAIN items = 1..n
    BY <1>6
  <2>4. \A k \in 1..n : /\ items[k].from = {good[top[k]].id} /\ items[k].symbol = good[top[k]].symbol
                        /\ items[k].pct = QuantWeight
    BY <1>6 DEF BuyOf, MarketBuy
  <2>5. ItemsFollow(items, recs, Through(p, top, n))
    BY <2>1, <2>2, <2>3, <2>4, BuysFollow
  <2> QED
    BY <2>4, <2>5 DEF f, Through
<1>8. DOMAIN items = 1..n /\ Len(items) = n
  BY <1>5, <1>6
<1>9. ASSUME NEW j \in DOMAIN recs \ Range(f), Buyable(recs[j])
      PROVE  n = QuantTop /\ \A k \in 1..n : recs[j].conviction <= recs[f[k]].conviction
  <2>1. PICK g \in DOMAIN good : p[g] = j
    BY <1>3, <1>9
  <2>2. \A k \in 1..n : top[k] # g
    <3> SUFFICES ASSUME NEW k \in 1..n, top[k] = g PROVE FALSE
      OBVIOUS
    <3>1. k \in DOMAIN f /\ f[k] = j
      BY <2>1
    <3> QED
      BY <1>9, <3>1 DEF Range
  <2>3. good[g] = recs[j] /\ \A k \in 1..n : good[top[k]] = recs[f[k]]
    BY <1>3, <1>5, <2>1
  <2> QED
    BY <1>5, <2>2, <2>3
<1>10. LeavesOut(items, recs, f, TRUE)
  BY <1>8, <1>9 DEF LeavesOut
<1>11. Weight(items) = n * QuantWeight
  <2>1. n \in Nat /\ QuantWeight \in Nat
    BY <1>5, QuantLimits
  <2>2. \A k \in 1..n : items[k].pct = QuantWeight
    BY <1>7
  <2> QED
    BY <1>8, <2>1, <2>2, WeightsSum
<1>12. n * QuantWeight <= One
  <2>1. /\ QuantTop \in Nat /\ QuantWeight \in Nat /\ QuantTop * QuantWeight <= One /\ One \in Nat
    BY QuantLimits
  <2>2. PICK d \in Nat : QuantTop = n + d
    <3>1. QuantTop - n \in Nat /\ QuantTop = n + (QuantTop - n)
      BY <1>5, <2>1
    <3> QED
      BY <3>1
  <2>3. QuantTop * QuantWeight = n * QuantWeight + d * QuantWeight
    BY <1>5, <2>1, <2>2, SMTT(30)
  <2>4. n * QuantWeight \in Nat /\ d * QuantWeight \in Nat
    BY <1>5, <2>1
  <2> QED
    BY <2>1, <2>3, <2>4
<1> HIDE DEF f
<1> QED
  BY <1>7, <1>10, <1>11, <1>12 DEF PlanSound

\* Every pick of a shuffle is another candidate, and none is left if there are
\* fewer than the picks.
LEMMA RandomSound ==
  ASSUME NEW S, NEW recs \in Seq(S), NEW track, NEW ids, NEW items,
         NEW made \in RandomItemSets(track, Eligible(recs)), IsPlan(items, made, ids)
  PROVE  PlanSound("random_baseline", items, recs)
<1> DEFINE good == Eligible(recs)
           n == IF Len(good) < RandomPicks THEN Len(good) ELSE RandomPicks
           w == RandomShare(n)
<1>1. PICK s \in [1..n -> DOMAIN good] :
        /\ \A i, j \in 1..n : i # j => s[i] # s[j]
        /\ made = [i \in 1..n |-> BuyOf(track, good[s[i]], w)]
  BY DEF RandomItemSets
<1> HIDE DEF good
<1>2. good \in Seq(S) /\ DOMAIN good = 1..Len(good) /\ Len(good) \in Nat
  BY EligibleFacts DEF good
<1>3. PICK p \in [DOMAIN good -> DOMAIN recs] :
        /\ \A k \in DOMAIN good : good[k] = recs[p[k]] /\ Buyable(recs[p[k]])
        /\ \A k, l \in DOMAIN good : p[k] = p[l] => k = l
        /\ \A j \in DOMAIN recs : Buyable(recs[j]) => \E k \in DOMAIN good : p[k] = j
  BY EligibleFacts DEF good
<1>4. n \in Nat /\ n <= RandomPicks /\ n <= Len(good) /\ (n # RandomPicks => n = Len(good))
  BY <1>2, BaselineAssumption
<1> DEFINE f == [k \in 1..n |-> p[s[k]]]
<1> HIDE DEF n, w
<1>5. items = [k \in 1..n |-> [BuyOf(track, good[s[k]], w) EXCEPT !.id = ids[k]]]
  BY <1>1 DEF IsPlan
<1>6. \A k, l \in 1..n : s[k] = s[l] => k = l
  BY <1>1
<1>7. ItemsFollow(items, recs, f) /\ \A k \in 1..n : items[k].pct = w
  <2>1. Buys(good, recs, p)
    BY <1>3 DEF Buys
  <2>2. Picks(s, n, good)
    BY <1>4, <1>6 DEF Picks
  <2>3. DOMAIN items = 1..n
    BY <1>5
  <2>4. \A k \in 1..n : /\ items[k].from = {good[s[k]].id} /\ items[k].symbol = good[s[k]].symbol
                        /\ items[k].pct = w
    BY <1>5 DEF BuyOf, MarketBuy
  <2>5. ItemsFollow(items, recs, Through(p, s, n))
    BY <2>1, <2>2, <2>3, <2>4, BuysFollow
  <2> QED
    BY <2>4, <2>5 DEF f, Through
<1>8. DOMAIN items = 1..n /\ Len(items) = n
  BY <1>4, <1>5
<1>9. n = Len(good) => \A g \in DOMAIN good : \E k \in 1..n : s[k] = g
  <2> SUFFICES ASSUME n = Len(good) PROVE \A g \in DOMAIN good : \E k \in 1..n : s[k] = g
    OBVIOUS
  <2>1. DOMAIN good = 1..n /\ IsFiniteSet(1..n)
    BY <1>2, <1>4, FS_Interval
  <2>2. s \in Injection(1..n, 1..n)
    BY <1>6, <2>1 DEF Injection, IsInjective
  <2>3. s \in Surjection(1..n, 1..n)
    BY <2>1, <2>2, FS_Injection
  <2> QED
    BY <2>1, <2>3 DEF Surjection
<1>10. ASSUME NEW j \in DOMAIN recs \ Range(f), Buyable(recs[j]) PROVE n = RandomPicks
  <2>1. PICK g \in DOMAIN good : p[g] = j
    BY <1>3, <1>10
  <2>2. ASSUME NEW k \in 1..n PROVE s[k] # g
    <3> SUFFICES ASSUME s[k] = g PROVE FALSE
      OBVIOUS
    <3>1. k \in DOMAIN f /\ f[k] = j
      BY <2>1
    <3> QED
      BY <1>10, <3>1 DEF Range
  <2> QED
    BY <1>4, <1>9, <2>2
<1>11. LeavesOut(items, recs, f, FALSE)
  BY <1>8, <1>10 DEF LeavesOut
<1>12. Weight(items) <= One
  <2>1. CASE n = 0
    <3>1. \A k \in 1..n : items[k].pct = 0
      BY <2>1
    <3>2. Weight(items) = n * 0
      BY <1>4, <1>8, <3>1, WeightsSum
    <3> QED
      BY <2>1, <3>2 DEF One
  <2>2. CASE n # 0
    <3>1. n \in 1..RandomPicks
      BY <1>4, <2>2, BaselineAssumption
    <3>2. n * w <= One
      BY <3>1, BaselineAssumption DEF w
    <3>3. w \in Nat
      <4> DEFINE q == One \div n
      <4>1. q \in Nat
        BY <1>4, <2>2, SMTT(30) DEF One
      <4>2. w = q \/ w = q + 1
        BY DEF w, RandomShare
      <4> HIDE DEF q
      <4> QED
        BY <4>1, <4>2
    <3>4. Weight(items) = n * w
      BY <1>4, <1>7, <1>8, <3>3, WeightsSum
    <3> QED
      BY <3>2, <3>4
  <2> QED
    BY <2>1, <2>2
<1> HIDE DEF f
<1> QED
  BY <1>7, <1>11, <1>12 DEF PlanSound

\* The benchmark is one item, the whole equity.
LEMMA BenchmarkSound ==
  ASSUME NEW track, NEW ids, NEW items, NEW recs, IsPlan(items, BenchmarkItems(track), ids)
  PROVE  PlanSound("benchmark", items, recs)
<1>1. items = [k \in 1..1 |-> [MarketBuy(track, Benchmark, "etf", One, {}) EXCEPT !.id = ids[k]]]
  BY DEF IsPlan, BenchmarkItems
<1>2. DOMAIN items = 1..1 /\ Len(items) = 1 /\ \A k \in 1..1 : items[k].pct = One
  BY <1>1 DEF MarketBuy
<1>3. One \in Nat /\ 1 \in Nat /\ 1 * One = One
  BY DEF One
<1>4. Weight(items) = 1 * One
  BY <1>2, <1>3, WeightsSum
<1> QED
  BY <1>2, <1>3, <1>4 DEF PlanSound

\* A plan of run_local, of the recommendations its judge was given.
LEMMA LocalPlans ==
  ASSUME OutputsOK, NEW p \in Pairs, ~ IsLLM(p),
         seen[p]["judge"].council = Recommendations(p), NEW plan \in Baseline(p)
  PROVE  PlanSound(TrackOf(p), plan.items, Recommendations(p))
<1> DEFINE recs == Recommendations(p)
           good == Eligible(recs)
           track == TrackOf(p)
<1>1. track \in BaselineTracks
  BY TrackRunAssumption DEF IsLLM
<1>2. recs \in Seq(Range(recs)) /\ \A i \in DOMAIN recs : Placed(recs[i])
  <2>1. PICK n \in Nat : DOMAIN recs = 1..n
    BY RecommendationFacts
  <2>2. recs \in Seq(Range(recs))
    <3>1. recs = [i \in DOMAIN recs |-> recs[i]]
      BY DEF Recommendations
    <3> HIDE DEF recs
    <3>2. \A i \in 1..n : recs[i] \in Range(recs)
      BY <2>1 DEF Range
    <3> QED
      BY <2>1, <3>1, <3>2
  <2>3. ASSUME NEW i \in DOMAIN recs PROVE Placed(recs[i])
    <3>1. PICK a \in CouncilIds : \E answer \in AnyAnswer(a) :
                                    recs[i] = Recommendation(p, a, answer)
      BY <2>3, RecommendationFacts
    <3>2. PICK answer \in AnyAnswer(a) : recs[i] = Recommendation(p, a, answer)
      BY <3>1
    <3>3. /\ recs[i].conviction = answer.conviction
          /\ recs[i].symbol = Own(answer.symbol, SymbolOf(p))
      BY <3>2, AnswerFields
    <3>4. /\ answer.conviction \in Int /\ answer.symbol \in DOMAIN SymbolRank \cup {None}
          /\ SymbolOf(p) \in DOMAIN SymbolRank
      BY AnswersAssumption DEF CouncilIds
    <3> QED
      BY <3>3, <3>4 DEF Own, Placed
  <2> QED
    BY <2>2, <2>3
<1>3. PICK d \in BaselinePlans(track, track, "judge", recs) :
        plan = [d EXCEPT !.id = <<p, "judge">>,
                  !.items = [i \in DOMAIN d.items |-> [d.items[i] EXCEPT !.id = <<p, "judge", i>>]]]
  BY DEF Baseline
<1> HIDE DEF recs
<1>4. PICK made \in ItemSets(track, track, good) :
        d = [id |-> None, track |-> track, judge |-> "judge", items |-> made,
             posture |-> IF made = <<>> THEN "cash" ELSE "net_long"]
  BY DEF BaselinePlans
<1> DEFINE ids == [i \in DOMAIN made |-> <<p, "judge", i>>]
<1>5. IsPlan(plan.items, made, ids)
  <2>1. d.items = made
    BY <1>4
  <2>2. plan.items = [i \in DOMAIN d.items |-> [d.items[i] EXCEPT !.id = <<p, "judge", i>>]]
    BY <1>3, <1>4
  <2> QED
    BY <2>1, <2>2 DEF IsPlan
<1> HIDE DEF ids, good
<1>6. CASE track = "quant_signal"
  <2>1. made = QuantItems(track, Eligible(recs))
    BY <1>4, <1>6 DEF ItemSets, good
  <2> QED
    BY <1>2, <1>5, <1>6, <2>1, QuantSound DEF recs
<1>7. CASE track = "random_baseline"
  <2>1. made \in RandomItemSets(track, Eligible(recs))
    BY <1>4, <1>7 DEF ItemSets, good
  <2> QED
    BY <1>2, <1>5, <1>7, <2>1, RandomSound DEF recs
<1>8. CASE track = "benchmark"
  <2>1. made = BenchmarkItems(track)
    BY <1>4, <1>8 DEF ItemSets
  <2> QED
    BY <1>5, <1>8, <2>1, BenchmarkSound DEF recs
<1> QED
  BY <1>1, <1>6, <1>7, <1>8 DEF BaselineTracks

\* A deterministic judge knows all its council came to, and its plan follows it.
JudgeOf(p) ==
  ~ IsLLM(p) =>
    /\ runs[p]["judge"].status \in {"running", "ok"} => SeenOf(p, "judge")
    /\ runs[p]["judge"].status = "ok" =>
         PlanSound(TrackOf(p), runs[p]["judge"].output.items, Recommendations(p))
JudgeOK == \A p \in Pairs : JudgeOf(p)

\* What a step is for the judge of a baseline's pair.
LEMMA JudgeMoves ==
  ASSUME ShapeOK, ClientOK, StageOK, [Next]_vars, NEW p \in Pairs, ~ IsLLM(p)
  PROVE  \/ runs'[p]["judge"] = runs[p]["judge"] /\ seen'[p]["judge"] = seen[p]["judge"]
         \/ \E t, council, skeptic, risk :
              Starts(p, t, council, skeptic, risk) /\ "judge" \in Members(p, t)
         \/ \E e : Return(p, "judge", e) /\ (e.status = "ok" => e.output \in Baseline(p))
<1>0. "judge" \in AgentIds
  BY DEF AgentIds
<1>1. ASSUME NEW q \in Pairs, NEW t, NEW council, NEW skeptic, NEW risk,
             Starts(q, t, council, skeptic, risk), ~(q = p /\ "judge" \in Members(p, t))
      PROVE  runs'[p]["judge"] = runs[p]["judge"] /\ seen'[p]["judge"] = seen[p]["judge"]
  <2>1. Launch(q, t, council, skeptic, risk)
    BY <1>1 DEF Starts
  <2>2. SetsOut(q, t) /\ Shows(q, t, council, skeptic, risk)
    BY <2>1, LaunchEffect
  <2> QED
    BY <1>0, <1>1, <2>2 DEF SetsOut, Shows
<1>2. ASSUME NEW q \in Pairs, NEW a \in AgentIds, NEW e, Return(q, a, e), ~(q = p /\ a = "judge")
      PROVE  runs'[p]["judge"] = runs[p]["judge"] /\ seen'[p]["judge"] = seen[p]["judge"]
  BY <1>0, <1>2, ReturnEffect
<1>3. ASSUME Thread(p, "judge")
      PROVE  \E e : Return(p, "judge", e) /\ (e.status = "ok" => e.output \in Baseline(p))
  <2>1. DecideLocally(p, "judge")
    BY <1>3 DEF Thread, Answer, AnswerBadly, NoClient, CallFails, Raise, RequiresLLM
  <2>2. PICK plan \in Baseline(p) : Return(p, "judge", Checked("judge", plan))
    BY <2>1 DEF DecideLocally
  <2>3. Checked("judge", plan).status = "ok" => Checked("judge", plan).output = plan
    BY Envelopes DEF Checked
  <2> QED
    BY <2>2, <2>3
<1>4. ASSUME NEW q \in Pairs, AfterJudge(q) \/ Abort(q) \/ StartFails(q) PROVE UNCHANGED <<runs, seen>>
  BY <1>4 DEF AfterJudge, Abort, StartFails
<1>5. CASE \E q \in Pairs : Step(q)
  BY <1>1, <1>4, <1>5, StepKinds
<1>6. CASE \E q \in Pairs, a \in AgentIds : Thread(q, a)
  <2>1. PICK q \in Pairs, a \in AgentIds : Thread(q, a)
    BY <1>6
  <2>2. CASE q = p /\ a = "judge"
    BY <1>3, <2>1, <2>2
  <2>3. CASE ~(q = p /\ a = "judge")
    <3>1. \E e : Return(q, a, e)
      BY <2>1, ThreadKinds
    <3> QED
      BY <1>2, <2>3, <3>1
  <2> QED
    BY <2>2, <2>3
<1>7. CASE Persist \/ UNCHANGED vars
  BY <1>7 DEF Persist, vars
<1> QED
  BY <1>5, <1>6, <1>7 DEF Next

LEMMA JudgeStep ==
  ASSUME IInv, JudgeOK, [Next]_vars, NEW p \in Pairs
  PROVE  JudgeOf(p)'
<1> DEFINE now == runs[p]["judge"]
           new == runs'[p]["judge"]
           Good(output) == PlanSound(TrackOf(p), output.items, Recommendations(p))
<1> SUFFICES ASSUME ~ IsLLM(p)
             PROVE  /\ new.status \in {"running", "ok"} => SeenOf(p, "judge")'
                    /\ new.status = "ok" =>
                         PlanSound(TrackOf(p), new.output.items, Recommendations(p)')
  BY DEF JudgeOf, TrackOf, IsLLM
<1>1. /\ now.status \in {"running", "ok"} => SeenOf(p, "judge")
      /\ now.status = "ok" => Good(now.output)
  BY DEF JudgeOK, JudgeOf
<1>2. ShapeOK /\ ClientOK /\ StageOK /\ OutputsOK /\ "judge" \in AgentIds
  BY DEF IInv, AgentIds
<1>3. ASSUME SeenOf(p, "judge")
      PROVE  /\ Recommendations(p)' = Recommendations(p)
             /\ seen'[p]["judge"] = seen[p]["judge"] => SeenOf(p, "judge")'
  <2>1. \A c \in CouncilOf(p) : c \in AgentIds /\ runs[p][c].status \in Settled
    BY <1>3, AgentFacts DEF SeenOf
  <2>2. \A c \in CouncilOf(p) : runs'[p][c] = runs[p][c]
    BY <1>2, <2>1, SettledStay
  <2> QED
    BY <1>2, <1>3, <2>2, CouncilStands, SeenStands
<1>4. CASE new = now /\ seen'[p]["judge"] = seen[p]["judge"]
  BY <1>1, <1>3, <1>4
<1>5. ASSUME NEW t, NEW council, NEW skeptic, NEW risk,
             Starts(p, t, council, skeptic, risk), "judge" \in Members(p, t)
      PROVE  SeenOf(p, "judge")' /\ new.status = "running"
  <2>1. Launch(p, t, council, skeptic, risk)
    BY <1>5 DEF Starts
  <2>2. new = Running
    BY <1>2, <1>5, <2>1, LaunchEffect DEF SetsOut
  <2> QED
    BY <1>2, <1>5, <2>2, StartsSeen, Envelopes
<1>6. ASSUME NEW e, Return(p, "judge", e), e.status = "ok" => e.output \in Baseline(p)
      PROVE  /\ SeenOf(p, "judge")'
             /\ new.status = "ok" =>
                  PlanSound(TrackOf(p), new.output.items, Recommendations(p)')
  <2>1. now.status = "running" /\ new = e /\ seen' = seen
    BY <1>2, <1>6, ReturnEffect
  <2>2. SeenOf(p, "judge")
    BY <1>1, <2>1
  <2>3. seen[p]["judge"].council = Recommendations(p)
    BY <2>2 DEF SeenOf
  <2>4. new.status = "ok" => Good(new.output)
    BY <1>2, <1>6, <2>1, <2>3, LocalPlans
  <2> QED
    BY <1>3, <2>1, <2>2, <2>4
<1> HIDE DEF now, new
<1>7. \/ new = now /\ seen'[p]["judge"] = seen[p]["judge"]
      \/ \E t, council, skeptic, risk :
           Starts(p, t, council, skeptic, risk) /\ "judge" \in Members(p, t)
      \/ \E e : Return(p, "judge", e) /\ (e.status = "ok" => e.output \in Baseline(p))
  BY <1>2, JudgeMoves DEF now, new
<1> QED
  BY <1>4, <1>5, <1>6, <1>7

(***************************************************************************)
(* The deterministic judges do what is said of them: BaselineSound, of     *)
(* run_local of agents/baselines.py, for every council, every list of      *)
(* recommendations with repeated ids among them, every order of the        *)
(* threads, and every number and weight of picks that fits in the equity.  *)
(***************************************************************************)
THEOREM BaselinesAreSound == Spec => []BaselineSound
<1>1. Init => JudgeOK
  <2> SUFFICES ASSUME Init, NEW p \in Pairs PROVE JudgeOf(p)
    BY DEF JudgeOK
  <2>1. runs[p]["judge"].status = "none"
    BY Envelopes DEF Init, AgentIds
  <2> QED
    BY <2>1 DEF JudgeOf
<1>2. IInv /\ JudgeOK /\ [Next]_vars => JudgeOK'
  <2> SUFFICES ASSUME IInv, JudgeOK, [Next]_vars, NEW p \in Pairs PROVE JudgeOf(p)'
    BY DEF JudgeOK
  <2> QED
    BY JudgeStep
<1>3. JudgeOK => BaselineSound
  <2> SUFFICES ASSUME JudgeOK, NEW p \in Pairs, ~ IsLLM(p), runs[p]["judge"].status = "ok"
               PROVE  LET items == runs[p]["judge"].output.items
                          recs  == Recommendations(p)
                          Buy(i) == recs[i].action = "buy" /\ recs[i].instrument \in Tradable
                          quant == TrackOf(p) = "quant_signal"
                      IN
                      /\ FoldLeft(LAMBDA sum, item : sum + item.pct, 0, items) <= One
                      /\ IF TrackOf(p) = "benchmark" THEN Len(items) = 1 /\ items[1].pct = One
                         ELSE \E f \in [DOMAIN items -> DOMAIN recs] :
                                /\ \A k, l \in DOMAIN items : f[k] = f[l] => k = l
                                /\ \A k \in DOMAIN items :
                                     /\ Buy(f[k]) /\ items[k].from = {recs[f[k]].id}
                                     /\ items[k].symbol = recs[f[k]].symbol
                                /\ \A j \in DOMAIN recs \ Range(f) : Buy(j) =>
                                     /\ Len(items) = IF quant THEN QuantTop ELSE RandomPicks
                                     /\ quant => \A k \in DOMAIN items :
                                                   recs[j].conviction <= recs[f[k]].conviction
    BY DEF BaselineSound
  <2> DEFINE items == runs[p]["judge"].output.items
             recs == Recommendations(p)
  <2>1. PlanSound(TrackOf(p), items, recs)
    BY DEF JudgeOK, JudgeOf
  <2> HIDE DEF items, recs
  <2>2. FoldLeft(LAMBDA sum, item : sum + item.pct, 0, items) <= One
    BY <2>1 DEF PlanSound, Weight
  <2>3. CASE TrackOf(p) = "benchmark"
    <3>1. Len(items) = 1 /\ items[1].pct = One
      BY <2>1, <2>3 DEF PlanSound
    <3> QED
      BY <2>2, <2>3, <3>1 DEF items, recs
  <2>4. CASE TrackOf(p) # "benchmark"
    <3>1. PICK f : ItemsFollow(items, recs, f) /\ LeavesOut(items, recs, f, TrackOf(p) = "quant_signal")
      BY <2>1, <2>4 DEF PlanSound
    <3>2. f \in [DOMAIN items -> DOMAIN recs]
      BY <3>1 DEF ItemsFollow
    <3> QED
      BY <2>2, <2>4, <3>1, <3>2 DEF ItemsFollow, LeavesOut, Buyable, items, recs
  <2> QED
    BY <2>3, <2>4
<1> QED
  BY <1>1, <1>2, <1>3, Invariance, PTL DEF Spec

=============================================================================
