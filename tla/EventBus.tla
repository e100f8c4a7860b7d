------------------------------ MODULE EventBus ------------------------------
(***************************************************************************)
(* The dashboard's fan-out bus (dashboard/events.py) and the websocket     *)
(* handler that reads it (dashboard/app.py).  Every subscriber has a       *)
(* bounded queue; publish drops the oldest event of a full queue rather    *)
(* than wait.  All of it runs on one event loop, and no coroutine is       *)
(* suspended while it holds the bus's lock: publish, close and the start   *)
(* of a subscription are steps, a subscriber is interleaved at its two     *)
(* awaits, queue.get() and the send to its client.                         *)
(***************************************************************************)
EXTENDS Integers, Sequences, FiniteSets

CONSTANTS
  Subscribers,  \* websocket connections, each subscribing once
  QueueSize,    \* capacity of a subscriber's queue
  MaxEvents     \* bound: events published

ASSUME BusAssumption == QueueSize \in Nat \ {0} /\ MaxEvents \in Nat

VARIABLES
  published,   \* kinds of the events published, in order
  closed,      \* EventBus._closed
  registered,  \* subscribers whose queue is in EventBus._subscribers
  queue,       \* subscriber -> numbers of the events in its queue
  stage,       \* subscriber -> where its loop is
  holds,       \* subscriber -> the event it is sending, or 0
  received,    \* subscriber -> events its client got
  since        \* subscriber -> events published before it subscribed

vars == <<published, closed, registered, queue, stage, holds, received, since>>

\* window_completed may end a subscription, the other kinds do not.
Kinds == {"window_completed", "other"}
Stages == {"off", "waiting", "sending", "sending_last", "left", "ended"}

Init == /\ published = <<>> /\ closed = FALSE /\ registered = {}
        /\ queue = [s \in Subscribers |-> <<>>]
        /\ stage = [s \in Subscribers |-> "off"]
        /\ holds = [s \in Subscribers |-> 0]
        /\ received = [s \in Subscribers |-> <<>>]
        /\ since = [s \in Subscribers |-> 0]

\* Mutants: last in, first out; the newest event is dropped.
Enqueue_LastFirst(q, event) == <<event>> \o (IF Len(q) = QueueSize THEN Tail(q) ELSE q)
Enqueue_DropsNewest(q, event) == IF Len(q) = QueueSize THEN q ELSE Append(q, event)

\* put_nowait, after making room.
Enqueue(q, event) == Append(IF Len(q) = QueueSize THEN Tail(q) ELSE q, event)

Publish(kind) ==
  /\ ~closed /\ Len(published) < MaxEvents
  /\ published' = Append(published, kind)
  /\ queue' = [s \in Subscribers |->
                 IF s \in registered THEN Enqueue(queue[s], Len(published) + 1)
                 ELSE queue[s]]
  /\ UNCHANGED <<closed, registered, stage, holds, received, since>>

\* A bus that is closed still takes subscribers.
Subscribe(s) ==
  /\ stage[s] = "off"
  /\ stage' = [stage EXCEPT ![s] = "waiting"]
  /\ registered' = registered \cup {s}
  /\ since' = [since EXCEPT ![s] = Len(published)]
  /\ UNCHANGED <<published, closed, queue, holds, received>>

\* Mutant: the queues are emptied as well.
Close_EmptiesQueues ==
  /\ closed' = TRUE
  /\ registered' = {}
  /\ queue' = [s \in Subscribers |-> <<>>]
  /\ UNCHANGED <<published, stage, holds, received, since>>

Close ==
  /\ closed' = TRUE
  /\ registered' = {}
  /\ UNCHANGED <<published, queue, stage, holds, received, since>>

\* queue.get() returns; whether this event is the last is decided here.
Get(s) ==
  /\ stage[s] = "waiting" /\ queue[s] # <<>>
  /\ holds' = [holds EXCEPT ![s] = Head(queue[s])]
  /\ queue' = [queue EXCEPT ![s] = Tail(@)]
  /\ stage' = [stage EXCEPT ![s] =
                 IF published[Head(queue[s])] = "window_completed" /\ closed
                 THEN "sending_last" ELSE "sending"]
  /\ UNCHANGED <<published, closed, registered, received, since>>

\* send_text returns; after the last event the generator is done.
Sent(s) ==
  /\ stage[s] \in {"sending", "sending_last"}
  /\ received' = [received EXCEPT ![s] = Append(@, holds[s])]
  /\ holds' = [holds EXCEPT ![s] = 0]
  /\ IF stage[s] = "sending_last"
     THEN /\ stage' = [stage EXCEPT ![s] = "ended"]
          /\ registered' = registered \ {s}
     ELSE /\ stage' = [stage EXCEPT ![s] = "waiting"]
          /\ UNCHANGED registered
  /\ UNCHANGED <<published, closed, queue, since>>

\* ... or raises, because the client has gone; the generator is only
\* finalized, and its queue given up, some time later.
ClientGone(s) ==
  /\ stage[s] \in {"sending", "sending_last"}
  /\ stage' = [stage EXCEPT ![s] = "left"]
  /\ holds' = [holds EXCEPT ![s] = 0]
  /\ UNCHANGED <<published, closed, registered, queue, received, since>>

Finalized(s) ==
  /\ stage[s] = "left" /\ s \in registered
  /\ registered' = registered \ {s}
  /\ UNCHANGED <<published, closed, queue, stage, holds, received, since>>

Next == \/ \E kind \in Kinds : Publish(kind)
        \/ Close
        \/ \E s \in Subscribers : Subscribe(s) \/ Get(s) \/ Sent(s)
                                    \/ ClientGone(s) \/ Finalized(s)

Spec == Init /\ [][Next]_vars

\* The event loop gets to every coroutine that can run, and sends end.
FairSpec == Spec /\ \A s \in Subscribers :
                      WF_vars(Get(s)) /\ WF_vars(Sent(s)) /\ WF_vars(Finalized(s))

-----------------------------------------------------------------------------
Numbers == 1..MaxEvents
Items(seq) == {seq[i] : i \in DOMAIN seq}
Open(s) == stage[s] \in {"waiting", "sending", "sending_last"}

TypeOK ==
  /\ published \in Seq(Kinds) /\ Len(published) <= MaxEvents
  /\ closed \in BOOLEAN /\ registered \subseteq Subscribers
  /\ stage \in [Subscribers -> Stages]
  /\ since \in [Subscribers -> 0..MaxEvents]
  /\ holds \in [Subscribers -> 0..MaxEvents]
  /\ queue \in [Subscribers -> Seq(Numbers)] /\ received \in [Subscribers -> Seq(Numbers)]
  /\ \A s \in Subscribers : Len(queue[s]) <= QueueSize

(***************************************************************************)
(* What a subscriber got, is sending and still has queued is, in that      *)
(* order, a strictly increasing sequence of events published after it      *)
(* subscribed: nothing twice, nothing out of order, nothing from before.   *)
(***************************************************************************)
InOrder ==
  \A s \in Subscribers :
    LET line == received[s] \o (IF holds[s] = 0 THEN <<>> ELSE <<holds[s]>>) \o queue[s] IN
    /\ \A i \in DOMAIN line : line[i] > since[s] /\ line[i] <= Len(published)
    /\ \A i \in 1..Len(line) - 1 : line[i] < line[i + 1]

(***************************************************************************)
(* A slow client only loses old events: of the QueueSize newest since it   *)
(* subscribed it has every one, delivered or still to come, even after the *)
(* bus is closed.                                                          *)
(***************************************************************************)
NewestKept ==
  \A s \in Subscribers : Open(s) =>
    \A n \in since[s] + 1..Len(published) :
      n > Len(published) - QueueSize =>
        n \in Items(received[s]) \cup {holds[s]} \cup Items(queue[s])

(***************************************************************************)
(* What is queued reaches a client that stays, unless QueueSize newer      *)
(* events push it out or a window_completed before it ends the stream of a *)
(* closed bus: closing does not cut off what is queued.                    *)
(***************************************************************************)
PushedOut(n) == n <= Len(published) - QueueSize
EndedBefore(s, n) == \E m \in Items(received[s]) \cup {holds[s]} :
                       m # 0 /\ m < n /\ closed /\ published[m] = "window_completed"
QueuedIsDelivered ==
  \A s \in Subscribers, n \in Numbers :
    n \in Items(queue[s]) ~>
      n \in Items(received[s]) \/ PushedOut(n) \/ EndedBefore(s, n) \/ ~Open(s)

=============================================================================
