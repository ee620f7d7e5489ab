--------------------------- MODULE EventPublisher ---------------------------
(***************************************************************************)
(* The producing side of the event pipeline, in one process: a tracing     *)
(* layer (event-publisher/src/event_layer.rs) that puts every event in a   *)
(* bounded channel, a task (publisher.rs) that takes events off it, and    *)
(* NatsMessageBus::publish (apis/events/src/mbus_nats.rs) that sends an    *)
(* event to JetStream, again and again until it is acknowledged or the     *)
(* retries are spent.                                                      *)
(*                                                                         *)
(* Between the task and the server is the async_nats client: one           *)
(* connection that delivers requests in order, that may lose what it has   *)
(* written, and that answers a request late or never.  A request outlives  *)
(* the attempt that sent it: an attempt that has timed out may still be    *)
(* stored.                                                                 *)
(***************************************************************************)
EXTENDS JetStream, Sequences, Functions

CONSTANTS
  Capacity,      (* MAX_BUFFER_MSGS, the size of the channel                *)
  MaxRetries,    (* BackoffOptions::max_retries                             *)
  Unpublishable, (* the events whose message has no metadata: what the
                    visitor makes of a trace it cannot deserialise          *)
  Straggling,    (* the server is a cluster in which a request written
                    before a reconnection can overtake later ones           *)
  MaxLosses      (* bound on the restarts of the server                     *)

ASSUME PublisherAssumption ==
  /\ Capacity \in Nat \ {0}
  /\ MaxRetries \in Nat
  /\ Unpublishable \subseteq Events
  /\ Straggling \in BOOLEAN
  /\ MaxLosses \in Nat

VARIABLES
  generated,  (* how many times on_event has been called                     *)
  open,       (* the EventLayer, which owns the sender, has not been dropped *)
  buffer,     (* the channel                                                 *)
  dropped,    (* events try_send refused                                     *)
  pc,         (* where the publisher task is                                 *)
  cur,        (* the event it is publishing                                  *)
  tries,      (* `tries' of publish                                          *)
  ctries,     (* `tries' of get_or_create_stream                             *)
  acked,      (* events publish returned Ok for                              *)
  failed,     (* events publish returned Err for                             *)
  lost,       (* events that were in memory when the task was cancelled      *)
  link,       (* publish requests on their way to the server                 *)
  strays,     (* requests left behind on a connection that is gone           *)
  reply,      (* the answer to the attempt being awaited                     *)
  stored,     (* history: the attempts the stream has ever stored            *)
  losses      (* history: how often the server has restarted                 *)

layerVars == <<generated, open, dropped>>
taskVars  == <<pc, cur, tries, ctries>>
outcomes  == <<acked, failed, lost>>
netVars   == <<link, strays, reply>>
vars == <<layerVars, buffer, taskVars, outcomes, netVars, busVars, stored,
          losses>>

NoEvent == 0
Attempt == [ev : Events, try : 0..MaxRetries]
Locations == {"connect", "create", "createBackoff", "recv", "send", "await",
              "backoff", "done", "aborted"}
Answers == {"none", "ok", "noStream", "error"}

Running == pc \notin {"done", "aborted"}

Init ==
  /\ BusInit
  /\ generated = 0 /\ open = TRUE /\ buffer = <<>> /\ dropped = {}
  /\ pc = "connect" /\ cur = NoEvent /\ tries = 0 /\ ctries = 0
  /\ acked = {} /\ failed = {} /\ lost = {}
  /\ link = <<>> /\ strays = {} /\ reply = "none"
  /\ stored = {} /\ losses = 0
-----------------------------------------------------------------------------
(* EventLayer::on_event: the next event goes into the channel if there is  *)
(* room and somebody to receive it; otherwise it is dropped.  on_event     *)
(* never waits.                                                            *)
CanAcceptOneMore == Running /\ Len(buffer) <= Capacity    \* mutated form
CanAccept == Running /\ Len(buffer) < Capacity

OnEvent ==
  /\ open
  /\ generated < MaxEvents
  /\ generated' = generated + 1
  /\ \/ /\ CanAccept
        /\ buffer' = Append(buffer, generated + 1)
        /\ UNCHANGED dropped
     \/ /\ ~CanAccept
        /\ dropped' = dropped \cup {generated + 1}
        /\ UNCHANGED buffer
  /\ UNCHANGED <<open, taskVars, outcomes, netVars, busVars, stored, losses>>

(* The process replaces its subscriber: the layer and its sender are gone. *)
DropLayer ==
  /\ open /\ open' = FALSE
  /\ UNCHANGED <<generated, dropped, buffer, taskVars, outcomes, netVars,
                 busVars, stored, losses>>
-----------------------------------------------------------------------------
(* NatsMessageBus::connect tries until it succeeds; message_bus_init then  *)
(* calls get_or_create_stream.                                             *)
Connect ==
  /\ pc = "connect"
  /\ pc' = "create" /\ ctries' = 0
  /\ UNCHANGED <<layerVars, buffer, cur, tries, outcomes, netVars, busVars,
                 stored, losses>>

(* publish returns: the loop of publish_events asks for the next event.    *)
Return == pc' = "recv" /\ cur' = NoEvent /\ tries' = 0

(* get_or_create_stream succeeds.  message_bus_init goes on to receive     *)
(* events, publish counts a try and sends again.                           *)
NextTryUncounted == tries       \* mutated form
NextTry == tries + 1

StreamReady ==
  /\ pc = "create"
  /\ CreateStream
  /\ \/ cur = NoEvent /\ Return
     \/ cur # NoEvent /\ pc' = "send" /\ tries' = NextTry /\ UNCHANGED cur
  /\ UNCHANGED <<layerVars, buffer, ctries, outcomes, netVars, stored, losses>>

(* get_or_create_stream gets an error, although the server may have done   *)
(* what it was asked.  After max_retries retries the error is returned:    *)
(* message_bus_init ignores it, publish returns it.                        *)
CreateFails ==
  /\ pc = "create"
  /\ CreateStream \/ UNCHANGED busVars
  /\ \/ /\ ctries < MaxRetries
        /\ pc' = "createBackoff" /\ ctries' = ctries + 1
        /\ UNCHANGED <<cur, tries, outcomes>>
     \/ /\ ctries = MaxRetries
        /\ Return
        /\ failed' = failed \cup ({cur} \ {NoEvent})
        /\ UNCHANGED <<ctries, acked, lost>>
  /\ UNCHANGED <<layerVars, buffer, netVars, stored, losses>>

(* publish_events takes the oldest event off the channel and calls         *)
(* publish, which refuses at once a message without an id.                 *)
RecvEvent ==
  /\ pc = "recv"
  /\ buffer # <<>>
  /\ buffer' = Tail(buffer)
  /\ \/ /\ Head(buffer) \in Unpublishable
        /\ failed' = failed \cup {Head(buffer)}
        /\ UNCHANGED taskVars
     \/ /\ Head(buffer) \notin Unpublishable
        /\ pc' = "send" /\ cur' = Head(buffer) /\ tries' = 0
        /\ UNCHANGED <<ctries, failed>>
  /\ UNCHANGED <<layerVars, acked, lost, netVars, busVars, stored, losses>>

(* The channel is closed and empty: publish_events and run return.         *)
RecvClosed ==
  /\ pc = "recv"
  /\ ~open /\ buffer = <<>>
  /\ pc' = "done"
  /\ UNCHANGED <<layerVars, buffer, cur, tries, ctries, outcomes, netVars,
                 busVars, stored, losses>>

(* One attempt: the request is handed to the client.                       *)
Send ==
  /\ pc = "send"
  /\ pc' = "await"
  /\ link' = Append(link, [ev |-> cur, try |-> tries])
  /\ reply' = "none"
  /\ UNCHANGED <<layerVars, buffer, cur, tries, ctries, outcomes, strays,
                 busVars, stored, losses>>

AnyAnswerIsOk ==   \* mutated form: the server's error is not looked at
  /\ pc = "await" /\ reply # "none"
  /\ acked' = acked \cup {cur}
  /\ Return
  /\ reply' = "none"
  /\ UNCHANGED <<layerVars, buffer, ctries, failed, lost, link, strays,
                 busVars, stored, losses>>

(* The attempt is acknowledged.                                            *)
AckReceived ==
  /\ pc = "await" /\ reply = "ok"
  /\ acked' = acked \cup {cur}
  /\ Return
  /\ reply' = "none"
  /\ UNCHANGED <<layerVars, buffer, ctries, failed, lost, link, strays,
                 busVars, stored, losses>>

(* publish_events does not keep an event that publish failed for.          *)
Requeue == buffer' = Append(buffer, cur) /\ UNCHANGED failed   \* mutated form
GiveUp == failed' = failed \cup {cur} /\ UNCHANGED buffer

(* The attempt fails with an error of this kind.  The last one ends        *)
(* publish; otherwise a timeout is retried at once, a missing stream is    *)
(* created first, and any other error is followed by a delay.              *)
AttemptFails(kind) ==
  /\ reply' = "none"
  /\ \/ /\ tries = MaxRetries
        /\ GiveUp
        /\ Return
        /\ UNCHANGED ctries
     \/ /\ tries < MaxRetries
        /\ \/ /\ kind = "TimedOut"
              /\ pc' = "send" /\ tries' = NextTry /\ UNCHANGED ctries
           \/ /\ kind = "StreamNotFound"
              /\ pc' = "create" /\ ctries' = 0 /\ UNCHANGED tries
           \/ /\ kind = "Other"
              /\ pc' = "backoff" /\ tries' = NextTry /\ UNCHANGED ctries
        /\ UNCHANGED <<cur, failed, buffer>>
  /\ UNCHANGED <<layerVars, acked, lost, strays, busVars, stored, losses>>

SendFails == pc = "send" /\ AttemptFails("Other") /\ UNCHANGED link

TimedOut == pc = "await" /\ AttemptFails("TimedOut") /\ UNCHANGED link

ErrorReceived ==
  /\ pc = "await"
  /\ \/ reply = "noStream" /\ AttemptFails("StreamNotFound")
     \/ reply = "error" /\ AttemptFails("Other")
  /\ UNCHANGED link

(* The sleep at the end of backoff_with_options is over.                   *)
BackoffOver ==
  /\ \/ pc = "backoff" /\ pc' = "send"
     \/ pc = "createBackoff" /\ pc' = "create"
  /\ UNCHANGED <<layerVars, buffer, cur, tries, ctries, outcomes, netVars,
                 busVars, stored, losses>>

(* The runtime shuts down and the task is dropped at an await, with the    *)
(* receiver and what the channel holds.                                    *)
Cancel ==
  /\ Running
  /\ pc' = "aborted"
  /\ cur' = NoEvent /\ tries' = 0 /\ ctries' = 0 /\ reply' = "none"
  /\ buffer' = <<>>
  /\ lost' = lost \cup Range(buffer) \cup ({cur} \ {NoEvent})
  /\ UNCHANGED <<layerVars, acked, failed, link, strays, busVars, stored,
                 losses>>
-----------------------------------------------------------------------------
(* The answer to request m reaches the task if it still awaits it.         *)
Answer(m, a) ==
  reply' = IF pc = "await" /\ m = [ev |-> cur, try |-> tries] THEN a ELSE reply

(* The server handles request m: it stores the event and says so, or       *)
(* there is no stream on that subject, or it refuses.                      *)
Serve(m) ==
  \/ /\ up
     /\ Store(m.ev)
     /\ stored' = stored \cup {m}
     /\ Answer(m, "ok")
  \/ /\ ~up
     /\ UNCHANGED <<busVars, stored>>
     /\ Answer(m, "noStream")
  \/ /\ UNCHANGED <<busVars, stored>>
     /\ Answer(m, "error")

Deliver ==
  /\ link # <<>>
  /\ link' = Tail(link)
  /\ Serve(Head(link))
  /\ UNCHANGED <<layerVars, buffer, taskVars, outcomes, strays, losses>>

DeliverStray ==
  \E m \in strays :
    /\ strays' = strays \ {m}
    /\ Serve(m)
    /\ UNCHANGED <<layerVars, buffer, taskVars, outcomes, link, losses>>

(* The connection breaks under the oldest request: it is lost, or it stays *)
(* behind in the cluster.                                                  *)
Disconnect ==
  /\ link # <<>>
  /\ link' = Tail(link)
  /\ \/ UNCHANGED strays
     \/ Straggling /\ strays' = strays \cup {Head(link)}
  /\ UNCHANGED <<layerVars, buffer, taskVars, outcomes, reply, busVars,
                 stored, losses>>

ServerRestart ==
  /\ losses < MaxLosses
  /\ LoseStream
  /\ losses' = losses + 1
  /\ UNCHANGED <<layerVars, buffer, taskVars, outcomes, netVars, stored>>
-----------------------------------------------------------------------------
Publishing == StreamReady \/ CreateFails \/ RecvEvent \/ RecvClosed \/ Send
              \/ AckReceived \/ SendFails \/ TimedOut \/ ErrorReceived
              \/ BackoffOver

Environment == OnEvent \/ DropLayer \/ Cancel \/ Deliver \/ DeliverStray
               \/ Disconnect \/ ServerRestart

Next == Connect \/ Publishing \/ Environment

Spec == Init /\ [][Next]_vars

(* The task is scheduled, its timers fire and every request it makes is    *)
(* answered or times out (publish after PUBLISH_TIMEOUT); nothing is asked *)
(* of the server but that it can be reached once.                          *)
FairSpec == Spec /\ WF_vars(Connect) /\ WF_vars(Publishing)
-----------------------------------------------------------------------------
(* Types, and that the channel and the retry counters keep their bounds.   *)
TypeOK ==
  /\ BusTypeOK
  /\ generated \in 0..MaxEvents
  /\ open \in BOOLEAN
  /\ buffer \in Seq(Events) /\ Len(buffer) <= Capacity
  /\ pc \in Locations
  /\ cur \in {NoEvent} \cup Events
  /\ tries \in 0..MaxRetries
  /\ ctries \in 0..MaxRetries
  /\ dropped \subseteq Events
  /\ acked \subseteq Events
  /\ failed \subseteq Events
  /\ lost \subseteq Events
  /\ link \in Seq(Attempt)
  /\ strays \subseteq Attempt
  /\ reply \in Answers
  /\ stored \subseteq Attempt
  /\ losses \in 0..MaxLosses

InHand == {cur} \ {NoEvent}

(* Every event the application has emitted is in one place: refused, in    *)
(* the channel, being published, or settled one way.  No path of the       *)
(* publisher forgets an event or settles it twice.                         *)
Accounted ==
  /\ 1..generated =
       dropped \cup lost \cup Range(buffer) \cup InHand \cup acked \cup failed
  /\ dropped \cap (lost \cup Range(buffer) \cup InHand \cup acked \cup failed) = {}
  /\ lost \cap (Range(buffer) \cup InHand \cup acked \cup failed) = {}
  /\ Range(buffer) \cap (InHand \cup acked \cup failed) = {}
  /\ InHand \cap (acked \cup failed) = {}
  /\ acked \cap failed = {}

(* The events of the channel are in the order in which they were emitted,  *)
(* and the publisher has left none of them behind: what it holds or has    *)
(* settled is older.                                                       *)
TakenInOrder ==
  /\ \A i, j \in DOMAIN buffer : i < j => buffer[i] < buffer[j]
  /\ \A e \in acked \cup failed \cup InHand, f \in Range(buffer) : e < f
  /\ \A e \in acked \cup failed, f \in InHand : e < f

(* publish returns Ok only for an event that the stream has stored: no     *)
(* answer to an earlier attempt or an earlier event is taken for it.       *)
AckedWasStored == acked \subseteq {a.ev : a \in stored}

(* While requests cannot overtake each other, the stream holds its events  *)
(* in the order in which they were emitted, whatever was lost, late or     *)
(* sent twice.                                                             *)
StreamInOrder == \A m, n \in msgs : m.seq < n.seq => m.ev < n.ev

(* An acknowledged event leaves the stream only with the stream, or when   *)
(* StreamLimit later events have been stored.                              *)
AckedSurvives ==
  losses = 0 =>
    \A e \in acked \ {m.ev : m \in msgs} :
      Cardinality({f \in {a.ev : a \in stored} : f > e}) >= StreamLimit

(* The inductive invariant behind the properties above, in named parts.    *)
(* Where the task holds an event, and that it goes to create the stream    *)
(* only while a try is left.                                               *)
ControlOK ==
  /\ pc \in {"send", "await", "backoff"} => cur # NoEvent
  /\ pc \in {"connect", "recv", "done", "aborted"} => cur = NoEvent
  /\ pc \in {"create", "createBackoff"} /\ cur # NoEvent => tries < MaxRetries
  /\ ~Running => buffer = <<>>

(* An Ok on its way to the task is about the very attempt it awaits. *)
AnswerOK ==
  pc = "await" /\ reply = "ok" => [ev |-> cur, try |-> tries] \in stored

(* The requests on their way are in the order of their events, none is     *)
(* older than a message of the stream, none is newer than what the task    *)
(* has taken off the channel.                                              *)
LinkInOrder ==
  /\ \A i, j \in DOMAIN link : i < j => link[i].ev <= link[j].ev
  /\ \A m \in msgs, i \in DOMAIN link : m.ev <= link[i].ev
  /\ \A i \in DOMAIN link : link[i].ev <= generated
  /\ \A m \in msgs : m.ev <= generated
  /\ \A i \in DOMAIN link, f \in Range(buffer) : link[i].ev < f
  /\ \A m \in msgs, f \in Range(buffer) : m.ev < f
  /\ \A i \in DOMAIN link, f \in InHand : link[i].ev <= f
  /\ \A m \in msgs, f \in InHand : m.ev <= f

PublisherInv == TypeOK /\ ControlOK /\ Accounted /\ TakenInOrder /\ AnswerOK

OrderInv == strays = {} /\ BusConsistent /\ LinkInOrder /\ StreamInOrder

(* Every event accepted in the channel is settled, even when the server    *)
(* never answers: the retries of publish are bounded on every path.        *)
AcceptedIsSettled ==
  \A e \in Events : e \in Range(buffer) ~> e \in acked \cup failed \cup lost

(* Once the layer is dropped the publisher drains the channel and ends.    *)
ClosedDrains == ~open ~> ~Running

(* Both: publish never keeps an event, nor the task its runtime, for ever. *)
TaskSettles == AcceptedIsSettled /\ ClosedDrains

(* Where EventDelivery sees each event. *)
PhaseOf(e) ==
  CASE e \in Range(buffer) -> "queued"
    [] e = cur              -> "taken"
    [] e \in acked          -> "published"
    [] e \in failed         -> "failed"
    [] e \in dropped        -> "dropped"
    [] e \in lost           -> "lost"
    [] OTHER                -> "unborn"

Delivery == INSTANCE EventDelivery
  WITH phase <- [e \in Events |-> PhaseOf(e)], serving <- Running

(* The publisher does what EventDelivery promises. *)
ImplementsDelivery == Delivery!Spec
=============================================================================
