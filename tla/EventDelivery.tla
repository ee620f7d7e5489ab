--------------------------- MODULE EventDelivery ---------------------------
(***************************************************************************)
(* What the event publisher promises for every event, whatever the         *)
(* message bus does: events are taken one at a time in the order they were *)
(* accepted, an event is refused only when the channel is full or nobody   *)
(* receives any more, and an accepted event is settled exactly once and    *)
(* for good - published, given up, or lost with the process.               *)
(***************************************************************************)
EXTENDS Integers, FiniteSets

CONSTANTS MaxEvents, Capacity

VARIABLES phase,    (* where each event is                                  *)
          serving   (* the publisher task is alive                          *)

Phases == {"unborn", "queued", "taken", "published", "failed", "dropped",
           "lost"}

In(p) == {e \in 1..MaxEvents : phase[e] = p}

Oldest(e, S) == e \in S /\ \A f \in S : e <= f

Move(e, p) == phase' = [phase EXCEPT ![e] = p]

Init == phase = [e \in 1..MaxEvents |-> "unborn"] /\ serving = TRUE

Accept == \E e \in 1..MaxEvents :
  /\ serving /\ Cardinality(In("queued")) < Capacity
  /\ Oldest(e, In("unborn"))
  /\ Move(e, "queued") /\ UNCHANGED serving

Refuse == \E e \in 1..MaxEvents :
  /\ serving => Cardinality(In("queued")) = Capacity
  /\ Oldest(e, In("unborn"))
  /\ Move(e, "dropped") /\ UNCHANGED serving

(* The next event is taken for publishing, or is given up at once. *)
Take == \E e \in 1..MaxEvents :
  /\ serving /\ In("taken") = {}
  /\ Oldest(e, In("queued"))
  /\ Move(e, "taken") \/ Move(e, "failed")
  /\ UNCHANGED serving

Settle == \E e \in In("taken") :
  /\ serving
  /\ Move(e, "published") \/ Move(e, "failed")
  /\ UNCHANGED serving

(* The publisher stops: when everything is settled, or in the middle. *)
Stop ==
  /\ serving /\ serving' = FALSE
  /\ phase' = [e \in 1..MaxEvents |->
                 IF phase[e] \in {"queued", "taken"} THEN "lost" ELSE phase[e]]

Next == Accept \/ Refuse \/ Take \/ Settle \/ Stop

vars == <<phase, serving>>

SafeSpec == Init /\ [][Next]_vars

Spec == SafeSpec /\ WF_vars(Take) /\ WF_vars(Settle)
=============================================================================
