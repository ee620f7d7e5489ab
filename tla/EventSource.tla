----------------------------- MODULE EventSource -----------------------------
(***************************************************************************)
(* The source of an event (apis/events/src/event_traits.rs): the component *)
(* of the process, set once, and the details that the with_... calls put   *)
(* on a source.  Most of these calls replace the details of all calls      *)
(* before them, some add to them, some change what another one made.       *)
(***************************************************************************)
EXTENDS Integers, FiniteSets, Sequences

CONSTANTS
  Services,   \* the texts initialize_source_component may be given
  Component,  \* the component of a service; the default one of any other
  MaxWiths    \* bound: calls on one source

Unknown == "UnknownComponent"

ASSUME SourceAssumption == MaxWiths \in Nat

Replacing == {"rebuild", "replica", "switch_over", "nexus_child", "nvme_path",
              "host_initiator", "reactor", "state_change", "subsystem_pause",
              "snapshot", "clone"}
Adding == {"error", "action_duration"}
Details == Replacing \cup Adding
Fields == {"target", "host_nqn"}

VARIABLES
  COMPONENT,  \* the cell: "unset", or the component
  source,     \* the source being built: "none", or its component and details
  calls       \* history: the with_... calls made on it
sourceVars == <<COMPONENT, source, calls>>

NoSource == [component |-> "none", has |-> {}, fields |-> {}]

(* Component::from_str, and the default for what it does not know.         *)
FromService(s) == IF s \in DOMAIN Component THEN Component[s] ELSE Unknown
-----------------------------------------------------------------------------
InitialiseLast(s) == FromService(s)   \* mutated form
Initialised(s) == IF COMPONENT = "unset" THEN FromService(s) ELSE COMPONENT

(* initialize_source_component: the first call decides.                    *)
InitializeSourceComponent(s) ==
  /\ COMPONENT' = Initialised(s)
  /\ UNCHANGED <<source, calls>>

(* EventSource::new, also from EventMeta::new.                             *)
New ==
  /\ source = NoSource
  /\ source' = [NoSource EXCEPT !.component = IF COMPONENT = "unset" THEN Unknown ELSE COMPONENT]
  /\ UNCHANGED <<COMPONENT, calls>>

Building == source # NoSource /\ Len(calls) < MaxWiths
Called(c) == calls' = Append(calls, c) /\ UNCHANGED COMPONENT

ReplaceKeeping(k) == [source EXCEPT !.has = @ \cup {k}]   \* mutated form
Replace(k) == [source EXCEPT !.has = {k}, !.fields = {}]

(* with_rebuild_data and the others that begin with fresh details.         *)
WithData(k) ==
  /\ Building /\ source' = Replace(k) /\ Called(k)

Add(k) == [source EXCEPT !.has = @ \cup {k}]

(* with_error_details and with_event_action_duration_details.              *)
WithMore(k) ==
  /\ Building /\ source' = Add(k) /\ Called(k)

SetAlways(f) == [source EXCEPT !.fields = @ \cup {f}]   \* mutated form
Set(f) == IF "host_initiator" \in source.has THEN [source EXCEPT !.fields = @ \cup {f}] ELSE source

(* with_target_data and with_host_initiator_data: nothing without the      *)
(* details of a host initiator.                                            *)
WithField(f) ==
  /\ Building /\ source' = Set(f) /\ Called(f)

(* The source goes into the metadata of an event (EventMeta::from_source). *)
FromSource ==
  /\ source # NoSource
  /\ source' = NoSource /\ calls' = <<>> /\ UNCHANGED COMPONENT

SourceInit == COMPONENT = "unset" /\ source = NoSource /\ calls = <<>>

SourceNext ==
  \/ \E s \in Services : InitializeSourceComponent(s)
  \/ New
  \/ \E k \in Replacing : WithData(k)
  \/ \E k \in Adding : WithMore(k)
  \/ \E f \in Fields : WithField(f)
  \/ FromSource
-----------------------------------------------------------------------------
LastReplacing == {i \in DOMAIN calls : calls[i] \in Replacing
                    /\ \A j \in DOMAIN calls : j > i => calls[j] \notin Replacing}
SinceThen(i) == LastReplacing = {} \/ \A l \in LastReplacing : i > l

(* A consumer tells the kind of an event by the details that are there:    *)
(* whatever was called in whatever order, there are those of one kind, the *)
(* last, and the error and the duration that were added after it.          *)
OneKindOfDetails ==
  /\ source.has \cap Replacing = {calls[i] : i \in LastReplacing}
  /\ source.has \cap Adding = {calls[i] : i \in {j \in DOMAIN calls : SinceThen(j)}} \cap Adding

(* The fields of a host initiator are on a source just when they were set  *)
(* after its subsystem and nothing replaced them since: those set before   *)
(* with_subsystem_data are lost without an error.                          *)
FieldsNeedSubsystem ==
  source.fields =
    IF "host_initiator" \in source.has
    THEN {calls[i] : i \in {j \in DOMAIN calls : SinceThen(j)}} \cap Fields
    ELSE {}

(* Both: what the with_... calls leave on a source, in whatever order.     *)
LastCallsCount == OneKindOfDetails /\ FieldsNeedSubsystem

(* A source carries the component of its process, or none when it was      *)
(* built before that was set: no two sources of a process name two         *)
(* components, whatever initialize_source_component was asked for in       *)
(* between.                                                                *)
OneComponent ==
  source # NoSource => source.component \in {Unknown, COMPONENT}
=============================================================================
