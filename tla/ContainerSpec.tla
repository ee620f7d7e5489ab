---------------------------- MODULE ContainerSpec ----------------------------
(***************************************************************************)
(* The Binary and the ContainerSpec of composer/src/composer.rs, and what  *)
(* create_container makes of them: the image is pulled and inspected, and  *)
(* the command, the entrypoint, the ports and the environment of the spec  *)
(* are merged with those of the image and of the builder.  Others use the  *)
(* same docker: an image may go at any time, and any request may fail.     *)
(***************************************************************************)
EXTENDS Integers, Sequences, FiniteSets, SequencesExt, Functions

CONSTANTS
  MaxSetters,   \* bound: with_... calls on one spec
  ImageConfigs, \* the configs an image may have: [cmd, entrypoint, ports]; what
                \* an image runs is a name
  Ports         \* ports of containers

ASSUME SpecAssumption ==
  /\ MaxSetters \in Nat
  /\ \A c \in ImageConfigs : /\ c.cmd \in {<<>>, <<"image_command">>}
                             /\ c.entrypoint \in {<<>>, <<"image_entrypoint">>}

NoImage == "no image"
BaseImage == "base"   \* Builder::image
OwnImage == "own"     \* ContainerSpec::image

VARIABLES
  spec,     \* the ContainerSpec
  setters,  \* history: how many with_... calls
  builder,  \* Builder: its image, rust_log and rust_log_silence; tini: the host has it
  config,   \* what docker knows of the image
  present,  \* the images docker has
  step,     \* where create_container is
  container,     \* the Config of the container
  trouble   \* history: docker or the registry failed, or someone removed an image
specVars == <<spec, setters, builder, config, present, step, container, trouble>>

NoContainer == [cmd |-> <<>>, entrypoint |-> <<>>, ports |-> <<>>, env |-> <<>>,
                env2 |-> <<>>, tini |-> FALSE]
-----------------------------------------------------------------------------
FromBinary == [binary |-> TRUE, image |-> NoImage, command |-> <<>>, arguments |-> <<>>,
               nats |-> FALSE, entrypoint |-> <<>>, env |-> <<>>, port_map |-> <<>>,
               bypass |-> FALSE, policy |-> "IfNotPresent"]
FromImage == [FromBinary EXCEPT !.binary = FALSE, !.image = OwnImage]

With(key, val, f) == [k \in DOMAIN f \cup {key} |-> IF k = key THEN val ELSE f[k]]

(* The setters, and those of the binary before it goes into the spec; the  *)
(* ones of maps replace, with_arg appends.                                 *)
PolicySetter(s) == {[s EXCEPT !.policy = "Always"]}
PortSetters(s) ==
  {[s EXCEPT !.port_map = With(p, "user", @)] : p \in Ports} \cup {[s EXCEPT !.bypass = TRUE]}
Setters(s) ==
  {[s EXCEPT !.arguments = Append(@, "arg")], [s EXCEPT !.entrypoint = <<"own_entrypoint">>]}
  \cup {[s EXCEPT !.env = With(k, "user", @)] : k \in {"RUST_LOG", "RUST_LOG_SILENCE", "MY_POD_IP"}}
  \cup IF s.binary THEN {[s EXCEPT !.nats = TRUE]} ELSE {[s EXCEPT !.command = <<"own_command">>]}
(* Binary::commands with setup_nats, or the command; then the arguments.   *)
OwnCommand(s) ==
  IF s.binary THEN <<"binary">> \o (IF s.nats THEN <<"--nats", "nats.network:4222">> ELSE <<>>)
  ELSE s.command
Commands(s) == OwnCommand(s) \o s.arguments
HasCommand(s) == OwnCommand(s) # <<>>

(* ContainerSpec::entrypoint: the spec's, or tini for a binary that runs   *)
(* in the builder's image.                                                 *)
TiniInAny(s) == s.binary   \* mutated form: also without an image
Tini(s) == s.binary /\ builder.image # NoImage
Entrypoint(s) == IF s.entrypoint # <<>> THEN s.entrypoint
                 ELSE IF Tini(s) THEN <<"/sbin/tini", "--">> ELSE <<>>

(* spec_environment: what the user set is not set again.                   *)
PushedAlways(s) ==   \* mutated form
  <<<<"RUST_LOG", builder.rust_log>>>> \o
  (IF builder.silence THEN <<<<"RUST_LOG_SILENCE", "builder">>>> ELSE <<>>)
Pushed(s) ==
  (IF "RUST_LOG" \notin DOMAIN s.env THEN <<<<"RUST_LOG", builder.rust_log>>>> ELSE <<>>)
  \o (IF builder.silence /\ "RUST_LOG_SILENCE" \notin DOMAIN s.env
      THEN <<<<"RUST_LOG_SILENCE", "builder">>>> ELSE <<>>)

ImageOf(s) == IF s.image # NoImage THEN s.image ELSE builder.image
-----------------------------------------------------------------------------
ImageFirst(s) ==   \* mutated form: the spec's command does not replace the image's
  config.cmd \o Commands(s)
MergedCmd(s) ==
  IF config.cmd # <<>> /\ ~HasCommand(s) THEN config.cmd \o Commands(s) ELSE Commands(s)

MergedOr(s) ==   \* mutated form: one entrypoint or the other
  [entrypoint |-> IF Entrypoint(s) = <<>> THEN config.entrypoint ELSE Entrypoint(s), cmd |-> MergedCmd(s)]

(* The command and the entrypoint, merged with those of the image.         *)
Merged(s) ==
  LET own == Entrypoint(s)
  IN CASE config.entrypoint # <<>> /\ own = <<>> ->
            [entrypoint |-> config.entrypoint, cmd |-> MergedCmd(s)]
       [] own # <<>> /\ ~HasCommand(s) ->
            [entrypoint |-> own, cmd |-> config.entrypoint \o MergedCmd(s)]
       [] OTHER -> [entrypoint |-> own, cmd |-> MergedCmd(s)]

(* The bindings: with bypass_image_port_map the ports that the image       *)
(* exposes are bound to the same port of the host.                         *)
WithImagePorts(s) == [p \in DOMAIN s.port_map \cup config.ports |->
                        IF p \in config.ports THEN "same" ELSE s.port_map[p]]
BoundPorts(s) == IF s.bypass THEN WithImagePorts(s) ELSE s.port_map

ContainerOf(s, merged, ports) ==
  [cmd |-> merged.cmd, entrypoint |-> merged.entrypoint, ports |-> ports,
   env |-> s.env, env2 |-> Append(Pushed(s), <<"MY_POD_IP", "address">>),
   tini |-> s.binary /\ ImageOf(s) # NoImage /\ builder.tini]
-----------------------------------------------------------------------------
SpecInit ==
  /\ spec \in {FromBinary, FromImage}
  /\ setters = 0
  /\ builder \in [image : {NoImage, BaseImage}, rust_log : {"builder or default"},
                silence : BOOLEAN, tini : BOOLEAN]
  /\ config \in ImageConfigs
  /\ present \in SUBSET {BaseImage, OwnImage}
  /\ step = "build" /\ container = NoContainer /\ trouble = FALSE

Setter ==
  /\ step = "build" /\ setters < MaxSetters
  /\ spec' \in Setters(spec) \cup PortSetters(spec) \cup PolicySetter(spec)
  /\ setters' = setters + 1
  /\ UNCHANGED <<builder, config, present, step, container, trouble>>

CreateContainer ==
  /\ step = "build" /\ step' = "pull"
  /\ UNCHANGED <<spec, setters, builder, config, present, container, trouble>>

NeverPulls == FALSE   \* mutated form
Pulls == spec.image # NoImage /\ (spec.policy = "Always" \/ spec.image \notin present)

Panics(failed) == step' = "panicked" /\ trouble' = (trouble \/ failed)

(* pull_image_if_required: only the spec's own image.  What docker says to  *)
(* list_images and what the registry says to the pull is unwrapped.        *)
PullImage ==
  /\ step = "pull"
  /\ \/ /\ present' = IF Pulls THEN present \cup {spec.image} ELSE present
        /\ step' = "inspect" /\ UNCHANGED trouble
     \/ spec.image # NoImage /\ Panics(TRUE) /\ UNCHANGED present
  /\ UNCHANGED <<spec, setters, builder, config, container>>

(* Without an image nothing is merged; inspect_image is unwrapped, too.    *)
Inspect ==
  /\ step = "inspect"
  /\ \/ /\ ImageOf(spec) = NoImage
        /\ container' = ContainerOf(spec, [cmd |-> Commands(spec), entrypoint |-> Entrypoint(spec)], spec.port_map)
        /\ step' = "created" /\ UNCHANGED trouble
     \/ /\ ImageOf(spec) \in present
        /\ container' = ContainerOf(spec, Merged(spec), BoundPorts(spec))
        /\ step' = "created" /\ UNCHANGED trouble
     \/ /\ ImageOf(spec) # NoImage
        /\ \/ ImageOf(spec) \notin present /\ Panics(FALSE)
           \/ Panics(TRUE)
        /\ UNCHANGED container
  /\ UNCHANGED <<spec, setters, builder, config, present>>

(* Another user of docker removes an image.                                *)
RemoveImage ==
  /\ step \in {"pull", "inspect"}
  /\ \E i \in present : present' = present \ {i}
  /\ trouble' = TRUE
  /\ UNCHANGED <<spec, setters, builder, config, step, container>>

SpecNext == Setter \/ CreateContainer \/ PullImage \/ Inspect \/ RemoveImage

ContainerSpecSpec == SpecInit /\ [][SpecNext]_specVars
-----------------------------------------------------------------------------
Created == step = "created"
Argv == container.entrypoint \o container.cmd

(* What the user asked to run is what runs: the command and the arguments  *)
(* of the spec are the end of what is executed, behind the entrypoint of   *)
(* the spec, and the image's command is not there when the spec has one.   *)
UserCommandRuns ==
  Created =>
    /\ IsSuffix(Commands(spec), Argv)
    /\ spec.entrypoint # <<>> => IsPrefix(spec.entrypoint, Argv)
    /\ HasCommand(spec) => ~Contains(Argv, "image_command")

(* Nothing that the image or tini has to run gets lost when the user gives *)
(* no command: the image's entrypoint and its command are both there, in   *)
(* this order.                                                             *)
ImageCommandRuns ==
  Created /\ ImageOf(spec) # NoImage /\ ~HasCommand(spec) =>
    IsSuffix(config.entrypoint \o config.cmd \o Commands(spec), Argv)

(* tini is the entrypoint only of a container that has tini bound in,      *)
(* where the host has it: where it has not, the container cannot start.    *)
TiniIsBound ==
  Created /\ Contains(container.entrypoint, "/sbin/tini") => container.tini \/ ~builder.tini

(* Of two settings of one variable docker takes the last.                  *)
IsFor(i, k) == container.env2[i][1] = k
HasValue(k, v) ==
  \/ \E i \in DOMAIN container.env2 :
       /\ container.env2[i] = <<k, v>>
       /\ \A j \in DOMAIN container.env2 : IsFor(j, k) => j <= i
  \/ /\ \A j \in DOMAIN container.env2 : ~IsFor(j, k)
     /\ k \in DOMAIN container.env /\ container.env[k] = v

(* What a variable is in the container: its own address in MY_POD_IP, even *)
(* where the user has set that; else what the user has set; and for the    *)
(* two variables of the builder what the builder says only if the user     *)
(* says nothing (spec_environment, create_container).                      *)
EnvironmentIsMerged ==
  Created =>
    /\ HasValue("MY_POD_IP", "address")
    /\ \A k \in DOMAIN spec.env \ {"MY_POD_IP"} : HasValue(k, spec.env[k])
    /\ "RUST_LOG" \in DOMAIN spec.env \/ HasValue("RUST_LOG", builder.rust_log)
    /\ builder.silence =>
         "RUST_LOG_SILENCE" \in DOMAIN spec.env \/ HasValue("RUST_LOG_SILENCE", "builder")

(* "Bypass the container image's port map" (composer.rs:371, the doc of    *)
(* with_bypass_port_map): then only the user's ports are bound, as he said. *)
(* The code binds the image's ports just then, in place of the user's.     *)
BypassLeavesImagePortsOut ==
  Created /\ spec.bypass => container.ports = spec.port_map

(* create_container panics over an image only when docker, its registry or *)
(* another user of docker interfered, or when the builder's image, which   *)
(* is never pulled, is not there.                                          *)
PanicHasReason ==
  step = "panicked" => trouble \/ (ImageOf(spec) = BaseImage /\ BaseImage \notin present)

(* All four: what runs in the container is what was asked for and can run,  *)
(* or there is a reason that nothing does.                                 *)
ContainerRuns ==
  UserCommandRuns /\ ImageCommandRuns /\ TiniIsBound /\ PanicHasReason
=============================================================================
