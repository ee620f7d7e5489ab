------------------------------- MODULE MCParts -------------------------------
(***************************************************************************)
(* The small parts that have nothing to do with one another, each by       *)
(* itself: a behaviour is one of one part, and the others stand still.     *)
(***************************************************************************)
EXTENDS RetryLoop, ProtoTime, EventSource, PlatformCell, ComposeBuilder, ContainerSpec,
        SubsystemHandles, TLC

CONSTANTS small, large

VARIABLE part
partVars == <<part, retryVars, x, sourceVars, cellVars, builderVars, specVars, handleVars>>

Parts == {"retry", "time", "source", "cell", "builder", "spec", "handles"}

(* Two networks, of three and of four addresses: the number 2 of both and  *)
(* the number 3 of the large one may be handed out.                        *)
MCSize == small :> 3 @@ large :> 4

MCServices == {"io-engine", "agent-core", "component"}
MCComponent == "io-engine" :> "IoEngine" @@ "agent-core" :> "CoreAgent"

MCImageConfigs ==
  [cmd : {<<>>, <<"image_command">>}, entrypoint : {<<>>, <<"image_entrypoint">>}, ports : {{}, {"80"}}]

(* Two paths to one subsystem, another one, and a discovery controller.      *)
MCPaths ==
  [nqn : {"a"}, address : {"1", "2"}, kind : {"io"}]
    \cup {[nqn |-> "b", address |-> "1", kind |-> "io"],
           [nqn |-> "discovery", address |-> "1", kind |-> "discovery"]}

(* A part that stands still stands in one of its initial states.           *)
Still(p, u) == part # p => u

Init ==
  /\ part \in Parts
  /\ RetryInit
  /\ Still("retry", options = [init_delay |-> 0, step |-> 0, max_delay |-> 0, cutoff |-> 0, max_retries |-> 0])
  /\ TimeInit /\ Still("time", x = At(0, 0))
  /\ SourceInit
  /\ CellInit /\ Still("cell", workers = 1 /\ ~remote)
  /\ BuilderInit /\ Still("builder", network = small)
  /\ SpecInit
  /\ Still("spec", /\ spec = FromImage /\ config.cmd = <<>> /\ config.entrypoint = <<>> /\ config.ports = {}
                   /\ builder = [image |-> NoImage, rust_log |-> "builder or default",
                                 silence |-> FALSE, tini |-> FALSE]
                   /\ present = {})
  /\ HandleInit

Next ==
  /\ UNCHANGED part
  /\ \/ /\ part = "retry" /\ RetryNext
        /\ UNCHANGED <<x, sourceVars, cellVars, builderVars, specVars, handleVars>>
     \/ /\ part = "time" /\ Normalise
        /\ UNCHANGED <<retryVars, sourceVars, cellVars, builderVars, specVars, handleVars>>
     \/ /\ part = "source" /\ SourceNext
        /\ UNCHANGED <<retryVars, x, cellVars, builderVars, specVars, handleVars>>
     \/ /\ part = "cell" /\ CellNext
        /\ UNCHANGED <<retryVars, x, sourceVars, builderVars, specVars, handleVars>>
     \/ /\ part = "builder" /\ BuilderNext
        /\ UNCHANGED <<retryVars, x, sourceVars, cellVars, specVars, handleVars>>
     \/ /\ part = "spec" /\ SpecNext
        /\ UNCHANGED <<retryVars, x, sourceVars, cellVars, builderVars, handleVars>>
     \/ /\ part = "handles" /\ HandleNext
        /\ UNCHANGED <<retryVars, x, sourceVars, cellVars, builderVars, specVars>>

Spec == Init /\ [][Next]_partVars /\ CellFairness
=============================================================================
