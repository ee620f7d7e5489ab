---------------------------- MODULE ComposeTest ----------------------------
(***************************************************************************)
(* The life of the ComposeTest of composer/src/composer.rs: Builder::build *)
(* creates a network and containers and starts them, the test uses them,   *)
(* down and Drop take them away.  A process runs one experiment after      *)
(* another, of one name or another, and may be killed in the middle of     *)
(* each; what an experiment leaves in docker is what the next one finds.   *)
(*                                                                         *)
(* The docker daemon is external.  All experiments ask for the bridge      *)
(* mayabridge0, so that one network exists at a time.  A request is one    *)
(* step; the futures of try_join_all make theirs in any order, and when    *)
(* one fails the others are dropped, whether their requests were made.     *)
(***************************************************************************)
EXTENDS Integers, FiniteSets

CONSTANTS
  Names,       (* names of containers                                        *)
  Networks,    (* names of experiments, and of their networks                *)
  None,        (* no network                                                 *)
  Free,        (* a name no container has                                    *)
  Flags,       (* the flags of the builders of the experiments               *)
  Repeated,    (* the names that a builder may be given two containers of    *)
  MaxBuilds    (* bound on the experiments                                   *)

FlagNames == {"reuse", "prune", "matching", "clean", "onPanic", "autorun",
              "host"}

Container == [id : Nat, net : Networks \cup {None},
              state : {"created", "running", "paused", "exited"}]

ASSUME ComposeAssumption ==
  /\ None \notin Networks /\ Names \cap Networks = {}
  /\ Free \notin Container
  /\ Flags \subseteq [FlagNames -> BOOLEAN]
  /\ Repeated \subseteq Names
  /\ MaxBuilds \in Nat

VARIABLES
  net,        (* docker: the network there is                                *)
  dock,       (* docker: the container that has a name                       *)
  made,       (* docker: number of containers made under a name: their ids   *)
  pc,         (* what the process does                                       *)
  name,       (* ComposeTest::name                                           *)
  flags,      (* the flags, reuse, prune, prune_matching, clean,             *)
              (* allow_clean_on_panic, Builder::autorun and the host network *)
  wanted,     (* Builder::containers, their names                            *)
  doubled,    (* the names that two of them have                             *)
  loading,    (* the build is the one of load_existing_containers            *)
  todo,       (* names a loop or a join has still to do                      *)
  ids,        (* ComposeTest::containers, and before that what create gave   *)
  panicking,  (* thread::panicking()                                         *)
  mine,       (* history: the containers made by this experiment             *)
  refused,    (* history: what docker did not remove when Drop told it to    *)
  builds      (* number of experiments begun                                 *)

docker == <<net, dock, made>>
setup == <<name, flags, wanted, doubled, loading, builds>>
vars == <<docker, pc, setup, todo, ids, panicking, mine, refused>>

NoIds == [n \in Names |-> 0]

Exists(n) == dock[n] # Free
Active(n) == Exists(n) /\ dock[n].state \in {"running", "paused"}
(* list_network_containers, all of them: stopped ones too.                   *)
ContainersOn(w) == {n \in Names : Exists(n) /\ dock[n].net = w}
Endpoints(w) == {n \in Names : Active(n) /\ dock[n].net = w}
Ours == {n \in Names : ids[n] # 0}
Held(n) == Exists(n) /\ dock[n].id = ids[n]
Remove(n) == dock' = [dock EXCEPT ![n] = Free]
SetState(n, s) == dock' = [dock EXCEPT ![n].state = s]

Init ==
  /\ net = None /\ dock = [n \in Names |-> Free] /\ made = NoIds
  /\ pc = "idle" /\ name \in Networks /\ flags \in Flags
  /\ wanted = {} /\ doubled = {} /\ loading = FALSE
  /\ todo = {} /\ ids = NoIds
  /\ panicking = FALSE /\ mine = {} /\ refused = {} /\ builds = 0

-----------------------------------------------------------------------------
(* Builder::build: build_only, then start_all.  load_existing_containers     *)
(* makes a ComposeTest with build_only, to ask docker, and drops it.         *)

Build(w, f, s) ==
  /\ pc = "idle" /\ builds < MaxBuilds
  /\ builds' = builds + 1
  /\ name' = w /\ flags' = f /\ wanted' = s
  /\ doubled' \in SUBSET (s \cap Repeated)
  /\ loading' \in BOOLEAN
  /\ pc' = "listNetworks"
  /\ UNCHANGED <<docker, todo, ids, panicking, mine, refused>>

(* A request fails and its error is returned; the ComposeTest is dropped.    *)
FailsWithWanted ==    \* mutated form: Drop goes by what was asked for
  /\ pc \in {"listNetworks", "pruneOurs", "pruneAll", "removeNetwork",
             "createNetwork", "start"}
  /\ pc' = "drop" /\ todo' = wanted
  /\ UNCHANGED <<docker, setup, ids, panicking, mine, refused>>
BuildFails ==
  /\ pc \in {"listNetworks", "pruneOurs", "pruneAll", "removeNetwork",
             "createNetwork", "start"}
  /\ pc' = "drop" /\ todo' = Ours
  /\ UNCHANGED <<docker, setup, ids, panicking, mine, refused>>

(* network_create: a network of that name is reused, after the containers on *)
(* it are pruned; one of another name is removed, with its containers.  The  *)
(* map of the new ComposeTest is empty: nothing in it matches.               *)
Pruning(s) == pc' = "pruneOurs" /\ todo' = s
RemoveAnother ==
  \/ /\ net \in Networks \ {name}
     /\ pc' = "pruneAll" /\ todo' = ContainersOn(net)
  \/ /\ net = None
     /\ pc' = "createNetwork" /\ UNCHANGED todo

ListWithoutPrune ==    \* mutated form: only what the map holds is pruned
  /\ pc = "listNetworks" /\ ~flags["host"]
  /\ \/ net = name /\ Pruning(IF flags["prune"] THEN Ours ELSE {})
     \/ RemoveAnother
  /\ UNCHANGED <<docker, setup, ids, panicking, mine, refused>>
ListAndPrune ==        \* mutated form: the flag is forgotten
  /\ pc = "listNetworks" /\ ~flags["host"]
  /\ \/ net = name /\ Pruning(ContainersOn(name))
     \/ RemoveAnother
  /\ UNCHANGED <<docker, setup, ids, panicking, mine, refused>>
ListNetworks ==
  /\ pc = "listNetworks" /\ ~flags["host"]
  /\ \/ net = name /\ Pruning(IF flags["prune"] THEN ContainersOn(name) ELSE {})
     \/ RemoveAnother
  /\ UNCHANGED <<docker, setup, ids, panicking, mine, refused>>

(* On the host network there is nothing to create.                           *)
HostNetwork ==
  /\ pc = "listNetworks" /\ flags["host"]
  /\ pc' = "create" /\ todo' = wanted
  /\ UNCHANGED <<docker, setup, ids, panicking, mine, refused>>

(* prune_network_containers removes one of them, and waits until it is gone. *)
PruneAgain(n) ==    \* mutated form: it is still looked up by its name
  /\ pc \in {"pruneOurs", "pruneAll"}
  /\ n \in todo
  /\ Remove(n) /\ todo' = todo
  /\ UNCHANGED <<net, made, pc, setup, ids, panicking, mine, refused>>
Prune(n) ==
  /\ pc \in {"pruneOurs", "pruneAll"}
  /\ n \in todo
  /\ Remove(n) /\ todo' = todo \ {n}
  /\ UNCHANGED <<net, made, pc, setup, ids, panicking, mine, refused>>

Pruned ==
  /\ todo = {}
  /\ \/ pc = "pruneOurs" /\ pc' = "create" /\ todo' = wanted
     \/ pc = "pruneAll" /\ pc' = "removeNetwork" /\ UNCHANGED todo
  /\ UNCHANGED <<docker, setup, ids, panicking, mine, refused>>

NetworkRemove ==
  /\ pc = "removeNetwork"
  /\ Endpoints(net) = {}
  /\ net' = None
  /\ pc' = "createNetwork"
  /\ UNCHANGED <<dock, made, setup, todo, ids, panicking, mine, refused>>

NetworkCreate ==
  /\ pc = "createNetwork"
  /\ net = None
  /\ net' = name
  /\ pc' = "create" /\ todo' = wanted
  /\ UNCHANGED <<dock, made, setup, ids, panicking, mine, refused>>

(* create_container, of all the containers at the same time.  First the one  *)
(* that has the name is removed, if it is there; the answer is not looked at. *)
Replaces == flags["prune"] \/ flags["matching"]

RemoveBefore(n) ==
  /\ pc = "create" /\ n \in todo
  /\ Replaces /\ Exists(n)
  /\ Remove(n)
  /\ UNCHANGED <<net, made, pc, setup, todo, ids, panicking, mine, refused>>

New(n) ==
  [id |-> made[n] + 1, net |-> IF flags["host"] THEN None ELSE name,
   state |-> "created"]

(* Of two containers with one name the map gets the one that was added last, *)
(* which need not be the one that was created last.                          *)
HasOneMore(n) == n \in doubled /\ ids[n] = 0
Given(n) ==
  /\ todo' = IF HasOneMore(n) THEN todo ELSE todo \ {n}
  /\ \/ ids' = [ids EXCEPT ![n] = made[n] + 1]
     \/ n \in doubled /\ ~HasOneMore(n) /\ UNCHANGED ids
  /\ made' = [made EXCEPT ![n] = @ + 1]
  /\ mine' = mine \cup {<<n, made[n] + 1>>}

CreateOrAdopt(n) ==    \* mutated form: a name in use is not an error
  /\ pc = "create" /\ n \in todo
  /\ dock' = [dock EXCEPT ![n] = IF Exists(n) THEN @ ELSE New(n)]
  /\ Given(n)
  /\ UNCHANGED <<net, pc, setup, panicking, refused>>

Create(n) ==
  /\ pc = "create" /\ n \in todo
  /\ ~Exists(n)
  /\ dock' = [dock EXCEPT ![n] = New(n)]
  /\ Given(n)
  /\ UNCHANGED <<net, pc, setup, panicking, refused>>

(* One of them fails, because the name is in use or for another reason, or   *)
(* it panics (ContainerSpec).  What the others were given is lost with their *)
(* futures.                                                                  *)
CreateFails(n) ==
  /\ pc = "create" /\ n \in todo
  /\ panicking' \in BOOLEAN
  /\ pc' = "drop" /\ ids' = NoIds /\ todo' = {}
  /\ UNCHANGED <<docker, setup, mine, refused>>

Created ==
  /\ pc = "create" /\ todo = {}
  /\ \/ loading /\ pc' = "load" /\ UNCHANGED todo
     \/ ~loading /\ flags["autorun"] /\ pc' = "start" /\ todo' = Ours
     \/ ~loading /\ ~flags["autorun"] /\ pc' = "up" /\ UNCHANGED todo
  /\ UNCHANGED <<docker, setup, ids, panicking, mine, refused>>

(* load_existing_containers lists the containers, for the builder to keep    *)
(* their addresses (ComposeBuilder).                                         *)
Load ==
  /\ pc = "load"
  /\ pc' = "drop" /\ todo' = Ours
  /\ UNCHANGED <<docker, setup, ids, panicking, mine, refused>>

(* start does nothing for an experiment that reuses containers.  It goes by  *)
(* id.                                                                       *)
Starts == ~flags["reuse"] \/ flags["matching"]

StartOne(n) ==
  /\ pc = "start" /\ n \in todo
  /\ IF Starts THEN Held(n) /\ SetState(n, "running") ELSE UNCHANGED dock
  /\ todo' = todo \ {n}
  /\ UNCHANGED <<net, made, pc, setup, ids, panicking, mine, refused>>

Started ==
  /\ pc = "start" /\ todo = {}
  /\ pc' = "up"
  /\ UNCHANGED <<docker, setup, todo, ids, panicking, mine, refused>>

-----------------------------------------------------------------------------
(* What the test does with its containers.  A request that cannot be done    *)
(* returns an error and changes nothing.                                     *)

Use(n) ==
  /\ pc = "up" /\ n \in Ours /\ Held(n)
  /\ UNCHANGED <<net, made, pc, setup, todo, ids, panicking, mine, refused>>

Start(n) ==
  /\ Use(n) /\ Starts /\ dock[n].state \in {"created", "exited"}
  /\ SetState(n, "running")
StopOrKill(n) == Use(n) /\ Active(n) /\ SetState(n, "exited")
Restart(n) == Use(n) /\ dock[n].state # "paused" /\ SetState(n, "running")
Pause(n) == Use(n) /\ dock[n].state = "running" /\ SetState(n, "paused")
Thaw(n) == Use(n) /\ dock[n].state = "paused" /\ SetState(n, "running")
Disconnect(n) ==
  /\ Use(n) /\ dock[n].net # None /\ dock[n].net = net
  /\ dock' = [dock EXCEPT ![n].net = None]

(* stop_network_containers and restart_network_containers: all that are on   *)
(* the network, ours or not; some may fail.  What is left of a network that  *)
(* was removed cannot be started.                                            *)
SetNetwork(s, state) ==
  /\ pc = "up"
  /\ s # {} /\ s \subseteq ContainersOn(name)
  /\ dock' = [n \in Names |-> IF n \in s THEN [dock[n] EXCEPT !.state = state]
                                         ELSE dock[n]]
  /\ UNCHANGED <<net, made, pc, setup, todo, ids, panicking, mine, refused>>
StopNetwork(s) == SetNetwork(s, "exited")
RestartNetwork(s) ==
  /\ net = name
  /\ SetNetwork(s, "running") /\ \A n \in s : dock[n].state # "paused"

(* remove_network_containers, too; the map keeps what it held.               *)
RemoveNetworkContainers(s) ==
  /\ pc = "up"
  /\ s # {} /\ s \subseteq ContainersOn(name)
  /\ dock' = [n \in Names |-> IF n \in s THEN Free ELSE dock[n]]
  /\ pc' = "downed"
  /\ UNCHANGED <<net, made, setup, todo, ids, panicking, mine, refused>>

(* down: each container is stopped by its id and removed by its name, then   *)
(* the network is removed; an error panics.                                  *)
Down ==
  /\ pc = "up"
  /\ pc' = "down" /\ todo' = Ours
  /\ UNCHANGED <<docker, setup, ids, panicking, mine, refused>>

DownRemove(n) ==
  /\ pc = "down" /\ n \in todo
  /\ Held(n)
  /\ Remove(n) /\ todo' = todo \ {n}
  /\ UNCHANGED <<net, made, pc, setup, ids, panicking, mine, refused>>

DownNetwork ==
  /\ pc = "down" /\ todo = {}
  /\ net = name => Endpoints(name) = {}
  /\ net' = IF net = name THEN None ELSE net
  /\ pc' = "downed"
  /\ UNCHANGED <<dock, made, setup, todo, ids, panicking, mine, refused>>

Unwind ==
  /\ panicking' = TRUE
  /\ pc' = "drop" /\ todo' = Ours
  /\ UNCHANGED <<docker, setup, ids, mine, refused>>

DownFails == pc = "down" /\ Unwind
LoadFails == pc = "load" /\ Unwind    (* so does load_existing_containers *)
TestPanics == pc \in {"up", "downed"} /\ Unwind

TestEnds ==
  /\ pc \in {"up", "downed"}
  /\ pc' = "drop" /\ todo' = Ours
  /\ UNCHANGED <<docker, setup, ids, panicking, mine, refused>>

-----------------------------------------------------------------------------
(* Drop.  The signals it sends to the names of shutdown_order first may make *)
(* a program end, as it may at any time: Exits.                              *)

Cleans == flags["clean"] /\ (panicking => flags["onPanic"])

Forget ==
  /\ pc' = "idle" /\ todo' = {} /\ ids' = NoIds
  /\ panicking' = FALSE /\ mine' = {} /\ refused' = {}
  /\ wanted' = {} /\ doubled' = {} /\ loading' = FALSE
  /\ UNCHANGED <<made, name, flags, builds>>

DropKeeps ==
  /\ pc = "drop" /\ ~Cleans
  /\ pc' = "dropped"
  /\ UNCHANGED <<docker, setup, todo, ids, panicking, mine, refused>>

(* docker kill -s term, docker kill and docker rm -v, which removes only what *)
(* does not run.  Either may fail: Drop does not look at how they end, and   *)
(* goes on with the next container.                                          *)
RemoveUnlessActive(n, kill, rm) ==    \* mutated form: no docker kill
  IF rm /\ ~Active(n) THEN Remove(n) ELSE UNCHANGED dock
KillAndRemove(n, kill, rm) ==
  IF rm /\ (kill \/ ~Active(n)) THEN Remove(n)
  ELSE IF kill /\ Active(n) THEN SetState(n, "exited")
  ELSE UNCHANGED dock
Refuses(n, kill, rm) == (Active(n) /\ ~kill) \/ (Exists(n) /\ ~rm)

DropContainer(n) ==
  /\ pc = "drop" /\ Cleans /\ n \in todo
  /\ \E kill, rm \in BOOLEAN :
       /\ KillAndRemove(n, kill, rm)
       /\ refused' = refused \cup (IF Refuses(n, kill, rm) THEN {n} ELSE {})
  /\ todo' = todo \ {n}
  /\ UNCHANGED <<net, made, pc, setup, ids, panicking, mine>>

(* docker network rm fails while a running container is connected, and may   *)
(* fail for other reasons.                                                   *)
DropNetworkWaits ==    \* mutated form: until the network is removed
  /\ pc = "drop" /\ Cleans /\ todo = {}
  /\ Endpoints(name) = {}
  /\ net' = IF net = name THEN None ELSE net
  /\ pc' = "dropped"
  /\ UNCHANGED <<dock, made, setup, todo, ids, panicking, mine, refused>>
DropNetwork ==
  /\ pc = "drop" /\ Cleans /\ todo = {}
  /\ \/ /\ net' = IF net = name /\ Endpoints(name) = {} THEN None ELSE net
        /\ UNCHANGED refused
     \/ refused' = refused \cup {name} /\ UNCHANGED net
  /\ pc' = "dropped"
  /\ UNCHANGED <<dock, made, setup, todo, ids, panicking, mine>>

Dropped == pc = "dropped" /\ Forget /\ UNCHANGED <<net, dock>>

(* The process is killed. *)
Crash == pc \notin {"idle", "dropped"} /\ Forget /\ UNCHANGED <<net, dock>>

(* The program in a container ends. *)
Exits(n) ==
  /\ Exists(n) /\ dock[n].state = "running"
  /\ SetState(n, "exited")
  /\ UNCHANGED <<net, made, pc, setup, todo, ids, panicking, mine, refused>>

Building ==
  \/ ListNetworks \/ HostNetwork \/ Pruned \/ NetworkRemove \/ NetworkCreate
  \/ Created \/ Load \/ Started
  \/ \E n \in Names : \/ Prune(n) \/ RemoveBefore(n) \/ Create(n) \/ StartOne(n)
Failing ==
  \/ BuildFails \/ LoadFails
  \/ \E n \in Names : CreateFails(n)
Using ==
  \/ \E n \in Names : \/ Start(n) \/ StopOrKill(n) \/ Restart(n) \/ Pause(n)
                      \/ Thaw(n) \/ Disconnect(n)
  \/ \E s \in SUBSET Names : \/ StopNetwork(s) \/ RestartNetwork(s)
                              \/ RemoveNetworkContainers(s)
  \/ Down \/ TestPanics
Ending ==
  \/ \E n \in Names : DownRemove(n) \/ DropContainer(n)
  \/ DownNetwork \/ DownFails \/ TestEnds \/ DropKeeps \/ DropNetwork \/ Dropped

Next ==
  \/ \E w \in Networks, f \in Flags, s \in SUBSET Names : Build(w, f, s)
  \/ Building \/ Failing \/ Using \/ Ending
  \/ Crash
  \/ \E n \in Names : Exits(n)

Spec == Init /\ [][Next]_vars

(* The process runs, docker answers - with an error when a name is in use or *)
(* an id is gone - and a test ends.                                          *)
Refused ==
  \/ \E n \in Names : Exists(n) /\ CreateFails(n)
  \/ pc = "start" /\ (\E n \in todo : ~Held(n)) /\ BuildFails
FairSpec == Spec /\ WF_vars(Building \/ Refused \/ Ending)

-----------------------------------------------------------------------------
(* Properties.                                                               *)

CTypeOK ==
  /\ net \in Networks \cup {None}
  /\ dock \in [Names -> Container \cup {Free}]
  /\ \A n \in Names : Exists(n) => dock[n].id \in 1..made[n]
  /\ made \in [Names -> Nat]
  /\ name \in Networks /\ flags \in Flags
  /\ doubled \subseteq wanted /\ wanted \subseteq Names /\ todo \subseteq Names
  /\ loading \in BOOLEAN
  /\ pc \in {"create", "start"} => todo \subseteq wanted
  /\ pc \in {"down", "drop"} => todo \subseteq Ours
  /\ ids \in [Names -> Nat]
  /\ panicking \in BOOLEAN /\ refused \subseteq Names \cup Networks
  /\ builds \in 0..MaxBuilds

(* While a test runs, the ids that ComposeTest holds are those of the        *)
(* containers docker has under these names, and of containers this           *)
(* experiment has made: never of one left by an earlier experiment.  Of a    *)
(* name given twice the map may hold the container that is gone.             *)
IdsAreOurs ==
  pc \in {"start", "up"} => \A n \in wanted :
    <<n, ids[n]>> \in mine /\ (n \notin doubled => Held(n))

(* What always holds of an experiment and what it knows of docker.           *)
ExperimentInv == CTypeOK /\ IdsAreOurs

(* With the prune flag no container of an earlier experiment runs on the     *)
(* network when a build is done, whether it has found the network, has       *)
(* removed one of another name for it, or made it anew; and nothing but      *)
(* restart_network_containers, which restarts what was left there stopped,   *)
(* makes one run later.                                                      *)
Alone ==
  pc \in {"start", "up"} /\ flags["prune"] /\ ~flags["host"] =>
    \A n \in Endpoints(name) : <<n, dock[n].id>> \in mine
PrunedIsAlone == [][
  Alone' \/ (pc = "up" /\ (Alone => \E s \in SUBSET Names : RestartNetwork(s)))]_vars

(* Drop with the clean flag takes away every container in the map, running,  *)
(* stopped or paused, and, if nothing else runs on it, the network; all but  *)
(* what docker refuses to remove just then.  What it refuses keeps nothing   *)
(* else from being removed.                                                  *)
Clean ==
  /\ \A n \in Ours : Exists(n) => n \in refused
  /\ net = name => Endpoints(name) # {} \/ name \in refused
DropCleans == [][pc = "drop" /\ pc' = "dropped" /\ Cleans => Clean']_vars

(* What is not this experiment's is left alone where it has to be.           *)
(* Neither Drop, which goes by names, nor down ever removes a container that *)
(* the experiment has not made, however its build has ended.                 *)
EndsOnlyItsOwn ==
  pc \in {"down", "drop"} => \A n \in Names :
    Exists(n) /\ dock'[n] = Free => <<n, dock[n].id>> \in mine

(* load_existing_containers, of a builder that does not prune and has no     *)
(* containers of its own yet, only asks: what is on the network stays as it  *)
(* is, and while anything runs there the network stays too.                  *)
StaysOrExits(n) ==
  dock'[n] = dock[n] \/ dock'[n] = [dock[n] EXCEPT !.state = "exited"]
LoadOnlyAsks ==
  loading /\ wanted = {} /\ ~flags["prune"] =>
    /\ \A n \in ContainersOn(name) : StaysOrExits(n)
    /\ net = name /\ Endpoints(name) # {} => net' = name

(* Ending removes nothing but what the experiment has made, and loading      *)
(* changes nothing of what it is to load.                                    *)
LeavesOthersAlone == [][EndsOnlyItsOwn /\ LoadOnlyAsks]_vars

(* A build returns and a ComposeTest is dropped, whatever docker has.        *)
BuildsReturn == pc = "listNetworks" ~> pc \in {"up", "dropped", "idle"}
DropsReturn == pc = "drop" ~> pc = "idle"

(* Both, in one: neither build nor Drop waits for docker for ever.           *)
BuildsAndDropsReturn == BuildsReturn /\ DropsReturn

(* composer.rs:1033: clean is to "automatically clean up the things we have  *)
(* created for this test".  So it should, when docker refuses nothing.       *)
CreatedIsCleaned ==
  pc = "dropped" /\ Cleans /\ refused = {} => \A n \in Names :
    Exists(n) => <<n, dock[n].id>> \notin mine

=============================================================================
