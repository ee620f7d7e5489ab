------------------------- MODULE ComposeTestProofs -------------------------
(***************************************************************************)
(* Proofs about the life of an experiment: what ComposeTest knows of its   *)
(* containers, that a pruned network is its own, and that neither Drop,    *)
(* down nor loading touches what another experiment has left.              *)
(***************************************************************************)
EXTENDS ComposeTest, TLAPS

USE ComposeAssumption

BeforeCreate == {"listNetworks", "pruneOurs", "pruneAll", "removeNetwork",
                 "createNetwork"}

(* The experiment's network, of the containers it makes.                     *)
OwnNet == IF flags["host"] THEN None ELSE name

(* What mine says: the ids of the map are in it, the containers docker has   *)
(* under the names of the map are, and they are on the experiment's network. *)
MineInv ==
  /\ pc = "idle" => mine = {} /\ ~loading
  /\ pc \in BeforeCreate \cup {"idle"} => ids = NoIds
  /\ Ours \subseteq wanted
  /\ \A n \in Names : ids[n] # 0 =>
       <<n, ids[n]>> \in mine /\ (Exists(n) => <<n, dock[n].id>> \in mine)
  /\ \A n \in Names : Exists(n) /\ <<n, dock[n].id>> \in mine =>
       dock[n].net \in {None, OwnNet}

(* How far the loops are.                                                    *)
LoopInv ==
  /\ pc \in {"create", "start", "up"} =>
       \A n \in wanted : n \notin todo \/ pc # "create" =>
         ids[n] # 0 /\ (n \notin doubled => Held(n))
  /\ pc = "drop" => \A n \in Ours \ todo : Exists(n) => n \in refused
  /\ loading => pc \in BeforeCreate \cup {"create", "load", "drop", "dropped"}

(* A container that runs has no network but the one there is; while a build  *)
(* is on its way to the containers, the network is the one it is after.      *)
NetworkInv ==
  /\ \A n \in Names : Active(n) /\ dock[n].net # None => dock[n].net = net
  /\ pc \in {"create", "start", "up"} /\ ~flags["host"] => net = name
  /\ pc = "pruneOurs" =>
       /\ net = name /\ ~flags["host"]
       /\ IF flags["prune"] THEN Endpoints(name) \subseteq todo ELSE todo = {}
  /\ pc \in {"pruneAll", "removeNetwork"} => net \in Networks \ {name}
  /\ pc = "pruneAll" => todo \subseteq ContainersOn(net)
  /\ pc = "createNetwork" => net = None
  /\ pc \in {"create", "start"} /\ flags["prune"] /\ ~flags["host"] =>
       \A n \in Endpoints(name) : <<n, dock[n].id>> \in mine

CInv == CTypeOK /\ MineInv /\ LoopInv /\ NetworkInv

Docker == [Names -> Container \cup {Free}]

-----------------------------------------------------------------------------
(* What a request does to the containers docker has.                         *)

LEMMA RecordStays ==
  ASSUME NEW c \in Container, NEW s \in {"created", "running", "paused", "exited"}
  PROVE  /\ [c EXCEPT !.state = s] \in Container
         /\ [c EXCEPT !.state = s].id = c.id
         /\ [c EXCEPT !.state = s].net = c.net
         /\ [c EXCEPT !.state = s].state = s
         /\ [c EXCEPT !.net = None] \in Container
         /\ [c EXCEPT !.net = None].id = c.id
         /\ [c EXCEPT !.net = None].net = None
         /\ [c EXCEPT !.net = None].state = c.state
         /\ c # Free
  BY DEF Container

LEMMA StateSet ==
  ASSUME dock \in Docker, NEW n \in Names, Exists(n),
         NEW s \in {"created", "running", "paused", "exited"}, SetState(n, s)
  PROVE  /\ dock' \in Docker
         /\ dock'[n] \in Container /\ dock'[n].state = s
         /\ dock'[n].id = dock[n].id /\ dock'[n].net = dock[n].net
         /\ \A m \in Names \ {n} : dock'[m] = dock[m]
  <1>1. dock[n] \in Container
    BY DEF Docker, Exists
  <1>2. dock' = [dock EXCEPT ![n] = [dock[n] EXCEPT !.state = s]]
    BY DEF SetState
  <1> DEFINE c == [dock[n] EXCEPT !.state = s]
  <1>3. /\ c \in Container /\ c.state = s
        /\ c.id = dock[n].id /\ c.net = dock[n].net
    BY <1>1, RecordStays, ZenonT(40)
  <1>4. dock' = [dock EXCEPT ![n] = c]
    BY <1>2
  <1> HIDE DEF c
  <1> QED BY <1>3, <1>4 DEF Docker

LEMMA NetDropped ==
  ASSUME dock \in Docker, NEW n \in Names, Disconnect(n)
  PROVE  /\ dock' \in Docker
         /\ dock'[n] \in Container /\ dock'[n].state = dock[n].state
         /\ dock'[n].id = dock[n].id /\ dock'[n].net = None
         /\ \A m \in Names \ {n} : dock'[m] = dock[m]
  <1>1. dock[n] \in Container
    BY DEF Docker, Exists, Disconnect, Use, Held
  <1>2. dock' = [dock EXCEPT ![n] = [dock[n] EXCEPT !.net = None]]
    BY DEF Disconnect
  <1> DEFINE c == [dock[n] EXCEPT !.net = None]
  <1>3. /\ c \in Container /\ c.state = dock[n].state
        /\ c.id = dock[n].id /\ c.net = None
    BY <1>1, RecordStays
  <1>4. dock' = [dock EXCEPT ![n] = c]
    BY <1>2
  <1> HIDE DEF c
  <1> QED BY <1>3, <1>4 DEF Docker

LEMMA Removed ==
  ASSUME dock \in Docker, NEW n \in Names, Remove(n)
  PROVE  /\ dock' \in Docker /\ dock'[n] = Free
         /\ \A m \in Names \ {n} : dock'[m] = dock[m]
  BY DEF Docker, Remove

(* Drop's docker kill and docker rm do one of these, or nothing.             *)
LEMMA DropOne ==
  ASSUME dock \in Docker, NEW n \in Names, DropContainer(n)
  PROVE  /\ \/ Remove(n)
            \/ Exists(n) /\ SetState(n, "exited") /\ n \in refused'
            \/ UNCHANGED dock /\ (Exists(n) => n \in refused')
         /\ refused \subseteq refused' /\ refused' \subseteq refused \cup {n}
  <1>1. PICK kill, rm \in BOOLEAN :
          /\ KillAndRemove(n, kill, rm)
          /\ refused' = refused \cup (IF Refuses(n, kill, rm) THEN {n} ELSE {})
    BY DEF DropContainer
  <1> QED BY <1>1 DEF KillAndRemove, Refuses, Active

LEMMA StatesSet ==
  ASSUME dock \in Docker, NEW s \in SUBSET Names,
         NEW t \in {"created", "running", "paused", "exited"}, SetNetwork(s, t)
  PROVE  /\ dock' \in Docker
         /\ \A n \in s : /\ Exists(n) /\ dock'[n] \in Container
                        /\ dock'[n].state = t /\ dock'[n].id = dock[n].id
                        /\ dock'[n].net = dock[n].net /\ dock[n].net = name
         /\ \A m \in Names \ s : dock'[m] = dock[m]
  <1>1. \A n \in s : Exists(n) /\ dock[n] \in Container /\ dock[n].net = name
    BY DEF Docker, Exists, SetNetwork, ContainersOn
  <1>2. \A n \in s : dock'[n] = [dock[n] EXCEPT !.state = t]
    BY DEF SetNetwork
  <1>3. \A n \in Names \ s : dock'[n] = dock[n]
    BY DEF SetNetwork
  <1>4. ASSUME NEW n \in s
        PROVE  /\ dock'[n] \in Container /\ dock'[n].state = t
               /\ dock'[n].id = dock[n].id /\ dock'[n].net = dock[n].net
    <2>1. dock[n] \in Container
      BY <1>1
    <2> DEFINE c == [dock[n] EXCEPT !.state = t]
    <2>2. /\ c \in Container /\ c.state = t
          /\ c.id = dock[n].id /\ c.net = dock[n].net
      BY <2>1 DEF Container
    <2> HIDE DEF c
    <2>3. dock'[n] = c
      BY <1>2 DEF c
    <2> QED BY <2>2, <2>3
  <1>5. dock' \in Docker
    <2>1. \A n \in Names : dock'[n] \in Container \cup {Free}
      BY <1>3, <1>4 DEF Docker
    <2>2. dock' = [n \in Names |-> dock'[n]]
      BY DEF SetNetwork
    <2> QED BY <2>1, <2>2 DEF Docker
  <1> QED BY <1>1, <1>3, <1>4, <1>5

LEMMA SomeRemoved ==
  ASSUME dock \in Docker, NEW s \in SUBSET Names, RemoveNetworkContainers(s)
  PROVE  /\ dock' \in Docker
         /\ \A n \in s : dock'[n] = Free
         /\ \A m \in Names \ s : dock'[m] = dock[m]
  BY DEF Docker, RemoveNetworkContainers

LEMMA NewOne ==
  ASSUME CTypeOK, NEW n \in Names, Create(n)
  PROVE  /\ dock' \in Docker
         /\ dock'[n] \in Container /\ dock'[n].state = "created"
         /\ dock'[n].id = made[n] + 1 /\ dock'[n].net = OwnNet
         /\ \A m \in Names \ {n} : dock'[m] = dock[m]
  <1>1. dock \in Docker /\ made[n] \in Nat /\ name \in Networks
    BY DEF CTypeOK, Docker
  <1>2. New(n) \in Container
    BY <1>1 DEF New, Container
  <1> QED BY <1>1, <1>2 DEF Create, New, OwnNet, Docker

-----------------------------------------------------------------------------
(* The types, and that a loop only goes over what it may.                    *)

LEMMA TypesKept ==
  ASSUME CTypeOK, MineInv, Next
  PROVE  CTypeOK'
  <1> USE DEF CTypeOK, docker, setup, Exists
  <1>0. dock \in Docker
    BY DEF Docker
  <1>1. ASSUME NEW w \in Networks, NEW f \in Flags, NEW s \in SUBSET Names,
               Build(w, f, s)
        PROVE  CTypeOK'
    BY <1>1 DEF Build
  <1>2. CASE ListNetworks
    BY <1>2 DEF ListNetworks, Pruning, RemoveAnother, ContainersOn
  <1>3. CASE HostNetwork
    BY <1>3 DEF HostNetwork
  <1>4. CASE Pruned
    BY <1>4 DEF Pruned
  <1>5. CASE NetworkRemove \/ NetworkCreate
    BY <1>5 DEF NetworkRemove, NetworkCreate
  <1>6. CASE Created \/ Load \/ Started
    BY <1>6 DEF Created, Load, Started, Ours, MineInv
  <1>7. ASSUME NEW n \in Names, Prune(n)
        PROVE  CTypeOK'
    BY <1>0, <1>7, Removed DEF Prune, Docker
  <1>8. ASSUME NEW n \in Names, RemoveBefore(n)
        PROVE  CTypeOK'
    BY <1>0, <1>8, Removed DEF RemoveBefore, Docker
  <1>9. ASSUME NEW n \in Names, Create(n)
        PROVE  CTypeOK'
    <2>1. /\ dock' \in Docker /\ dock'[n] \in Container
          /\ dock'[n].id = made[n] + 1
          /\ \A m \in Names \ {n} : dock'[m] = dock[m]
      BY <1>9, NewOne
    <2>2. /\ made' = [made EXCEPT ![n] = made[n] + 1]
          /\ ids' \in [Names -> Nat]
      BY <1>9 DEF Create, Given
    <2>3. todo' \subseteq todo
      BY <1>9 DEF Create, Given
    <2>4. UNCHANGED <<net, pc, setup, panicking, refused>>
      BY <1>9 DEF Create
    <2>5. \A m \in Names : Exists(m)' => dock'[m].id \in 1..made'[m]
      BY <2>1, <2>2
    <2>6. pc = "create"
      BY <1>9 DEF Create
    <2> QED BY <2>1, <2>2, <2>3, <2>4, <2>5, <2>6 DEF Docker
  <1>10. ASSUME NEW n \in Names, StartOne(n)
         PROVE  CTypeOK'
    BY <1>0, <1>10, StateSet DEF StartOne, Held, Docker
  <1>11. CASE BuildFails \/ LoadFails \/ TestPanics \/ DownFails
    BY <1>11 DEF BuildFails, LoadFails, TestPanics, DownFails, Unwind, Ours
  <1>12. ASSUME NEW n \in Names, CreateFails(n)
         PROVE  CTypeOK'
    BY <1>12 DEF CreateFails, NoIds
  <1>13. ASSUME NEW n \in Names,
                Start(n) \/ StopOrKill(n) \/ Restart(n) \/ Pause(n) \/ Thaw(n)
         PROVE  CTypeOK'
    BY <1>0, <1>13, StateSet
    DEF Start, StopOrKill, Restart, Pause, Thaw, Use, Held, Docker
  <1>14. ASSUME NEW n \in Names, Disconnect(n)
         PROVE  CTypeOK'
    BY <1>0, <1>14, NetDropped DEF Disconnect, Use, Held, Docker
  <1>15. ASSUME NEW s \in SUBSET Names, StopNetwork(s) \/ RestartNetwork(s)
         PROVE  CTypeOK'
    <2>1. PICK t \in {"created", "running", "paused", "exited"} : SetNetwork(s, t)
      BY <1>15 DEF StopNetwork, RestartNetwork
    <2>2. /\ dock' \in Docker
          /\ \A n \in s : Exists(n) /\ dock'[n].id = dock[n].id
          /\ \A m \in Names \ s : dock'[m] = dock[m]
      BY <1>0, <2>1, StatesSet
    <2> QED BY <2>1, <2>2 DEF SetNetwork, Docker
  <1>16. ASSUME NEW s \in SUBSET Names, RemoveNetworkContainers(s)
         PROVE  CTypeOK'
    BY <1>0, <1>16, SomeRemoved DEF RemoveNetworkContainers, Docker
  <1>17. CASE Down \/ TestEnds
    BY <1>17 DEF Down, TestEnds, Ours
  <1>18. ASSUME NEW n \in Names, DownRemove(n) \/ DropContainer(n)
         PROVE  CTypeOK'
    <2>1. CASE DownRemove(n)
      BY <1>0, <2>1, Removed DEF DownRemove, Ours, Docker
    <2>2. CASE DropContainer(n)
      <3>1. /\ dock' \in Docker
            /\ \A m \in Names : Exists(m)' => Exists(m) /\ dock'[m].id = dock[m].id
        BY <1>0, <2>2, DropOne, Removed, StateSet
      <3>2. refused' \subseteq Names \cup Networks
        BY <1>0, <2>2, DropOne
      <3>3. /\ todo' = todo \ {n} /\ pc = "drop"
            /\ UNCHANGED <<net, made, pc, setup, ids, panicking>>
        BY <2>2 DEF DropContainer
      <3> QED BY <3>1, <3>2, <3>3 DEF Docker, Ours
    <2> QED BY <1>18, <2>1, <2>2
  <1>19. CASE DownNetwork \/ DropKeeps \/ DropNetwork
    BY <1>19 DEF DownNetwork, DropKeeps, DropNetwork, Ours
  <1>20. CASE Dropped \/ Crash
    <2>1. Forget /\ UNCHANGED <<net, dock>>
      BY <1>20 DEF Dropped, Crash
    <2> QED BY <2>1 DEF Forget, NoIds
  <1>21. ASSUME NEW n \in Names, Exits(n)
         PROVE  CTypeOK'
    BY <1>0, <1>21, StateSet DEF Exits, Ours, Docker
  <1> QED
    BY <1>1, <1>2, <1>3, <1>4, <1>5, <1>6, <1>7, <1>8, <1>9, <1>10, <1>11,
       <1>12, <1>13, <1>14, <1>15, <1>16, <1>17, <1>18, <1>19, <1>20, <1>21
    DEF Next, Building, Failing, Using, Ending

-----------------------------------------------------------------------------
(* Only create brings a container; every other step leaves what docker has,  *)
(* or less of it, and takes a container from its network at most.            *)

Thins ==
  \A m \in Names : Exists(m)' =>
    Exists(m) /\ dock'[m].id = dock[m].id /\ dock'[m].net \in {dock[m].net, None}

LEMMA NothingNew ==
  ASSUME CTypeOK, Next, \A n \in Names : ~Create(n)
  PROVE  Thins
  <1> USE DEF Thins, Exists
  <1>0. dock \in Docker
    BY DEF CTypeOK, Docker
  <1>1. CASE UNCHANGED dock
    BY <1>1
  <1>2. ASSUME NEW n \in Names, Remove(n)
        PROVE  Thins
    BY <1>0, <1>2, Removed
  <1>3. ASSUME NEW n \in Names, Exists(n), SetState(n, "running") \/
                 SetState(n, "paused") \/ SetState(n, "exited")
        PROVE  Thins
    BY <1>0, <1>3, StateSet
  <1>4. ASSUME NEW n \in Names, Disconnect(n)
        PROVE  Thins
    BY <1>0, <1>4, NetDropped DEF Disconnect, Use, Held
  <1>5. ASSUME NEW s \in SUBSET Names, StopNetwork(s) \/ RestartNetwork(s)
        PROVE  Thins
    <2>1. PICK t \in {"created", "running", "paused", "exited"} : SetNetwork(s, t)
      BY <1>5 DEF StopNetwork, RestartNetwork
    <2> QED BY <1>0, <2>1, StatesSet
  <1>6. ASSUME NEW s \in SUBSET Names, RemoveNetworkContainers(s)
        PROVE  Thins
    BY <1>0, <1>6, SomeRemoved
  <1>7. CASE Building
    BY <1>1, <1>2, <1>3, <1>7
    DEF Building, ListNetworks, HostNetwork, Pruned, NetworkRemove,
        NetworkCreate, Created, Load, Started, Prune, RemoveBefore, StartOne,
        Held, docker
  <1>8. CASE Failing
    BY <1>1, <1>8
    DEF Failing, BuildFails, LoadFails, CreateFails, Unwind, docker
  <1>9. CASE Using
    BY <1>1, <1>3, <1>4, <1>5, <1>6, <1>9
    DEF Using, Start, StopOrKill, Restart, Pause, Thaw, Use, Held, Down,
        TestPanics, Unwind, docker
  <1>10. CASE Ending
    <2>1. ASSUME NEW n \in Names, DropContainer(n)
          PROVE  Thins
      BY <1>0, <1>1, <1>2, <1>3, <2>1, DropOne
    <2> QED
      BY <1>1, <1>2, <1>10, <2>1
      DEF Ending, DownRemove, DownNetwork, DownFails, Unwind, TestEnds,
          DropKeeps, DropNetwork, Dropped, docker
  <1> QED
    BY <1>1, <1>3, <1>7, <1>8, <1>9, <1>10
    DEF Next, Build, Crash, Exits, docker

(* So the history and the map only have to be followed where they change.    *)
LEMMA MineKept ==
  ASSUME CTypeOK, MineInv, Next
  PROVE  MineInv'
  <1> USE DEF MineInv, Exists
  <1>1. ASSUME NEW n \in Names, Create(n)
        PROVE  MineInv'
    <2>1. /\ pc = "create" /\ n \in wanted /\ UNCHANGED <<pc, setup>>
          /\ mine' = mine \cup {<<n, made[n] + 1>>}
      BY <1>1 DEF Create, Given, CTypeOK
    <2>2. /\ \A m \in Names \ {n} : ids'[m] = ids[m]
          /\ ids'[n] \in {made[n] + 1, ids[n]}
      BY <1>1 DEF Create, Given, CTypeOK
    <2>3. /\ dock'[n].id = made[n] + 1 /\ dock'[n].net = OwnNet
          /\ \A m \in Names \ {n} : dock'[m] = dock[m]
      BY <1>1, NewOne
    <2>4. OwnNet' = OwnNet
      BY <2>1 DEF OwnNet, setup
    <2>5. \A m \in Names : <<m, ids'[m]>> \in mine' \/ ids'[m] = 0
      BY <2>1, <2>2
    <2>6. \A m \in Names : Exists(m)' /\ ids'[m] # 0 => <<m, dock'[m].id>> \in mine'
      BY <2>1, <2>2, <2>3
    <2>7. \A m \in Names : Exists(m)' /\ <<m, dock'[m].id>> \in mine' =>
            dock'[m].net \in {None, OwnNet'}
      BY <2>1, <2>3, <2>4
    <2>8. (Ours \subseteq wanted)'
      BY <2>1, <2>2 DEF Ours, setup
    <2> QED BY <2>1, <2>5, <2>6, <2>7, <2>8 DEF BeforeCreate, setup
  <1>2. ASSUME \A n \in Names : ~Create(n)
        PROVE  MineInv'
    <2>1. Thins
      BY <1>2, NothingNew
    <2>2. ASSUME UNCHANGED <<setup, ids, mine>>, pc' # "idle",
                 pc' \in BeforeCreate => pc \in BeforeCreate
          PROVE  MineInv'
      <3>1. UNCHANGED <<name, flags, wanted, loading, ids, mine, OwnNet, Ours>>
        BY <2>2 DEF setup, OwnNet, Ours
      <3> QED BY <2>1, <2>2, <3>1 DEF Thins
    <2>3. CASE \E w \in Networks, f \in Flags, s \in SUBSET Names : Build(w, f, s)
      BY <2>3 DEF Build, docker, BeforeCreate, Ours, NoIds
    <2>4. CASE Dropped \/ Crash
      <3>1. pc' = "idle" /\ ids' = NoIds /\ mine' = {} /\ loading' = FALSE
        BY <2>4 DEF Dropped, Crash, Forget
      <3> QED BY <3>1 DEF Ours, NoIds
    <2>5. ASSUME NEW n \in Names, CreateFails(n)
          PROVE  MineInv'
      <3>1. UNCHANGED <<docker, setup, mine>> /\ pc' = "drop" /\ ids' = NoIds
        BY <2>5 DEF CreateFails
      <3> QED BY <3>1 DEF Ours, NoIds, docker, setup, OwnNet, BeforeCreate
    <2>6. CASE Building
      BY <1>2, <2>2, <2>6
      DEF Building, ListNetworks, Pruning, RemoveAnother, HostNetwork, Pruned,
          NetworkRemove, NetworkCreate, Created, Load, Started, Prune,
          RemoveBefore, StartOne, BeforeCreate
    <2>7. CASE Failing
      BY <2>2, <2>5, <2>7
      DEF Failing, BuildFails, LoadFails, Unwind, BeforeCreate
    <2>8. CASE Using
      BY <2>2, <2>8
      DEF Using, Start, StopOrKill, Restart, Pause, Thaw, Disconnect, Use,
          StopNetwork, RestartNetwork, SetNetwork, RemoveNetworkContainers,
          Down, TestPanics, Unwind, BeforeCreate
    <2>9. CASE Ending
      BY <2>2, <2>4, <2>9
      DEF Ending, DownRemove, DropContainer, DownNetwork, DownFails, Unwind,
          TestEnds, DropKeeps, DropNetwork, BeforeCreate
    <2>10. ASSUME NEW n \in Names, Exits(n)
           PROVE  MineInv'
      <3>1. UNCHANGED <<pc, setup, ids, mine>>
        BY <2>10 DEF Exits
      <3>2. UNCHANGED <<name, flags, wanted, loading, OwnNet, Ours>>
        BY <3>1 DEF setup, OwnNet, Ours
      <3> QED BY <2>1, <3>1, <3>2 DEF Thins
    <2> QED BY <2>3, <2>4, <2>6, <2>7, <2>8, <2>9, <2>10 DEF Next
  <1> QED BY <1>1, <1>2

-----------------------------------------------------------------------------
(* What the loops have done.  While a build creates and starts, and while a  *)
(* test runs, a container goes away for the one create puts in its place, or *)
(* not at all.                                                               *)

Stays == \A m \in Names : Exists(m) => Exists(m)' /\ dock'[m].id = dock[m].id

LEMMA NothingGone ==
  ASSUME CTypeOK, Next, pc' \in {"create", "start", "up"},
         \A n \in Names : ~RemoveBefore(n)
  PROVE  Stays
  <1> USE DEF Stays, Exists
  <1>0. dock \in Docker
    BY DEF CTypeOK, Docker
  <1>1. CASE UNCHANGED dock
    BY <1>1
  <1>2. ASSUME NEW n \in Names, Exists(n), SetState(n, "running") \/
                 SetState(n, "paused") \/ SetState(n, "exited")
        PROVE  Stays
    BY <1>0, <1>2, StateSet, RecordStays
  <1>3. ASSUME NEW n \in Names, Disconnect(n)
        PROVE  Stays
    BY <1>0, <1>3, NetDropped, RecordStays
  <1>4. ASSUME NEW s \in SUBSET Names, StopNetwork(s) \/ RestartNetwork(s)
        PROVE  Stays
    <2>1. PICK t \in {"created", "running", "paused", "exited"} : SetNetwork(s, t)
      BY <1>4 DEF StopNetwork, RestartNetwork
    <2> QED BY <1>0, <2>1, StatesSet, RecordStays
  <1>5. CASE Building
    <2>1. ASSUME NEW n \in Names, Create(n)
          PROVE  Stays
      BY <2>1, NewOne DEF Create
    <2> QED
      BY <1>1, <1>2, <1>5, <2>1
      DEF Building, ListNetworks, Pruning, RemoveAnother, HostNetwork, Pruned,
          NetworkRemove, NetworkCreate, Created, Load, Started, Prune,
          StartOne, Held, docker
  <1>6. CASE Failing
    BY <1>6 DEF Failing, BuildFails, LoadFails, CreateFails, Unwind
  <1>7. CASE Using
    BY <1>1, <1>2, <1>3, <1>4, <1>7
    DEF Using, Start, StopOrKill, Restart, Pause, Thaw, Use, Held, Down,
        RemoveNetworkContainers, TestPanics, Unwind
  <1>8. CASE Ending
    BY <1>8
    DEF Ending, DownRemove, DropContainer, DownNetwork, DownFails, Unwind,
        TestEnds, DropKeeps, DropNetwork, Dropped, Forget
  <1> QED
    BY <1>2, <1>5, <1>6, <1>7, <1>8 DEF Next, Build, Crash, Forget, Exits

LEMMA LoopKept ==
  ASSUME CTypeOK, MineInv, LoopInv, Next
  PROVE  LoopInv'
  <1> USE DEF LoopInv, Exists, Held
  (* All that is wanted has an id, and docker has it.                        *)
  <1>1. ASSUME pc' \in {"create", "start", "up"}, NEW m \in wanted',
               m \notin todo' \/ pc' # "create"
        PROVE  ids'[m] # 0 /\ (m \notin doubled' => Held(m)')
    <2>0. m \in Names
      BY <1>1, TypesKept DEF CTypeOK
    <2>1. CASE \E n \in Names : RemoveBefore(n)
      <3>1. PICK n \in Names : RemoveBefore(n)
        BY <2>1
      <3>2. n # m /\ dock'[m] = dock[m] /\ dock \in Docker
        BY <1>1, <2>0, <3>1, Removed DEF RemoveBefore, CTypeOK, Docker
      <3> QED BY <1>1, <3>1, <3>2 DEF RemoveBefore, setup
    <2>2. CASE \E n \in Names : Create(n)
      <3>1. PICK n \in Names : Create(n)
        BY <2>2
      <3>2. CASE m = n
        <4>1. \/ ids'[n] = made[n] + 1
              \/ n \in doubled /\ ids[n] # 0 /\ ids' = ids
          BY <3>1 DEF Create, Given, HasOneMore, CTypeOK
        <4>2. ids'[n] # 0
          BY <4>1 DEF CTypeOK
        <4>3. n \notin doubled => ids'[n] = made[n] + 1
          BY <4>1
        <4>4. dock'[n] \in Container /\ dock'[n].id = made[n] + 1
          BY <3>1, NewOne
        <4>5. dock'[n] # Free
          BY <4>4, RecordStays
        <4>6. doubled' = doubled
          BY <3>1 DEF Create, setup
        <4> QED BY <3>2, <4>2, <4>3, <4>4, <4>5, <4>6
      <3>3. CASE m # n
        <4>1. ids'[m] = ids[m] /\ (m \in todo => m \in todo')
          BY <3>1, <3>3, <2>0 DEF Create, Given, CTypeOK
        <4>2. dock'[m] = dock[m]
          BY <3>1, <3>3, <2>0, NewOne
        <4> QED BY <1>1, <3>1, <4>1, <4>2 DEF Create, setup
      <3> QED BY <3>2, <3>3
    <2>3. CASE \A n \in Names : ~RemoveBefore(n) /\ ~Create(n)
      <3>1. Stays
        BY <1>1, <2>3, NothingGone
      <3>2. /\ UNCHANGED <<wanted, doubled, ids>>
            /\ pc \in {"create", "start", "up"}
            /\ m \notin todo \/ pc # "create"
        <4>1. CASE Building
          BY <1>1, <2>3, <4>1
          DEF Building, ListNetworks, Pruning, RemoveAnother, HostNetwork,
              Pruned, NetworkRemove, NetworkCreate, Created, Load, Started,
              Prune, StartOne, setup
        <4>2. CASE Using
          BY <1>1, <4>2
          DEF Using, Start, StopOrKill, Restart, Pause, Thaw, Disconnect, Use,
              Down, StopNetwork, RestartNetwork, SetNetwork,
              RemoveNetworkContainers, TestPanics, Unwind, setup
        <4> QED
          BY <1>1, <4>1, <4>2
          DEF Next, Build, Failing, BuildFails, LoadFails, CreateFails, Unwind,
              Ending, DownRemove, DropContainer, DownNetwork, DownFails,
              TestEnds, DropKeeps, DropNetwork, Dropped, Crash, Forget, Exits,
              setup
      <3> QED BY <2>0, <3>1, <3>2 DEF Stays
    <2> QED BY <2>1, <2>2, <2>3
  (* What Drop has passed is gone, or refused.                               *)
  <1>2. ASSUME pc' = "drop", NEW m \in Ours' \ todo', Exists(m)'
        PROVE  m \in refused'
    <2>1. Thins
      <3> SUFFICES ASSUME NEW n \in Names, Create(n) PROVE FALSE
        BY NothingNew
      <3> QED BY <1>2 DEF Create
    <2>2. m \in Names
      BY DEF Ours
    <2>3. CASE pc # "drop"
      <3>1. (todo' = Ours /\ ids' = ids) \/ ids' = NoIds
        BY <1>2, <2>3
        DEF Next, Build, Building, ListNetworks, Pruning, RemoveAnother,
            HostNetwork, Pruned, NetworkRemove, NetworkCreate, Created, Load,
            Started, Prune, RemoveBefore, Create, StartOne, Failing, BuildFails,
            LoadFails, CreateFails, Unwind, Using, Start, StopOrKill, Restart,
            Pause, Thaw, Disconnect, Use, StopNetwork, RestartNetwork,
            SetNetwork, RemoveNetworkContainers, Down, TestPanics, Ending,
            DownRemove, DropContainer, DownNetwork, DownFails, TestEnds,
            DropKeeps, DropNetwork, Dropped, Crash, Forget, Exits
      <3> QED BY <2>2, <3>1 DEF Ours, NoIds
    <2>4. CASE pc = "drop"
      <3>1. CASE \E n \in Names : DropContainer(n)
        <4>1. PICK n \in Names : DropContainer(n)
          BY <3>1
        <4>2. dock \in Docker
          BY DEF CTypeOK, Docker
        <4>3. m = n \/ m \in Ours \ todo
          BY <4>1 DEF DropContainer, Ours
        <4>4. ASSUME m = n
              PROVE  m \in refused'
          <5>1. ~Remove(n) /\ Exists(n)
            BY <1>2, <2>1, <2>2, <4>2, <4>4, Removed DEF Thins, Exists
          <5> QED BY <4>1, <4>2, <4>4, <5>1, DropOne
        <4>5. ASSUME m \in Ours \ todo
              PROVE  m \in refused'
          <5>1. m \in refused
            BY <1>2, <2>1, <2>2, <2>4, <4>5 DEF Thins
          <5> QED BY <4>1, <4>2, <5>1, DropOne
        <4> QED BY <4>3, <4>4, <4>5
      <3>2. CASE \A n \in Names : ~DropContainer(n)
        <4>1. UNCHANGED <<ids, todo, refused>>
          BY <1>2, <2>4, <3>2
          DEF Next, Build, Building, ListNetworks, Pruning, RemoveAnother,
              HostNetwork, Pruned, NetworkRemove, NetworkCreate, Created, Load,
              Started, Prune, RemoveBefore, Create, StartOne, Failing,
              BuildFails, LoadFails, CreateFails, Unwind, Using, Start,
              StopOrKill, Restart, Pause, Thaw, Disconnect, Use, StopNetwork,
              RestartNetwork, SetNetwork, RemoveNetworkContainers, Down,
              TestPanics, Ending, DownRemove, DownNetwork, DownFails, TestEnds,
              DropKeeps, DropNetwork, Dropped, Crash, Forget, Exits
        <4> QED BY <1>2, <2>1, <2>2, <2>4, <4>1 DEF Thins, Ours
      <3> QED BY <3>1, <3>2
    <2> QED BY <2>3, <2>4
  (* Loading never gets to a container that runs.                            *)
  <1>3. (loading => pc \in BeforeCreate \cup {"create", "load", "drop", "dropped"})'
    <2>1. CASE Building
      BY <2>1
      DEF Building, ListNetworks, Pruning, RemoveAnother, HostNetwork, Pruned,
          NetworkRemove, NetworkCreate, Created, Load, Started, Prune,
          RemoveBefore, Create, StartOne, setup, BeforeCreate
    <2>2. CASE Failing
      BY <2>2
      DEF Failing, BuildFails, LoadFails, CreateFails, Unwind, setup
    <2>3. CASE Using
      BY <2>3, ZenonT(40)
      DEF Using, Start, StopOrKill, Restart, Pause, Thaw, Disconnect, Use, Down,
          StopNetwork, RestartNetwork, SetNetwork, RemoveNetworkContainers,
          TestPanics, Unwind, setup, BeforeCreate
    <2>4. CASE Ending
      BY <2>4
      DEF Ending, DownRemove, DropContainer, DownNetwork, DownFails, Unwind,
          TestEnds, DropKeeps, DropNetwork, Dropped, Forget, setup,
          BeforeCreate
    <2> QED
      BY <2>1, <2>2, <2>3, <2>4
      DEF Next, Build, Crash, Forget, Exits, BeforeCreate, setup
  <1> QED BY <1>1, <1>2, <1>3

-----------------------------------------------------------------------------
(* The network.  A container that runs was running, or is one the experiment *)
(* holds, or has been restarted with its network.                            *)

LEMMA Wakes ==
  ASSUME CTypeOK, Next, NEW m \in Names, Active(m)'
  PROVE  \/ Active(m)
         \/ pc \in {"start", "up"} /\ m \in Ours /\ Held(m)
         \/ /\ net = name /\ dock[m].net = name /\ pc = "up"
            /\ \E s \in SUBSET Names : RestartNetwork(s)
  <1> USE DEF Active, Exists
  <1>0. dock \in Docker
    BY DEF CTypeOK, Docker
  <1> DEFINE Reason ==
               \/ Active(m)
               \/ pc \in {"start", "up"} /\ m \in Ours /\ Held(m)
               \/ /\ net = name /\ dock[m].net = name /\ pc = "up"
                  /\ \E s \in SUBSET Names : RestartNetwork(s)
  <1>1. CASE dock'[m] = dock[m]
    BY <1>1
  <1>2. CASE dock'[m] = Free
    BY <1>2
  <1>3. ASSUME NEW n \in Names, Exists(n), SetState(n, "exited")
        PROVE  Reason
    BY <1>0, <1>3, StateSet
  <1>4. ASSUME NEW n \in Names, pc \in {"start", "up"}, Held(n),
               SetState(n, "running") \/ SetState(n, "paused")
        PROVE  Reason
    <2>1. n \in Ours
      BY <1>4 DEF Held, Ours, CTypeOK
    <2> QED BY <1>0, <1>4, <2>1, StateSet DEF Held
  <1>5. ASSUME NEW n \in Names, Disconnect(n)
        PROVE  Reason
    BY <1>0, <1>5, NetDropped DEF Disconnect, Use, Held
  <1>6. ASSUME NEW s \in SUBSET Names, StopNetwork(s)
        PROVE  Reason
    BY <1>0, <1>6, StatesSet DEF StopNetwork
  <1>7. ASSUME NEW s \in SUBSET Names, RestartNetwork(s)
        PROVE  Reason
    BY <1>0, <1>7, StatesSet DEF RestartNetwork, SetNetwork
  <1>8. ASSUME NEW s \in SUBSET Names, RemoveNetworkContainers(s)
        PROVE  Reason
    BY <1>0, <1>8, SomeRemoved
  <1>9. ASSUME NEW n \in Names, Remove(n)
        PROVE  Reason
    BY <1>0, <1>9, Removed
  <1>10. ASSUME NEW n \in Names, Create(n)
         PROVE  Reason
    BY <1>10, NewOne
  <1>11. CASE UNCHANGED dock
    BY <1>1, <1>11
  <1>12. CASE Building
    BY <1>4, <1>9, <1>10, <1>11, <1>12
    DEF Building, ListNetworks, HostNetwork, Pruned, NetworkRemove,
        NetworkCreate, Created, Load, Started, Prune, RemoveBefore, StartOne,
        docker
  <1>13. CASE Failing
    BY <1>11, <1>13
    DEF Failing, BuildFails, LoadFails, CreateFails, Unwind, docker
  <1>14. CASE Using
    BY <1>3, <1>4, <1>5, <1>6, <1>7, <1>8, <1>11, <1>14
    DEF Using, Start, StopOrKill, Restart, Pause, Thaw, Use, Held, Down,
        TestPanics, Unwind, docker
  <1>15. CASE Ending
    <2>1. ASSUME NEW n \in Names, DropContainer(n)
          PROVE  Reason
      BY <1>0, <1>3, <1>9, <1>11, <2>1, DropOne
    <2> QED
      BY <1>9, <1>11, <1>15, <2>1
      DEF Ending, DownRemove, DownNetwork, DownFails, Unwind, TestEnds,
          DropKeeps, DropNetwork, Dropped, docker
  <1> QED
    BY <1>3, <1>11, <1>12, <1>13, <1>14, <1>15
    DEF Next, Build, Crash, Exits, docker

(* Where a build is says which network there is.                             *)
LEMMA NetworkFollowed ==
  ASSUME CTypeOK, NetworkInv, Next
  PROVE  /\ (pc \in {"create", "start", "up"} /\ ~flags["host"] => net = name)'
         /\ (pc = "pruneOurs" => net = name /\ ~flags["host"])'
         /\ (pc \in {"pruneAll", "removeNetwork"} => net \in Networks \ {name})'
         /\ (pc = "createNetwork" => net = None)'
  <1> USE DEF NetworkInv
  <1>1. CASE Building
    BY <1>1
    DEF Building, ListNetworks, Pruning, RemoveAnother, HostNetwork, Pruned,
        NetworkRemove, NetworkCreate, Created, Load, Started, Prune,
        RemoveBefore, Create, StartOne, setup, docker
  <1>2. CASE Failing \/ Using
    BY <1>2
    DEF Failing, BuildFails, LoadFails, CreateFails, Unwind, Using, Start,
        StopOrKill, Restart, Pause, Thaw, Disconnect, Use, StopNetwork,
        RestartNetwork, SetNetwork, RemoveNetworkContainers, Down, TestPanics,
        setup, docker
  <1>3. CASE Ending
    BY <1>3
    DEF Ending, DownRemove, DropContainer, DownNetwork, DownFails, Unwind,
        TestEnds, DropKeeps, DropNetwork, Dropped, Forget
  <1> QED
    BY <1>1, <1>2, <1>3
    DEF Next, Build, Crash, Forget, Exits, setup, docker

LEMMA NetworkKept ==
  ASSUME CTypeOK, MineInv, NetworkInv, Next
  PROVE  NetworkInv'
  <1> USE DEF NetworkInv
  <1>0. \A n \in Names : n \in Ours /\ Held(n) =>
          <<n, dock[n].id>> \in mine /\ dock[n].net \in {None, OwnNet}
    BY DEF MineInv, Ours, Held
  (* A network is removed when nothing runs on it.                           *)
  <1>1. ASSUME NEW m \in Names, Active(m)', dock'[m].net # None
        PROVE  dock'[m].net = net'
    <2>1. ~Create(m)
      BY <1>1, NewOne DEF Active
    <2>2. Exists(m) /\ dock'[m].net = dock[m].net
      <3>1. Thins \/ \E n \in Names \ {m} : Create(n)
        BY <2>1, NothingNew
      <3>2. ASSUME NEW n \in Names \ {m}, Create(n)
            PROVE  dock'[m] = dock[m]
        BY <3>2, NewOne
      <3> QED BY <1>1, <3>1, <3>2 DEF Thins, Active, Exists
    <2>3. dock[m].net = net
      <3>1. CASE Active(m)
        BY <1>1, <2>2, <3>1
      <3>2. CASE pc \in {"start", "up"} /\ m \in Ours /\ Held(m)
        BY <1>0, <1>1, <2>2, <3>2 DEF OwnNet
      <3> QED BY <1>1, <3>1, <3>2, Wakes
    <2>4. CASE net' # net
      <3>1. Active(m) /\ dock' = dock
        BY <1>1, <2>4, Wakes
        DEF Next, Build, Building, ListNetworks, HostNetwork, Pruned,
            NetworkRemove, NetworkCreate, Created, Load, Started, Prune,
            RemoveBefore, Create, StartOne, Failing, BuildFails, LoadFails,
            CreateFails, Unwind, Using, Start, StopOrKill, Restart, Pause, Thaw,
            Disconnect, Use, StopNetwork, RestartNetwork, SetNetwork,
            RemoveNetworkContainers, Down, TestPanics, Ending, DownRemove,
            DropContainer, DownNetwork, DownFails, TestEnds, DropKeeps,
            DropNetwork, Dropped, Crash, Exits, docker
      <3>2. m \in Endpoints(net)
        BY <2>3, <3>1 DEF Endpoints
      <3>3. net # None
        BY <1>1, <2>2, <2>3
      <3> QED
        BY <2>4, <3>2, <3>3
        DEF Next, Build, Building, ListNetworks, HostNetwork, Pruned,
            NetworkRemove, NetworkCreate, Created, Load, Started, Prune,
            RemoveBefore, Create, StartOne, Failing, BuildFails, LoadFails,
            CreateFails, Unwind, Using, Start, StopOrKill, Restart, Pause, Thaw,
            Disconnect, Use, StopNetwork, RestartNetwork, SetNetwork,
            RemoveNetworkContainers, Down, TestPanics, Ending, DownRemove,
            DropContainer, DownNetwork, DownFails, TestEnds, DropKeeps,
            DropNetwork, Dropped, Crash, Exits, docker
    <2> QED BY <2>2, <2>3, <2>4
  (* What a loop of prune has still to remove.                               *)
  <1>2. ASSUME pc' \in {"pruneOurs", "pruneAll"}
        PROVE  \/ ListNetworks
               \/ \E n \in Names : Prune(n)
               \/ Thins /\ UNCHANGED <<net, name, flags, todo, pc>>
                  /\ \E n \in Names : Exits(n)
    BY <1>2, NothingNew
    DEF Next, Build, Building, HostNetwork, Pruned, NetworkRemove,
        NetworkCreate, Created, Load, Started, RemoveBefore, Create, StartOne,
        Failing, BuildFails, LoadFails, CreateFails, Unwind, Using, Start,
        StopOrKill, Restart, Pause, Thaw, Disconnect, Use, StopNetwork,
        RestartNetwork, SetNetwork, RemoveNetworkContainers, Down, TestPanics,
        Ending, DownRemove, DropContainer, DownNetwork, DownFails, TestEnds,
        DropKeeps, DropNetwork, Dropped, Crash, Forget, Exits, setup
  <1>3. ASSUME pc' = "pruneOurs"
        PROVE  /\ flags'["prune"] => Endpoints(name)' \subseteq todo'
               /\ ~flags'["prune"] => todo' = {}
    <2>1. CASE ListNetworks
      BY <1>3, <2>1
      DEF ListNetworks, Pruning, RemoveAnother, ContainersOn, Endpoints, Active,
          Exists, docker, setup
    <2>2. CASE \E n \in Names : Prune(n)
      <3>1. PICK n \in Names : Prune(n)
        BY <2>2
      <3>2. /\ dock'[n] = Free
            /\ \A m \in Names \ {n} : dock'[m] = dock[m]
        BY <3>1, Removed DEF Prune, CTypeOK, Docker
      <3> QED
        BY <1>3, <3>1, <3>2 DEF Prune, setup, Endpoints, Active, Exists
    <2>3. CASE Thins /\ UNCHANGED <<net, name, flags, todo, pc>>
      <3>1. ASSUME NEW m \in Endpoints(name)'
            PROVE  m \in Endpoints(name)
        <4>1. m \in Names /\ Active(m)' /\ dock'[m].net = name
          BY <2>3 DEF Endpoints
        <4>2. Active(m)
          BY <1>3, <2>3, <4>1, Wakes
        <4>3. dock[m].net = name
          BY <2>3, <4>1 DEF Thins, Active, CTypeOK
        <4> QED BY <4>1, <4>2, <4>3 DEF Endpoints
      <3> QED BY <1>3, <2>3, <3>1
    <2> QED BY <1>2, <1>3, <2>1, <2>2, <2>3
  <1>4. ASSUME pc' = "pruneAll"
        PROVE  todo' \subseteq ContainersOn(net)'
    <2>1. CASE ListNetworks
      BY <1>4, <2>1
      DEF ListNetworks, Pruning, RemoveAnother, ContainersOn, Exists, docker
    <2>2. CASE \E n \in Names : Prune(n)
      <3>1. PICK n \in Names : Prune(n)
        BY <2>2
      <3>2. \A m \in Names \ {n} : dock'[m] = dock[m]
        BY <3>1, Removed DEF Prune, CTypeOK, Docker
      <3> QED BY <1>4, <3>1, <3>2 DEF Prune, ContainersOn, Exists
    <2>3. CASE \E n \in Names : Exits(n)
      <3>1. PICK n \in Names : Exits(n)
        BY <2>3
      <3>2. /\ dock'[n] \in Container /\ dock'[n].net = dock[n].net
            /\ \A m \in Names \ {n} : dock'[m] = dock[m]
        BY <3>1, StateSet DEF Exits, CTypeOK, Docker
      <3> QED
        BY <1>4, <3>1, <3>2, RecordStays DEF Exits, ContainersOn, Exists
    <2> QED BY <1>2, <1>4, <2>1, <2>2, <2>3
  (* While a build of a pruned network goes on, what runs there is its own.  *)
  <1>5. ASSUME pc' \in {"create", "start"}, flags'["prune"], ~flags'["host"],
               NEW m \in Endpoints(name)'
        PROVE  <<m, dock'[m].id>> \in mine'
    <2>1. m \in Names /\ Active(m)' /\ dock'[m].net = name'
      BY DEF Endpoints
    <2>2. CASE Pruned \/ NetworkCreate
      BY <1>5, <2>1, <2>2
      DEF Pruned, NetworkCreate, Endpoints, Active, Exists, setup, docker,
          CTypeOK
    <2>3. CASE \E n \in Names : Create(n)
      <3>1. PICK n \in Names : Create(n)
        BY <2>3
      <3>2. m # n /\ dock'[m] = dock[m]
        BY <2>1, <3>1, NewOne DEF Active
      <3> QED
        BY <1>5, <2>1, <3>1, <3>2
        DEF Create, Given, Endpoints, Active, Exists, setup
    <2>4. CASE /\ pc \in {"create", "start"} /\ Thins
               /\ UNCHANGED <<name, flags, mine>>
      <3>1. Exists(m) /\ dock'[m].id = dock[m].id /\ dock[m].net = name
        BY <2>1, <2>4 DEF Thins, Active, CTypeOK
      <3> QED BY <1>0, <1>5, <2>1, <2>4, <3>1, Wakes DEF Endpoints
    <2> QED
      BY <1>5, <2>2, <2>3, <2>4, NothingNew, ZenonT(40)
      DEF Next, Build, Building, ListNetworks, Pruning, RemoveAnother,
          HostNetwork, NetworkRemove, Created, Load, Started, Prune,
          RemoveBefore, StartOne, Failing, BuildFails, LoadFails, CreateFails,
          Unwind, Using, Start, StopOrKill, Restart, Pause, Thaw, Disconnect,
          Use, StopNetwork, RestartNetwork, SetNetwork,
          RemoveNetworkContainers, Down, TestPanics, Ending, DownRemove,
          DropContainer, DownNetwork, DownFails, TestEnds, DropKeeps,
          DropNetwork, Dropped, Crash, Forget, Exits, setup
  <1> QED BY <1>1, <1>3, <1>4, <1>5, NetworkFollowed

-----------------------------------------------------------------------------

LEMMA InvStarts == Init => CInv
  <1> SUFFICES ASSUME Init PROVE CInv
    OBVIOUS
  <1>1. \A n \in Names : ~Exists(n) /\ ids[n] = 0
    BY DEF Init, Exists, NoIds
  <1>2. CTypeOK
    <2>1. dock \in Docker /\ made \in [Names -> Nat] /\ ids \in [Names -> Nat]
      BY DEF Init, Docker, NoIds
    <2>2. /\ wanted = {} /\ doubled = {} /\ todo = {} /\ pc = "idle"
          /\ net = None /\ name \in Networks /\ flags \in Flags
          /\ loading = FALSE /\ panicking = FALSE /\ refused = {} /\ builds = 0
      BY DEF Init
    <2>3. builds \in 0..MaxBuilds
      BY <2>2, ComposeAssumption
    <2>4. doubled \subseteq wanted /\ wanted \subseteq Names /\ todo \subseteq Names
      BY <2>2
    <2> QED BY <1>1, <2>1, <2>2, <2>3, <2>4 DEF CTypeOK, Docker
  <1>3. MineInv /\ LoopInv /\ NetworkInv
    BY <1>1 DEF Init, MineInv, LoopInv, NetworkInv, Ours, Active, BeforeCreate
  <1> QED BY <1>2, <1>3 DEF CInv

LEMMA InvStutters ==
  ASSUME CInv, UNCHANGED vars
  PROVE  CInv'
  BY DEF CInv, CTypeOK, MineInv, LoopInv, NetworkInv, vars, docker, setup, Ours,
         Exists, Active, Held, Endpoints, ContainersOn, OwnNet

LEMMA InvKept ==
  ASSUME CInv, [Next]_vars
  PROVE  CInv'
  BY InvStutters, TypesKept, MineKept, LoopKept, NetworkKept DEF CInv

LEMMA InvAlways == Spec => []CInv
  BY InvStarts, InvKept, PTL DEF Spec

(* While a test runs, the ids that ComposeTest holds are those of containers *)
(* it has made and docker has.                                               *)
THEOREM ExperimentAlways == Spec => []ExperimentInv
  <1>1. CInv => ExperimentInv
    <2> SUFFICES ASSUME CInv, pc \in {"start", "up"}, NEW n \in wanted
                 PROVE  <<n, ids[n]>> \in mine /\ (n \notin doubled => Held(n))
      BY DEF CInv, ExperimentInv, IdsAreOurs
    <2>1. n \in Names /\ ids[n] # 0 /\ (n \notin doubled => Held(n))
      BY DEF CInv, CTypeOK, LoopInv
    <2> QED BY <2>1 DEF CInv, MineInv
  <1> QED BY <1>1, InvAlways, PTL

(* With the prune flag nothing of an earlier experiment runs on the network  *)
(* of an experiment that is up, until its test restarts it.                  *)
THEOREM PrunedAlone == Spec => PrunedIsAlone
  <1> DEFINE A == Alone' \/ (pc = "up" /\ (Alone => \E s \in SUBSET Names :
                                               RestartNetwork(s)))
  <1>1. ASSUME CInv, CInv', [Next]_vars
        PROVE  A
    <2> SUFFICES ASSUME pc' \in {"start", "up"}, flags'["prune"], ~flags'["host"],
                        NEW m \in Endpoints(name)',
                        \/ pc # "up"
                        \/ Alone /\ \A s \in SUBSET Names : ~RestartNetwork(s)
                 PROVE  <<m, dock'[m].id>> \in mine'
      BY DEF Alone
    <2> USE <1>1
    <2>1. CASE pc' = "start"
      BY <2>1 DEF CInv, NetworkInv
    <2>2. CASE UNCHANGED vars
      BY <2>2 DEF Alone, vars, docker, setup, Endpoints, Active, Exists, CInv,
                  NetworkInv
    <2>3. CASE Next /\ pc' = "up"
      <3>1. /\ pc \in {"create", "start", "up"} /\ UNCHANGED <<name, flags, mine>>
            /\ \A n \in Names : ~Create(n)
        BY <2>3
        DEF Next, Build, Building, ListNetworks, Pruning, RemoveAnother,
            HostNetwork, Pruned, NetworkRemove, NetworkCreate, Created, Load,
            Started, Prune, RemoveBefore, Create, StartOne, Failing, BuildFails,
            LoadFails, CreateFails, Unwind, Using, Start, StopOrKill, Restart,
            Pause, Thaw, Disconnect, Use, StopNetwork, RestartNetwork,
            SetNetwork, RemoveNetworkContainers, Down, TestPanics, Ending,
            DownRemove, DropContainer, DownNetwork, DownFails, TestEnds,
            DropKeeps, DropNetwork, Dropped, Crash, Forget, Exits, setup
      <3>2. \A n \in Endpoints(name) : <<n, dock[n].id>> \in mine
        BY <3>1 DEF Alone, CInv, NetworkInv
      <3>3. Thins
        BY <2>3, <3>1, NothingNew DEF CInv
      <3>4. /\ m \in Names /\ Active(m)' /\ Exists(m)
            /\ dock'[m].id = dock[m].id /\ dock[m].net = name
        BY <3>1, <3>3 DEF Endpoints, Active, Thins, CInv, CTypeOK
      <3>5. CASE Active(m)
        BY <3>1, <3>2, <3>4, <3>5 DEF Endpoints
      <3>6. CASE m \in Ours /\ Held(m)
        BY <3>1, <3>4, <3>6 DEF CInv, MineInv, Ours, Held
      <3> QED BY <2>3, <3>4, <3>5, <3>6, Wakes DEF CInv
    <2> QED BY <2>1, <2>2, <2>3
  <1>2. CInv /\ CInv' /\ [Next]_vars => A
    BY <1>1
  <1> QED BY <1>2, InvAlways, PTL DEF Spec, PrunedIsAlone

(* Drop with the clean flag takes away all that the map holds and docker     *)
(* does not refuse to remove, however many it refuses.                       *)
THEOREM DropCleaned == Spec => DropCleans
  <1> DEFINE A == pc = "drop" /\ pc' = "dropped" /\ Cleans => Clean'
  <1>1. ASSUME CInv, Next, pc = "drop", pc' = "dropped", Cleans
        PROVE  Clean'
    <2>1. DropNetwork
      BY <1>1
      DEF Next, Build, Building, ListNetworks, HostNetwork, Pruned,
          NetworkRemove, NetworkCreate, Created, Load, Started, Prune,
          RemoveBefore, Create, StartOne, Failing, BuildFails, LoadFails,
          CreateFails, Unwind, Using, Start, StopOrKill, Restart, Pause, Thaw,
          Disconnect, Use, StopNetwork, RestartNetwork, SetNetwork,
          RemoveNetworkContainers, Down, TestPanics, Ending, DownRemove,
          DropContainer, DownNetwork, DownFails, TestEnds, DropKeeps, Dropped,
          Crash, Forget, Exits
    <2>2. \A n \in Ours : Exists(n) => n \in refused
      BY <1>1, <2>1 DEF CInv, LoopInv, DropNetwork
    <2>3. /\ UNCHANGED <<dock, name, Ours, Endpoints(name)>> /\ name # None
          /\ refused \subseteq refused'
      BY <1>1, <2>1
      DEF DropNetwork, setup, Ours, Endpoints, Active, Exists, CInv, CTypeOK
    <2> QED BY <2>1, <2>2, <2>3 DEF Clean, DropNetwork, Exists
  <1>2. CInv /\ [Next]_vars => A
    BY <1>1 DEF vars
  <1> QED BY <1>2, InvAlways, PTL DEF Spec, DropCleans

(* Neither Drop nor down removes what the experiment has not made, and       *)
(* loading changes nothing of what it is to load.                            *)
THEOREM OthersLeftAlone == Spec => LeavesOthersAlone
  <1>1. ASSUME CInv, Next, pc \in {"down", "drop"}, NEW n \in Names, Exists(n),
               dock'[n] = Free
        PROVE  <<n, dock[n].id>> \in mine
    <2>1. CASE \E m \in Names : DownRemove(m) \/ DropContainer(m)
      <3>1. PICK m \in Names : DownRemove(m) \/ DropContainer(m)
        BY <2>1
      <3>2. m \in Ours /\ dock \in Docker
        BY <1>1, <3>1 DEF CInv, CTypeOK, DownRemove, DropContainer, Docker
      <3>3. m = n
        BY <1>1, <3>1, <3>2, Removed, StateSet, DropOne DEF DownRemove, Exists
      <3> QED BY <1>1, <3>2, <3>3 DEF CInv, MineInv, Ours
    <2>2. CASE \E m \in Names : Exits(m)
      <3>1. PICK m \in Names : Exits(m)
        BY <2>2
      <3> QED BY <1>1, <3>1, StateSet, RecordStays, SMTT(20)
              DEF Exits, CInv, CTypeOK, Docker, Exists
    <2>3. CASE UNCHANGED dock
      BY <1>1, <2>3 DEF Exists
    <2> QED
      BY <1>1, <2>1, <2>2, <2>3
      DEF Next, Build, Building, ListNetworks, HostNetwork, Pruned,
          NetworkRemove, NetworkCreate, Created, Load, Started, Prune,
          RemoveBefore, Create, StartOne, Failing, BuildFails, LoadFails,
          CreateFails, Unwind, Using, Start, StopOrKill, Restart, Pause, Thaw,
          Disconnect, Use, StopNetwork, RestartNetwork, SetNetwork,
          RemoveNetworkContainers, Down, TestPanics, Ending, DownNetwork,
          DownFails, TestEnds, DropKeeps, DropNetwork, Dropped, Crash, docker
  (* A build that loads has nothing to create or to drop, and prunes at most *)
  (* what is on another network.                                             *)
  <1>2. ASSUME CInv, Next, loading, wanted = {}, ~flags["prune"]
        PROVE  /\ \A n \in ContainersOn(name) : StaysOrExits(n)
               /\ net = name /\ Endpoints(name) # {} => net' = name
    <2>0. /\ pc \in BeforeCreate \cup {"create", "load", "drop", "dropped"}
          /\ pc \in {"create", "drop"} => todo = {}
          /\ dock \in Docker
      BY <1>2 DEF CInv, LoopInv, MineInv, CTypeOK, Docker
    <2>1. CASE \E m \in Names : Prune(m)
      <3>1. PICK m \in Names : Prune(m)
        BY <2>1
      <3>2. m \notin ContainersOn(name)
        BY <1>2, <3>1 DEF Prune, CInv, NetworkInv, ContainersOn
      <3>3. \A n \in ContainersOn(name) : dock'[n] = dock[n]
        BY <2>0, <3>1, <3>2, Removed DEF Prune, ContainersOn
      <3> QED BY <3>1, <3>3 DEF Prune, StaysOrExits
    <2>2. CASE \E m \in Names : Exits(m)
      <3>1. PICK m \in Names : Exits(m)
        BY <2>2
      <3> QED BY <2>0, <3>1
              DEF Exits, SetState, StaysOrExits, ContainersOn, Docker
    <2>3. CASE UNCHANGED docker
      BY <1>2, <2>3 DEF docker, StaysOrExits, ContainersOn
    <2>4. CASE NetworkRemove \/ NetworkCreate \/ DropNetwork
      <3>1. dock' = dock /\ (net = name /\ Endpoints(name) # {} => net' = name)
        BY <1>2, <2>4
        DEF NetworkRemove, NetworkCreate, DropNetwork, CInv, NetworkInv, CTypeOK
      <3> QED BY <3>1 DEF StaysOrExits, ContainersOn
    <2> QED
      BY <1>2, <2>0, <2>1, <2>2, <2>3, <2>4
      DEF Next, Build, Building, ListNetworks, HostNetwork, Pruned, Created,
          Load, Started, RemoveBefore, Create, StartOne, Failing, BuildFails,
          LoadFails, CreateFails, Unwind, Using, Start, StopOrKill, Restart,
          Pause, Thaw, Disconnect, Use, StopNetwork, RestartNetwork, SetNetwork,
          RemoveNetworkContainers, Down, TestPanics, Ending, DownRemove,
          DropContainer, DownNetwork, DownFails, TestEnds, DropKeeps, Dropped,
          Crash, Forget, BeforeCreate, docker
  <1>3. ASSUME UNCHANGED vars
        PROVE  EndsOnlyItsOwn /\ LoadOnlyAsks
    BY <1>3 DEF vars, docker, EndsOnlyItsOwn, LoadOnlyAsks, StaysOrExits, Exists,
                ContainersOn
  <1>4. CInv /\ [Next]_vars => EndsOnlyItsOwn /\ LoadOnlyAsks
    BY <1>1, <1>2, <1>3 DEF EndsOnlyItsOwn, LoadOnlyAsks
  <1> QED BY <1>4, InvAlways, PTL DEF Spec, LeavesOthersAlone
=============================================================================
