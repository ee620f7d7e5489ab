--------------------------- MODULE ComposeBuilder ---------------------------
(***************************************************************************)
(* The Builder of composer/src/composer.rs as far as it hands out          *)
(* addresses: the caller sets the network and the network mode, loads what *)
(* docker has already and adds containers, in any order.                   *)
(*                                                                         *)
(* An address is the network it was taken from and its number in it.       *)
(***************************************************************************)
EXTENDS Integers, Sequences

CONSTANTS
  Names,       (* names of containers                                        *)
  Networks,    (* the networks the caller may set                            *)
  Size,        (* the number of addresses of a network: Ipv4Network::size    *)
  LastTried,   (* next_ip tries the numbers from 2 to 255                    *)
  MaxAdded     (* bound on the containers added                              *)

ASSUME BuilderAssumption ==
  /\ Size \in [Networks -> Nat]
  /\ LastTried \in Nat
  /\ MaxAdded \in Nat

VARIABLES
  network,      (* Builder::network                                          *)
  host,         (* Builder::network_mode is Some(Host)                       *)
  existing,     (* Builder::existing_containers, of which the addresses      *)
  containers,   (* Builder::containers                                       *)
  panicked,     (* an unwrap has failed                                      *)
  loadedLate    (* history: docker was asked not first of all, or not once   *)

builderVars == <<network, host, existing, containers, panicked, loadedLate>>

None == <<>>
Loopback == <<"127.0.0.1", 0>>
Ip(n, k) == <<n, k>>
Numbers == {k \in 0..LastTried : 2 <= k}
Ips == {Ip(n, k) : n \in Networks, k \in Numbers}

BuilderInit ==
  /\ network \in Networks /\ host = FALSE
  /\ existing = [c \in Names |-> None]
  /\ containers = <<>>
  /\ panicked = FALSE /\ loadedLate = FALSE

-----------------------------------------------------------------------------
(* next_ip: the first number that no container has the address of.           *)
UnusedByAdded(ip) ==    \* mutated form: containers of docker forgotten
  \A j \in DOMAIN containers : containers[j].ip # ip
Unused(ip) ==
  /\ \A c \in Names : existing[c] # ip
  /\ \A j \in DOMAIN containers : containers[j].ip # ip

AvailableButLast(k) ==    \* mutated form: off by one
  k \in Numbers /\ k < Size[network] - 1 /\ Unused(Ip(network, k))
Available(k) == k \in Numbers /\ k < Size[network] /\ Unused(Ip(network, k))
IsNextIp(k) == Available(k) /\ \A j \in Numbers : Available(j) => k <= j

SetNetwork(n) ==
  /\ ~panicked
  /\ network' = n
  /\ UNCHANGED <<host, existing, containers, panicked, loadedLate>>

SetHostMode ==
  /\ ~panicked
  /\ host' = TRUE
  /\ UNCHANGED <<network, existing, containers, panicked, loadedLate>>

(* load_existing_containers: the running containers of the network docker    *)
(* lists, under their names; no two of them have the same address.           *)
OneEach(found) ==
  \A c, d \in Names : found[c] # None /\ found[c] = found[d] => c = d
LoadedAnew(found) == found    \* mutated form: what was loaded before is dropped
Loaded(found) == [c \in Names |-> IF found[c] # None THEN found[c] ELSE existing[c]]

LoadExistingContainers(found) ==
  /\ ~panicked
  /\ OneEach(found)
  /\ existing' = Loaded(found)
  /\ loadedLate' = (loadedLate \/ containers # <<>> \/ existing # [c \in Names |-> None])
  /\ UNCHANGED <<network, host, containers, panicked>>

(* add_container_spec: a container that docker has keeps its address.        *)
AddExisting(c) ==
  /\ existing[c] # None
  /\ containers' = Append(containers, [name |-> c, ip |-> existing[c]])
  /\ existing' = [existing EXCEPT ![c] = None]
  /\ UNCHANGED <<network, host, panicked, loadedLate>>

AddOnHostAsKnown(c) ==    \* mutated form: the address docker would have reported
  /\ existing[c] = None /\ host
  /\ containers' = Append(containers, [name |-> c, ip |-> existing[c]])
  /\ UNCHANGED <<network, host, existing, panicked, loadedLate>>

AddOnHost(c) ==
  /\ existing[c] = None /\ host
  /\ containers' = Append(containers, [name |-> c, ip |-> Loopback])
  /\ UNCHANGED <<network, host, existing, panicked, loadedLate>>

AddNew(c) ==
  /\ existing[c] = None /\ ~host
  /\ \E k \in Numbers :
       /\ IsNextIp(k)
       /\ containers' = Append(containers, [name |-> c, ip |-> Ip(network, k)])
  /\ UNCHANGED <<network, host, existing, panicked, loadedLate>>

(* next_ip returned AddrNotAvailable and it was unwrapped.                   *)
AddFails(c) ==
  /\ existing[c] = None /\ ~host
  /\ \A k \in Numbers : ~Available(k)
  /\ panicked' = TRUE
  /\ UNCHANGED <<network, host, existing, containers, loadedLate>>

AddContainerSpec(c) ==
  /\ ~panicked
  /\ Len(containers) < MaxAdded
  /\ AddExisting(c) \/ AddOnHost(c) \/ AddNew(c) \/ AddFails(c)

BuilderNext ==
  \/ \E n \in Networks : SetNetwork(n)
  \/ SetHostMode
  \/ \E found \in [Names -> Ips \cup {None}] : LoadExistingContainers(found)
  \/ \E c \in Names : AddContainerSpec(c)

BuilderSpec == BuilderInit /\ [][BuilderNext]_builderVars

-----------------------------------------------------------------------------
(* Properties.                                                               *)

BuilderTypeOK ==
  /\ network \in Networks /\ host \in BOOLEAN
  /\ existing \in [Names -> Ips \cup {None}]
  /\ containers \in Seq([name : Names, ip : Ips \cup {Loopback}])
  /\ panicked \in BOOLEAN /\ loadedLate \in BOOLEAN

(* No two containers of an experiment are configured with the same address   *)
(* (on the host network they share the loopback address), and none with the  *)
(* address of a container that docker has - provided that docker was asked   *)
(* once, and before any container was added.                                 *)
OwnAddress ==
  ~loadedLate =>
    \A i \in DOMAIN containers : containers[i].ip # Loopback =>
      /\ \A j \in DOMAIN containers : containers[j].ip = containers[i].ip => i = j
      /\ \A c \in Names : existing[c] # containers[i].ip

(* An address that docker reported is not lost while containers are added:   *)
(* the container of that name keeps it.                                      *)
AddressKept == [][\A c \in Names :
  existing[c] # None /\ existing'[c] = None =>
    \E i \in DOMAIN containers' :
      containers'[i] = [name |-> c, ip |-> existing[c]]]_builderVars

(* The builder panics only when every number of the network that it may use  *)
(* is taken, by a container it holds or by one docker has.                   *)
Taken(k) ==
  \/ \E c \in Names : existing[c] = Ip(network, k)
  \/ \E i \in DOMAIN containers : containers[i].ip = Ip(network, k)

PanicsOnlyWhenFull ==
  panicked => \A k \in Numbers : k < Size[network] => Taken(k)

(* The types of the builder's state, and when it panics.                     *)
BuilderIsSound == BuilderTypeOK /\ PanicsOnlyWhenFull
=============================================================================
