-------------------------- MODULE SubsystemHandles --------------------------
(***************************************************************************)
(* The subsystems that nvmeadm finds in sysfs (nvmf_subsystem.rs): get and *)
(* try_from_nqn list the names of the controllers and then read one after  *)
(* the other, file by file, while others connect and disconnect; and what  *)
(* is done later with a Subsystem that was found, which knows of its       *)
(* controller only the number.  Several controllers may lead to one NQN,   *)
(* by different addresses.                                                 *)
(***************************************************************************)
EXTENDS Integers, Sequences, FiniteSets, SequencesExt

CONSTANTS
  Paths,        \* what a controller may lead to: [nqn, address, kind]
  MaxNumber,    \* bound on the numbers of controllers
  MaxChanges    \* bound: what others do

ASSUME HandlesAssumption ==
  /\ \A p \in Paths : p.kind \in {"io", "discovery"}
  /\ MaxNumber \in Nat /\ MaxChanges \in Nat

VARIABLES
  fabric,   \* kernel: the controllers, by their numbers  
  changes,  \* history: how often others have changed it; makes the ids
  search,   \* the lookup in progress, or the last one
  met,      \* history: the controllers there at some time of the lookup
  stood,    \* history: the controllers there all the time
  kept      \* the Subsystem in the hands of the caller
handleVars == <<fabric, changes, search, met, stood, kept>>

InstanceNumbers == 0..MaxNumber
There(i) == i \in DOMAIN fabric
Controllers(f) == Range(f)
Plus(i, c) ==
  [j \in DOMAIN fabric \cup {i} |-> IF j = i THEN c ELSE fabric[j]]
Without(i) == [j \in DOMAIN fabric \ {i} |-> fabric[j]]

NoSearch == [pc |-> "idle", op |-> "none", nqn |-> "", address |-> "",
             list |-> {}, read |-> <<>>, got |-> <<>>]
NoHandle == <<>>
-----------------------------------------------------------------------------
(* Others connect, disconnect, or lose and regain a connection.            *)
Others ==
  /\ changes < MaxChanges /\ changes' = changes + 1
  /\ \/ \E i \in InstanceNumbers, p \in Paths :
          /\ ~There(i) /\ \A j \in 0..(i - 1) : There(j)
          /\ fabric' = Plus(i, [path |-> p, state |-> "live", number |-> i,
                                id |-> changes + 1])
     \/ \E i \in DOMAIN fabric : fabric' = Without(i)
     \/ \E i \in DOMAIN fabric, s \in {"live", "connecting"} :
          /\ fabric[i].state # s
          /\ fabric' = [fabric EXCEPT ![i].state = s]
  /\ met' = met \cup Controllers(fabric')
  /\ stood' = {c \in stood : \E d \in Controllers(fabric') : d.id = c.id}
  /\ UNCHANGED <<search, kept>>

(* NvmeSubsystems::new: the names.  They come in the order of names, which *)
(* from nvme10 on is not that of the numbers: any order will do.           *)
Listed == DOMAIN fabric

Search(op, nqn, address) ==
  /\ search.pc = "idle"
  /\ search' = [pc |-> "next", op |-> op, nqn |-> nqn, address |-> address,
                list |-> Listed, read |-> <<>>, got |-> <<>>]
  /\ met' = Controllers(fabric) /\ stood' = Controllers(fabric)
  /\ UNCHANGED <<fabric, changes, kept>>

(* The lookup goes on with what it has still to read and what it has got.  *)
Now(pc, list, read, got) ==
  [pc |-> pc, op |-> search.op, nqn |-> search.nqn, address |-> search.address,
   list |-> list, read |-> read, got |-> got]
Done(got) == Now("done", {}, <<>>, got)
OnWith(i, got) == Now("next", search.list \ {i}, <<>>, got)

ErrorEnds(i) == Done(search.got)   \* mutated form: an error is not skipped
(* flatten passes over a controller that cannot be read.                   *)
ErrorSkipped(i) == OnWith(i, search.got)

(* Subsystem::new reads subsysnqn; what it finds at the number may be gone. *)
ReadNqn ==
  /\ search.pc = "next"
  /\ \E i \in search.list :
       search' = IF There(i) THEN Now("rest", search.list, <<fabric[i]>>, search.got)
                             ELSE ErrorSkipped(i)
  /\ UNCHANGED <<fabric, changes, met, stood, kept>>

MatchesNqn(s) == s.nqn = search.nqn   \* mutated form: any address will do
(* The conditions of get and of try_from_nqn.                              *)
Matches(s) ==
  s.nqn = search.nqn /\ (search.op = "get" => s.address = search.address)

(* Then its other files, as they are now: the Subsystem has the NQN of the *)
(* controller read before and the rest of the one there is now.  One that  *)
(* has no serial and model is a discovery controller, and an error.        *)
Read(now) ==
  [number |-> now.number, nqn |-> search.read[1].path.nqn, address |-> now.path.address,
   state |-> now.state, nqnOf |-> search.read[1].id, restOf |-> now.id]

ReadRest ==
  /\ search.pc = "rest"
  /\ LET i == search.read[1].number
         s == Read(fabric[i])
     IN search' =
          IF ~There(i) \/ (There(i) /\ fabric[i].path.kind = "discovery") THEN ErrorSkipped(i)
          ELSE IF ~Matches(s) THEN OnWith(i, search.got)
          ELSE IF search.op = "get" THEN Done(<<s>>)
          ELSE OnWith(i, Append(search.got, s))
  /\ UNCHANGED <<fabric, changes, met, stood, kept>>

(* Nothing left: what was found, or SubsystemNotFound or NqnNotFound.      *)
SearchEnds ==
  /\ search.pc = "next" /\ search.list = {}
  /\ search' = Done(search.got)
  /\ UNCHANGED <<fabric, changes, met, stood, kept>>

(* The caller keeps one of those it was given.                             *)
Keep ==
  /\ search.pc = "done"
  /\ kept' \in {<<s>> : s \in ToSet(search.got)}
         \cup (IF search.got = <<>> THEN {kept} ELSE {})
  /\ search' = NoSearch /\ met' = {} /\ stood' = {}
  /\ UNCHANGED <<fabric, changes>>
-----------------------------------------------------------------------------
(* The methods of a Subsystem open files by its name.  One that is not     *)
(* there is an error, and changes nothing.                                 *)
Handled(i) ==
  /\ search.pc = "idle" /\ kept # NoHandle
  /\ i = kept[1].number /\ There(i)
  /\ UNCHANGED <<changes, search, met, stood>>

Sync ==
  \E i \in InstanceNumbers :
    /\ Handled(i) /\ kept' = <<[kept[1] EXCEPT !.state = fabric[i].state]>>
    /\ UNCHANGED fabric

Reset ==
  \E i \in InstanceNumbers :
    /\ Handled(i) /\ fabric' = [fabric EXCEPT ![i].state = "resetting"]
    /\ UNCHANGED kept

DisconnectHandle ==
  \E i \in InstanceNumbers :
    /\ Handled(i) /\ fabric' = Without(i)
    /\ UNCHANGED kept

HandleInit ==
  /\ fabric = <<>> /\ changes = 0
  /\ search = NoSearch /\ met = {} /\ stood = {} /\ kept = NoHandle

HandleNext ==
  \/ Others
  \/ \E p \in Paths : \/ Search("get", p.nqn, p.address)
                      \/ Search("try_from_nqn", p.nqn, "")
  \/ ReadNqn \/ ReadRest \/ SearchEnds \/ Keep
  \/ Sync \/ Reset \/ DisconnectHandle

HandleSpec == HandleInit /\ [][HandleNext]_handleVars
-----------------------------------------------------------------------------
Found == ToSet(search.got)
Asked(path) ==
  path.kind = "io" /\ path.nqn = search.nqn /\ (search.op = "get" => path.address = search.address)

(* What get and try_from_nqn return has the NQN, and for get the address,  *)
(* that was asked for, and it is one controller that was there during the  *)
(* call, unless its number was given to another one between two reads.     *)
FoundWasThere ==
  \A s \in Found :
    \/ s.nqnOf # s.restOf
    \/ \E c \in met : c.id = s.restOf /\ c.number = s.number /\ Asked(c.path)

(* A controller that leads to what was asked for and stood all through the *)
(* call is not missed, whatever comes and goes beside it: try_from_nqn     *)
(* returns every path, and get fails only if there is none.                *)
StandingPathIsFound ==
  search.pc = "done" =>
    \A c \in stood : Asked(c.path) =>
      \E s \in Found : search.op = "try_from_nqn" => s.restOf = c.id

(* While the controller that a Subsystem was read from is there, its       *)
(* methods act on that one, and it is the one the Subsystem describes.     *)
HandleIsOwn ==
  kept # NoHandle /\ kept[1].nqnOf = kept[1].restOf =>
    \A c \in Controllers(fabric) : c.id = kept[1].restOf =>
      /\ fabric[kept[1].number] = c
      /\ c.path.nqn = kept[1].nqn /\ c.path.address = kept[1].address

(* All three: what a lookup of subsystems finds, and what a found one is.  *)
SubsystemsAreTrue == FoundWasThere /\ StandingPathIsFound /\ HandleIsOwn
=============================================================================
