---------------------------- MODULE NvmfFabrics ----------------------------
(***************************************************************************)
(* nvmeadm: discovery of NVMe-oF targets, connecting to them and           *)
(* disconnecting (nvmf_discovery.rs, nvmf_subsystem.rs, nvme_uri.rs), by   *)
(* several processes of one host.                                          *)
(*                                                                         *)
(* The kernel keeps the controllers.  It gives a new controller the lowest *)
(* free instance number, and a number is all that a process holds of a     *)
(* controller: the file names it opens are made from it.  A process makes  *)
(* one system call or reads one sysfs directory per step.                  *)
(***************************************************************************)
EXTENDS Integers, Sequences, FiniteSets, SequencesExt

CONSTANTS
  Procs,         (* processes that use the library, one Discovery each       *)
  Disconnectors, (* those that also disconnect                               *)
  Targets,       (* the subsystems of the fabric, by their NQN               *)
  Unusable,      (* those whose discovery record makes no valid ConnectArgs  *)
  DiscoveryNqn,  (* the well-known NQN of every discovery controller         *)
  Garbage,       (* what is read past the end of the response buffer         *)
  Free,          (* marks an instance number no controller has               *)
  MaxInstance,   (* bound on the instance numbers                            *)
  MaxPolls,      (* how often NvmeTarget::connect looks for a device: 10     *)
  MaxOps,        (* bound on the operations of all processes together        *)
  MaxExports,    (* bound on the records of the discovery log                *)
  MaxGrowth,     (* bound on the records added while processes run           *)
  MaxLosses      (* bound on the controllers the kernel gives up             *)

Instances == 0..MaxInstance
Nqns == Targets \cup {DiscoveryNqn}
Controller == [kind : {"discovery", "io"}, nqn : Nqns, by : Procs]

ASSUME FabricsAssumption ==
  /\ Procs # {} /\ Disconnectors \subseteq Procs
  /\ Unusable \subseteq Targets
  /\ {DiscoveryNqn, Garbage} \cap Targets = {} /\ DiscoveryNqn # Garbage
  /\ Free \notin Controller
  /\ MaxInstance \in Nat /\ MaxPolls \in Nat \ {0} /\ MaxOps \in Nat
  /\ MaxExports \in Nat /\ MaxGrowth \in Nat /\ MaxLosses \in Nat

VARIABLES
  ctl,      (* kernel: the controller of each instance number                *)
  ready,    (* kernel: the controllers whose block device has appeared       *)
  log,      (* target: the records of the discovery log page                 *)
  grown,    (* history: records the target has added to its log              *)
  losses,   (* history: controllers the kernel has given up                  *)
  pc,       (* process: the step it is at                                    *)
  op,       (* process: its operation, or the last one                       *)
  ops,      (* number of operations begun                                    *)
  entries,  (* process: Discovery::entries                                   *)
  ctlId,    (* process: the instance number it works with                    *)
  count,    (* process: records announced, polls left, or devices deleted    *)
  todo,     (* process: the entries connect_all has still to connect         *)
  names,    (* process: the controllers disconnect has still to read         *)
  target,   (* process: the NQN of the operation                             *)
  result,   (* process: how its last operation ended                         *)
  made,     (* history: the targets its operation has connected              *)
  stale,    (* history: the processes that hold the number of a controller   *)
            (* which was taken away since they got it                        *)
  grew      (* history: those for which the log grew after it was announced  *)

kernelVars == <<ctl, ready, log, grown, losses>>
procVars == <<pc, op, ops, entries, ctlId, count, todo, names, target, result,
              made>>
vars == <<ctl, ready, log, grown, losses,
          pc, op, ops, entries, ctlId, count, todo, names, target, result,
          made, stale, grew>>

Exists(i) == ctl[i] # Free
(* Subsystem::new: a controller without serial and model is a discovery      *)
(* controller, and not returned.                                             *)
Io(i) == Exists(i) /\ ctl[i].kind = "io"
NextFree(i) == ~Exists(i) /\ \A j \in 0..(i - 1) : Exists(j)
Connected(t) == \E i \in Instances : Io(i) /\ ctl[i].nqn = t
Devices(t) == {i \in ready : ctl[i].nqn = t}

Init ==
  /\ ctl = [i \in Instances |-> Free] /\ ready = {}
  /\ log \in SeqOf(Targets, MaxExports) /\ grown = 0 /\ losses = 0
  /\ pc = [p \in Procs |-> "idle"] /\ op = [p \in Procs |-> "none"]
  /\ ops = 0
  /\ entries = [p \in Procs |-> <<>>] /\ ctlId = [p \in Procs |-> 0]
  /\ count = [p \in Procs |-> 0]
  /\ todo = [p \in Procs |-> <<>>] /\ names = [p \in Procs |-> {}]
  /\ target = [p \in Procs |-> DiscoveryNqn]
  /\ result = [p \in Procs |-> "none"]
  /\ made = [p \in Procs |-> {}]
  /\ stale = {} /\ grew = {}

-----------------------------------------------------------------------------
(* Steps every operation is made of.                                         *)

Goto(p, l) == pc' = [pc EXCEPT ![p] = l]

(* The operation returns; all that is left of it is its result, and what     *)
(* discover found.                                                           *)
Return(p, r) ==
  /\ Goto(p, "idle")
  /\ op' = [op EXCEPT ![p] = "none"]
  /\ result' = [result EXCEPT ![p] = r]
  /\ ctlId' = [ctlId EXCEPT ![p] = 0] /\ count' = [count EXCEPT ![p] = 0]
  /\ todo' = [todo EXCEPT ![p] = <<>>] /\ names' = [names EXCEPT ![p] = {}]
  /\ target' = [target EXCEPT ![p] = DiscoveryNqn]
  /\ made' = [made EXCEPT ![p] = {}]
  /\ UNCHANGED ops

Begin(p, o, l) ==
  /\ pc[p] = "idle" /\ ops < MaxOps
  /\ ops' = ops + 1
  /\ op' = [op EXCEPT ![p] = o]
  /\ result' = [result EXCEPT ![p] = "none"]
  /\ Goto(p, l)

Create(i, kind, t, p) ==
  /\ NextFree(i)
  /\ ctl' = [ctl EXCEPT ![i] = [kind |-> kind, nqn |-> t, by |-> p]]

Delete(i) ==
  /\ ctl' = [ctl EXCEPT ![i] = Free]
  /\ ready' = ready \ {i}

-----------------------------------------------------------------------------
(* Discovery::discover.                                                      *)

Discover(p) ==
  /\ Begin(p, "discover", "discoverWrite")
  /\ UNCHANGED <<kernelVars, entries, ctlId, count, todo, names, target,
                 made>>

(* The write creates a controller and the answer, read back, has its number. *)
DiscoverWrite(p) ==
  /\ pc[p] = "discoverWrite"
  /\ \E i \in Instances :
       /\ Create(i, "discovery", DiscoveryNqn, p)
       /\ ctlId' = [ctlId EXCEPT ![p] = i]
  /\ Goto(p, "discoverCount")
  /\ UNCHANGED <<ready, log, grown, losses, op, ops, entries, count, todo,
                 names, target, result, made>>

DiscoverWriteFails(p) ==
  /\ pc[p] = "discoverWrite"
  /\ Return(p, "Err")
  /\ UNCHANGED <<kernelVars, entries>>

(* A mutant: the announced number is taken for a zero-based one.             *)
CountZeroBased(p) ==
  /\ pc[p] = "discoverCount"
  /\ Exists(ctlId[p])
  /\ count' = [count EXCEPT ![p] = IF log = <<>> THEN 0 ELSE Len(log) - 1]
  /\ Goto(p, "discoverPages")
  /\ UNCHANGED <<kernelVars, op, ops, entries, ctlId, todo, names, target,
                 result, made>>

(* get_discovery_response_page_entries: how many records there are.          *)
DiscoverCount(p) ==
  /\ pc[p] = "discoverCount"
  /\ Exists(ctlId[p])
  /\ count' = [count EXCEPT ![p] = Len(log)]
  /\ Goto(p, "discoverPages")
  /\ UNCHANGED <<kernelVars, op, ops, entries, ctlId, todo, names, target,
                 result, made>>

(* The records: the buffer has room for as many as were announced and the    *)
(* loop goes by the number in the page read now.  What lies past the buffer  *)
(* may be taken for a record or skipped as an invalid one.                   *)
Pages(n) == {SubSeq(log, 1, n) \o past : past \in SeqOf({Garbage}, Len(log) - n)}

(* They are appended to what an earlier discover found.                      *)
DiscoverPages(p) ==
  /\ pc[p] = "discoverPages"
  /\ Exists(ctlId[p])
  /\ \E page \in Pages(count[p]) : entries' = [entries EXCEPT ![p] = @ \o page]
  /\ Goto(p, "discoverRemove")
  /\ UNCHANGED <<kernelVars, op, ops, ctlId, count, todo, names, target,
                 result, made>>

(* An admin command or the open of the device node fails.                    *)
DiscoverFails(p) ==
  /\ pc[p] \in {"discoverCount", "discoverPages"}
  /\ Return(p, "Err")
  /\ UNCHANGED <<kernelVars, entries>>

(* remove_controller *)
DiscoverRemove(p) ==
  /\ pc[p] = "discoverRemove"
  /\ Exists(ctlId[p])
  /\ Delete(ctlId[p])
  /\ Return(p, "Ok")
  /\ UNCHANGED <<log, grown, losses, entries>>

(* What was found stays in entries, and the controller, too.                 *)
DiscoverRemoveFails(p) ==
  /\ pc[p] = "discoverRemove"
  /\ Return(p, "Err")
  /\ UNCHANGED <<kernelVars, entries>>

-----------------------------------------------------------------------------
(* Discovery::connect_all, Discovery::connect and NvmeTarget::connect, and   *)
(* ConnectArgs::connect which they call.                                     *)

ConnectAll(p) ==
  /\ entries[p] # <<>>
  /\ Begin(p, "connectAll", "connectNext")
  /\ todo' = [todo EXCEPT ![p] = entries[p]]
  /\ UNCHANGED <<kernelVars, entries, ctlId, count, names, target, made>>

ConnectAllEmpty(p) ==
  /\ pc[p] = "idle" /\ ops < MaxOps
  /\ entries[p] = <<>>
  /\ ops' = ops + 1
  /\ result' = [result EXCEPT ![p] = "Err"]
  /\ UNCHANGED <<kernelVars, pc, op, entries, ctlId, count, todo, names,
                 target, made>>

(* collect::<Result<..>> asks for the next entry only while all went well.   *)
ConnectNext(p) ==
  /\ pc[p] = "connectNext"
  /\ todo[p] # <<>>
  /\ Head(todo[p]) \in Targets \ Unusable
  /\ target' = [target EXCEPT ![p] = Head(todo[p])]
  /\ todo' = [todo EXCEPT ![p] = Tail(@)]
  /\ Goto(p, "connectWrite")
  /\ UNCHANGED <<kernelVars, op, ops, entries, ctlId, count, names, result,
                 made>>

ConnectNextFails(p) ==
  /\ pc[p] = "connectNext"
  /\ todo[p] # <<>>
  /\ Head(todo[p]) \notin Targets \ Unusable
  /\ Return(p, "Err")
  /\ UNCHANGED <<kernelVars, entries>>

ConnectAllDone(p) ==
  /\ pc[p] = "connectNext"
  /\ todo[p] = <<>>
  /\ Return(p, "Ok")
  /\ UNCHANGED <<kernelVars, entries>>

(* Discovery::connect, of an entry it found.                                 *)
Connect(p, t) ==
  /\ t \in ToSet(entries[p]) /\ t \in Targets \ Unusable
  /\ Begin(p, "connect", "connectWrite")
  /\ target' = [target EXCEPT ![p] = t]
  /\ UNCHANGED <<kernelVars, entries, ctlId, count, todo, names, made>>

(* No entry has the NQN, or its record makes no valid ConnectArgs.           *)
ConnectRefused(p, t) ==
  /\ pc[p] = "idle" /\ ops < MaxOps
  /\ t \notin ToSet(entries[p]) \/ t \in Unusable
  /\ ops' = ops + 1
  /\ result' = [result EXCEPT ![p] = "Err"]
  /\ UNCHANGED <<kernelVars, pc, op, entries, ctlId, count, todo, names,
                 target, made>>

TargetConnect(p, t) ==
  /\ Begin(p, "targetConnect", "connectWrite")
  /\ target' = [target EXCEPT ![p] = t]
  /\ UNCHANGED <<kernelVars, entries, ctlId, count, todo, names, made>>

(* A mutant: the number of the controller is not taken from the answer.      *)
ConnectForgetsNumber(p) ==
  /\ pc[p] = "connectWrite"
  /\ ~Connected(target[p])
  /\ \E i \in Instances : Create(i, "io", target[p], p)
  /\ made' = [made EXCEPT ![p] = @ \cup {target[p]}]
  /\ Goto(p, "connectRead")
  /\ UNCHANGED <<ready, log, grown, losses, op, ops, entries, ctlId, count,
                 todo, names, target, result>>

ConnectWrite(p) ==
  /\ pc[p] = "connectWrite"
  /\ ~Connected(target[p])
  /\ \E i \in Instances :
       /\ Create(i, "io", target[p], p)
       /\ ctlId' = [ctlId EXCEPT ![p] = i]
  /\ made' = [made EXCEPT ![p] = @ \cup {target[p]}]
  /\ Goto(p, "connectRead")
  /\ UNCHANGED <<ready, log, grown, losses, op, ops, entries, count, todo,
                 names, target, result>>

(* A mutant: connect_all really ignores the errors of a write.               *)
WriteErrorIgnored(p) ==
  /\ pc[p] = "connectWrite"
  /\ IF op[p] = "connectAll"
       THEN /\ Goto(p, "connectNext")
            /\ UNCHANGED <<op, ops, ctlId, count, todo, names, target, result,
                           made>>
       ELSE Return(p, "Err")
  /\ UNCHANGED <<kernelVars, entries>>

(* The kernel refuses a second connection to a subsystem (ConnectInProgress), *)
(* and a write may fail for other reasons.                                   *)
ConnectWriteFails(p) ==
  /\ pc[p] = "connectWrite"
  /\ Return(p, "Err")
  /\ UNCHANGED <<kernelVars, entries>>

(* The answer is parsed to a Subsystem: the sysfs directory of its number is *)
(* read.  Then the caller of ConnectArgs::connect goes on.                   *)
ConnectReturns(p) ==
  /\ pc[p] = "connectRead" /\ op[p] = "connect"
  /\ Io(ctlId[p])
  /\ Return(p, "Ok")
  /\ UNCHANGED <<kernelVars, entries>>

ConnectAllGoesOn(p) ==
  /\ pc[p] = "connectRead" /\ op[p] = "connectAll"
  /\ Io(ctlId[p])
  /\ Goto(p, "connectNext")
  /\ UNCHANGED <<kernelVars, op, ops, entries, ctlId, count, todo, names,
                 target, result, made>>

TargetConnectPolls(p) ==
  /\ pc[p] = "connectRead" /\ op[p] = "targetConnect"
  /\ Io(ctlId[p])
  /\ count' = [count EXCEPT ![p] = MaxPolls]
  /\ Goto(p, "poll")
  /\ UNCHANGED <<kernelVars, op, ops, entries, ctlId, todo, names, target,
                 result, made>>

ConnectReadFails(p) ==
  /\ pc[p] = "connectRead"
  /\ ~Io(ctlId[p])
  /\ Return(p, "Err")
  /\ UNCHANGED <<kernelVars, entries>>

(* Mutants: the count of polls is not looked at, or not decremented.         *)
PollUnbounded(p) ==
  /\ pc[p] = "poll"
  /\ Devices(target[p]) = {}
  /\ count' = [count EXCEPT ![p] = @ - 1]
  /\ UNCHANGED <<kernelVars, pc, op, ops, entries, ctlId, todo, names, target,
                 result, made>>

PollUncounted(p) ==
  /\ pc[p] = "poll"
  /\ count[p] > 1 /\ Devices(target[p]) = {}
  /\ UNCHANGED vars

(* NvmeTarget::connect looks for the device once a second, and at last       *)
(* returns what there is, be it nothing.                                     *)
PollAgain(p) ==
  /\ pc[p] = "poll"
  /\ count[p] > 1 /\ Devices(target[p]) = {}
  /\ count' = [count EXCEPT ![p] = @ - 1]
  /\ UNCHANGED <<kernelVars, pc, op, ops, entries, ctlId, todo, names, target,
                 result, made>>

PollEnds(p) ==
  /\ pc[p] = "poll"
  /\ count[p] = 1 \/ Devices(target[p]) # {}
  /\ Return(p, "Ok")
  /\ UNCHANGED <<kernelVars, entries>>

-----------------------------------------------------------------------------
(* disconnect(nqn): the names are listed first, then one after the other is  *)
(* read and, if it has the NQN, deleted, by name again.  They come in the    *)
(* order of the names, which from nvme10 on is not that of the numbers: any  *)
(* order will do.                                                            *)

Names == {i \in Instances : Exists(i)}

Disconnect(p, t) ==
  /\ p \in Disconnectors
  /\ Begin(p, "disconnect", "disconnectRead")
  /\ target' = [target EXCEPT ![p] = t]
  /\ names' = [names EXCEPT ![p] = Names]
  /\ count' = [count EXCEPT ![p] = 0]
  /\ UNCHANGED <<kernelVars, entries, ctlId, todo, made>>

(* Mutants: discovery controllers are not skipped, or the NQN not compared.  *)
ReadAnyKind(p) ==
  /\ pc[p] = "disconnectRead"
  /\ \E i \in names[p] :
       /\ names' = [names EXCEPT ![p] = @ \ {i}]
       /\ IF Exists(i) /\ ctl[i].nqn \in {target[p], DiscoveryNqn}
            THEN Goto(p, "disconnectDelete") /\ ctlId' = [ctlId EXCEPT ![p] = i]
            ELSE UNCHANGED <<pc, ctlId>>
  /\ UNCHANGED <<kernelVars, op, ops, entries, count, todo, target, result,
                 made>>

ReadAnyNqn(p) ==
  /\ pc[p] = "disconnectRead"
  /\ \E i \in names[p] :
       /\ names' = [names EXCEPT ![p] = @ \ {i}]
       /\ IF Io(i)
            THEN Goto(p, "disconnectDelete") /\ ctlId' = [ctlId EXCEPT ![p] = i]
            ELSE UNCHANGED <<pc, ctlId>>
  /\ UNCHANGED <<kernelVars, op, ops, entries, count, todo, target, result,
                 made>>

DisconnectRead(p) ==
  /\ pc[p] = "disconnectRead"
  /\ \E i \in names[p] :
       /\ names' = [names EXCEPT ![p] = @ \ {i}]
       /\ IF Io(i) /\ ctl[i].nqn = target[p]
            THEN Goto(p, "disconnectDelete") /\ ctlId' = [ctlId EXCEPT ![p] = i]
            ELSE UNCHANGED <<pc, ctlId>>
  /\ UNCHANGED <<kernelVars, op, ops, entries, count, todo, target, result,
                 made>>

(* Subsystem::disconnect *)
DisconnectDelete(p) ==
  /\ pc[p] = "disconnectDelete"
  /\ Exists(ctlId[p])
  /\ Delete(ctlId[p])
  /\ count' = [count EXCEPT ![p] = @ + 1]
  /\ Goto(p, "disconnectRead")
  /\ UNCHANGED <<log, grown, losses, op, ops, entries, ctlId, todo, names,
                 target, result, made>>

(* The controller is gone, or the write fails.                               *)
DisconnectDeleteFails(p) ==
  /\ pc[p] = "disconnectDelete"
  /\ Return(p, "Err")
  /\ UNCHANGED <<kernelVars, entries>>

DisconnectDone(p) ==
  /\ pc[p] = "disconnectRead"
  /\ names[p] = {}
  /\ Return(p, "Ok")
  /\ UNCHANGED <<kernelVars, entries>>

-----------------------------------------------------------------------------
(* The kernel and the target.                                                *)

KernelScans(i) ==
  /\ Io(i) /\ i \notin ready
  /\ ready' = ready \cup {i}
  /\ UNCHANGED <<ctl, log, grown, losses, procVars>>

(* ctrl_loss_tmo has passed without a reconnect.                             *)
KernelLoses(i) ==
  /\ Io(i) /\ losses < MaxLosses
  /\ losses' = losses + 1
  /\ Delete(i)
  /\ UNCHANGED <<log, grown, procVars>>

TargetExports(t) ==
  /\ grown < MaxGrowth
  /\ log' = Append(log, t) /\ grown' = grown + 1
  /\ UNCHANGED <<ctl, ready, losses, procVars>>

Step(p) ==
  \/ DiscoverWrite(p) \/ DiscoverWriteFails(p) \/ DiscoverCount(p)
  \/ DiscoverPages(p) \/ DiscoverFails(p)
  \/ DiscoverRemove(p) \/ DiscoverRemoveFails(p)
  \/ ConnectNext(p) \/ ConnectNextFails(p) \/ ConnectAllDone(p)
  \/ ConnectWrite(p) \/ ConnectWriteFails(p)
  \/ ConnectReturns(p) \/ ConnectAllGoesOn(p) \/ TargetConnectPolls(p)
  \/ ConnectReadFails(p) \/ PollAgain(p) \/ PollEnds(p)
  \/ DisconnectRead(p) \/ DisconnectDelete(p) \/ DisconnectDeleteFails(p)
  \/ DisconnectDone(p)

Call(p) ==
  \/ Discover(p) \/ ConnectAll(p) \/ ConnectAllEmpty(p)
  \/ \E t \in Targets :
       \/ Connect(p, t) \/ ConnectRefused(p, t)
       \/ TargetConnect(p, t) \/ Disconnect(p, t)

Environment ==
  \/ \E i \in Instances : KernelScans(i) \/ KernelLoses(i)
  \/ \E t \in Targets : TargetExports(t)

(* The history of the numbers that processes hold from one system call to    *)
(* a later one, and of the log between the two commands of a discover.  A    *)
(* discovery controller counts as taken away only if it was by a process     *)
(* that had lost its own: nobody else has a reason to.                       *)
Holding == {"discoverCount", "discoverPages", "discoverRemove", "connectRead",
            "disconnectDelete"}
Taken(p) ==
  /\ pc[p] \in Holding
  /\ Exists(ctlId[p]) /\ ctl'[ctlId[p]] = Free
  /\ op[p] = "discover" => \E q \in stale : pc'[q] # pc[q]
Remember ==
  /\ stale' = {p \in Procs : pc'[p] \in Holding /\ (p \in stale \/ Taken(p))}
  /\ grew' = {p \in Procs : /\ pc[p] = "discoverPages" /\ pc'[p] = pc[p]
                            /\ p \in grew \/ log' # log}

Next == (Environment \/ \E p \in Procs : Call(p) \/ Step(p)) /\ Remember

Spec == Init /\ [][Next]_vars
FairSpec == Spec /\ \A p \in Procs : WF_vars(Step(p) /\ Remember)

-----------------------------------------------------------------------------
(* Properties.                                                               *)

NTypeOK ==
  /\ ctl \in [Instances -> Controller \cup {Free}]
  /\ ready \subseteq {i \in Instances : Io(i)}
  /\ log \in Seq(Targets)
  /\ entries \in [Procs -> Seq(Targets \cup {Garbage})]
  /\ todo \in [Procs -> Seq(Targets \cup {Garbage})]
  /\ names \in [Procs -> SUBSET Instances]
  /\ ctlId \in [Procs -> Instances]
  /\ count \in [Procs -> Nat]
  /\ target \in [Procs -> Nqns]

(* From the answer to its write until it has deleted it, the number a        *)
(* discover works with is that of the discovery controller it made: the log  *)
(* page it reads is the one it asked for.  Other processes do not disturb    *)
(* that with all they may do, but for one which deletes by the number of a   *)
(* controller that was taken away from it: no number is checked again.       *)
Owned(p) ==
  /\ Exists(ctlId[p])
  /\ ctl[ctlId[p]].kind = "discovery" /\ ctl[ctlId[p]].by = p
OwnDiscoveryController == \A p \in Procs :
  pc[p] \in {"discoverCount", "discoverPages", "discoverRemove"} =>
    p \in stale \/ Owned(p)

(* The types, and whose controller a discover works with.                    *)
NvmfInv == NTypeOK /\ OwnDiscoveryController

(* A process deletes only a controller it means: its own discovery           *)
(* controller (discover), or one that has the NQN given to disconnect.  Only *)
(* a process whose number was taken away between the read and the delete,    *)
(* by another disconnect of the same NQN, by the kernel, or by a process     *)
(* that this has happened to before, deletes whatever has the number now.    *)
Means(p) ==
  \/ op[p] = "discover" /\ Owned(p)
  \/ op[p] = "disconnect" /\ Io(ctlId[p]) /\ ctl[ctlId[p]].nqn = target[p]
DeletesWhatItNamed == [][\A i \in Instances :
  Exists(i) /\ ctl'[i] = Free /\ losses' = losses =>
    \E p \in Procs : ctlId[p] = i /\ pc'[p] # pc[p] /\ (p \in stale \/ Means(p))]_vars

(* connect_all connects the records one after the other and stops at the     *)
(* first that fails: what it has connected when it returns are the first     *)
(* records that the discoveries before it found, and all of them if it       *)
(* returns Ok; none was skipped as connected already.  The comment in it,    *)
(* "we are ignoring errors here, and connect to all possible devices"        *)
(* (nvmf_discovery.rs:406), says otherwise.                                  *)
ConnectsUpToAnError == [][\A p \in Procs :
  op[p] = "connectAll" /\ pc'[p] = "idle" =>
    /\ \E n \in 0..Len(entries[p]) : made[p] = ToSet(SubSeq(entries[p], 1, n))
    /\ result'[p] = "Ok" => made[p] = ToSet(entries[p])]_vars

(* The Subsystem that connect makes of the number it was given is the one it *)
(* connected, although it reads it from sysfs a step later and others        *)
(* connect and disconnect: only if the controller was taken away in between  *)
(* may it be another one that has got its number.                            *)
SubsystemIsTheConnected == [][\A p \in Procs :
  pc[p] = "connectRead" /\ pc'[p] # pc[p] /\ result'[p] # "Err" =>
    p \in stale \/ (ctl[ctlId[p]].nqn = target[p] /\ ctl[ctlId[p]].by = p)]_vars

(* A discover appends what the target exports, all of it and nothing from    *)
(* past its buffer, if the log has not grown between its two admin commands, *)
(* whatever was there before the first or came after the second.             *)
DiscoverReadsTheLog == [][\A p \in Procs :
  entries'[p] # entries[p] => p \in grew \/ entries'[p] = entries[p] \o log]_vars

(* Every operation returns, also NvmeTarget::connect when no device appears. *)
OperationsEnd == \A p \in Procs : []<>(pc[p] = "idle")

(* nvmf_discovery.rs:386-387: "we need to close the discovery controller     *)
(* when we are done and before we connect".                                  *)
ClosedBeforeConnect == \A p \in Procs :
  pc[p] = "connectWrite" =>
    ~ \E i \in Instances : Exists(i) /\ ctl[i].kind = "discovery" /\ ctl[i].by = p

=============================================================================
