# TLA+ models of mayastor-dependencies

This directory specifies the parts of the repository that keep state, talk to
other processes or retry. Every module is translated from the Rust source; what
is not in the repository (the JetStream server, the async_nats connection, the
kernel, docker) is modelled from how the code uses it and is marked *external*
in `PROJECT.json`.

## 1. The system

The repository is a collection of crates that other programs link. There is no
single main program; the state lives in the crates and in what they talk to.

| component | state | operations | interacts with |
|---|---|---|---|
| `event-publisher` | bounded channel of 500 events, publisher task | `on_event`, `publish_events` | tracing callbacks in any thread; `apis/events` |
| `apis/events` (bus) | connection, retry counters | `connect`, `get_or_create_stream`, `publish`, `subscribe`, `next` | JetStream |
| `apis/events` (retry, traits) | retry options; source component cell, event builders | `backoff_with_options`, `with_*` | - |
| `nvmeadm` | discovery entries, controller numbers | `discover`, `connect_all`, `connect`, `disconnect`, `NvmeTarget::connect` | nvme-fabrics in the kernel, sysfs |
| `composer` | docker containers and network, name to address map | `build`, `start*`, `stop*`, `restart*`, `down`, drop | docker |
| `devinfo` | mount table reader, partition identifiers | `consistent_read`, `source_mounted_at`, `PartitionID` | /proc, /dev/disk, udev |
| `platform`, `secret-provider` | once-initialised platform | `init_cluster_info_or_panic`, `platform_info`, `SecretProvider` | kubernetes |
| `prost-extend` | - | normalisation and conversions of durations and timestamps | - |
| `sysfs`, `tracing-filter`, `version-info`, `git-version-macro`, `apis/io-engine`, `apis/csi`, scripts, nix | none or build time only | - | - |

What is hard here, and a test would hardly reach: requests that time out and
arrive later, retries of what was already done, a server that loses the stream
under a publisher and a subscriber, a bounded buffer that overflows, a process
that dies between acknowledging and returning a message, kernel objects known
by a number that is used again, one failing step of several, a file that changes
while it is read, tables of names kept in memory that differ from docker's.
`PROJECT.json` lists them under `hazards`, each at the line where it bites.

## 2. Modules

### Event pipeline

`JetStream` - the external server: a stream in memory that keeps one message
per subject and discards the oldest. `Subject` is `NatsMessageBus::subject`.

`EventPublisher` - the producing process. `OnEvent` is `EventLayer::on_event`
with both outcomes of `try_send`; `RecvEvent`, `RecvClosed` are the loop of
`publish_events`; `Connect`, `StreamReady`, `CreateFails`, `Send`,
`AckReceived`, `SendFails`, `TimedOut`, `ErrorReceived`, `BackoffOver` are
`message_bus_init` and `publish` cut at their awaits; `Cancel` is the runtime
dropping the task. `pc` is the await the task is at, `cur` the event it
publishes, `tries` and `ctries` the counters of `publish` and
`get_or_create_stream`. Requests travel on `link`, one connection in order;
`Disconnect` loses the oldest, or leaves it behind in the cluster (`strays`)
when `Straggling` is TRUE. A request is identified by its event and the value of
`tries`, as it is by its inbox in the code, and outlives its attempt.

`EventDelivery` - the abstract promise: events are taken one at a time, in
order, refused only when the channel is full or nobody receives, and settled
exactly once. `EventPublisher!ImplementsDelivery` is the refinement.

`EventSubscriber` - `subscribe` (`GotStream`, `GotConsumer`, `RequestFails`) and
`next` in two steps, `Poll` (acknowledge) and `Parse` (return), because the
acknowledgement is awaited before the payload is looked at. The push consumer
(`Push`, `Redeliver`, `AckArrives`, `AckLost`, `ConsumerGone`) is external. The
delay between two requests of `subscribe` is a stutter. The history variable
`late` remembers that a consumer was made (`HaveConsumer`) while acknowledgements
meant for one that is gone were still on their way: the numbers of a new stream
begin again at 1, and the server cannot tell. `MCEventSubscriber` adds a producer
that stores events in order, some twice: what `StreamInOrder` of the publisher
guarantees.

`EventPipeline` - publisher and subscriber around one server, by `INSTANCE`; a
restart of the server takes the stream and the consumer in one step. Its
assumption is that of its two parts.

`RetryLoop` - the retry loop of all requests with the delays of
`backoff_with_options`.

`EventSource` - the cell with the process's component
(`InitializeSourceComponent`) and the `with_...` methods of `EventSource`:
`WithData` for those that begin with fresh details and so take away what earlier
ones put there, `WithMore` for those that add, `WithField` for those that do
nothing without the details of a host initiator. `source.has` stands for the
details that are there.

### nvmeadm

`NvmfFabrics` - several processes of one host that discover, connect and
disconnect. The kernel's controllers are `ctl`, a function from instance numbers;
a new controller gets the lowest free one. A process has one `Discovery`
(`entries`) and is at the system call or sysfs read named by `pc`:

| code | actions |
|---|---|
| `Discovery::discover` | `Discover`, `DiscoverWrite` (write to nvme-fabrics and its answer), `DiscoverCount`, `DiscoverPages` (the two admin commands), `DiscoverRemove` |
| `Discovery::connect_all` | `ConnectAll`, `ConnectAllEmpty`, then for each record `ConnectNext` ... `ConnectAllGoesOn`, `ConnectAllDone` |
| `Discovery::connect` | `Connect`, `ConnectRefused`, `ConnectReturns` |
| `ConnectArgs::connect` | `ConnectWrite`, then one read of sysfs by the number in the answer |
| `NvmeTarget::connect` | `TargetConnect`, `TargetConnectPolls`, `PollAgain`, `PollEnds` |
| `disconnect` | `Disconnect` (list the names), `DisconnectRead`, `DisconnectDelete`, `DisconnectDone` |

Each has a `...Fails` action for its error return. `disconnect` and the lookups of
`SubsystemHandles` go through the names that glob has found in any order (`names`,
`search.list`), since nothing they do depends on it. A page that is longer than
the buffer made for it is read past the buffer: what lies there is `Garbage`,
taken for a record or skipped. The kernel may lose a controller (`KernelLoses`),
scan its namespaces (`KernelScans`) late or never, and the target may add
records (`TargetExports`). Every step of `Next` is taken together with `Remember`,
which keeps two history variables: `stale`, the processes that hold the number of a
controller which was taken away since they got it, and `grew`, those whose log grew
between the two admin commands of the discover they are in. Subsystem names stand for whole discovery records; a
log that shrinks, the host's identity and the parsing of single values are left
out.

`SubsystemHandles` - `Subsystem::get` and `try_from_nqn`, which list names (`Search`)
and read the files of one controller after another (`ReadNqn`, then `ReadRest` for
all the others: the NQN and the rest may be of two controllers that had the
number), and what `sync`, `reset` and `disconnect` do later to a `Subsystem` that is
kept (`kept`) and knows of its controller the number. Several paths may lead to
one NQN. `Others` is every other process and the kernel.

### composer

`ComposeBuilder` - the addresses `Builder` hands out: `next_ip`,
`add_container_spec` with its three sources of an address and its panic,
`load_existing_containers`, `network` and `network_mode`. An address is a pair of
a network and a number.

`ComposeTest` - experiments, one after the other in one process, on a docker
daemon that keeps what they leave. `Build` and the actions up to `Started` are
`build`, `build_only`, `network_create`, `prune_network_containers`,
`create_container` and `start_all`, one docker request a step; the futures of
`try_join_all` run in any order, and `CreateFails` drops those that are left.
`Start` ... `StopNetwork`, `Down...` are the methods a test calls; `Drop...` is
`Drop`, in the order of its docker commands, each of which may fail and is not
looked at (`KillAndRemove`, `DropNetwork`); what docker so refused to remove is
remembered in `refused`. `CreateFails` is also a create that panics, as
`ContainerSpec` says it may. `Crash` is the process being killed. A container is known to docker by its name and has an id, the number of
containers made under the name so far; `mine` is a history variable with what
this experiment has made. `flags` are the flags of the builder, the host network
among them; `wanted` and `doubled` are the names of the specifications and those
given twice, of which the second create removes the container of the first.
`loading` marks the experiment that `load_existing_containers` builds in order to
ask docker (`Load`) and then drops. `StopNetwork`, `RestartNetwork` and
`RemoveNetworkContainers` act on all that is on the network, ours or not.
Reading methods (`logs`, `inspect`, `exec`) are left out.

`ContainerSpec` - what `create_container` makes of one specification: `Setter` are
the `with_...` methods, `PullImage` is `pull_image_if_required`, `Inspect` the
inspection of the image and the merging of its command, entrypoint and ports
with those of the specification and the builder. Another user of docker may
remove an image between two steps (`RemoveImage`), and what docker answers to
`list_images`, to the pull and to `inspect_image` is unwrapped, so that any error is
a panic (`Panics`). Volumes, aliases, mounts and
privileges are copied into docker's configuration and left out.

`MCComposeTest` gives names and combinations of flags.

### devinfo

`DiskLinks` - `PartitionID` and the directories of links under /dev/disk. A lookup
is `call`: it lists a directory (`ReadDir`), looks at the entries one by one
(`Look`), and is tried again when it found nothing (`NothingFound`, which is
`attempt`). `Udev` adds and removes links between any two of these steps, and a
listing may leave an entry out, as the code's comments say of old kernels.

`MountTable` - /proc/mounts and its two readers. `Get` is
`SafeMountIter::get_with_retries`, which decides once by environment and kernel
version how to read; `ReadChunk` and `ReadEnds` are `consistent_read`;
`SourceMountedAt` reads plainly and stops at the first line of its source
(`Take`). `Mount` and `Unmount` change the table between two chunks; a kernel
older than 5.8 then leaves a mount out. A line whose source is a link is
resolved by `DiskLinks` (`NextLine`, `Resolved`), so that table and links change
under one call. Two history variables serve the properties: `tables`, the tables
there were since the call began, from which `Stood` takes the lines that stood all
the while, and `back`, that a line which went since then has come back.

### The others

`PlatformCell` - the once-initialised platform: tasks that await
`init_cluster_info`, tasks and threads that call `platform_info`, the semaphore of
tokio's `OnceCell` (`Poll`, `Wake`, `Filled`, `Fails`, `Cancelled`) and the workers of
the runtime, one of which a task keeps busy while it joins the thread that
`platform_info` spawns.

`ProtoTime` - the normalisations and conversions of `Duration` and `Timestamp` as
operators, with the widths of the integers as constants. `Normalise` is
`normalize` in place. `Shown` is `Display`, in builds with and without overflow
checks (`checks`): the absolute value of the least i64 (`Abs`) is a panic in the
former and itself in the latter.

`MCParts` composes the parts that do not interact (`RetryLoop`, `ProtoTime`,
`EventSource`, `PlatformCell`, `ComposeBuilder`, `ContainerSpec`, `SubsystemHandles`): a
behaviour is one of one of them. `MCDevinfo` gives `MountTable` its lines.

## 3. Runs

| run | question | bounds |
|---|---|---|
| `publisher_safety` | the inductive invariants, the meaning of an Ok, survival of acknowledged events | 4 events (the third without metadata), channel 2, 2 retries, stream of 2, 1 restart |
| `publisher_liveness` | every accepted event is settled, the task ends, refinement of `EventDelivery` | 3 events, channel 1, 1 retry, stream of 1, requests may overtake |
| `subscriber` | order, loss and delivery for `next` | 3 events, 1 copy, 1 crash, 1 restart, 2 waiting deliveries |
| `subscriber_deaf` | *violation*: a subscription outlived by its consumer | 3 events, 1 copy, 1 restart |
| `pipeline` | order and origin end to end | 2 events, 1 retry, 1 crash, 1 restart |
| `nvmf_shared` | whose controllers a process reads, deletes and returns; which records a discover reads; how far `connect_all` gets; every operation ends | 2 processes, both of which may disconnect, 3 operations in all, 2 subsystems, 2 numbers, 2 polls, a log of 1 record that grows once, 1 lost controller |
| `nvmf_leak` | *violation*: a discovery controller is left open | 1 process of 2 operations |
| `compose_life` | whose containers an experiment holds, runs and removes; loading only asks; builds and drops end | 2 experiments, 2 names of which one may be given twice, 2 networks, 6 combinations of flags |
| `compose_created` | *violation*: containers nobody cleans up | 1 experiment |
| `devinfo` | what lookups and readers say while table and links change | 2 devices, 1 link name, tables of 3 lines out of 4, 2 retries of a read, 1 of a lookup, 1 incomplete listing, 2 changes in one call |
| `parts` | the seven small parts, each by itself (below) | below |
| `parts_bypass` | *violation*: whose ports a container gets with `with_bypass_port_map` | those of `parts` |

`parts` checks

* of `RetryLoop` the number of requests, the time waited and that delays grow, for
  all options up to 3 s and 4 retries;
* of `ProtoTime` both normal forms and every conversion, for all values of small
  integers: 4 nanoseconds in a second, seconds up to 5, nanoseconds up to 9 (two
  seconds and a part of a third, as in an i32), a chrono that holds less;
* of `EventSource` what is left after any 3 calls, and one component;
* of `PlatformCell` one result, no failure once filled and an end of every call,
  for 2 tasks, a calling task and a thread with 2 calls each and 1 or 2 workers;
* of `ComposeBuilder` that no address is given twice, none is lost and `next_ip`
  panics only when all are taken, on networks of 3 and 4 addresses with 3
  additions;
* of `ContainerSpec` what runs, what each variable of the environment is, and why
  `create_container` panics, after 2 setters, for 8 configurations of an image;
* of `SubsystemHandles` that lookups find what stays and return what was there, for
  2 numbers, 2 paths to one NQN, another one and a discovery controller, while
  others make 3 changes: enough to give a number to another controller between
  two reads.

Several properties are conjunctions of named parts, each with its comment in the
module (`ExperimentInv`, `LeavesOthersAlone`, `PublisherInv`, `SubscriberInv`,
`NvmfInv`, `EndToEnd`, `LookupsAnswerTruly`, `ContainerRuns`, ...).

The bounds are the smallest at which the hard cases happen: a channel that is
full while an event is in hand, two copies of one event and a copy of another in
flight together, a retry left and none left, a stream smaller than the number
of events, an event on each side of one that cannot be published; a number that
is free again while another process still holds it, a record on each side of an
unusable one; a network with one address left, an experiment that finds the
network and the containers of the same or another one, killed at any step; a
device mounted in two places, a mount removed between two chunks before the
place of the reader, a link that appears after the listing; a runtime all of
whose workers wait. The counters of the code are bounded by themselves (`max_retries`, the polls of
`NvmeTarget::connect`, the retries of `consistent_read` and `attempt`, here 1 to 3
instead of 10); everything else is bounded by
the constants named `Max...`.

Some properties have an exception for something the code does not exclude, each
told by a history variable, so that it covers that case and no other. What two equal
reads of `consistent_read` say is the table of some moment unless a line went and
came back in between (`back`); the reads may otherwise both mix two tables in the
same way, which takes three changes of the table in one call, one more than
`devinfo` makes. A crash costs one event at most unless an acknowledgement of before
a restart of the server is taken for one of the new stream's messages (`late`). A
discover reads the log as it is unless the log grew between its own two commands
(`grew`); growth before the first or after the second excuses nothing. A process
deletes, or returns, the controller it means unless that was taken away while it held
the number (`stale`). `Drop` leaves behind only what docker refused to remove just
then (`refused`). `grew`, `stale` and `refused` matter in the runs: with the exception
taken out, TLC finds the property violated there. `late` is needed by the invariant
of the proof; on the bounds of `subscriber` the property holds without it, since a
consumer is only made again by a process that has crashed, which excuses one event
already.

Deadlock checking is off where the system may really stop: the task has ended
or was cancelled, all events have been emitted, all operations are done, a part
has used up its calls. `devinfo` is checked for deadlock: its callers go on for
ever.

What `stale` excepts is a weakness of the code: `disconnect` reads the NQN of a
number and deletes by the number, and `ConnectArgs::connect` reads sysfs by the number
in the answer to its write. Two disconnects of one NQN that overlap, or a controller
that the kernel gives up, free the number; if another connect gets it before the
delete, the controller of another subsystem is deleted, although `disconnect`
"disconnects a specific NVMf device, identified by its nqn", and a subsystem that is
not the connected one is returned. `DeletesWhatItNamed` and
`SubsystemIsTheConnected` say that this is the only way.

### Fairness

`EventPublisher!FairSpec` asks for weak fairness of the task (it is scheduled,
its timers fire, each request succeeds, fails or times out) and of `Connect`
(`connect` retries for ever, so that the server is reached once). Nothing is
asked of the server or the connection. `EventSubscriber!SFairness` asks for
strong fairness of what is tried again and again and may fail each time
(requests, acknowledgements), and for weak fairness of the process and of the
server's pushes. `NvmfFabrics!FairSpec` asks that a process in an operation goes
on: its calls block for a bounded time and return something. `ComposeTest!FairSpec`
asks the same of the process and of docker's answers; that a request fails is
only asked where docker must refuse it: a name that is in use, an id that is gone.
`PlatformCell!CellFairness` asks that each user that can run is run and that
requests are answered; nothing asks that they fail or succeed, nor that a task
is cancelled. A user can run only while a worker is free, which fairness cannot
change: `CallsReturn` excuses the calls of a runtime all of whose workers wait
in `platform_info` for ever.

### What the violations show

* A subscription does not survive the loss of the in-memory stream: `next()`
  ignores the loss of its consumer (a TODO in the code) and waits for ever.
* A `discover` that fails after its controller was created leaves it open:
  `remove_controller` is not reached on any error path.
* `build_only` knows the containers it has made only when all could be made;
  if one fails, `Drop` leaves the others in docker.
* `with_bypass_port_map` ("Bypass the container image's port map",
  `composer.rs:371`) does not bypass the ports of the image: with it, and only with
  it, they are bound, in place of what the user mapped (`WithImagePorts`).

While modelling, other places were met where a comment says more than the code
does; they are visible in the modules and have no run of their own:

* a failed `publish` is not always discarded (`mbus_nats.rs:273`) and a published
  message may be received twice (`:272`): a copy sent by an attempt that timed out
  may be stored later, and replaces one that was delivered;
* `connect_all` does not ignore errors (`nvmf_discovery.rs:406`): it stops at the
  first, "and connect to all possible devices" is not what it does. Checked and
  proved is what it does instead (`ConnectsUpToAnError`): a prefix of the records;
* with `reuse` and without `prune_matching`, `start` does nothing (`Starts`), so
  that `autorun` does not "run all containers on build" (`composer.rs:578`);
* the network of another experiment is removed with its containers whatever
  `prune` says (`ListNetworks`), and `prune_matching` never matches there, because
  it looks up an id among names in a map that is still empty;
* `load_existing_containers` builds an experiment with the builder's own flags
  (`composer.rs:633`): with the default ones, which prune and clean, it removes
  what it was to load, and the network with it. `LoadOnlyAsks` holds without
  `prune`;
* `restart_network_containers` may start a container of an earlier experiment even
  after a build that prunes (`PrunedIsAlone`): a build that fails leaves containers
  that never ran, `Drop` removes their network, and the next build, which finds no
  network of its name, prunes nothing;
* `stop_network_containers` is said to return the last error (`composer.rs:1771`)
  and returns the first, by `collect`;
* of two specifications with one name the map may hold the id of the container
  that was removed (`Given`); `start` then fails;
* identifiers made from paths under by-path and by-uuid become PARTUUIDs
  (`partition/mod.rs:106`, `ByDir`) and are looked up in by-partuuid, so that lines of
  the mount table with such a source are errors;
* a `Subsystem` knows its controller by number: once that is given to another,
  `sync` takes the state of the other, `reset` and `disconnect` act on it, and a
  lookup may return the NQN of one with the address of the other
  (`FoundWasThere`, `HandleIsOwn`);
* `consistent_read` can return, on a kernel older than 5.8, a list without a mount that
  stood all the while: when a mount goes and comes back around each of two reads,
  both leave the same other one out and are equal (`mountinfo/mod.rs:227`,
  `StandingMountIsListed`);
* an acknowledgement that reaches the server after it has restarted names a message
  of the new stream, which is then never pushed again (`late`);
* `source_mounted_at` does not tell whether "the `source` is mounted at the given
  `dest`" (`mountinfo/mod.rs:180`): the first mount of the source decides, and of a
  source that is mounted in two places the second is denied (`FirstMountDecides`);
  it also stops at the first line that is an error (`Take`, `FalseHasReason`);
* `Display` of a `Duration` looks at the sign before it normalises (`Shown`): a minus
  sign is lost when seconds and nanoseconds have different signs or one is zero. At
  the least i64 of seconds it panics, or prints a negative number where overflow is
  not checked; `ShownMagnitude` names this as the one value that is not printed right;
* MY_POD_IP is the container's address even where the user has set it
  (`EnvironmentIsMerged`);
* `platform_info`, called from all workers of a runtime while a task of it holds the
  cell's permit, never returns (`Stuck`).

## 4. Proofs

Each `...Proofs` module extends the module it is about, and its theorems hold for
every value of the constants that satisfies the named `ASSUME`s of that module; a
further hypothesis is part of the theorem. Every invariant and every action
property that the passing runs check is a theorem. The runs show each on a small
instance, and came first: most invariants below were found because TLC or the
prover showed a step that the property alone does not survive.

| module | theorem | states | for any |
|---|---|---|---|
| `EventPublisherProofs` | `PublisherInvariant` | `PublisherInv` | events, channel, retries, restarts |
| | `OkMeansStored` | `AckedWasStored` | the same |
| | `StreamOrder`, `StoredOrder` | `OrderInv`, `StoredInv` | the same, `~Straggling` |
| | `OkLasts` | `AckedSurvives` | the same, any stream size, `~Straggling` |
| | `PublisherDelivers` | `Spec => Delivery!SafeSpec` | the same |
| `EventSubscriberProofs` | `ReturnedInOrder` | `HandedInOrder` | copies, crashes, restarts, `MaxAckPending = 1` |
| | `OneMissed` | `SubscriberInv` | the same, any `MaxAckPending` |
| `EventPipelineProofs` | `EndToEndOrder` | `EndToEnd` | both of them, `~Straggling`, `MaxAckPending = 1` |
| `NvmfFabricsProofs` | `ReadsTheLog`, `ConnectsThePrefix` | `DiscoverReadsTheLog`, `ConnectsUpToAnError` | processes, targets, numbers, growth |
| | `WorksOnItsOwn`, `DeletesNamed`, `ReadsTheConnected` | `NvmfInv`, `DeletesWhatItNamed`, `SubsystemIsTheConnected` | the same, any disconnectors and losses |
| `ComposeTestProofs` | `ExperimentAlways`, `PrunedAlone`, `DropCleaned`, `OthersLeftAlone` | `ExperimentInv`, `PrunedIsAlone`, `DropCleans`, `LeavesOthersAlone` | experiments, names, networks, flags |
| `ComposeBuilderProofs` | `AddressesDistinct`, `AddressesKept`, `BuilderSound` | `OwnAddress`, `AddressKept`, `BuilderIsSound` | networks, names, calls |
| | `ContainerIsRight`, `EnvironmentMerged` | `ContainerRuns`, `EnvironmentIsMerged` | images, setters |
| `DevinfoProofs` | `LookupsTrue` | `LookupsAnswerTruly` | devices, links, retries, changes |
| | `ReadsConsistent`, `StandingListed`, `FirstMount` | `ReadsAreConsistent`, `StandingMountIsListed`, `FirstMountAnswers` | lines, tables, retries, changes |
| `PartsProofs` | `DelayGrows`, `RetriesBounded`, `DelaysGrow` | `Bounded`, `GraduallyLarger` | options |
| | `CellOneResult`, `CellNoneFails`, `CellOneAsks` | `OneResult`, `NoneFailsOnceFilled` | tasks, threads, workers, calls |
| | `SourceDetails`, `SourceComponent` | `LastCallsCount`, `OneComponent` | calls |
| | `TimeNormal`, `TimeConverts` | `NormalForms`, `Conversions` | widths of the integers |
| | `SubsystemsTrue` | `SubsystemsAreTrue` | paths, numbers, changes |

### Hypotheses

`~Straggling`: one server, or a cluster in which what was written to a connection
before a reconnection does not overtake what is written to the next. The code
does not exclude the other case; the run `publisher_liveness` allows it, and no
order is claimed there.

`MaxAckPending = 1` is what `create_consumer_and_get_messages` asks for.

### Arguments

**Publisher.** `TypeOK` alone is not inductive: that `tries` keeps its bound after
the stream has been created needs `ControlOK` (the task goes to create the stream
only while a try is left), and that events stay distinct needs the order of the
channel (`TakenInOrder`). `OkMeansStored` comes from `AnswerOK`: an Ok on its way
is about the awaited attempt. `OrderInv` says that requests on the link are
ordered, none older than what is stored or newer than what was taken. `StoredInv`
says the same of all that was ever stored, which a restart of the server does not
take away, and that it was taken off the channel with an identity. `OkLasts`
counts: `SurvivesInv` says of every event ever stored, acknowledged or not, that
it is in the stream or `StreamLimit` later events have been stored; `MadeRoom`
shows, from the order, that what the stream discards has as many distinct later
events behind it as it holds messages.

`PublisherDelivers` is the safety half of the refinement. `PhasesOK`, which
follows from `PublisherInvariant`, says that the phase of an event is told by the
one place it is in; each action then moves one event by one phase, or all of the
buffer at the end, or none.

**Subscriber.** `HandedInOrder` speaks of what was returned only;
`SubscriberOrder` orders the whole way, from what was returned over the event in
hand and the deliveries that wait to what the consumer may still push
(`HandOver`). `Missed`, which `OneMissedPerCrash` counts, is not inductive: an
event leaves it while a copy of it waits and comes back when a crash takes the
copy. `MissInv` counts a larger set, `Gone`: the pushed messages whose
acknowledgement has arrived or is under way and that `next()` has neither returned
nor in hand. Only a crash adds one to it, the one in hand; `SameMessages` says
that what the process holds under a number is what the stream holds under it, so
that no other message can be acknowledged in its place.

**Both.** A step of `EventPipeline` is one of the publisher, which leaves the
subscriber alone and stores at most the first request on the link, or one of the
subscriber, which stores nothing, or a restart of both. The two proofs are taken
by `INSTANCE`; what links them is `Linked`: the subscriber is in order, and all
that it has (`SeenIn`) was stored. A stored event is not older than any that was
stored before (`StoredInOrder`), so that `StoreStep` applies; it was taken off the
channel (`OriginOK`), and by `Accounted` is not one that was dropped or still
waits.

**NvmfFabrics.** `NInv` has the types, which control points belong to which
operation, what a discover was announced (`AnnouncedInv`: the length of the log,
unless the process is in `grew`), and how far `connect_all` is (`ConnectAllInv`: what
it has connected are the records before the one it is at, in their order).
`OwnInv` says of every process that holds a number that it is in `stale` or the
controller of that number is the one it means (`Right`): its own discovery
controller, the one it has just connected, one with the NQN it was given. A step
that takes a controller away puts those who hold it into `stale`; a step that gives
out a number takes a free one, which nobody holds who is not in `stale`.

**ComposeTest.** `MineInv` ties the map of ids, the history of what was made and
what docker has; `LoopInv` says how far the loops over the containers are;
`NetworkInv` that running containers are on the one network there is and that,
with `prune`, all on it are ours while the experiment comes up. `IdsAreOurs` needs
all three, since another experiment's container may have a name of ours until the
create that removes it. `DropCleaned` goes over the containers of `Drop` one by one
(`DropOne`): each that has been dealt with is gone, or docker has refused it.

**ComposeBuilder.** `OwnAddress` is not inductive: a container that docker has
takes its reported address with it, which must not be that of another one it has.
`ExistingApart` says so, and holds while docker was asked once, before anything
was added. **ContainerSpec**: `SpecInv` says which image was pulled and inspected,
and that what was created is the merge of the specification with it; a panic over a
pull is told by `trouble`. For `EnvironmentMerged`, `EnvironmentIs` finds for each
variable the last setting of it in the list that docker is given.

**Devinfo.** `LookupInv` says what a lookup has seen (`HistoryInv`) and why a link
that stood may have been missed (`MissedInv`). `TableInv` compares the reader with
the tables of the call. As long as no line has come back, what a read has so far
is the beginning of the table, or one of its lines has gone (`PrefixInv`); a read
that has ended was of one table, or one of its lines is neither in the table nor
in the read after it (`PrevInv`), so that two equal reads are of one table
(`AgreedInv`). A change spoils one read and two comparisons (`BusyInv`). On a
kernel since 5.8 a line that stands has been read or is still ahead
(`StandingInv`). While the table stays as it is, what `source_mounted_at` has passed
is the beginning of it (`StillInv`), without a mount of the source.

**The parts.** `RetryInv` ties the number of requests, the last delay and the time
waited to `tries`. By `CellInv` whoever asks the platform holds the permit and has
an empty cell before him, so that nobody else fills it. `ComponentInv` is needed
because a source built before the component was set has none, whatever is set
later. For the times, `CarryKeeps`, `SameSignKeeps` and `BorrowKeeps` follow the
steps of the code, in which nanoseconds hold two whole seconds and a part of a
third, as in an i32; `NormalFormIs` says that a value has one normal form, Rust's
quotient and remainder, from which the conversions follow. `HandleInv` says that a
number keeps its controller as long as its id is there, and what a half-made
`Subsystem` was read from (`HalfRead`).

### Only model-checked

* Liveness: `TaskSettles`, `DeliveredUnlessLost`, `OperationsEnd`,
  `BuildsAndDropsReturn`, `CallsReturn`, and the fairness that `EventDelivery` asks for in
  `ImplementsDelivery`. Fairness and `ENABLED` are out of the prover's reach; TLC
  checks them on the bounds of section 3.
* That the four violations happen: a counterexample on a small instance is all
  that is needed.

The bounds of the runs are not among the hypotheses: where a theorem names a
`Max...` constant its value is any number.

## 5. Plan

1. `ContainerSpec` inside `ComposeTest`, so that a failing pull of one image meets the
   creates of the other containers, with `ComposeTestProofs` extended by the case.
2. The subscriber's abstract promise as a module of its own, as `EventDelivery` is for
   the publisher, with a refinement through `EventPipeline`.
3. The safety lemmas behind the liveness properties: that a waiting call of
   `PlatformCell` or a task with an event in hand always has a step to take, and a
   measure that each such step lowers.

## 6. Not modelled

Formatting and parsing without a property about it, layouts of NVMe pages, the
code generated from protobuf, blkid and udev calls, sysfs reads, tracing filters,
version strings and macros, scripts and nix files: no state, or external
libraries. `secret-provider` is a chain of reads that may fail, without state and
run by one caller.
