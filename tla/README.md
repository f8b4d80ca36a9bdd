# A verification development for FreeBSD Laboratory

FreeBSD Laboratory lets a Jupyter server run notebook kernels in disposable
FreeBSD jails and bhyve guests. A privileged daemon creates and destroys the
runtimes, the server's provisioners ask it to, tunnel the kernel's ports through
SSH, and a laboratory service records evidence of what the learner did. This
directory holds TLA+ modules translated from the code, TLC configurations that
check them on small instances, and TLAPS proofs.

Paths below are relative to `src/`; `runtime_daemon.py` and the other Python
files are in `freebsd_laboratory/`.

## 1. Inventory

| Part | State | Operations | Status |
|---|---|---|---|
| Runtime lifecycle, `runtime_daemon.py` (`RuntimeManager`) | registry directory (one JSON record per runtime), lease pool, per-name locks, the shared lock, "bridge/switch configured" flags; on the host: jails, datasets, guests, epairs, memory disks | `create_jail`, `create_bhyve`, `destroy`, `gc` | modelled |
| Request server and startup, `runtime_daemon.py` (`RuntimeRequestHandler`, `main`), `peer_credentials.py` | one thread per connection, peer credentials | dispatch, startup reconciliation, serve | partly |
| Address pool, `network.py` (`IPv4LeasePool`) | a lock file and one lease file per address | `allocate`, `release`, `clear_orphans` | modelled |
| Process identity, `process_identity.py` | none (asks `ps`) | `query_process_identity`, `process_matches` | modelled |
| Tunnel ports, `port_leases.py` (`LocalPortLeasePool`) | lease files that carry pid and fingerprint; reservation sockets | `allocate`, `release_reservations`, `release` | modelled |
| Provisioners, `remote_provisioner.py`, `bhyve.py`, `provisioner.py`, `remote_connection.py` | runtime name, "created" flag, reservation, original connection values, the connection file | `pre_launch`, `launch_kernel`, `cleanup`, save and load of its info | partly |
| Client, `runtime_client.py`, `gc.py` | none | request with a socket timeout | partly (with the provisioners) |
| SSH transport, `ssh_transport.py` | known-hosts file | wait until ready, stage | partly (with the provisioners) |
| Evidence, `service.py`, `handlers.py`, `app.py` | events in memory, `events.jsonl`, the exported bundle | record, state, export | modelled |
| Signing and verification, `signing.py`, `verify.py` | signature and manifest files | sign, verify | modelled (with the export) |
| Kernel telemetry, `kernel_telemetry.py` | window of recent message ids (deque and set) | first observation | modelled |
| Panel, `labextension/src/index.ts` | displayed state, attached notebooks | refresh, record, export | partly (no layout, no texts) |
| Sentry, benchmark, installation, images, prototype | | | not modelled: reporting, measuring, administrator's shell scripts, unused code |

### How the parts interact

A provisioner calls the daemon over a Unix socket; the daemon authenticates the
peer by its credentials and fingerprints the process (pid and start time), which
becomes the owner of the runtime. `create_*` and `destroy` run under a lock of
the runtime's name, `gc` under a shared lock, and `gc` calls `destroy`. `create_*`
takes the shared lock too, until the bridge (and for guests the switch) has been
configured once. They all share the registry and the lease pool on disk and the
resources of the host; the registry is the only memory that survives the daemon.
`main()` runs `gc` as root before it serves. A failed `create_*` calls `destroy`.

A provisioner's `pre_launch` asks for the runtime and then does two things at
once: it waits for the runtime's SSH server, and in a thread it leases tunnel
ports from a pool that all Jupyter processes of the host share (lease files under
a lock file, and a bound socket per port), after which it rewrites Jupyter's
connection file to those ports. The file is copied into the runtime;
`launch_kernel` closes the sockets and starts an `ssh` that binds the same ports.
`cleanup`, and every failure on the way, restores the file, releases the ports
and asks the daemon to destroy the runtime.

The browser extension posts an event for every notebook it attaches and every
cell that is run, asks for the state and for exports, and shows every state that
comes back. Its requests overlap. The handlers are synchronous and run one after
the other on the server's event loop; the messages of kernels pass through the
same loop, where `kernel_telemetry.py` picks out errors once per message although
every websocket of the kernel sees them. The service writes `events.jsonl` line by
line and an export file by file; `verify.py` reads the directory at any later time,
also after an interrupted export.

### What is hard about it

* Requests for one name, and `gc`, interleave between any two commands; `gc`
  works from lists it read earlier.
* Any command may fail, time out after it had its effect, or not be startable;
  existence probes read every failure as absence.
* The daemon may die between any two commands; the host may reboot, which
  removes jails, epairs and memory disks and keeps datasets and guests.
* Owners die, and their pids are reused.
* Interface units are reused by the host while old records still name them.
* Two kinds of locks are taken in two orders, and those of the names are not
  reentrant (the shared one is an `RLock`, `runtime_daemon.py:137`; only two
  different threads ever meet at it).
* Between the close of the reservation sockets and the bind by `ssh` only the
  lease files guard the tunnel ports; Jupyter processes die and leave lease files
  and `ssh` children behind.
* A branch of `asyncio.gather` goes on when the other has failed; a client that
  times out does not stop the daemon.
* An event is in the file before it is in memory, and an `fsync`, the process or
  the host may fail in between; numbers come from memory.
* An export overwrites the files of the one before, and a signature, where there
  was one, stays until it is replaced.
* Answers reach the browser in any order, or never after the event was accepted.

`hazards` in `PROJECT.json` lists each of these at its line, with the
properties aimed at it.

## 2. Modules

```
AddressPool        what the pool promises: an atomic table of leases
   ^ implemented by
IPv4LeasePool      lock file, exclusive create, owner written later, sweep, deaths
                   MCIPv4LeasePool, LeasePool.cfg, IPv4LeasePool_proofs
   ^ AddressPool is used by
RuntimeDaemon      create, destroy, gc, startup, crashes, clients
                   MCRuntimeDaemon, Daemon_*.cfg,
                   RuntimeDaemon_proofs < DaemonSafety_proofs < DaemonWhole_proofs
   v implements
RuntimeLifecycle   what the daemon promises for every name

PortLeases         the host-wide pool of tunnel ports
   ^ extended by
Provisioner        launch and cleanup of kernel sessions, ssh, client and daemon
                   MCProvisioner, Provisioner.cfg,
                   Provisioner_proofs < ProvisionerCleanup_proofs

EvidenceService    handlers, event log, export, signing, verification, deaths
KernelTelemetry    the window of kernel errors
   ^ both extended by
ProgressionPanel   the browser's requests and answers, and the composition
                   MCProgressionPanel, Evidence.cfg,
                   ProgressionPanel_proofs < Evidence_proofs
   v implements
EvidenceStream     what the service promises: a bounded stream and what a bundle attests
```

**AddressPool** has the leases as one variable (`leases`), and `Allocate`,
`AllocateTorn`, `Release` and `ClearOrphans` as atomic actions. `Blank` is a
lease file whose owner was never written. `Unusable` are addresses whose lease
path cannot be opened as a file (`allocate` skips them); the set is fixed.

**IPv4LeasePool** is `network.py` system call by system call: waiting for the
lock, trying one address after the other with an exclusive create, writing the
owner, unlinking an own lease, sweeping, and a process that dies at any of these
points (the kernel drops its `flock`). The refinement maps the lease files to
`AddressPool`'s `leases`; a lease created and not yet written is mapped to its
value before the call, since nobody else can look while the lock is held.

**RuntimeDaemon** has a step for a command, a file write or a wait for a lock of the
request threads, or for a few commands in a row between which nothing is recorded and
nobody else is affected: `addm`, `private` and `up` of an interface, `jail -c` and the
`jexec` after it, `vm create` and the clone of its disk. Such a step may fail with any
part of its effects done. `pc` is a thread's position, `frame` the locals of its request
(`rec` is the record in memory, `back` who called `destroy`), `gcv` those of its
`gc`. Labels: `c_*` create, `ensure*` the bridge and the switch, `d_*` destroy,
`g_*` gc. The thread `Main` is `main()`: it starts at `g_lock`, and the daemon
serves when it has returned; where `Reconciles` has `FALSE` a daemon may also be started
with `--no-reconcile` and serves at once. `host` is what exists: `<<"jail", n>>`,
`<<"dataset", n>>`, `<<"vm", n>>`, `<<"vmdata", n>>` (the guest's dataset under
`zvol-clone`), `<<"source", n>>` (the temporary clone a memory disk is filled from),
`<<"epair", u>>`, `<<"md", u>>`. A process is its pid and its
incarnation, so a reused pid is another process. `backend = "none"` is a host
without the `vm` command, on which guests are invisible to probes and listings.

A failing command is a `Fault`. `Build` is a command of create: it succeeds, or
fails after none, some or all of its effect, and then create calls `destroy` as the
code does. Probes and listings may fail too and are then read as the code reads them:
`vm info` and the probes for orphans as "absent" (`CreateBegin`, `CreateAllocate`), the
probes at the end of destroy as "gone" (`DestroyCheck`; the history variable `missed`
notes the name), a listing as empty (`GcDiscover`, `GcBridge`), a lease that cannot be
read as one to leave alone (`DestroyRelease`, `Sweep`). `Remove` is a removal of destroy with its retries: the target is gone,
some of it remains, or a timeout raises. `Crash`, `Reboot`, `ClientExit` and
`ClientStart` are the environment.

**RuntimeLifecycle** is the promise for a name: it is registered by one process
while it is free, parts appear only while it is registered, it stays with its
owner, it is unregistered only when no part is left but `Forgettable` ones; a reboot
takes the volatile parts. The refinement maps what exists of a name to its parts, with
the guest's dataset as the forgettable one, and shows nothing of a name in `missed`.

**PortLeases** is `port_leases.py`: an `allocate` call (`task`) waits for the lock
file, looks at each candidate port in turn, binds it, replaces stale lease files
by its own, and on failure undoes what it got. `bound` says whose socket is on a
port: the pool's for a session, a session's `ssh`, or a stranger's program.

**Provisioner** extends it with the coroutine of every kernel session (`at`) and
the attributes of its provisioner (`prov`), the connection file (`conn`: the
tunnel ports in it, or `{}` for the ports Jupyter chose), the `ssh` processes, and
the daemon reduced to the owner of every runtime (`rt`). A create that finds its
own runtime, or fails, gets stuck in the daemon (`stuck`), which is what the run
`reconcile_deadlocks` shows of RuntimeDaemon; a request the client gave up on is
finished later (`lost`, `LateCreate`, `LateDestroy`). When a Jupyter process dies
(`Die`) its sockets, locks and coroutines go, its lease files, `ssh` processes
and runtimes stay; its pid may be reused.

**EvidenceService** has the service's memory (`events`, `session` for the
`LabService` object), its directory (`dir`, a record of files, the log as a sequence
of lines) and the number of log lines on stable storage (`synced`). `srv` is what the
event loop is doing and for which request. Recording an event is two steps,
`WriteEvent` and then `AcceptEvent` or `FsyncFails`; an export is one step per file,
from `ExportBegin` to `ExportSums`, each of which may fail and leave the file torn.
`Verifies` is `verify_bundle` without a trusted key. `Killed` and `PowerLoss` end the
server anywhere; `ServerStart` is a new service with a directory of its own, since
nothing in the code opens an old one again.

**EvidenceStream** is what a reader of the service may rely on: accepted events are
only appended, never more than the limit, and a bundle vouches for nothing or for
exactly the accepted events; it is withdrawn before the stream goes on. The
refinement maps the stream to `events` and the bundle to `evidence.json` when the
directory verifies.

**KernelTelemetry** has the deque and the set as two variables and the history
variable `since`, the number of other messages first observed after a message.

**ProgressionPanel** adds the browser: `req` holds the HTTP requests, `shown` the
state on display, `attached` the notebooks whose context was posted. A request that
was answered stays `ok` until the browser receives it, so answers overtake each
other. The history variable `behind` marks the known ways in which the panel is out
of date: an overtaken answer and a restarted server.

The history variables `spoiled` and `overlooked` mark the sessions that met one
of the gaps of section 5: the properties are stated for the others.

### What the models abstract

* Contents of files, keys, command lines, JSON and log text. The record keeps
  the fields that destroy and gc read.
* The scan of the registry (`_registered`) is one step; a scan that meets a
  deletion raises, as in the code (`GcRaises`).
* A command that is running when the daemon dies, or the part of it that was done, is
  a step that fails followed by the crash: the model then spends a fault and a crash.
* `clear_orphans` is atomic towards the daemon; IPv4LeasePool shows why it may be.
* Running out of interface or memory-disk units is not modelled: a create waits
  at that step in the model, and the instances have enough units for it not to
  matter, except where one unit is what a run is about.
* `arp -d` of a stale entry changes nothing the properties see; that it can time
  out and raise is modelled.
* A create that calls `destroy` never returns (section 5), so what create does
  after that call is unreachable in the code and absent from the model.
* Tunnel ports are a set: which port is for which channel is not distinguished.
* `release`, and the undo of `allocate`, unlink all their files in one step, or some of
  them when one raises; `_locked` keeps others out.
* `Provisioner` lets other sessions of a process go on while one waits for the
  lock in `release`; in the code the event loop is blocked for that time.
* Saving and loading the provisioner's info is left out, and so is a cancelled
  `pre_launch`, whose `except Exception` does not see the cancellation.
* The frames of the wire protocol and the validation of requests: a `Request` is
  a well-formed one from a live process.
* A hash is the contents it is of, and a signature the manifest it is of: two
  contents with one hash, and a forged signature, do not exist in the model.
* Redaction, payload sizes and the source digests are left out; since a payload's
  size is not modelled, any event may be refused (`Reject`).
* Stages that only machine events complete are left out, because no code of the
  repository records a machine event.
* The files of an export are all there or all torn after a loss of power (one torn
  file is enough for verification to refuse), and the entry of `events.jsonl` in its
  directory, made at the start of the session, is taken to be durable.
* `attachNotebook` waits for the notebook between noting it and posting its context;
  as the post may happen at any later time the two are one step.
* A request made while the server is down fails at once. Notices and error texts of
  the panel are left out. The request for reconciliation that `app.py` makes at its
  start is `RequestGc` of RuntimeDaemon.
* A kernel message without an id is always reported and does not touch the window.

## 3. Runs

All runs bound the number of requests, faults, crashes and incarnations of a pid
(`MaxRequests`, `MaxFaults`, `MaxCrashes`, `MaxInc`). Because requests are
bounded, every behaviour ends; deadlock checking is off and `RequestsAnswered`
takes its place. Symmetry is used for threads, epairs, memory disks and, where
there are two, names, and for kernel messages in `evidence`; never in a run with a
liveness property.

| Run | Instance | Shows |
|---|---|---|
| `lease_files` | 2 callers, 2 names, 3 addresses, one unusable; deaths anywhere | `TypeOK`; `ImplementsAddressPool`: whatever dies where, the files behave as the atomic table the daemon model uses |
| `daemon_faults` | root and a user, one name, jails and guests, `zvol-clone` or no `vm`, 2 threads and `Main`, 2 requests, 2 faults (failing probes included), 1 crash or reboot, a pool that contains the bridge's address | `TypeOK`; `RegisteredWhileExisting`: what carries a name is registered, but for the two exceptions the property names; `ImplementsLifecycle`: a name passes from one owner to the other only when it is gone |
| `daemon_addresses` | 2 names, 2 addresses, jails, 3 requests, 1 fault, 1 crash or reboot, started with and without reconciliation | `AddressesDistinct`: no two running jails share an address (unprivileged clients) |
| `daemon_quiet` | 2 users, one name, jails and guests, `zvol-clone` or `memdisk`, 4 requests, no faults, from the first start on | `AllOrNothing`: between requests a runtime is complete or leaves no trace; `OnlyKnownDeadlocks`: only the two deadlocks of section 5 happen; `OnlyOwnerUnregisters` |
| `daemon_startup` | one name, one user with a reusable pid, 2 requests, 2 faults (failing probes and `ps` included), 1 crash or reboot, with fairness | `StartupSparesLiveOwners`, `StartupReclaimsLeftovers`, `StartupReclaimsStale`, `RequestsAnswered` |
| `tunnels` | 2 sessions in 2 Jupyter processes, 3 ports of which each needs 2, 2 launches, 2 faults or deaths, one reuse of each pid, with fairness | `TypeOK`; `PortsExclusive`: no port is held by two sessions, the handoff to `ssh` included; `Wired`: a tunnel that is up connects the client's file to the kernel's own ports in the session's own runtime; `NothingLeft`: after a failed launch or a cleanup nothing remains; `LaunchEnds` |
| `evidence` | 3 requests, 2 events at most, signing on or off, 2 servers one after the other, one death or loss of power anywhere and one other fault (write, short write, `fsync`, key, connection); 3 kernel messages, a window of 2 | `TypeOK`; `LastLineWins`: every accepted event is on stable storage as the last line of its number; `ImplementsStream`: at every moment the directory is refused or vouches for exactly the accepted events; `ExportVerifies`: a successful export verifies, is signed when it should be and has matching checksums, whatever earlier exports left; `PanelTruthful`: the panel shows states that were, and the present one when all is quiet; `SuppressedInWindow` |
| `reconcile_deadlocks`, `lock_order`, `gc_live_owner`, `address_reuse`, `epair_reuse` | the smallest instance that shows it | section 5 |

Why the bounds are enough. Threads meet only in the registry, the leases, the
locks and the host, and work on one name is serialised, so a conflict needs two
threads and, for resources shared between names (addresses, epairs), two names.
The shortest bad histories known for the mutated models need one create to leave
something behind, one fault or crash, and one or two requests that meet it. Startup
runs `gc` without a request, so that two requests and a crash in between already reach
every kind of leftover, and a second owner who finds it; with two names there are three
requests. Two faults let a command that fails meet a probe that fails. Tunnel ports are contended for by two
sessions when there are fewer than both need, and a port range that ends inside
the second session's claims makes it undo a partial one; two launches are two
sessions at once or one session launched again, where what the first launch left
behind meets the second, and two faults let a failure meet a death or another
failure during its own cleanup. In `evidence` three requests are two exports around
an event, two events and the answer that overtakes, or a failed `fsync`, the event
that reuses its number and an export; two events reach the limit; a window of two
among three messages expires its oldest and sees it again. The proofs of section 4 remove the bounds
for the properties they cover.

Each property is paired in `PROJECT.json` with a mutant of the code's model (a
dropped lock, probe, guard, exclusive create or sweep) under which it fails.

**Fairness** is weak fairness of every thread's steps (`Fairness`): the operating
system schedules runnable threads, every command the daemon runs has a timeout,
and a lock that is free is eventually given to a waiter because requests are
bounded. Nothing is assumed of clients, faults or crashes. In `Provisioner` the
steps of coroutines and allocate threads are weakly fair: the event loop runs what
is ready, every request has a socket timeout, and `wait_until_ready`, `stage` and
`ssh-keygen` have deadlines; a request to a stuck daemon ends by its timeout.
Nothing is assumed of `ssh`, of Jupyter calling `launch` or `cleanup` again, or of
the daemon's late answers. The run `evidence` has no fairness and no liveness
property: the browser never repeats a request, so there is nothing that must
eventually be shown or recorded.

## 4. Proofs

For every number of callers, threads, clients, names, addresses and units, and
without bounds on faults and crashes other than being natural numbers:

* `IPv4LeasePool_proofs`
  * `TypeCorrect`: `Spec => []TypeOK`.
  * `Exclusion`: whoever is past the lock holds it.
  * `Refinement`: `Spec => ImplementsAddressPool`. The inductive invariant adds
    to the types and to exclusion what each caller knows inside the lock
    (`CallInv`): that the lease it just created is still there and blank, and
    which addresses it has passed over. Without it an `Allocate` step of the
    abstract table could not be shown to pick the lowest free address.
* `ProgressionPanel_proofs`, for every number of requests, notebooks, events,
  sessions, faults and messages and every size of the window
  * `PanelTypeCorrect`: `Spec => []TypeOK`.
  * `AcceptedIsDurable`: `Spec => []LastLineWins`. `ServiceInv` adds what a step of
    the service relies on: while an event is at its `fsync` its line is the end of a
    log that is not empty and there is room for the event; the loop works on a
    request that waits for it; a server that is down is not the last one. A new line
    has a number above all accepted ones, so it overrides none (`LineAppended`); an
    accepted line is the last one and flushed (`GoodAccept`); what a loss of power
    takes is behind every flushed line (`GoodPowerLoss`).
  * `WindowExact`: `Spec => []SuppressedInWindow`. `WindowInv` says that deque and
    set agree and that a message's distance from the end of the deque is the number
    of messages observed after it; from this the places in the deque are distinct,
    and the one that expires is the one that has seen `Window - 1` others.
* `Evidence_proofs`, with the invariants of `ProgressionPanel_proofs`
  * `ExportsAreComplete`: `Spec => ExportVerifies`, with `fsync_events` or without.
  * `BundleAttestsStream`: `Spec => ImplementsStream` under the hypothesis
    `FsyncEvents`. Without it the theorem is false: a loss of power after an export
    and an event may take that event's line and leave the log the manifest covers.
  * `PanelIsTruthful`: `Spec => []PanelTruthful`.
* `Provisioner_proofs`, `ProvisionerCleanup_proofs`, for every number of sessions,
  Jupyter processes, ports, launches, faults and reuses of a pid
  * `ProvisionerTypeCorrect`: `Spec => []TypeOK`.
  * `PortsAreExclusive`: `Spec => []PortsExclusive`.
  * `NothingIsLeft`: `Spec => []NothingLeft`.
  * `KernelsAreWired`: `Spec => []Wired`.
* `RuntimeDaemon_proofs`
  * `DaemonTypeCorrect`: `Spec => []TypeOK`, with faults, crashes and failing probes.
  * `NeverForgotten`: `Spec => []RegisteredWhileExisting`, without hypotheses. The two
    ways in which the code does forget are exceptions in the property (section 5): a
    name that a destroy gave up because its last probes failed, and a guest's dataset
    after a crash and a failed command. As long as no probe is misread, jails,
    guests and the datasets of jails are never forgotten.
* `DaemonSafety_proofs`
  * `OnlyOwners`: `Spec => OnlyOwnerUnregisters`, without hypotheses.
  * `OnlyDeadlocks`: `Spec => []OnlyKnownDeadlocks`, without hypotheses: every set of
    threads that wait for each other contains one of the two patterns of the findings
    `reconcile_deadlocks` and `lock_order`; the code has no third one.
  * `DaemonImplementsLifecycle`: `Spec => ImplementsLifecycle`, without hypotheses.
  * `AddressesAreDistinct`: `Spec => []AddressesDistinct` without a client that is root
    (finding `address_reuse`), with reconciliation at the start or without.
  * `StartupSpares`: `Spec => StartupSparesLiveOwners`, and `StartupReclaims`:
    `Spec => StartupReclaimsLeftovers`, without hypotheses: the exceptions for failed
    commands and leases that cannot be read are part of the properties.
* `DaemonWhole_proofs`, where `Quiet` says that there has been no fault and no crash
  * `NothingUnregistered`: `Spec => [](Quiet => ...)`: a name that nobody holds and
    that is not registered leaves no trace, for any number of names.
  * `WholeOrGone`: `Spec => [](Quiet => AllOrNothing)`, and its corollary
    `AlwaysWholeOrGone`: `Spec => []AllOrNothing` for `MaxFaults = MaxCrashes = 0`.
    Hypotheses: no client is root, and `Unshared`: there is one name, or there are
    only guests whose disks are not memory disks. Without the second it is false,
    because of recycled units (section 5).

The argument of `NeverForgotten`. `RegisteredWhileExisting` is not inductive: a
destroy that is about to delete a record must be known to have found nothing,
and a create that is about to make something must be known to be registered.
`ThreadInv(t)` says what a thread knows at each label: it holds the lock of its
name at every label inside `_serialized_lifecycle`; from the first write of the
record on, the name is registered with the create's owner and kind; from
`DestroyLoad` on the record in memory is the one on disk; after the probes
nothing that they look for exists, or the name is in `missed` (`Gone`). `GuestsRegistered` (a guest exists only
under a guest's record) is needed because the probes cannot see guests on a host
without the `vm` command: there, destroy refuses a guest's record, so a name
that gets past the probes has none. A step of another thread cannot disturb this:
it writes records and makes parts only under its own name's lock (`FewWrite`,
`OthersNames`, `OthersKnow`); its own step establishes what it knows next
(`CreateKnows`, `DestroyKnows`, `GcKnows`); a crash empties the threads and keeps
the disk (`EnvironmentKnows`). `Invariance` puts them together.

The guest's dataset, which the probes do not look for, needs more. Without faults it
exists only together with its guest (`DataWithGuest`), which the probes do look for.
Without a crash it is in the record, or the create that made it is about to record it,
or that create waits for ever in the destroy it calls, with the name's lock held, so
that nobody else gets to the record (`DataRecorded`). Only where both have happened may
it be left without a record, which is the exception of the property.

The arguments of `DaemonSafety_proofs`. `Moves(t)` classifies what a step does to the
position, the caller and the name's lock of its thread: it enters a name, goes on in a
create, a destroy or a gc, calls a destroy from a create or a gc, or leaves the name.
Most of what follows needs only this.

* `LockInv`: a thread that has the lock of a name works on that name, inside it or, when
  a create has called destroy, waiting for itself. `RightsInv`: a destroy past its check
  of the rights acts for root or the recorded owner, or finds no record; it is forced
  only for root. A create that calls destroy holds the name's lock for ever, so no such
  destroy is ever inside. Nobody else changes the record meanwhile, so the check still
  counts when the record goes: `OnlyOwners`.
* `SharedInv`: the shared lock is held to configure the bridge or the switch, or by a gc,
  also while that destroys a runtime. So (`HoldersWait`) whoever holds a name and waits is
  a create, for itself or for the shared lock, and whoever holds the shared lock and waits
  is a gc in a destroy. In a set of threads that wait for each other every holder waits;
  following the holders from any thread leads to a create that waits for itself, or round
  the shared lock, of which there is one: `OnlyDeadlocks`.
* `Lives` says in the daemon's words what a step of `RuntimeLifecycle` is; every step is
  one (`StepLives`), because what it makes or removes carries its own name, and what it
  makes is registered.
* `StartupInv` says that nobody works before the daemon serves and that `gc` clears the
  leases with the owners that are registered at that moment; `AddressInv`, that a create
  has leased the address it writes into its record; `LeasedInv`, that the address of
  what exists is leased to its name. Two running runtimes with one address would have
  two owners of one lease. A lease goes only when nothing of its owner is left
  (`LeasesStay`).
* `BootInv` follows the gc of `main()` label by label: what it has read is registered as
  it was or no more (`SnapInv`), what it destroys belongs to a dead process (`DeadInv`)
  or is not registered (`OrphanInv`), what it leaves on the bridge is referenced
  (`MemberInv`). Who is dead stays dead because no record names a process that has not
  started yet (`DatedInv`): a pid that is reused gets a later start time.

The argument of `WholeOrGone`. The record is written long before what it speaks of
exists, and dropped after that is gone, so `BuildInv(t)` says what a create has made at
each label and `RemoveInv(t)` what a destroy has removed. `WholeInv` says that every registered runtime
is complete until a request that holds its name has begun to change it; at the end of a
create this is `BuildInv` at its last label, and a destroy that has begun can, without
faults, only end by unregistering, because `RemoveInv` leaves its probes nothing to find
(`FewSettle`). What others do to a runtime is nothing: parts carry its name
(`PartsElsewhere`), its lease is taken back only by its own destroy, and units are nobody
else's, which is the hypothesis `Unshared`; the sweep of the epairs is root's
(`SweepInv`), and at the first start there is nothing to sweep (`FreshInv`). The other
half is `TracesKnown`: a prepared disk exists with its guest or is in the record, a lease
is in a record or in the one a create is about to write, and a destroy that unregisters
has seen both go.

The argument of the two export theorems (`BundleInv`). `ExportInv` says, label by
label, what the steps of the export under way have written, so that at the end every
file is this export's. The hard part is the manifest of an earlier export, which stays
on disk, with its signature, until it is replaced. `ManifestInv` says that any manifest
on disk covers the present events, or a log that is shorter than the flushed part of
the present one: since neither the next event nor a loss of power makes the log that
short again, such a manifest does not fit and the bundle is refused. This is where
flushed lines are needed. A step of the service then maps to an append, a publication,
a withdrawal, both of a new session, or a stutter (`EvidenceStream`).

The argument of `PanelIsTruthful` (`TruthInv`). Every state under way in an answer or
on display was a state of the session it names, if that is the present one
(`AnswersInv`); the request of an accepted event is settled, and its answer, while it
is under way, carries the state in which that event was the last (`EventsInv`); a panel
that is not `behind` has received no answer to an event later than what it shows
(`DisplayInv`). When all is quiet and no answer was lost, no event is left that it
could be missing.

The argument of `PortsAreExclusive` (`LeaseInv`). What a session holds, from the bind
of a candidate to the release, through the handoff to `ssh`, is leased by a file that
names its process (`Leased`); a port has one file (`OneLease`); a caller between its
look at the files and its own claim holds the lock and has seen no live owner
(`Checked`). A file is dated (`FilesDated`): the incarnation it names is not a future
one, so a dead lease stays dead when its pid is reused. Two holders of a port would
have two files for it. `Sound`, under all three modules, has the exclusion at the lock
and that a dead process has no coroutine, no call and no socket.

The argument of `NothingIsLeft` and `KernelsAreWired` (`CleanupInv`). For every
session, where its coroutine is (`Flow`), what is reserved and rewritten (`Clean`),
what the command line, the file and its copy in the runtime say (`Agreed`), and that
each live lease and each bound socket is one the session still has a handle on
(`Known`), so that no path through the failures of a launch loses one. The last three
are given up for a `spoiled` session, one that met a gap of section 5; `Flow` is not.

Constants' assumptions (`PoolAssumption`, `LeasePoolAssumption`,
`DaemonAssumption`, `RecordAssumption`, `PortAssumption`, `ProvisionerAssumption`,
`EvidenceAssumption`, `TelemetryAssumption`, `PanelAssumption`, `ContentsAssumption`)
say that the special values are not ordinary ones (`Absent` and `Torn` are not contents
of a file, `Free` and `Host` are not holders of a socket, `NoRecord` is neither a record
nor a process), that bounds are natural numbers and that `Payloads` has what the browser posts; TLC evaluates them in the runs.

Only model-checked: the liveness properties `RequestsAnswered`, `LaunchEnds` and
`StartupReclaimsStale`, since the prover does not do fairness. Every other property of
a passing run is stated by a theorem, under the hypotheses named above.

## 5. Where the code does not do what the repository says

Each of these is a run that TLC violates, with the quoted line in `findings`.

* `reconcile_deadlocks`. A create that finds its own earlier runtime, or that
  fails, calls `self.destroy` while it holds the name's lock; `destroy` takes the
  same `threading.Lock`. The thread waits for itself, and the name is unusable
  until the daemon restarts. The tests replace `destroy` by a stub.
* `lock_order`. Until the bridge is configured, a create holds the name's lock
  and wants the shared lock, a gc holds the shared lock and wants the name's.
* `gc_live_owner`. Root's stale-only gc lists the registry before it lists the
  host, and destroys by force what is new in between.
* `address_reuse`. Root's gc frees the lease of a create that has not written
  its record yet.
* `epair_reuse`. A record kept after an incomplete destroy still names an epair
  unit that the host has given to somebody else; the next destroy removes it.

Known gaps, seen while modelling and not given a run:

* `_jail_exists`, `_vm_exists` and `_dataset_exists` read any failure as absence. When
  that happens in the last probes of a destroy the record goes although the runtime
  exists: `RegisteredWhileExisting`, `AddressesDistinct` and the refinement except such
  a name (`missed`). Likewise a failing `ps` makes a live owner look dead, which is why
  `StartupSparesLiveOwners` excepts runs with faults.
* The dataset of a guest is forgotten after a crash between `vm create` and the second
  write of the record, when the destroy of the guest leaves it behind: `destroy` passes
  `record["dataset"]`, which is still `None` (`runtime_daemon.py:833`), the checks do not
  look for it (`:873-888`), and `_discover_datasets` lists the children of the jails'
  parent only. `RegisteredWhileExisting` excepts it once there has been a crash and a
  failed command, and `RuntimeLifecycle` calls it forgettable.
* An epair that was created and not yet added to the bridge when the daemon died
  is found by no listing; the same holds for a memory disk before the second
  write of the record, and for the temporary clone `<name>-src` (`:761`) when its
  removal fails (`:767`, failure ignored) until a guest of that name is created again.
* With two names the recycled epair also disturbs fault-free runs: destroy's
  probe sees the new holder's interface and reports an incomplete cleanup. This
  is why `AllOrNothing` is checked on one name.
* When `wait_until_ready` fails while `allocate` is still running, the other branch
  of the gather finishes after the cleanup: it reserves ports and rewrites the
  connection file of a launch that no longer exists.
* A client that times out believes that its create made nothing, or forgets its
  runtime; the daemon's late answer leaves a runtime, or destroys the next one.
* `_write_lease` can leave its file when `fchmod` fails; an exception in `release`
  skips the destroy, the key directory and the flags; an unlink that raises in the undo of
  an `allocate` (`port_leases.py:281`, `:287`) leaves the leases it had not got to; a rewrite that fails after
  it changed the manager's attributes is not undone; `restore_connection_file`
  ignores its own failure; a failed destroy request is only logged, and while the
  Jupyter process lives reconciliation does not retry it.
* A gc that acts on an older list or on a `ps` that failed, or that root or another
  program of the same user asks for, takes the runtime of a live session (`StaleGc`);
  its tunnel then leads nowhere, and `Wired` excepts it.
* A `ps` that fails for the owner of a port lease makes the lease look stale. In
  the handoff window, when the port is not bound, another session then takes it;
  `PortsExclusive` excepts the two sessions. `Wired` holds even so:
  `ExitOnForwardFailure` turns the collision into a failed launch, as
  `ARCHITECTURE.md` says.
* `_record` ignores how many bytes its raw write stored (`service.py:298`). After a
  short write the event is accepted with a torn line and the next line is glued to
  it; `LastLineWins` excepts such sessions.
* A failed `fsync` leaves a line whose number the next event takes again; the log
  may have more lines than `max_events`, and its numbers are not unique. A reader
  has to take the last line of a number.
* Without `fsync_events` a loss of power may take back events accepted after an export,
  and then the earlier bundle verifies again.
* A second export that is interrupted makes the bundle of the first unverifiable,
  and so does an event recorded after it: the manifest covers the growing log. A
  bundle cut before it was signed for the first time verifies as an unsigned one
  although its manifest says that signing is enabled, unless a trusted key is given.
  `SHA256SUMS` is not looked at by `verify_bundle`.
* When the signing key becomes unreadable, an event is accepted and its answer is an
  error, because `state()` raises (`handlers.py:67`).
* The panel shows answers in the order they arrive, so an older state may replace a
  newer one until the next answer; it is not refreshed when the server has been
  restarted; a notebook context that fails is not posted again.
* Root's gc may remove the bridge member of a jail that is being created; the
  create then fails at `jail -c`.

## 6. Plan

1. *Done:* AddressPool, IPv4LeasePool, RuntimeLifecycle, RuntimeDaemon; the
   theorems of section 4.
2. *Done:* PortLeases and Provisioner, with the theorems of section 4.
3. *Done:* EvidenceStream, EvidenceService, KernelTelemetry and ProgressionPanel, with
   the theorems of section 4.
4. Provisioner: a cancelled launch. Saving and loading the provisioner's info has no
   caller in the repository.
5. *Done:* the daemon's safety properties as theorems (section 4).
6. Proofs that are left: `WholeOrGone` for several names that share units, where it has
   to except the names whose recycled unit a destroy has met; and where every tunnel,
   port and directory of a session that met a gap is in the end
   (`ProvisionerCleanup_proofs` gives it up).
7. Properties that are left: that the search for ports, which wraps around, passes over
   none.

**Not modelled**, and why: `telemetry.py` and `sentry_diagnostics.py` build and redact
reports and keep no state between calls; `benchmark.py` runs the other parts one
after the other and measures them (a signal while it waits for a create leaves that
runtime to reconciliation); `install.py`, `deploy/` and the image scripts are shell
work of an administrator; nothing imports `prototype/`.
