--------------------------- MODULE RuntimeDaemon ---------------------------
(***************************************************************************)
(* RuntimeManager and the request threads of runtime_daemon.py: create,    *)
(* destroy and gc of jails and bhyve guests, by concurrent threads, over a *)
(* registry and an address pool on disk and the resources of the host.     *)
(* A step is a command, a write of a file or a wait for a lock, or a few   *)
(* commands between which nothing is recorded and nobody else is affected. *)
(* Any step may fail, part of its effect done; the daemon may crash        *)
(* between any two, and the processes that own the runtimes come and go.   *)
(***************************************************************************)
EXTENDS AddressPool, FiniteSets

CONSTANTS
  Workers, Main,        \* request threads; the thread that runs main()
  Nobody,               \* no holder of a lock
  Pids, Uid,            \* client processes and the Unix user of each
  Kinds,                \* runtime types requested: "jail", "bhyve"
  Backends,             \* values of vm_disk_backend the daemon is started with,
                        \* "none" where the vm command is not installed
  HostAddress,          \* the bridge's own address
  Epairs, Mds, NoUnit,  \* interface and memory-disk units of the host
  NoRecord, NoName, NoPid,
  Reconciles,           \* FALSE where main() may be run with --no-reconcile
  MaxRequests, MaxFaults, MaxCrashes, MaxInc    \* bounds of the model

Threads == Workers \cup {Main}

ASSUME DaemonAssumption ==
  /\ Main \notin Workers /\ Nobody \notin Threads
  /\ NoPid \notin Pids /\ NoName \notin Names
  /\ NoUnit \notin Epairs \cup Mds
  /\ Uid \in [Pids -> Nat]
  /\ Kinds \subseteq {"jail", "bhyve"}
  /\ Backends \subseteq {"zvol-clone", "memdisk", "legacy", "none"}
  /\ Reconciles \subseteq BOOLEAN
  /\ HostAddress \in Int
  /\ {MaxRequests, MaxFaults, MaxCrashes, MaxInc} \subseteq Nat /\ MaxInc >= 1

VARIABLES
  registry,     \* the registry directory: a record per runtime, on disk
  host,         \* jails, datasets, guests, epairs and memory disks that exist
  member,       \* epairs that are members of the bridge
  nameLock,     \* _runtime_locks, one non-reentrant lock per name
  sharedLock,   \* _shared_lock
  ready,        \* _bridge_configured, _vm_switch_configured
  backend,      \* config.vm_disk_backend
  serving,      \* main() has reached serve_forever
  pc, frame,    \* each thread's position and the locals of its request
  gcv,          \* the locals of its gc
  inc, up,      \* how often each pid was started; the pids alive now
  missed,       \* history: names that a destroy gave up although they existed,
                \* because a probe that failed was read as "absent"
  requests, faults, crashes

disk == <<registry, leases>>
locks == <<nameLock, sharedLock>>
daemon == <<ready, backend, serving>>
threads == <<pc, frame, gcv>>
context == <<inc, up, missed>>
vars == <<registry, leases, host, member, nameLock, sharedLock, ready, backend,
          serving, pc, frame, gcv, inc, up, missed, requests, faults, crashes>>

-----------------------------------------------------------------------------
(* Data *)

\* A process is its pid and its start time: a reused pid is another process.
Identities == Pids \X (1..MaxInc)

Identity(p) == <<p, inc[p]>>

\* Mutant: a live pid is enough.
Alive_BarePid(id) == id[1] \in up

\* query_process_identity / process_matches: the fingerprint of a live process.
Alive(id) == id[1] \in up /\ id = Identity(id[1])

Resources ==
  ({"jail", "dataset", "vm", "vmdata", "source"} \X Names) \cup ({"epair"} \X Epairs) \cup ({"md"} \X Mds)

Records ==
  [kind : {"jail", "bhyve"}, owner : Identities, ip : Addresses,
   ep : Epairs \cup {NoUnit}, md : Mds \cup {NoUnit}, data : BOOLEAN]

\* What destroy and the listings of gc look for by a runtime's name.
Probed(n) == {<<"jail", n>>, <<"vm", n>>, <<"dataset", n>>}

\* What carries the name: the guest's own dataset as well.
Named(n) == Probed(n) \cup {<<"vmdata", n>>}

\* record["dataset"]: the jail's dataset, or the guest's under zvol-clone.
RecordedData(r, n) ==
  IF r = NoRecord \/ ~r.data THEN {}
  ELSE {<<IF r.kind = "jail" THEN "dataset" ELSE "vmdata", n>>}

RecordedEpair(r) == IF r = NoRecord \/ r.ep = NoUnit THEN {} ELSE {<<"epair", r.ep>>}

RecordedMd(r) == IF r = NoRecord \/ r.md = NoUnit THEN {} ELSE {<<"md", r.md>>}

\* _vm_available
VmAvailable == backend # "none"

\* What probes and listings show: without the vm command no guest is seen.
Visible == {x \in host : x[1] = "vm" => VmAvailable}

\* Everything destroy looks at when it decides whether a runtime is gone.
Known(r, n) == Probed(n) \cup RecordedData(r, n) \cup RecordedEpair(r) \cup RecordedMd(r)

ASSUME RecordAssumption == NoRecord \notin Records \cup Identities

Registered == {n \in Names : registry[n] # NoRecord}

NoFrame == [name |-> NoName, pid |-> NoPid, uid |-> 0, owner |-> NoPid, kind |-> "jail",
            want |-> "bridge", rec |-> NoRecord, back |-> "reply", force |-> FALSE]

NoGc == [stale |-> TRUE, snap |-> [n \in Names |-> NoRecord], todo |-> {}, keep |-> {},
         eps |-> {}, active |-> {}]

\* The daemon has just started: main() runs gc as root before it serves, or,
\* with --no-reconcile, serves at once.
BootPc(reconcile) ==
  [t \in Threads |-> IF t = Main /\ reconcile THEN "g_lock" ELSE "idle"]

Init ==
  /\ PoolInit
  /\ registry = [n \in Names |-> NoRecord]
  /\ host = {} /\ member = {}
  /\ nameLock = [n \in Names |-> Nobody]
  /\ sharedLock = Nobody
  /\ ready = {}
  /\ backend \in Backends
  /\ \E reconcile \in Reconciles : pc = BootPc(reconcile) /\ serving = ~reconcile
  /\ frame = [t \in Threads |-> NoFrame]
  /\ gcv = [t \in Threads |-> NoGc]
  /\ inc = [p \in Pids |-> 1]
  /\ up = Pids /\ missed = {}
  /\ requests = 0 /\ faults = 0 /\ crashes = 0

-----------------------------------------------------------------------------
(* Threads and locks *)

Goto(t, l) == pc' = [pc EXCEPT ![t] = l]

\* A command or a write that goes wrong uses up one of the model's faults.
Fault == faults < MaxFaults /\ faults' = faults + 1

NoFault == UNCHANGED faults

Unlock(n) == nameLock' = [nameLock EXCEPT ![n] = Nobody]

\* The request is answered: leaving _serialized_lifecycle drops the name's lock.
Reply(t) ==
  /\ Unlock(frame[t].name)
  /\ Goto(t, "idle")
  /\ frame' = [frame EXCEPT ![t] = NoFrame]

\* handle / _dispatch: a client process sends a well-formed request.
Request(t, p, f, g, first) ==
  /\ serving
  /\ pc[t] = "idle" /\ p \in up
  /\ requests < MaxRequests
  /\ requests' = requests + 1
  /\ frame' = [frame EXCEPT ![t] = f]
  /\ gcv' = [gcv EXCEPT ![t] = g]
  /\ Goto(t, first)
  /\ UNCHANGED <<disk, host, member, locks, daemon, context, faults, crashes>>

RequestCreate(t, p, n, k) ==
  Request(t, p, [NoFrame EXCEPT !.name = n, !.pid = p, !.uid = Uid[p], !.kind = k], NoGc, "c_lock")

RequestDestroy(t, p, n) ==
  Request(t, p, [NoFrame EXCEPT !.name = n, !.uid = Uid[p]], NoGc, "d_lock")

RequestGc(t, p, stale) ==
  Request(t, p, [NoFrame EXCEPT !.uid = Uid[p]], [NoGc EXCEPT !.stale = stale], "g_lock")

\* Mutant: the lock of the name is not awaited.
EnterNamed_NoWait(t, from, to) ==
  /\ pc[t] = from
  /\ nameLock' = [nameLock EXCEPT ![frame[t].name] = t]
  /\ Goto(t, to)
  /\ UNCHANGED <<disk, host, member, sharedLock, daemon, frame, gcv, context,
                 requests, faults, crashes>>

\* _serialized_lifecycle: wait for the lock of the name.  It is not reentrant:
\* a create that calls destroy waits for the lock it holds itself.
EnterNamed(t, from, to) ==
  /\ pc[t] = from
  /\ nameLock[frame[t].name] = Nobody
  /\ nameLock' = [nameLock EXCEPT ![frame[t].name] = t]
  /\ Goto(t, to)
  /\ UNCHANGED <<disk, host, member, sharedLock, daemon, frame, gcv, context,
                 requests, faults, crashes>>

CreateEnter(t) == EnterNamed(t, "c_lock", "c_begin")

DestroyEnter(t) == EnterNamed(t, "d_lock", "d_load")

\* self.destroy(name, ...) from inside create.
CallDestroy(t, force) ==
  /\ Goto(t, "d_lock")
  /\ frame' = [frame EXCEPT ![t] = [@ EXCEPT !.back = "create", !.force = force]]

-----------------------------------------------------------------------------
(* create_jail, create_bhyve: before anything is registered *)

\* A create that ends before its record is written: no cleanup, only an error.
Refuse(t) ==
  /\ Reply(t)
  /\ UNCHANGED <<registry, host, member, sharedLock, daemon, gcv, context, requests, crashes>>

\* _owner_from_peer fails, the backend is missing, or the name is taken.
CreateDenied(t) ==
  /\ pc[t] = "c_begin"
  /\ LET f == frame[t] r == registry[f.name] IN
       \/ /\ \/ f.pid \notin up
             \/ f.kind = "bhyve" /\ ~VmAvailable
             \/ r # NoRecord /\ r.owner # Identity(f.pid)
          /\ NoFault
       \/ Fault             \* ps(1) fails
  /\ Refuse(t)
  /\ UNCHANGED leases

Usable(f) == f.pid \in up /\ (f.kind = "bhyve" => VmAvailable)

\* What a create finds under its own name before it starts.
Orphaned(f) ==
  f.kind = "jail" /\ {<<"jail", f.name>>, <<"dataset", f.name>>} \cap host # {}

\* _reconcile_registered_before_create, _reconcile_orphaned_jail_before_create
CreateReconcile(t) ==
  /\ pc[t] = "c_begin"
  /\ LET f == frame[t] r == registry[f.name] IN
       /\ Usable(f)
       /\ IF r = NoRecord THEN Orphaned(f) ELSE r.owner = Identity(f.pid)
       /\ CallDestroy(t, r = NoRecord)
  /\ UNCHANGED <<disk, host, member, locks, daemon, gcv, context,
                 requests, faults, crashes>>

\* Mutant: a record under the name does not stop the create.
CreateBegin_Takeover(t) ==
  /\ pc[t] = "c_begin"
  /\ Usable(frame[t])
  /\ frame' = [frame EXCEPT ![t].owner = Identity(frame[t].pid)]
  /\ Goto(t, "ensure")
  /\ UNCHANGED <<disk, host, member, locks, daemon, gcv, context,
                 requests, faults, crashes>>

\* Nothing is there, or a failing probe says so.
CreateBegin(t) ==
  /\ pc[t] = "c_begin"
  /\ Usable(frame[t])
  /\ registry[frame[t].name] = NoRecord
  /\ IF Orphaned(frame[t]) THEN Fault ELSE NoFault
  /\ frame' = [frame EXCEPT ![t].owner = Identity(frame[t].pid)]
  /\ Goto(t, "ensure")
  /\ UNCHANGED <<disk, host, member, locks, daemon, gcv, context, requests, crashes>>

\* _ensure_bridge, then _ensure_vm_switch for a guest.
Ensured(t) ==
  IF frame[t].kind = "bhyve" /\ frame[t].want = "bridge"
    THEN Goto(t, "ensure") /\ frame' = [frame EXCEPT ![t].want = "switch"]
    ELSE Goto(t, "c_alloc") /\ UNCHANGED frame

EnsureCheck(t) ==
  /\ pc[t] = "ensure"
  /\ IF frame[t].want \in ready THEN Ensured(t) ELSE Goto(t, "ensure_lock") /\ UNCHANGED frame
  /\ UNCHANGED <<disk, host, member, locks, daemon, gcv, context,
                 requests, faults, crashes>>

EnsureLock(t) ==
  /\ pc[t] = "ensure_lock"
  /\ sharedLock = Nobody
  /\ sharedLock' = t
  /\ Goto(t, "ensure_configure")
  /\ UNCHANGED <<disk, host, member, nameLock, daemon, frame, gcv, context,
                 requests, faults, crashes>>

EnsureConfigure(t) ==
  /\ pc[t] = "ensure_configure"
  /\ ready' = ready \cup {frame[t].want}
  /\ sharedLock' = Nobody
  /\ Ensured(t)
  /\ UNCHANGED <<disk, host, member, nameLock, backend, serving, gcv, context,
                 requests, faults, crashes>>

EnsureFails(t) ==
  /\ pc[t] = "ensure_configure"
  /\ Fault
  /\ sharedLock' = Nobody
  /\ Reply(t)
  /\ UNCHANGED <<disk, host, member, daemon, gcv, context, requests, crashes>>

\* "Refusing to replace existing vm-bhyve guest", an exhausted pool, a vm(8)
\* that times out, or a lease file left without its owner.
AllocateFails(t) ==
  /\ pc[t] = "c_alloc"
  /\ \/ /\ \/ frame[t].kind = "bhyve" /\ <<"vm", frame[t].name>> \in host
           \/ FreeAddresses = {}
           \/ HostAddress \in FreeAddresses /\ \A b \in FreeAddresses : HostAddress <= b
        /\ NoFault /\ UNCHANGED leases
     \/ Fault /\ (UNCHANGED leases \/ \E a \in Addresses : AllocateTorn(a))
  /\ Refuse(t)

\* _allocate, then the record the create keeps in memory.  A failing vm info is
\* read as "no such guest".
CreateAllocate(t) ==
  /\ pc[t] = "c_alloc"
  /\ IF frame[t].kind = "bhyve" /\ <<"vm", frame[t].name>> \in host THEN Fault ELSE NoFault
  /\ \E a \in Addresses \ {HostAddress} :
       /\ Allocate(frame[t].name, a)
       /\ frame' = [frame EXCEPT ![t].rec =
                      [kind |-> frame[t].kind, owner |-> frame[t].owner, ip |-> a,
                       ep |-> NoUnit, md |-> NoUnit, data |-> frame[t].kind = "jail"]]
  /\ Goto(t, "c_write")
  /\ UNCHANGED <<registry, host, member, locks, daemon, gcv, context, requests, crashes>>

\* arp(8) times out or the record cannot be written: the lease stays.
WriteFails(t) ==
  /\ pc[t] = "c_write"
  /\ Fault
  /\ Refuse(t)
  /\ UNCHANGED leases

FirstBuildStep(k) ==
  IF k = "jail" THEN "c_clone" ELSE IF backend = "memdisk" THEN "c_md" ELSE "c_vm"

CreateWrite(t) ==
  /\ pc[t] = "c_write"
  /\ registry' = [registry EXCEPT ![frame[t].name] = frame[t].rec]
  /\ Goto(t, FirstBuildStep(frame[t].kind))
  /\ UNCHANGED <<leases, host, member, locks, daemon, frame, gcv, context,
                 requests, faults, crashes>>

-----------------------------------------------------------------------------
(* create_jail, create_bhyve: the part inside "try" *)

BuildFrame ==
  UNCHANGED <<disk, locks, daemon, gcv, context, requests, crashes>>

\* A command of the create succeeds; what it made is noted in memory only.
BuildOk(t, new, rec, to) ==
  /\ host' = host \cup new
  /\ frame' = [frame EXCEPT ![t].rec = rec]
  /\ Goto(t, to)
  /\ NoFault

\* It fails, before or after some of its effect: the except clause calls
\* self.destroy(name, force=True).
BuildFails(t, possible, new) ==
  /\ \/ ~possible /\ host' = host /\ NoFault
     \/ possible /\ Fault /\ \E made \in SUBSET new : host' = host \cup made
  /\ CallDestroy(t, TRUE)

Build(t, from, possible, new, rec, to) ==
  /\ pc[t] = from
  /\ \/ possible /\ BuildOk(t, new, rec, to)
     \/ BuildFails(t, possible, new)
  /\ BuildFrame

FreeUnits(kind, units) == {u \in units : <<kind, u>> \notin host}

\* zfs clone of the template, and _install_jail_authorized_key into it
CloneDataset(t) ==
  LET d == <<"dataset", frame[t].name>> IN
  Build(t, "c_clone", d \notin host, {d}, frame[t].rec, "c_epair") /\ UNCHANGED member

CreateEpair(t) ==
  \E u \in FreeUnits("epair", Epairs) :
    /\ Build(t, "c_epair", TRUE, {<<"epair", u>>}, [frame[t].rec EXCEPT !.ep = u], "c_addm")
    /\ UNCHANGED member

\* addm, private and up on the bridge; after addm the epair is a member although
\* one of the others fails.
AddMember(t) ==
  LET e == frame[t].rec.ep IN
  /\ Build(t, "c_addm", <<"epair", e>> \in host, {}, frame[t].rec, "c_jail")
  /\ \/ <<"epair", e>> \in host /\ member' = member \cup {e}
     \/ pc'[t] # "c_jail" /\ UNCHANGED member

\* jail -c, then jexec brings the interface and sshd up
StartJail(t) ==
  LET j == <<"jail", frame[t].name>> IN
  /\ Build(t, "c_jail", j \notin host /\ <<"epair", frame[t].rec.ep>> \in host, {j},
           frame[t].rec, "c_commit")
  /\ UNCHANGED member

\* _create_memdisk: mdconfig -a.  No record on disk names the unit yet.
CreateMemdisk(t) ==
  \E u \in FreeUnits("md", Mds) :
    /\ Build(t, "c_md", TRUE, {<<"md", u>>}, [frame[t].rec EXCEPT !.md = u], "c_source")
    /\ UNCHANGED member

\* A temporary clone of the prepared disk, in the place of one that an earlier
\* create left; or, without the snapshot, the image is copied (or nothing is).
CloneSource(t) ==
  /\ \/ Build(t, "c_source", TRUE, {<<"source", frame[t].name>>}, frame[t].rec, "c_copy")
     \/ Build(t, "c_source", TRUE, {}, frame[t].rec, "c_vm")
  /\ UNCHANGED member

\* dd, then the temporary clone is destroyed, and a failure of that is ignored.
CopySource(t) ==
  LET rest == host \ {<<"source", frame[t].name>>} IN
  /\ pc[t] = "c_copy"
  /\ \/ host' = rest /\ NoFault /\ Goto(t, "c_vm") /\ UNCHANGED frame
     \/ host' = host /\ Fault /\ Goto(t, "c_vm") /\ UNCHANGED frame
     \/ host' \in {host, rest} /\ Fault /\ CallDestroy(t, TRUE)
  /\ BuildFrame /\ UNCHANGED member

\* vm create and, under zvol-clone where the snapshot is found, the clone of the
\* prepared disk into the dataset that vm create has made for the guest.
CreateVm(t) ==
  LET n == frame[t].name IN
  /\ \E zvol \in BOOLEAN :
       /\ zvol => backend = "zvol-clone"
       /\ Build(t, "c_vm", {<<"vm", n>>, <<"vmdata", n>>} \cap host = {},
                {<<"vm", n>>} \cup (IF zvol THEN {<<"vmdata", n>>} ELSE {}),
                [frame[t].rec EXCEPT !.data = zvol], "c_commit")
  /\ UNCHANGED member

\* The second _write_registry; a jail is then complete, a guest is started.
CreateCommit(t) ==
  /\ pc[t] = "c_commit"
  /\ registry' = [registry EXCEPT ![frame[t].name] = frame[t].rec]
  /\ IF frame[t].kind = "jail" THEN Reply(t)
     ELSE Goto(t, "c_start") /\ UNCHANGED <<nameLock, frame>>
  /\ UNCHANGED <<leases, host, member, sharedLock, daemon, gcv, context,
                 requests, faults, crashes>>

\* vm start
CreateStart(t) ==
  /\ pc[t] = "c_start"
  /\ Reply(t)
  /\ UNCHANGED <<disk, host, member, sharedLock, daemon, gcv, context,
                 requests, faults, crashes>>

FinishFails(t) ==
  /\ pc[t] \in {"c_commit", "c_start"}
  /\ Fault
  /\ CallDestroy(t, TRUE)
  /\ UNCHANGED <<disk, host, member, locks, daemon, gcv, context, requests, crashes>>

-----------------------------------------------------------------------------
(* destroy *)

\* Mutant: an exception leaves the lock of the name held.
DestroyReturn_NoUnlock(t, failed) ==
  LET f == frame[t] n == f.name IN
  /\ IF failed THEN UNCHANGED nameLock ELSE Unlock(n)
  /\ IF f.back \in {"g_loop", "g_orphans"}
       THEN /\ Goto(t, f.back)
            /\ frame' = [frame EXCEPT ![t] = [NoFrame EXCEPT !.uid = f.uid]]
            /\ gcv' = [gcv EXCEPT ![t].keep = IF failed /\ f.back = "g_loop" THEN @ \cup {n} ELSE @]
       ELSE /\ Goto(t, "idle")
            /\ frame' = [frame EXCEPT ![t] = NoFrame]
            /\ UNCHANGED gcv

\* The result or the exception of destroy reaches its caller.  gc's first loop
\* keeps the names whose destroy failed.
DestroyReturn(t, failed) ==
  LET f == frame[t] n == f.name IN
  /\ Unlock(n)
  /\ IF f.back \in {"g_loop", "g_orphans"}
       THEN /\ Goto(t, f.back)
            /\ frame' = [frame EXCEPT ![t] = [NoFrame EXCEPT !.uid = f.uid]]
            /\ gcv' = [gcv EXCEPT ![t].keep = IF failed /\ f.back = "g_loop" THEN @ \cup {n} ELSE @]
       ELSE /\ Goto(t, "idle")
            /\ frame' = [frame EXCEPT ![t] = NoFrame]
            /\ UNCHANGED gcv

\* _authorize_record: root, or the user recorded as the owner.
Authorized(uid, r) == uid = 0 \/ (r # NoRecord /\ Uid[r.owner[1]] = uid)

\* Mutant: the requester is not compared with the recorded owner.
DestroyLoad_NoAuth(t) ==
  /\ pc[t] = "d_load"
  /\ frame' = [frame EXCEPT ![t].rec = registry[frame[t].name]]
  /\ Goto(t, "d_vm")
  /\ UNCHANGED <<disk, host, member, locks, daemon, gcv, context,
                 requests, faults, crashes>>

DestroyLoad(t) ==
  /\ pc[t] = "d_load"
  /\ LET f == frame[t] r == registry[f.name] IN
       IF (f.force \/ Authorized(f.uid, r))
          /\ (r # NoRecord /\ r.kind = "bhyve" => VmAvailable)
         THEN /\ frame' = [frame EXCEPT ![t].rec = r]
              /\ Goto(t, "d_vm")
              /\ UNCHANGED <<nameLock, gcv>>
         ELSE DestroyReturn(t, TRUE)
  /\ UNCHANGED <<disk, host, member, sharedLock, daemon, context,
                 requests, faults, crashes>>

\* One removal of destroy.  Its retries end with the target gone or not; a
\* command that times out raises out of destroy instead.
Remove(t, from, targets, to) ==
  LET present == targets \cap host IN
  /\ pc[t] = from
  /\ \/ /\ host' = host \ present
        /\ Goto(t, to) /\ NoFault
        /\ UNCHANGED <<nameLock, frame, gcv>>
     \/ /\ Fault
        /\ \E gone \in SUBSET present : host' = host \ gone
        /\ \/ DestroyReturn(t, TRUE)
           \/ Goto(t, to) /\ UNCHANGED <<nameLock, frame, gcv>>
  /\ member' = {e \in member : <<"epair", e>> \in host'}
  /\ UNCHANGED <<disk, sharedLock, daemon, context, requests, crashes>>

\* vm poweroff, vm destroy: takes the guest's dataset along.
DestroyVm(t) ==
  Remove(t, "d_vm", IF <<"vm", frame[t].name>> \in Visible
                      THEN {<<"vm", frame[t].name>>, <<"vmdata", frame[t].name>>} ELSE {},
         "d_md")

DestroyMd(t) == Remove(t, "d_md", RecordedMd(frame[t].rec), "d_recorded")

\* zfs destroy of record["dataset"]
DestroyRecorded(t) ==
  Remove(t, "d_recorded", RecordedData(frame[t].rec, frame[t].name), "d_jail")

DestroyJail(t) == Remove(t, "d_jail", {<<"jail", frame[t].name>>}, "d_epair")

DestroyEpair(t) == Remove(t, "d_epair", RecordedEpair(frame[t].rec), "d_dataset")

DestroyDataset(t) == Remove(t, "d_dataset", {<<"dataset", frame[t].name>>}, "d_check")

\* Mutant: the record is dropped whatever is left of the runtime.
DestroyCheck_NoProbe(t) ==
  /\ pc[t] = "d_check"
  /\ Goto(t, "d_release") /\ NoFault
  /\ UNCHANGED <<disk, host, member, locks, daemon, frame, gcv, context, requests, crashes>>

\* The probes before the record is dropped: "Runtime cleanup incomplete".
DestroyCheck(t) ==
  LET left == Known(frame[t].rec, frame[t].name) \cap Visible IN
  /\ pc[t] = "d_check"
  /\ \/ /\ left = {}
        /\ Goto(t, "d_release") /\ NoFault
        /\ UNCHANGED <<nameLock, frame, gcv>>
     \/ /\ IF left # {} THEN NoFault ELSE Fault       \* or a probe times out
        /\ DestroyReturn(t, TRUE)
     \/ /\ left # {}                                  \* or it fails otherwise
        /\ Goto(t, "d_release") /\ Fault
        /\ UNCHANGED <<nameLock, frame, gcv>>
  /\ missed' = IF pc'[t] = "d_release" /\ left # {} THEN missed \cup {frame[t].name} ELSE missed
  /\ UNCHANGED <<disk, host, member, sharedLock, daemon, inc, up, requests, crashes>>

\* pool.release, which keeps a lease it cannot read, then arp -d, which may time
\* out and raise.
DestroyRelease(t) ==
  LET f == frame[t] IN
  /\ pc[t] = "d_release"
  /\ \/ /\ IF f.rec = NoRecord THEN UNCHANGED leases ELSE Release(f.rec.ip, f.name)
        /\ Goto(t, "d_unregister") /\ NoFault /\ UNCHANGED <<nameLock, frame, gcv>>
     \/ /\ f.rec # NoRecord /\ (UNCHANGED leases \/ Release(f.rec.ip, f.name))
        /\ Fault
        /\ \/ DestroyReturn(t, TRUE)
           \/ Goto(t, "d_unregister") /\ UNCHANGED <<nameLock, frame, gcv>>
  /\ UNCHANGED <<registry, host, member, sharedLock, daemon, context, requests, crashes>>

\* _delete_registry
DestroyUnregister(t) ==
  /\ pc[t] = "d_unregister"
  /\ registry' = [registry EXCEPT ![frame[t].name] = NoRecord]
  /\ DestroyReturn(t, FALSE)
  /\ UNCHANGED <<leases, host, member, sharedLock, daemon, context,
                 requests, faults, crashes>>

-----------------------------------------------------------------------------
(* gc *)

GcFrame == UNCHANGED <<leases, nameLock, daemon, context, requests, crashes>>

\* Steps that only read, and keep what they read in the gc's locals.
GcRead == UNCHANGED <<registry, host, member, sharedLock, frame>> /\ GcFrame

GcEnter(t) ==
  /\ pc[t] = "g_lock"
  /\ sharedLock = Nobody
  /\ sharedLock' = t
  /\ Goto(t, "g_scan")
  /\ UNCHANGED <<registry, host, member, frame, gcv, faults>> /\ GcFrame

GcReturn(t) ==
  /\ sharedLock' = Nobody
  /\ Goto(t, "idle")
  /\ frame' = [frame EXCEPT ![t] = NoFrame]
  /\ gcv' = [gcv EXCEPT ![t] = NoGc]
  /\ serving' = (serving \/ t = Main)
  /\ UNCHANGED <<registry, host, member, nameLock, ready, backend, context, requests, crashes>>

\* An exception leaves gc: _registered read a record that a destroy was
\* deleting, or a command timed out.  In main() it ends the daemon (Crash).
GcRaises(t) ==
  /\ t \in Workers
  /\ \/ /\ pc[t] \in {"g_scan", "g_after", "g_refs", "g_active"}
        /\ \E u \in Threads : pc[u] = "d_unregister"
        /\ NoFault
     \/ pc[t] \in {"g_discover", "g_bridge", "g_epairs"} /\ Fault
  /\ GcReturn(t)
  /\ UNCHANGED leases

GcScan(t) ==
  /\ pc[t] = "g_scan"
  /\ gcv' = [gcv EXCEPT ![t] = [@ EXCEPT !.snap = registry, !.todo = Registered]]
  /\ Goto(t, "g_loop")
  /\ NoFault /\ GcRead

\* Whose runtimes this gc may reclaim.
InScope(t, r) == frame[t].uid = 0 \/ Uid[r.owner[1]] = frame[t].uid

\* A name of the snapshot is kept: another user's, or its owner is alive.
GcKeep(t) ==
  /\ pc[t] = "g_loop"
  /\ \E n \in gcv[t].todo :
       /\ LET r == gcv[t].snap[n] IN ~InScope(t, r) \/ (gcv[t].stale /\ Alive(r.owner))
       /\ gcv' = [gcv EXCEPT ![t] = [@ EXCEPT !.todo = gcv[t].todo \ {n}, !.keep = gcv[t].keep \cup {n}]]
  /\ UNCHANGED pc /\ NoFault /\ GcRead

GcCall(t, n, back, force) ==
  /\ frame' = [frame EXCEPT ![t] = [@ EXCEPT !.name = n, !.back = back, !.force = force]]
  /\ gcv' = [gcv EXCEPT ![t].todo = @ \ {n}]
  /\ Goto(t, "d_lock")
  /\ UNCHANGED <<registry, host, member, sharedLock>> /\ GcFrame

\* Mutant: stale_only is ignored.
GcReclaim_All(t) ==
  /\ pc[t] = "g_loop"
  /\ \E n \in gcv[t].todo : InScope(t, gcv[t].snap[n]) /\ GcCall(t, n, "g_loop", frame[t].uid = 0)
  /\ NoFault

\* It is destroyed, by what the snapshot said of its owner.  A failing ps(1)
\* makes a live owner look dead.
GcReclaim(t) ==
  /\ pc[t] = "g_loop"
  /\ \E n \in gcv[t].todo :
       /\ LET r == gcv[t].snap[n] IN
            /\ InScope(t, r)
            /\ IF gcv[t].stale /\ Alive(r.owner) THEN Fault ELSE NoFault
       /\ GcCall(t, n, "g_loop", frame[t].uid = 0)

GcLoopEnd(t) ==
  /\ pc[t] = "g_loop" /\ gcv[t].todo = {}
  /\ Goto(t, "g_after")
  /\ UNCHANGED gcv /\ NoFault /\ GcRead

\* registered_after; only root goes on to the unregistered leftovers.
GcAfter(t) ==
  /\ pc[t] = "g_after"
  /\ gcv' = [gcv EXCEPT ![t].keep = @ \cup Registered]
  /\ Goto(t, IF frame[t].uid = 0 THEN "g_discover" ELSE "g_active")
  /\ NoFault /\ GcRead

\* _discover_jails, _discover_vms, _discover_datasets, minus what is retained.
\* A listing that fails is empty.
GcDiscover(t) ==
  /\ pc[t] = "g_discover"
  /\ \E seen \in SUBSET {"jail", "vm", "dataset"} :
       /\ IF seen = {"jail", "vm", "dataset"} THEN NoFault ELSE Fault
       /\ gcv' = [gcv EXCEPT ![t].todo =
                    {n \in Names : \E k \in seen : <<k, n>> \in Visible} \ gcv[t].keep]
  /\ Goto(t, "g_orphans")
  /\ GcRead

GcOrphan(t) ==
  /\ pc[t] = "g_orphans"
  /\ \E n \in gcv[t].todo : GcCall(t, n, "g_orphans", TRUE)
  /\ NoFault

GcOrphansEnd(t) ==
  /\ pc[t] = "g_orphans" /\ gcv[t].todo = {}
  /\ Goto(t, "g_refs")
  /\ UNCHANGED gcv /\ NoFault /\ GcRead

\* Mutant: records without an epair count as references too.
GcReferences_Null(t) ==
  /\ pc[t] = "g_refs"
  /\ gcv' = [gcv EXCEPT ![t].eps = {registry[n].ep : n \in Registered}]
  /\ Goto(t, "g_bridge")
  /\ NoFault /\ GcRead

\* referenced_epairs, from the registry
GcReferences(t) ==
  /\ pc[t] = "g_refs"
  /\ gcv' = [gcv EXCEPT ![t].eps = {registry[n].ep : n \in Registered} \ {NoUnit}]
  /\ Goto(t, "g_bridge")
  /\ NoFault /\ GcRead

\* _bridge_epairs() - referenced_epairs; a listing that fails is empty.
GcBridge(t) ==
  /\ pc[t] = "g_bridge"
  /\ \/ gcv' = [gcv EXCEPT ![t].eps = member \ @] /\ NoFault
     \/ gcv' = [gcv EXCEPT ![t].eps = {}] /\ Fault
  /\ Goto(t, "g_epairs")
  /\ GcRead

\* ifconfig destroy, whose failure is ignored
GcEpair(t) ==
  /\ pc[t] = "g_epairs"
  /\ \E e \in gcv[t].eps :
       /\ gcv' = [gcv EXCEPT ![t].eps = @ \ {e}]
       /\ \/ host' = host \ {<<"epair", e>>} /\ member' = member \ {e} /\ NoFault
          \/ UNCHANGED <<host, member>> /\ Fault
  /\ UNCHANGED <<registry, pc, sharedLock, frame>> /\ GcFrame

GcEpairsEnd(t) ==
  /\ pc[t] = "g_epairs" /\ gcv[t].eps = {}
  /\ Goto(t, "g_active")
  /\ UNCHANGED gcv /\ NoFault /\ GcRead

\* active_owners
GcActive(t) ==
  /\ pc[t] = "g_active"
  /\ gcv' = [gcv EXCEPT ![t].active = Registered]
  /\ Goto(t, "g_clear")
  /\ NoFault /\ GcRead

\* Mutant: the leases are not swept.
GcClear_NoSweep(t) == pc[t] = "g_clear" /\ GcReturn(t) /\ NoFault /\ UNCHANGED leases

\* pool.clear_orphans, which keeps the leases it cannot read.
Sweep(active) ==
  \E removed \in SUBSET Orphans(active) :
    /\ ClearOrphans(active, removed)
    /\ IF removed = Orphans(active) THEN NoFault ELSE Fault

\* The sweep for root, and the end of gc
GcClear(t) ==
  /\ pc[t] = "g_clear"
  /\ IF frame[t].uid = 0 THEN Sweep(gcv[t].active) ELSE UNCHANGED leases /\ NoFault
  /\ GcReturn(t)

-----------------------------------------------------------------------------
(* Crashes and client processes *)

Restart ==
  /\ crashes < MaxCrashes
  /\ crashes' = crashes + 1
  /\ nameLock' = [n \in Names |-> Nobody]
  /\ sharedLock' = Nobody
  /\ ready' = {}
  /\ backend' \in Backends
  /\ \E reconcile \in Reconciles : pc' = BootPc(reconcile) /\ serving' = ~reconcile
  /\ frame' = [t \in Threads |-> NoFrame]
  /\ gcv' = [t \in Threads |-> NoGc]
  /\ UNCHANGED <<disk, requests, faults>>

\* The daemon is killed and started again.
Crash == Restart /\ UNCHANGED <<host, member, context>>

\* The host restarts: datasets, guests' definitions and the files stay.
Reboot ==
  /\ Restart
  /\ host' = {r \in host : r[1] \in {"dataset", "vm", "vmdata"}}
  /\ member' = {}
  /\ up' = {}
  /\ UNCHANGED <<inc, missed>>

ClientExit(p) ==
  /\ p \in up
  /\ up' = up \ {p}
  /\ UNCHANGED <<disk, host, member, locks, daemon, threads, inc, missed,
                 requests, faults, crashes>>

\* The pid is given to a new process of the same user.
ClientStart(p) ==
  /\ p \notin up /\ inc[p] < MaxInc
  /\ up' = up \cup {p}
  /\ inc' = [inc EXCEPT ![p] = @ + 1]
  /\ UNCHANGED <<disk, host, member, locks, daemon, threads, missed,
                 requests, faults, crashes>>

-----------------------------------------------------------------------------
CreateStep(t) ==
  \/ CreateEnter(t) \/ CreateDenied(t) \/ CreateReconcile(t) \/ CreateBegin(t)
  \/ EnsureCheck(t) \/ EnsureLock(t) \/ EnsureConfigure(t) \/ EnsureFails(t)
  \/ AllocateFails(t) \/ CreateAllocate(t) \/ WriteFails(t) \/ CreateWrite(t)
  \/ CloneDataset(t) \/ CreateEpair(t) \/ AddMember(t) \/ StartJail(t)
  \/ CreateMemdisk(t) \/ CloneSource(t) \/ CopySource(t) \/ CreateVm(t)
  \/ CreateCommit(t) \/ CreateStart(t) \/ FinishFails(t)

DestroyStep(t) ==
  \/ DestroyEnter(t) \/ DestroyLoad(t)
  \/ DestroyVm(t) \/ DestroyMd(t) \/ DestroyRecorded(t)
  \/ DestroyJail(t) \/ DestroyEpair(t) \/ DestroyDataset(t)
  \/ DestroyCheck(t) \/ DestroyRelease(t) \/ DestroyUnregister(t)

GcStep(t) ==
  \/ GcEnter(t) \/ GcRaises(t) \/ GcScan(t) \/ GcKeep(t) \/ GcReclaim(t)
  \/ GcLoopEnd(t) \/ GcAfter(t) \/ GcDiscover(t) \/ GcOrphan(t) \/ GcOrphansEnd(t)
  \/ GcReferences(t) \/ GcBridge(t) \/ GcEpair(t) \/ GcEpairsEnd(t)
  \/ GcActive(t) \/ GcClear(t)

Step(t) == CreateStep(t) \/ DestroyStep(t) \/ GcStep(t)

NewRequest(t) ==
  \E p \in Pids :
    \/ \E n \in Names, k \in Kinds : RequestCreate(t, p, n, k)
    \/ \E n \in Names : RequestDestroy(t, p, n)
    \/ \E stale \in BOOLEAN : RequestGc(t, p, stale)

Environment == Crash \/ Reboot \/ \E p \in Pids : ClientExit(p) \/ ClientStart(p)

Next == (\E t \in Workers : NewRequest(t)) \/ (\E t \in Threads : Step(t)) \/ Environment

Spec == Init /\ [][Next]_vars

-----------------------------------------------------------------------------
(* Properties *)

Labels ==
  {"idle", "c_lock", "c_begin", "ensure", "ensure_lock", "ensure_configure", "c_alloc",
   "c_write", "c_clone", "c_epair", "c_addm", "c_jail", "c_md", "c_source", "c_copy",
   "c_vm", "c_commit", "c_start",
   "d_lock", "d_load", "d_vm", "d_md", "d_recorded", "d_jail", "d_epair", "d_dataset",
   "d_check", "d_release", "d_unregister",
   "g_lock", "g_scan", "g_loop", "g_after", "g_discover", "g_orphans", "g_refs", "g_bridge",
   "g_epairs", "g_active", "g_clear"}

Frames ==
  [name : Names \cup {NoName}, pid : Pids \cup {NoPid}, uid : Nat,
   owner : Identities \cup {NoPid}, kind : {"jail", "bhyve"}, want : {"bridge", "switch"},
   rec : Records \cup {NoRecord}, back : {"reply", "create", "g_loop", "g_orphans"},
   force : BOOLEAN]

GcLocals ==
  [stale : BOOLEAN, snap : [Names -> Records \cup {NoRecord}], todo : SUBSET Names,
   keep : SUBSET Names, eps : SUBSET Epairs, active : SUBSET Names]

DiskTypeOK ==
  /\ PoolTypeOK
  /\ registry \in [Names -> Records \cup {NoRecord}]
  /\ host \subseteq Resources /\ member \subseteq Epairs

DaemonTypeOK ==
  /\ nameLock \in [Names -> Threads \cup {Nobody}]
  /\ sharedLock \in Threads \cup {Nobody}
  /\ ready \subseteq {"bridge", "switch"} /\ backend \in Backends /\ serving \in BOOLEAN

PcTypeOK == pc \in [Threads -> Labels]

FrameTypeOK == frame \in [Threads -> Frames]

GcTypeOK == gcv \in [Threads -> GcLocals]

ClientTypeOK ==
  /\ inc \in [Pids -> 1..MaxInc] /\ up \subseteq Pids /\ missed \subseteq Names
  /\ requests \in Nat /\ faults \in Nat /\ crashes \in Nat

\* Every variable of the daemon, the disk and the host has its type: an epair
\* to remove is a real unit, a request works on a name, a record is complete.
TypeOK == DiskTypeOK /\ DaemonTypeOK /\ PcTypeOK /\ FrameTypeOK /\ GcTypeOK /\ ClientTypeOK

\* Whatever carries a runtime's name on the host is registered: the record is
\* on disk before the first zfs clone or vm create, and it outlives the last
\* of them, through failed commands, crashes, reboots and concurrent requests.
\* Two things do get forgotten: a runtime whose last probes failed and were read
\* as absence, and the dataset of a guest when a crash came before the record
\* that names it and a command failed as well.
RegisteredWhileExisting ==
  \A n \in Names \ missed : \A x \in Named(n) \cap host :
    registry[n] # NoRecord \/ (x = <<"vmdata", n>> /\ crashes > 0 /\ faults > 0)

Running(n) == registry[n] # NoRecord /\ {<<"jail", n>>, <<"vm", n>>} \cap host # {}

\* Two running runtimes never have the same private address: an address is
\* leased before the record that names it is written and released only when
\* nothing of the runtime is left, whatever fails or crashes in between; only a
\* runtime that failing probes took for gone is left without its address.
AddressesDistinct ==
  \A m, n \in Names \ missed : m # n /\ Running(m) /\ Running(n) => registry[m].ip # registry[n].ip

\* A record disappears only by a destroy that acts for root or for the user
\* recorded as the runtime's owner at that moment, although gc chose the name
\* from an older snapshot of the registry.
OnlyOwnerUnregisters ==
  [][\A n \in Names : registry[n] # NoRecord /\ registry'[n] = NoRecord =>
       \E t \in Threads : /\ pc[t] = "d_unregister" /\ frame[t].name = n
                          /\ Authorized(frame[t].uid, registry[n])]_vars

\* The record of n says that all of its runtime was built, and all of it exists.
Complete(n) ==
  LET r == registry[n] IN
  /\ leases[r.ip] = n
  /\ r.kind = "jail" => /\ {<<"jail", n>>, <<"dataset", n>>} \subseteq host
                        /\ r.ep \in member /\ <<"epair", r.ep>> \in host
  /\ r.kind = "bhyve" => /\ <<"vm", n>> \in host
                         /\ RecordedData(r, n) \cup RecordedMd(r) \subseteq host
                         /\ (backend = "memdisk") = (r.md # NoUnit)

\* Nothing of n exists, no resource and no leased address.
NoTrace(n) == Named(n) \cap host = {} /\ \A a \in Addresses : leases[a] # n

\* As long as no command fails and the daemon does not crash, a runtime that
\* no request is working on is either complete or leaves no trace: concurrent
\* requests of unprivileged clients for one name never undo a part of one
\* another's work.  (Requests for different names can: see epair_reuse.)
AllOrNothing ==
  \A n \in Names : nameLock[n] = Nobody => IF registry[n] = NoRecord THEN NoTrace(n) ELSE Complete(n)

\* Startup reconciliation never unregisters a runtime whose owner is alive,
\* unless a command (ps(1) among them) has failed.
StartupSparesLiveOwners ==
  [][\A n \in Names : DestroyUnregister(Main) /\ frame[Main].name = n /\ registry[n] # NoRecord =>
       faults > 0 \/ ~Alive(registry[n].owner)]_vars

\* When startup reconciliation is over, every lease belongs to a registered
\* runtime unless its file could not be read, and every epair on the bridge is
\* referenced by a record unless a command has failed: the leftovers of a create
\* that a crash cut short between its lease and its record, or its epair and its
\* record, are gone when the daemon starts to serve.
StartupReclaimsLeftovers ==
  [][serving' /\ ~serving /\ crashes' = crashes =>
       /\ faults' = faults => \A a \in Addresses : leases'[a] \in Registered' \cup {Unleased}
       /\ faults = 0 => \A e \in member : \E n \in Registered : registry[n].ep = e]_vars

-----------------------------------------------------------------------------
(* Refinement of RuntimeLifecycle *)

PartKinds == {"jail", "vm", "dataset", "vmdata"}

\* The promise is not kept for a name whose last probes failed.
PartsOf(n) == IF n \in missed THEN {} ELSE {k \in PartKinds : <<k, n>> \in host}

Life == INSTANCE RuntimeLifecycle
  WITH Processes <- Identities, Absent <- NoRecord,
       Parts <- PartKinds, Volatile <- {"jail"}, Forgettable <- {"vmdata"},
       owner <- [n \in Names |-> IF registry[n] = NoRecord THEN NoRecord ELSE registry[n].owner],
       parts <- [n \in Names |-> PartsOf(n)]

\* The daemon implements the lifecycle it promises for every name: a name passes
\* from one owner to another only through a destroy that left nothing of it.
ImplementsLifecycle == Life!Spec

-----------------------------------------------------------------------------
(* Waiting and liveness *)

\* t waits for a lock that u holds.
WaitsFor(t, u) ==
  \/ pc[t] \in {"c_lock", "d_lock"} /\ nameLock[frame[t].name] = u
  \/ pc[t] \in {"g_lock", "ensure_lock"} /\ sharedLock = u

\* Each of these threads waits for one of them.
Deadlock(S) == S # {} /\ \A t \in S : \E u \in S : WaitsFor(t, u)

Deadlocked == \E S \in SUBSET Threads : Deadlock(S)

\* t is a create that waits for the lock of its own name, in the destroy it calls.
OwnDestroy(t) == pc[t] = "d_lock" /\ frame[t].back = "create" /\ WaitsFor(t, t)

\* t is a create that configures the bridge or the switch, u a gc that destroys
\* the runtime t is creating.
Crossed(t, u) ==
  /\ pc[t] = "ensure_lock" /\ pc[u] = "d_lock" /\ frame[u].back \in {"g_loop", "g_orphans"}
  /\ WaitsFor(t, u) /\ WaitsFor(u, t)

\* Every deadlock, of however many threads, comes from one of these two: no lock
\* outlives the request that took it, and no other path takes the locks of two
\* names or of a name and the bridge in two orders.
OnlyKnownDeadlocks ==
  \A S \in SUBSET Threads :
    Deadlock(S) => \E t, u \in S : OwnDestroy(t) \/ Crossed(t, u)

Fairness == \A t \in Threads : WF_vars(Step(t))

FairSpec == Spec /\ Fairness

\* A create that finds its own earlier runtime, or that fails, gets through the
\* destroy it calls.
ReconcileCompletes ==
  \A t \in Threads : (pc[t] = "d_lock" /\ frame[t].back = "create") ~> (pc[t] # "d_lock")

\* Every request is answered and startup reconciliation ends, unless threads
\* wait for each other (OnlyKnownDeadlocks): nothing else holds a lock for ever,
\* whatever fails.
RequestsAnswered == \A t \in Threads : (pc[t] # "idle") ~> (pc[t] = "idle" \/ Deadlocked)

\* n is registered for a process that does not exist any more.
Stale(n) ==
  /\ registry[n] # NoRecord
  /\ LET id == registry[n].owner IN id[1] \notin up \/ inc[id[1]] # id[2]

\* A runtime whose owner is dead when startup reconciliation reads the registry
\* is gone in the end, even when the owner's pid has been given to another
\* process, unless a command has failed.
StartupReclaimsStale ==
  \A n \in Names : (pc[Main] = "g_scan" /\ Stale(n)) ~> (registry[n] = NoRecord \/ faults > 0)

-----------------------------------------------------------------------------
(* What the repository says of the program and the code does not do *)

\* No two threads wait for each other: whoever wants the shared lock and the lock
\* of a name takes them in one order.
NoLockCycle == \A t, u \in Threads : t # u => ~(WaitsFor(t, u) /\ WaitsFor(u, t))

\* A stale-only gc never unregisters a runtime whose owner is alive.
StaleGcSparesLiveOwners ==
  [][\A t \in Threads, n \in Names :
       DestroyUnregister(t) /\ frame[t].name = n /\ frame[t].back # "reply" /\ gcv[t].stale
         /\ registry[n] # NoRecord => ~Alive(registry[n].owner)]_vars

\* The destroy of a runtime never removes the interface of another user's
\* running runtime.
DestroySparesOthers ==
  [][\A t \in Threads, n \in Names :
       DestroyEpair(t) /\ frame[t].uid # 0 /\ Running(n) /\ Uid[registry[n].owner[1]] # frame[t].uid
         /\ registry[n].ep # NoUnit /\ <<"epair", registry[n].ep>> \in host
       => <<"epair", registry[n].ep>> \in host']_vars
=============================================================================
