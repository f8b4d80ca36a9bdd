------------------------ MODULE RuntimeDaemon_proofs ------------------------
(***************************************************************************)
(* For every number of threads, clients, names, addresses and units, and   *)
(* any number of faults and crashes: the types of the daemon's state, and  *)
(* that whatever carries a runtime's name on the host is registered.       *)
(***************************************************************************)
EXTENDS RuntimeDaemon, TLAPS

\* Labels of a create before its record is written, and from then on.
Preparing == {"ensure", "ensure_lock", "ensure_configure", "c_alloc"}

Building ==
  {"c_clone", "c_epair", "c_addm", "c_jail", "c_md", "c_source", "c_copy", "c_vm", "c_commit",
   "c_start"}

\* Labels that only the create of a jail and only that of a guest reaches.
Jailed == {"c_clone", "c_epair", "c_addm", "c_jail"}

Guest == {"c_md", "c_source", "c_copy", "c_vm", "c_start"}

\* Labels of a destroy that has read the record, and of one whose probes have
\* found nothing.
Removing == {"d_vm", "d_md", "d_recorded", "d_jail", "d_epair", "d_dataset", "d_check"}

Removed == {"d_release", "d_unregister"}

\* Labels inside _serialized_lifecycle of a name.
Held == {"c_begin", "c_write", "d_load"} \cup Preparing \cup Building \cup Removing \cup Removed

\* What a destroy has seen of a name whose record it drops.
Gone(n) == Probed(n) \cap host = {} /\ (crashes = 0 \/ faults = 0 => <<"vmdata", n>> \notin host)

\* What a thread knows at each label; r is the record on disk of its name.
ThreadInv(t) ==
  LET f == frame[t]
      n == frame[t].name
      r == registry[frame[t].name] IN
  /\ pc[t] \in Held \cup {"c_lock", "d_lock"} => n \in Names
  /\ pc[t] \in Held => nameLock[n] = t
  /\ pc[t] \in Preparing => r = NoRecord /\ f.owner \in Identities
  /\ pc[t] = "c_write" => r = NoRecord /\ f.rec \in Records /\ f.rec.kind = f.kind
  /\ pc[t] \in Building => /\ r # NoRecord /\ f.rec \in Records
                           /\ r.owner = f.rec.owner /\ r.kind = f.rec.kind /\ r.kind = f.kind
  /\ pc[t] \in Jailed => f.kind = "jail"
  /\ pc[t] \in Guest => f.kind = "bhyve"
  /\ pc[t] \in Removing \cup Removed => f.rec = r /\ (r # NoRecord /\ r.kind = "bhyve" => VmAvailable)
  /\ pc[t] \in Removed => n \in missed \/ Gone(n)

\* A guest exists only while a guest is registered under its name.
GuestsRegistered ==
  \A n \in Names \ missed :
    <<"vm", n>> \in host => registry[n] # NoRecord /\ registry[n].kind = "bhyve"

\* As long as nothing fails, no probe is misread and a guest's dataset exists
\* only with the guest.
DataWithGuest ==
  faults = 0 => missed = {} /\ \A n \in Names : <<"vmdata", n>> \in host => <<"vm", n>> \in host

\* A guest's dataset is recorded, or the create that made it is about to record
\* it, or waits for ever in the destroy it calls.
DataKnown(n) ==
  /\ registry[n] # NoRecord /\ registry[n].kind = "bhyve"
  /\ \A t \in Threads : pc[t] = "c_commit" /\ frame[t].name = n => frame[t].rec.data
  /\ \/ registry[n].data
     \/ \E t \in Threads : /\ nameLock[n] = t /\ frame[t].name = n
                           /\ pc[t] = "c_commit" \/ OwnDestroy(t)

DataRecorded ==
  crashes = 0 => \A n \in Names \ missed : <<"vmdata", n>> \in host => DataKnown(n)

\* The inductive invariant.
IInv ==
  /\ TypeOK
  /\ RegisteredWhileExisting /\ GuestsRegistered /\ DataWithGuest /\ DataRecorded
  /\ \A t \in Threads : ThreadInv(t)

-----------------------------------------------------------------------------
(* Initial states and new requests *)

\* A request that has just arrived, and a gc that has just begun, have locals of
\* their types.
LEMMA Defaults == NoFrame \in Frames /\ NoGc \in GcLocals
  BY DEF NoFrame, Frames, NoGc, GcLocals

\* The daemon starts in a state of the invariant.
LEMMA InitIInv == Init => IInv
<1> SUFFICES ASSUME Init PROVE IInv
  OBVIOUS
<1> USE DaemonAssumption, PoolAssumption, Defaults DEF Init, BootPc
<1>1. DiskTypeOK
  BY DEF DiskTypeOK, PoolInit, PoolTypeOK, LeaseValues
<1>2. DaemonTypeOK
  BY DEF DaemonTypeOK
<1>3. PcTypeOK /\ FrameTypeOK /\ GcTypeOK
  BY DEF PcTypeOK, FrameTypeOK, GcTypeOK, Labels, Threads
<1>4. ClientTypeOK
  BY DEF ClientTypeOK
<1>5. RegisteredWhileExisting /\ GuestsRegistered /\ DataWithGuest /\ DataRecorded
  BY DEF RegisteredWhileExisting, GuestsRegistered, DataWithGuest, DataRecorded
<1>6. \A t \in Threads : ThreadInv(t)
  BY DEF ThreadInv, Held, Preparing, Building, Jailed, Guest, Removing, Removed
<1> QED
  BY <1>1, <1>2, <1>3, <1>4, <1>5, <1>6 DEF IInv, TypeOK

\* What every new request is: a frame and a first label.
LEMMA RequestForm ==
  ASSUME NEW t \in Workers, NewRequest(t)
  PROVE  \E p \in Pids, f \in Frames, g \in GcLocals, l \in {"c_lock", "d_lock", "g_lock"} :
           Request(t, p, f, g, l) /\ (l # "g_lock" => f.name \in Names)
<1> USE DaemonAssumption
<1>1. PICK p \in Pids : \/ \E n \in Names, k \in Kinds : RequestCreate(t, p, n, k)
                        \/ \E n \in Names : RequestDestroy(t, p, n)
                        \/ \E stale \in BOOLEAN : RequestGc(t, p, stale)
  BY DEF NewRequest
<1>2. ASSUME NEW n \in Names, NEW k \in Kinds, RequestCreate(t, p, n, k)
      PROVE \E f \in Frames, g \in GcLocals, l \in {"c_lock", "d_lock", "g_lock"} :
              Request(t, p, f, g, l) /\ (l # "g_lock" => f.name \in Names)
  <2> DEFINE f == [NoFrame EXCEPT !.name = n, !.pid = p, !.uid = Uid[p], !.kind = k]
  <2>1. f \in Frames /\ f.name = n
    BY DEF NoFrame, Frames
  <2>2. Request(t, p, f, NoGc, "c_lock")
    BY <1>2 DEF RequestCreate
  <2> QED
    BY <2>1, <2>2, Defaults
<1>3. ASSUME NEW n \in Names, RequestDestroy(t, p, n)
      PROVE \E f \in Frames, g \in GcLocals, l \in {"c_lock", "d_lock", "g_lock"} :
              Request(t, p, f, g, l) /\ (l # "g_lock" => f.name \in Names)
  <2> DEFINE f == [NoFrame EXCEPT !.name = n, !.uid = Uid[p]]
  <2>1. f \in Frames /\ f.name = n
    BY DEF NoFrame, Frames
  <2>2. Request(t, p, f, NoGc, "d_lock")
    BY <1>3 DEF RequestDestroy
  <2> QED
    BY <2>1, <2>2, Defaults
<1>4. ASSUME NEW stale \in BOOLEAN, RequestGc(t, p, stale)
      PROVE \E f \in Frames, g \in GcLocals, l \in {"c_lock", "d_lock", "g_lock"} :
              Request(t, p, f, g, l) /\ (l # "g_lock" => f.name \in Names)
  <2> DEFINE f == [NoFrame EXCEPT !.uid = Uid[p]]
             g == [NoGc EXCEPT !.stale = stale]
  <2>1. f \in Frames
    BY DEF NoFrame, Frames
  <2>2. g \in GcLocals
    BY DEF NoGc, GcLocals
  <2>3. Request(t, p, f, g, "g_lock")
    BY <1>4 DEF RequestGc
  <2> QED
    BY <2>1, <2>2, <2>3
<1> QED
  BY <1>1, <1>2, <1>3, <1>4

\* A command of a create and a removal of a destroy, whichever it is.
Construction(t) ==
  \/ CloneDataset(t) \/ CreateEpair(t) \/ AddMember(t) \/ StartJail(t)
  \/ CreateMemdisk(t) \/ CloneSource(t) \/ CreateVm(t)

Removal(t) ==
  \/ DestroyVm(t) \/ DestroyMd(t) \/ DestroyRecorded(t)
  \/ DestroyJail(t) \/ DestroyEpair(t) \/ DestroyDataset(t)

\* Updates of a record keep its type, its owner and its kind.
LEMMA RecordFields ==
  ASSUME NEW r \in Records
  PROVE  /\ \A u \in Epairs : /\ [r EXCEPT !.ep = u] \in Records
                              /\ [r EXCEPT !.ep = u].owner = r.owner
                              /\ [r EXCEPT !.ep = u].kind = r.kind
         /\ \A u \in Mds : /\ [r EXCEPT !.md = u] \in Records
                           /\ [r EXCEPT !.md = u].owner = r.owner
                           /\ [r EXCEPT !.md = u].kind = r.kind
         /\ \A d \in BOOLEAN : /\ [r EXCEPT !.data = d] \in Records
                               /\ [r EXCEPT !.data = d].owner = r.owner
                               /\ [r EXCEPT !.data = d].kind = r.kind
  BY DEF Records

\* How a command of a create ends: the record in memory is extended and the
\* create goes on, or the create calls destroy.
BuildsOn(t, l, r) ==
  /\ Goto(t, l) /\ frame' = [frame EXCEPT ![t].rec = r]
  /\ r.owner = frame[t].rec.owner /\ r.kind = frame[t].rec.kind
  /\ (l \in Jailed => pc[t] \in Jailed) /\ (l \in Guest => pc[t] \in Guest)

\* A command of a create changes its thread's locals and the host only.
LEMMA ConstructionThread ==
  ASSUME IInv, NEW t \in Threads, Construction(t)
  PROVE  /\ pc[t] \in Building \ {"c_commit", "c_start"}
         /\ CallDestroy(t, TRUE) \/ \E l \in Building, r \in Records : BuildsOn(t, l, r)
<1> DEFINE rec == frame[t].rec
<1>0. pc[t] \in Building => rec \in Records
  BY DEF IInv, ThreadInv
<1> USE DEF Build, BuildOk, BuildFails, Building, Jailed, Guest, BuildsOn
<1>1. CASE CloneDataset(t)
  BY <1>0, <1>1 DEF CloneDataset
<1>2. CASE CreateEpair(t)
  <2>1. PICK u \in Epairs :
          Build(t, "c_epair", TRUE, {<<"epair", u>>}, [rec EXCEPT !.ep = u], "c_addm")
    BY <1>2 DEF CreateEpair, FreeUnits
  <2>2. pc[t] \in Building /\ rec \in Records
    BY <1>0, <2>1
  <2>3. [rec EXCEPT !.ep = u] \in Records /\ [rec EXCEPT !.ep = u].owner = rec.owner
        /\ [rec EXCEPT !.ep = u].kind = rec.kind
    BY <2>2, RecordFields
  <2> QED
    BY <2>1, <2>2, <2>3
<1>3. CASE AddMember(t)
  BY <1>0, <1>3 DEF AddMember
<1>4. CASE StartJail(t)
  BY <1>0, <1>4 DEF StartJail
<1>5. CASE CreateMemdisk(t)
  <2>1. PICK u \in Mds : Build(t, "c_md", TRUE, {<<"md", u>>}, [rec EXCEPT !.md = u], "c_source")
    BY <1>5 DEF CreateMemdisk, FreeUnits
  <2>2. pc[t] = "c_md" /\ rec \in Records
    BY <1>0, <2>1
  <2>3. [rec EXCEPT !.md = u] \in Records /\ [rec EXCEPT !.md = u].owner = rec.owner
        /\ [rec EXCEPT !.md = u].kind = rec.kind
    BY <2>2, RecordFields
  <2> QED
    BY <2>1, <2>2, <2>3
<1>6. CASE CreateVm(t)
  <2>1. PICK z \in BOOLEAN, possible \in BOOLEAN, new \in SUBSET {<<"vm", frame[t].name>>, <<"vmdata", frame[t].name>>} :
          Build(t, "c_vm", possible, new, [rec EXCEPT !.data = z], "c_commit")
    BY <1>6 DEF CreateVm
  <2>2. pc[t] = "c_vm" /\ rec \in Records
    BY <1>0, <2>1
  <2>3. [rec EXCEPT !.data = z] \in Records /\ [rec EXCEPT !.data = z].owner = rec.owner
        /\ [rec EXCEPT !.data = z].kind = rec.kind
    BY <2>2, RecordFields
  <2> QED
    BY <2>1, <2>2, <2>3
<1>7. CASE CloneSource(t)
  BY <1>0, <1>7 DEF CloneSource
<1> QED
  BY <1>1, <1>2, <1>3, <1>4, <1>5, <1>6, <1>7 DEF Construction

\* What a command of a create can make.
Makes(t) ==
  {<<"jail", frame[t].name>>, <<"dataset", frame[t].name>>, <<"source", frame[t].name>>}
    \cup ({"epair"} \X Epairs) \cup ({"md"} \X Mds)
    \cup (IF pc[t] = "c_vm" THEN {<<"vm", frame[t].name>>, <<"vmdata", frame[t].name>>} ELSE {})

\* It leaves everything else alone.
LEMMA ConstructionMakes ==
  ASSUME NEW t \in Threads, Construction(t), host \subseteq Resources
  PROVE  /\ \E new \in SUBSET Makes(t) : host' = host \cup new
         /\ member' = member \/ \E e \in Epairs : member' = member \cup {e}
         /\ UNCHANGED <<registry, leases, nameLock, sharedLock, ready, backend, serving, gcv,
                        inc, up, missed, requests, crashes>>
         /\ faults' = faults \/ faults' = faults + 1
<1> DEFINE n == frame[t].name
<1>0. \A e : <<"epair", e>> \in host => e \in Epairs
  BY DEF Resources
<1>1. UNCHANGED <<registry, leases, nameLock, sharedLock, ready, backend, serving, gcv,
                  inc, up, missed, requests, crashes>>
  BY DEF Construction, CloneDataset, CreateEpair, AddMember, StartJail, CreateMemdisk,
     CloneSource, CreateVm, Build, BuildFrame, disk, locks, daemon, context
<1>2. {} \in SUBSET Makes(t) /\ host = host \cup {}
  OBVIOUS
<1> USE DEF Build, BuildOk, BuildFails, Fault, NoFault
<1>3. CASE CloneDataset(t)
  <2>1. host' \in {host, host \cup {<<"dataset", n>>}} /\ member' = member
        /\ (faults' = faults \/ faults' = faults + 1)
    BY <1>3 DEF CloneDataset
  <2> QED
    BY <1>1, <2>1 DEF Makes
<1>4. CASE CreateEpair(t)
  <2>1. PICK u \in Epairs : host' \in {host, host \cup {<<"epair", u>>}} /\ member' = member
        /\ (faults' = faults \/ faults' = faults + 1)
    BY <1>4 DEF CreateEpair, FreeUnits
  <2>2. {<<"epair", u>>} \in SUBSET Makes(t)
    BY DEF Makes
  <2> QED
    BY <1>1, <1>2, <2>1, <2>2
<1>5. CASE AddMember(t)
  <2>1. host' = host /\ member' \in {member, member \cup {frame[t].rec.ep}}
        /\ (faults' = faults \/ faults' = faults + 1)
    BY <1>5 DEF AddMember
  <2>2. member' = member \/ frame[t].rec.ep \in Epairs
    <3>1. CASE <<"epair", frame[t].rec.ep>> \in host
      BY <1>0, <3>1
    <3>2. CASE <<"epair", frame[t].rec.ep>> \notin host
      <4>1. CallDestroy(t, TRUE) /\ pc[t] = "c_addm"
        BY <1>5, <3>2 DEF AddMember
      <4>2. pc'[t] # "c_jail"
        BY <4>1 DEF CallDestroy, Goto
      <4> QED
        BY <1>5, <3>2, <4>2 DEF AddMember
    <3> QED
      BY <3>1, <3>2
  <2> QED
    BY <1>1, <1>2, <2>1, <2>2
<1>6. CASE StartJail(t)
  <2>1. host' \in {host, host \cup {<<"jail", n>>}} /\ member' = member
        /\ (faults' = faults \/ faults' = faults + 1)
    BY <1>6 DEF StartJail
  <2> QED
    BY <1>1, <2>1 DEF Makes
<1>7. CASE CreateMemdisk(t)
  <2>1. PICK u \in Mds : host' \in {host, host \cup {<<"md", u>>}} /\ member' = member
        /\ (faults' = faults \/ faults' = faults + 1)
    BY <1>7 DEF CreateMemdisk, FreeUnits
  <2>2. {<<"md", u>>} \in SUBSET Makes(t)
    BY DEF Makes
  <2> QED
    BY <1>1, <1>2, <2>1, <2>2
<1>8. CASE CreateVm(t)
  <2>1. PICK new \in SUBSET {<<"vm", n>>, <<"vmdata", n>>} :
          host' = host \cup new /\ member' = member
          /\ (faults' = faults \/ faults' = faults + 1)
    <3>1. PICK z \in BOOLEAN, possible \in BOOLEAN, made \in SUBSET {<<"vm", n>>, <<"vmdata", n>>} :
            /\ Build(t, "c_vm", possible, made, [frame[t].rec EXCEPT !.data = z], "c_commit")
            /\ member' = member
      BY <1>8 DEF CreateVm
    <3>2. faults' = faults \/ faults' = faults + 1
      BY <3>1
    <3>3. PICK new \in SUBSET made : host' = host \cup new
      <4>1. CASE host' = host \cup made
        BY <4>1
      <4>2. CASE host' = host
        BY <1>2, <4>2
      <4>3. CASE \E some \in SUBSET made : host' = host \cup some
        BY <4>3
      <4> QED
        BY <3>1, <4>1, <4>2, <4>3
    <3> QED
      BY <3>1, <3>2, <3>3
  <2>2. pc[t] = "c_vm"
    BY <1>8 DEF CreateVm
  <2>3. new \in SUBSET Makes(t)
    BY <2>2 DEF Makes
  <2> QED
    BY <1>1, <2>1, <2>3
<1>9. CASE CloneSource(t)
  <2>1. PICK new \in SUBSET {<<"source", n>>} : host' = host \cup new /\ member' = member
        /\ (faults' = faults \/ faults' = faults + 1)
    BY <1>9 DEF CloneSource
  <2>2. new \in SUBSET Makes(t)
    BY DEF Makes
  <2> QED
    BY <1>1, <2>1, <2>2
<1> QED
  BY <1>3, <1>4, <1>5, <1>6, <1>7, <1>8, <1>9 DEF Construction

\* Of all that carries a name, a command of a create makes only the jail, the
\* dataset or the guest of its own runtime.
LEMMA ConstructionHost ==
  ASSUME IInv, NEW t \in Threads, Construction(t)
  PROVE  /\ host \subseteq host' /\ host' \subseteq Resources /\ member' \subseteq Epairs
         /\ \A n \in Names : n # frame[t].name => Named(n) \cap host' = Named(n) \cap host
         /\ \A n \in Names : <<"vm", n>> \in host' \ host => n = frame[t].name /\ pc[t] = "c_vm"
<1>1. frame[t].name \in Names /\ host \subseteq Resources /\ member \subseteq Epairs
  BY ConstructionThread DEF IInv, ThreadInv, TypeOK, DiskTypeOK, Held
<1>2. PICK new \in SUBSET Makes(t) : host' = host \cup new
  BY <1>1, ConstructionMakes
<1>3. Makes(t) \subseteq Resources
  BY <1>1 DEF Makes, Resources
<1>4. ASSUME NEW n \in Names, n # frame[t].name PROVE Named(n) \cap new = {}
  <2>1. Named(n) \cap Makes(t) = {}
    BY <1>4 DEF Named, Probed, Makes
  <2> QED
    BY <1>2, <2>1
<1>5. ASSUME NEW n \in Names, <<"vm", n>> \in new PROVE n = frame[t].name /\ pc[t] = "c_vm"
  BY <1>5 DEF Makes
<1>6. member' \subseteq Epairs
  BY <1>1, ConstructionMakes
<1> QED
  BY <1>1, <1>2, <1>3, <1>4, <1>5, <1>6

\* A removal of a destroy goes on or raises, and only removes.
LEMMA RemovalEffect ==
  ASSUME NEW t \in Threads, Removal(t)
  PROVE  /\ pc[t] \in Removing
         /\ \/ DestroyReturn(t, TRUE)
            \/ \E l \in Removing : Goto(t, l) /\ UNCHANGED <<nameLock, frame, gcv>>
         /\ host' \subseteq host /\ member' \subseteq member
         /\ UNCHANGED <<registry, leases, sharedLock, ready, backend, serving, inc, up,
                        missed, requests, crashes>>
         /\ faults' = faults \/ faults' = faults + 1
<1> USE DEF Remove, Removing, Fault, NoFault, disk, daemon, context
<1>1. CASE DestroyVm(t)
  BY <1>1 DEF DestroyVm
<1>2. CASE DestroyMd(t)
  BY <1>2 DEF DestroyMd
<1>3. CASE DestroyRecorded(t)
  BY <1>3 DEF DestroyRecorded
<1>4. CASE DestroyJail(t)
  BY <1>4 DEF DestroyJail
<1>5. CASE DestroyEpair(t)
  BY <1>5 DEF DestroyEpair
<1>6. CASE DestroyDataset(t)
  BY <1>6 DEF DestroyDataset
<1> QED
  BY <1>1, <1>2, <1>3, <1>4, <1>5, <1>6 DEF Removal

-----------------------------------------------------------------------------
(* Type correctness *)

\* Clients, counters and faults keep their types, and no fault is forgotten.
LEMMA ClientStep ==
  IInv /\ [Next]_vars =>
    /\ ClientTypeOK' /\ (faults' = 0 => faults = 0) /\ (crashes' = 0 => crashes = 0)
    /\ missed \subseteq missed'
<1> DEFINE Grow == (faults' = 0 => faults = 0) /\ (crashes' = 0 => crashes = 0) /\ missed \subseteq missed'
<1> SUFFICES ASSUME IInv, [Next]_vars PROVE ClientTypeOK' /\ Grow
  OBVIOUS
<1> USE DEF ClientTypeOK, context
<1>0. ClientTypeOK /\ host \subseteq Resources
  BY DEF IInv, TypeOK, DiskTypeOK
<1>1. ASSUME NEW t \in Workers, NewRequest(t) PROVE ClientTypeOK' /\ Grow
  BY <1>1, <1>0, RequestForm DEF Request
<1>2. ASSUME NEW t \in Threads, CreateEnter(t) \/ DestroyEnter(t) PROVE ClientTypeOK' /\ Grow
  BY <1>2, <1>0 DEF CreateEnter, DestroyEnter, EnterNamed, Fault, NoFault
<1>3. ASSUME NEW t \in Threads, CreateDenied(t) \/ WriteFails(t) PROVE ClientTypeOK' /\ Grow
  BY <1>3, <1>0 DEF CreateDenied, WriteFails, Refuse, Reply, Fault, NoFault
<1>4. ASSUME NEW t \in Threads, AllocateFails(t) PROVE ClientTypeOK' /\ Grow
  BY <1>4, <1>0 DEF AllocateFails, Refuse, Reply, Fault, NoFault
<1>5. ASSUME NEW t \in Threads, CreateReconcile(t) \/ CreateBegin(t) PROVE ClientTypeOK' /\ Grow
  BY <1>5, <1>0 DEF CreateReconcile, CreateBegin, CallDestroy, Fault, NoFault
<1>6. ASSUME NEW t \in Threads, EnsureCheck(t) \/ EnsureLock(t) PROVE ClientTypeOK' /\ Grow
  BY <1>6, <1>0 DEF EnsureCheck, EnsureLock, Ensured, Fault, NoFault
<1>7. ASSUME NEW t \in Threads, EnsureConfigure(t) \/ EnsureFails(t) PROVE ClientTypeOK' /\ Grow
  BY <1>7, <1>0 DEF EnsureConfigure, EnsureFails, Ensured, Reply, Fault, NoFault
<1>8. ASSUME NEW t \in Threads, CreateAllocate(t) PROVE ClientTypeOK' /\ Grow
  BY <1>8, <1>0 DEF CreateAllocate, Fault, NoFault
<1>9. ASSUME NEW t \in Threads, CreateWrite(t) PROVE ClientTypeOK' /\ Grow
  BY <1>9, <1>0 DEF CreateWrite, FirstBuildStep, Fault, NoFault
<1>10. ASSUME NEW t \in Threads, Construction(t) PROVE ClientTypeOK' /\ Grow
  BY <1>10, <1>0, ConstructionMakes
<1>11. ASSUME NEW t \in Threads, CreateCommit(t) PROVE ClientTypeOK' /\ Grow
  BY <1>11, <1>0 DEF CreateCommit, Reply, Fault, NoFault
<1>12. ASSUME NEW t \in Threads, CreateStart(t) \/ FinishFails(t) \/ CopySource(t) PROVE ClientTypeOK' /\ Grow
  BY <1>12, <1>0 DEF CreateStart, FinishFails, CopySource, BuildFrame, Reply, CallDestroy, Fault, NoFault
<1>13. ASSUME NEW t \in Threads, DestroyLoad(t) PROVE ClientTypeOK' /\ Grow
  BY <1>13, <1>0 DEF DestroyLoad, DestroyReturn, Fault, NoFault
<1>14. ASSUME NEW t \in Threads, Removal(t) PROVE ClientTypeOK' /\ Grow
  <2>1. UNCHANGED <<inc, up, missed, requests, crashes>> /\ (faults' = faults \/ faults' = faults + 1)
    BY <1>14, RemovalEffect
  <2> QED
    BY <1>0, <2>1
<1>15. ASSUME NEW t \in Threads, DestroyCheck(t) PROVE ClientTypeOK' /\ Grow
  <2>1. frame[t].name \in Names
    BY <1>15 DEF DestroyCheck, IInv, ThreadInv, Held, Removing
  <2> QED
    BY <1>15, <1>0, <2>1 DEF DestroyCheck, DestroyReturn, Fault, NoFault
<1>16. ASSUME NEW t \in Threads, DestroyRelease(t) PROVE ClientTypeOK' /\ Grow
  BY <1>16, <1>0 DEF DestroyRelease, DestroyReturn, Fault, NoFault
<1>17. ASSUME NEW t \in Threads, DestroyUnregister(t) PROVE ClientTypeOK' /\ Grow
  BY <1>17, <1>0 DEF DestroyUnregister, DestroyReturn, Fault, NoFault
<1>18. ASSUME NEW t \in Threads, GcEnter(t) PROVE ClientTypeOK' /\ Grow
  BY <1>18, <1>0 DEF GcEnter, GcFrame, Fault, NoFault
<1>19. ASSUME NEW t \in Threads, GcRaises(t) PROVE ClientTypeOK' /\ Grow
  BY <1>19, <1>0 DEF GcRaises, GcReturn, Fault, NoFault
<1>20. ASSUME NEW t \in Threads, GcClear(t) PROVE ClientTypeOK' /\ Grow
  BY <1>20, <1>0 DEF GcClear, Sweep, GcReturn, Fault, NoFault
<1>21. ASSUME NEW t \in Threads, GcScan(t) \/ GcKeep(t) PROVE ClientTypeOK' /\ Grow
  BY <1>21, <1>0 DEF GcScan, GcKeep, GcRead, GcFrame, Fault, NoFault
<1>22. ASSUME NEW t \in Threads, GcLoopEnd(t) \/ GcAfter(t) \/ GcDiscover(t) PROVE ClientTypeOK' /\ Grow
  BY <1>22, <1>0 DEF GcLoopEnd, GcAfter, GcDiscover, GcRead, GcFrame, Fault, NoFault
<1>23. ASSUME NEW t \in Threads, GcReclaim(t) PROVE ClientTypeOK' /\ Grow
  BY <1>23, <1>0 DEF GcReclaim, GcCall, GcFrame, Fault, NoFault
<1>24. ASSUME NEW t \in Threads, GcOrphan(t) PROVE ClientTypeOK' /\ Grow
  BY <1>24, <1>0 DEF GcOrphan, GcCall, GcFrame, Fault, NoFault
<1>25. ASSUME NEW t \in Threads, GcOrphansEnd(t) \/ GcReferences(t) \/ GcBridge(t) PROVE ClientTypeOK' /\ Grow
  BY <1>25, <1>0 DEF GcOrphansEnd, GcReferences, GcBridge, GcRead, GcFrame, Fault, NoFault
<1>26. ASSUME NEW t \in Threads, GcEpair(t) PROVE ClientTypeOK' /\ Grow
  BY <1>26, <1>0 DEF GcEpair, GcFrame, Fault, NoFault
<1>27. ASSUME NEW t \in Threads, GcEpairsEnd(t) \/ GcActive(t) PROVE ClientTypeOK' /\ Grow
  BY <1>27, <1>0 DEF GcEpairsEnd, GcActive, GcRead, GcFrame, Fault, NoFault
<1>28. CASE Environment
  BY <1>28, <1>0, DaemonAssumption DEF Environment, Crash, Reboot, Restart, ClientExit,
     ClientStart, threads
<1>29. CASE UNCHANGED vars
  BY <1>29, <1>0 DEF vars
<1> QED
  BY <1>1, <1>2, <1>3, <1>4, <1>5, <1>6, <1>7, <1>8, <1>9, <1>10, <1>11, <1>12, <1>13, <1>14,
     <1>15, <1>16, <1>17, <1>18, <1>19, <1>20, <1>21, <1>22, <1>23, <1>24, <1>25, <1>26, <1>27,
     <1>28, <1>29 DEF Next, Step, CreateStep, DestroyStep, GcStep, Construction, Removal

\* Counters and the names given up only grow.
LEMMA Growth ==
  ASSUME IInv, NEW t \in Threads, Step(t)
  PROVE  (faults' = 0 => faults = 0) /\ (crashes' = 0 => crashes = 0) /\ missed \subseteq missed'
  BY ClientStep DEF Next

\* Locks and the daemon's flags keep their types.
LEMMA DaemonStep == IInv /\ [Next]_vars => DaemonTypeOK'
<1> SUFFICES ASSUME IInv, [Next]_vars PROVE DaemonTypeOK'
  OBVIOUS
<1> USE DEF DaemonTypeOK, locks, daemon
<1>0. DaemonTypeOK /\ host \subseteq Resources
  BY DEF IInv, TypeOK, DiskTypeOK
<1>1. ASSUME NEW t \in Workers, NewRequest(t) PROVE DaemonTypeOK'
  BY <1>1, <1>0, RequestForm DEF Request
<1>2. ASSUME NEW t \in Threads, CreateEnter(t) \/ DestroyEnter(t) PROVE DaemonTypeOK'
  BY <1>2, <1>0 DEF CreateEnter, DestroyEnter, EnterNamed, Unlock
<1>3. ASSUME NEW t \in Threads, CreateDenied(t) \/ WriteFails(t) PROVE DaemonTypeOK'
  BY <1>3, <1>0 DEF CreateDenied, WriteFails, Refuse, Reply, Unlock
<1>4. ASSUME NEW t \in Threads, AllocateFails(t) PROVE DaemonTypeOK'
  BY <1>4, <1>0 DEF AllocateFails, Refuse, Reply, Unlock
<1>5. ASSUME NEW t \in Threads, CreateReconcile(t) \/ CreateBegin(t) PROVE DaemonTypeOK'
  BY <1>5, <1>0 DEF CreateReconcile, CreateBegin, CallDestroy, Unlock
<1>6. ASSUME NEW t \in Threads, EnsureCheck(t) \/ EnsureLock(t) PROVE DaemonTypeOK'
  BY <1>6, <1>0 DEF EnsureCheck, EnsureLock, Ensured, Unlock
<1>7. ASSUME NEW t \in Threads, EnsureConfigure(t) \/ EnsureFails(t) PROVE DaemonTypeOK'
  <2>1. frame[t].want \in {"bridge", "switch"}
    BY DEF IInv, TypeOK, FrameTypeOK, Frames
  <2> QED
    BY <1>7, <1>0, <2>1 DEF EnsureConfigure, EnsureFails, Reply, Unlock
<1>8. ASSUME NEW t \in Threads, CreateAllocate(t) PROVE DaemonTypeOK'
  BY <1>8, <1>0 DEF CreateAllocate, Unlock
<1>9. ASSUME NEW t \in Threads, CreateWrite(t) PROVE DaemonTypeOK'
  BY <1>9, <1>0 DEF CreateWrite, FirstBuildStep, Unlock
<1>10. ASSUME NEW t \in Threads, Construction(t) PROVE DaemonTypeOK'
  BY <1>10, <1>0, ConstructionMakes
<1>11. ASSUME NEW t \in Threads, CreateCommit(t) PROVE DaemonTypeOK'
  BY <1>11, <1>0 DEF CreateCommit, Reply, Unlock
<1>12. ASSUME NEW t \in Threads, CreateStart(t) \/ FinishFails(t) \/ CopySource(t) PROVE DaemonTypeOK'
  BY <1>12, <1>0 DEF CreateStart, FinishFails, CopySource, BuildFrame, Reply, CallDestroy, Unlock
<1>13. ASSUME NEW t \in Threads, DestroyLoad(t) PROVE DaemonTypeOK'
  BY <1>13, <1>0 DEF DestroyLoad, DestroyReturn, Unlock
<1>14. ASSUME NEW t \in Threads, Removal(t) PROVE DaemonTypeOK'
  BY <1>14, <1>0, RemovalEffect DEF DestroyReturn, Unlock
<1>15. ASSUME NEW t \in Threads, DestroyCheck(t) PROVE DaemonTypeOK'
  BY <1>15, <1>0 DEF DestroyCheck, DestroyReturn, Unlock
<1>16. ASSUME NEW t \in Threads, DestroyRelease(t) PROVE DaemonTypeOK'
  BY <1>16, <1>0 DEF DestroyRelease, DestroyReturn, Unlock
<1>17. ASSUME NEW t \in Threads, DestroyUnregister(t) PROVE DaemonTypeOK'
  BY <1>17, <1>0 DEF DestroyUnregister, DestroyReturn, Unlock
<1>18. ASSUME NEW t \in Threads, GcEnter(t) PROVE DaemonTypeOK'
  BY <1>18, <1>0 DEF GcEnter, GcFrame, Unlock
<1>19. ASSUME NEW t \in Threads, GcRaises(t) PROVE DaemonTypeOK'
  BY <1>19, <1>0 DEF GcRaises, GcReturn, Unlock
<1>20. ASSUME NEW t \in Threads, GcClear(t) PROVE DaemonTypeOK'
  BY <1>20, <1>0 DEF GcClear, Sweep, GcReturn, Unlock
<1>21. ASSUME NEW t \in Threads, GcScan(t) \/ GcKeep(t) PROVE DaemonTypeOK'
  BY <1>21, <1>0 DEF GcScan, GcKeep, GcRead, GcFrame, Unlock
<1>22. ASSUME NEW t \in Threads, GcLoopEnd(t) \/ GcAfter(t) \/ GcDiscover(t) PROVE DaemonTypeOK'
  BY <1>22, <1>0 DEF GcLoopEnd, GcAfter, GcDiscover, GcRead, GcFrame, Unlock
<1>23. ASSUME NEW t \in Threads, GcReclaim(t) PROVE DaemonTypeOK'
  BY <1>23, <1>0 DEF GcReclaim, GcCall, GcFrame, Unlock
<1>24. ASSUME NEW t \in Threads, GcOrphan(t) PROVE DaemonTypeOK'
  BY <1>24, <1>0 DEF GcOrphan, GcCall, GcFrame, Unlock
<1>25. ASSUME NEW t \in Threads, GcOrphansEnd(t) \/ GcReferences(t) \/ GcBridge(t) PROVE DaemonTypeOK'
  BY <1>25, <1>0 DEF GcOrphansEnd, GcReferences, GcBridge, GcRead, GcFrame, Unlock
<1>26. ASSUME NEW t \in Threads, GcEpair(t) PROVE DaemonTypeOK'
  BY <1>26, <1>0 DEF GcEpair, GcFrame, Unlock
<1>27. ASSUME NEW t \in Threads, GcEpairsEnd(t) \/ GcActive(t) PROVE DaemonTypeOK'
  BY <1>27, <1>0 DEF GcEpairsEnd, GcActive, GcRead, GcFrame, Unlock
<1>28. CASE Environment
  BY <1>28, <1>0, DaemonAssumption DEF Environment, Crash, Reboot, Restart, ClientExit,
     ClientStart, BootPc
<1>29. CASE UNCHANGED vars
  BY <1>29, <1>0 DEF vars
<1> QED
  BY <1>1, <1>2, <1>3, <1>4, <1>5, <1>6, <1>7, <1>8, <1>9, <1>10, <1>11, <1>12, <1>13, <1>14,
     <1>15, <1>16, <1>17, <1>18, <1>19, <1>20, <1>21, <1>22, <1>23, <1>24, <1>25, <1>26, <1>27,
     <1>28, <1>29 DEF Next, Step, CreateStep, DestroyStep, GcStep, Construction, Removal

\* Every thread is at a label of the program.
LEMMA PcStep == IInv /\ [Next]_vars => PcTypeOK'
<1> SUFFICES ASSUME IInv, [Next]_vars PROVE PcTypeOK'
  OBVIOUS
<1> USE DEF PcTypeOK, threads
<1>0. PcTypeOK /\ FrameTypeOK
  BY DEF IInv, TypeOK
<1>1. ASSUME NEW t \in Workers, NewRequest(t) PROVE PcTypeOK'
  BY <1>1, <1>0, RequestForm DEF Request, Goto, Labels
<1>2. ASSUME NEW t \in Threads, CreateEnter(t) \/ DestroyEnter(t) PROVE PcTypeOK'
  BY <1>2, <1>0 DEF CreateEnter, DestroyEnter, EnterNamed, Goto, Labels
<1>3. ASSUME NEW t \in Threads, CreateDenied(t) \/ WriteFails(t) PROVE PcTypeOK'
  BY <1>3, <1>0 DEF CreateDenied, WriteFails, Refuse, Reply, Goto, Labels
<1>4. ASSUME NEW t \in Threads, AllocateFails(t) PROVE PcTypeOK'
  BY <1>4, <1>0 DEF AllocateFails, Refuse, Reply, Goto, Labels
<1>5. ASSUME NEW t \in Threads, CreateReconcile(t) \/ CreateBegin(t) PROVE PcTypeOK'
  BY <1>5, <1>0 DEF CreateReconcile, CreateBegin, CallDestroy, Goto, Labels
<1>6. ASSUME NEW t \in Threads, EnsureCheck(t) \/ EnsureLock(t) PROVE PcTypeOK'
  BY <1>6, <1>0 DEF EnsureCheck, EnsureLock, Ensured, Goto, Labels
<1>7. ASSUME NEW t \in Threads, EnsureConfigure(t) \/ EnsureFails(t) PROVE PcTypeOK'
  BY <1>7, <1>0 DEF EnsureConfigure, EnsureFails, Ensured, Reply, Goto, Labels
<1>8. ASSUME NEW t \in Threads, CreateAllocate(t) PROVE PcTypeOK'
  BY <1>8, <1>0 DEF CreateAllocate, Goto, Labels
<1>9. ASSUME NEW t \in Threads, CreateWrite(t) PROVE PcTypeOK'
  BY <1>9, <1>0 DEF CreateWrite, FirstBuildStep, Goto, Labels
<1>10. ASSUME NEW t \in Threads, Construction(t) PROVE PcTypeOK'
  <2>1. PICK l \in Building \cup {"d_lock"} : Goto(t, l)
    BY <1>10, ConstructionThread DEF BuildsOn, CallDestroy
  <2> QED
    BY <1>0, <2>1 DEF Goto, Labels, Building
<1>11. ASSUME NEW t \in Threads, CreateCommit(t) PROVE PcTypeOK'
  BY <1>11, <1>0 DEF CreateCommit, Reply, Goto, Labels
<1>12. ASSUME NEW t \in Threads, CreateStart(t) \/ FinishFails(t) \/ CopySource(t) PROVE PcTypeOK'
  BY <1>12, <1>0 DEF CreateStart, FinishFails, CopySource, BuildFrame, Reply, CallDestroy, Goto, Labels
<1>13. ASSUME NEW t \in Threads, DestroyLoad(t) PROVE PcTypeOK'
  BY <1>13, <1>0 DEF DestroyLoad, DestroyReturn, Goto, Labels
<1>14. ASSUME NEW t \in Threads, Removal(t) PROVE PcTypeOK'
  BY <1>14, <1>0, RemovalEffect DEF DestroyReturn, Goto, Labels, Removing
<1>15. ASSUME NEW t \in Threads, DestroyCheck(t) PROVE PcTypeOK'
  BY <1>15, <1>0 DEF DestroyCheck, DestroyReturn, Goto, Labels
<1>16. ASSUME NEW t \in Threads, DestroyRelease(t) PROVE PcTypeOK'
  BY <1>16, <1>0 DEF DestroyRelease, DestroyReturn, Goto, Labels
<1>17. ASSUME NEW t \in Threads, DestroyUnregister(t) PROVE PcTypeOK'
  BY <1>17, <1>0 DEF DestroyUnregister, DestroyReturn, Goto, Labels
<1>18. ASSUME NEW t \in Threads, GcEnter(t) PROVE PcTypeOK'
  BY <1>18, <1>0 DEF GcEnter, GcFrame, Goto, Labels
<1>19. ASSUME NEW t \in Threads, GcRaises(t) PROVE PcTypeOK'
  BY <1>19, <1>0 DEF GcRaises, GcReturn, Goto, Labels
<1>20. ASSUME NEW t \in Threads, GcClear(t) PROVE PcTypeOK'
  BY <1>20, <1>0 DEF GcClear, Sweep, GcReturn, Goto, Labels
<1>21. ASSUME NEW t \in Threads, GcScan(t) \/ GcKeep(t) PROVE PcTypeOK'
  BY <1>21, <1>0 DEF GcScan, GcKeep, GcRead, GcFrame, Goto, Labels
<1>22. ASSUME NEW t \in Threads, GcLoopEnd(t) \/ GcAfter(t) \/ GcDiscover(t) PROVE PcTypeOK'
  BY <1>22, <1>0 DEF GcLoopEnd, GcAfter, GcDiscover, GcRead, GcFrame, Goto, Labels
<1>23. ASSUME NEW t \in Threads, GcReclaim(t) PROVE PcTypeOK'
  BY <1>23, <1>0 DEF GcReclaim, GcCall, GcFrame, Goto, Labels
<1>24. ASSUME NEW t \in Threads, GcOrphan(t) PROVE PcTypeOK'
  BY <1>24, <1>0 DEF GcOrphan, GcCall, GcFrame, Goto, Labels
<1>25. ASSUME NEW t \in Threads, GcOrphansEnd(t) \/ GcReferences(t) \/ GcBridge(t) PROVE PcTypeOK'
  BY <1>25, <1>0 DEF GcOrphansEnd, GcReferences, GcBridge, GcRead, GcFrame, Goto, Labels
<1>26. ASSUME NEW t \in Threads, GcEpair(t) PROVE PcTypeOK'
  BY <1>26, <1>0 DEF GcEpair, GcFrame, Goto, Labels
<1>27. ASSUME NEW t \in Threads, GcEpairsEnd(t) \/ GcActive(t) PROVE PcTypeOK'
  BY <1>27, <1>0 DEF GcEpairsEnd, GcActive, GcRead, GcFrame, Goto, Labels
<1>28. CASE Environment
  BY <1>28, <1>0 DEF Environment, Crash, Reboot, Restart, ClientExit, ClientStart, BootPc,
     Labels
<1>29. CASE UNCHANGED vars
  BY <1>29, <1>0 DEF vars
<1> QED
  BY <1>1, <1>2, <1>3, <1>4, <1>5, <1>6, <1>7, <1>8, <1>9, <1>10, <1>11, <1>12, <1>13, <1>14,
     <1>15, <1>16, <1>17, <1>18, <1>19, <1>20, <1>21, <1>22, <1>23, <1>24, <1>25, <1>26, <1>27,
     <1>28, <1>29 DEF Next, Step, CreateStep, DestroyStep, GcStep, Construction, Removal

\* Updates of the locals of a request keep their types.
LEMMA SetRec ==
  ASSUME FrameTypeOK, NEW t \in Threads, NEW r \in Records \cup {NoRecord},
         frame' = [frame EXCEPT ![t].rec = r]
  PROVE  FrameTypeOK'
  BY DEF FrameTypeOK, Frames

\* A create notes who its owner is.
LEMMA SetOwner ==
  ASSUME FrameTypeOK, NEW t \in Threads, NEW o \in Identities,
         frame' = [frame EXCEPT ![t].owner = o]
  PROVE  FrameTypeOK'
  BY DEF FrameTypeOK, Frames

\* A create of a guest turns from the bridge to the switch.
LEMMA SetWant ==
  ASSUME FrameTypeOK, NEW t \in Threads, frame' = [frame EXCEPT ![t].want = "switch"]
  PROVE  FrameTypeOK'
  BY DEF FrameTypeOK, Frames

\* gc calls destroy.
LEMMA SetCall ==
  ASSUME FrameTypeOK, NEW t \in Threads, NEW n \in Names, NEW x \in BOOLEAN,
         NEW b \in {"g_loop", "g_orphans"},
         frame' = [frame EXCEPT ![t] = [@ EXCEPT !.name = n, !.back = b, !.force = x]]
  PROVE  FrameTypeOK'
<1>1. ASSUME NEW f \in Frames PROVE [f EXCEPT !.name = n, !.back = b, !.force = x] \in Frames
  BY DEF Frames
<1> QED
  BY <1>1 DEF FrameTypeOK

\* create calls destroy.
LEMMA CallDestroyType ==
  ASSUME FrameTypeOK, NEW t \in Threads, NEW x \in BOOLEAN, CallDestroy(t, x)
  PROVE  FrameTypeOK'
<1>1. ASSUME NEW f \in Frames PROVE [f EXCEPT !.back = "create", !.force = x] \in Frames
  BY DEF Frames
<1> QED
  BY <1>1 DEF FrameTypeOK, CallDestroy

\* A thread forgets the request it has answered.
LEMMA ResetType ==
  ASSUME FrameTypeOK, NEW t \in Threads, frame' = [frame EXCEPT ![t] = NoFrame]
  PROVE  FrameTypeOK'
  BY Defaults DEF FrameTypeOK

\* destroy returns to gc or ends the request.
LEMMA DestroyReturnType ==
  ASSUME FrameTypeOK, NEW t \in Threads, NEW x \in BOOLEAN, DestroyReturn(t, x)
  PROVE  FrameTypeOK'
<1>1. [NoFrame EXCEPT !.uid = frame[t].uid] \in Frames
  BY DEF FrameTypeOK, Frames, NoFrame
<1> QED
  BY <1>1, Defaults DEF FrameTypeOK, DestroyReturn

\* The locals of every request keep their types.
LEMMA FrameStep == IInv /\ [Next]_vars => FrameTypeOK'
<1> SUFFICES ASSUME IInv, [Next]_vars PROVE FrameTypeOK'
  OBVIOUS
<1> USE DEF TypeOK, threads
<1>0. TypeOK /\ \A t \in Threads : ThreadInv(t)
  BY DEF IInv
<1>1. ASSUME NEW t \in Workers, NewRequest(t) PROVE FrameTypeOK'
  BY <1>1, <1>0, RequestForm DEF Request, FrameTypeOK
<1>2. ASSUME NEW t \in Threads, CreateEnter(t) \/ DestroyEnter(t) PROVE FrameTypeOK'
  BY <1>2, <1>0 DEF CreateEnter, DestroyEnter, EnterNamed, FrameTypeOK
<1>3. ASSUME NEW t \in Threads, CreateDenied(t) \/ WriteFails(t) PROVE FrameTypeOK'
  BY <1>3, <1>0, ResetType DEF CreateDenied, WriteFails, Refuse, Reply
<1>4. ASSUME NEW t \in Threads, AllocateFails(t) PROVE FrameTypeOK'
  BY <1>4, <1>0, ResetType DEF AllocateFails, Refuse, Reply
<1>5. ASSUME NEW t \in Threads, CreateReconcile(t) \/ CreateBegin(t) PROVE FrameTypeOK'
  <2>1. CASE CreateReconcile(t)
    BY <1>0, <2>1, CallDestroyType DEF CreateReconcile
  <2>2. CASE CreateBegin(t)
    <3>1. PICK o \in Identities : o = Identity(frame[t].pid)
      BY <1>0, <2>2 DEF CreateBegin, Usable, Identity, Identities, ClientTypeOK
    <3> QED
      BY <1>0, <2>2, <3>1, SetOwner DEF CreateBegin
  <2> QED
    BY <1>5, <2>1, <2>2
<1>6. ASSUME NEW t \in Threads, EnsureCheck(t) \/ EnsureLock(t) PROVE FrameTypeOK'
  BY <1>6, <1>0, SetWant DEF EnsureCheck, EnsureLock, Ensured, FrameTypeOK
<1>7. ASSUME NEW t \in Threads, EnsureConfigure(t) \/ EnsureFails(t) PROVE FrameTypeOK'
  BY <1>7, <1>0, SetWant, ResetType DEF EnsureConfigure, EnsureFails, Ensured, Reply,
     FrameTypeOK
<1>8. ASSUME NEW t \in Threads, CreateAllocate(t) PROVE FrameTypeOK'
  <2>1. PICK a \in Addresses : frame' = [frame EXCEPT ![t].rec =
                      [kind |-> frame[t].kind, owner |-> frame[t].owner, ip |-> a,
                       ep |-> NoUnit, md |-> NoUnit, data |-> frame[t].kind = "jail"]]
    BY <1>8 DEF CreateAllocate
  <2>2. frame[t].owner \in Identities /\ frame[t].kind \in {"jail", "bhyve"}
    BY <1>0, <1>8 DEF CreateAllocate, ThreadInv, Preparing, FrameTypeOK, Frames
  <2>3. [kind |-> frame[t].kind, owner |-> frame[t].owner, ip |-> a,
         ep |-> NoUnit, md |-> NoUnit, data |-> frame[t].kind = "jail"] \in Records
    BY <2>2 DEF Records
  <2> QED
    BY <1>0, <2>1, <2>3, SetRec
<1>9. ASSUME NEW t \in Threads, CreateWrite(t) PROVE FrameTypeOK'
  BY <1>9, <1>0 DEF CreateWrite, FrameTypeOK
<1>10. ASSUME NEW t \in Threads, Construction(t) PROVE FrameTypeOK'
  BY <1>10, <1>0, ConstructionThread, SetRec, CallDestroyType DEF BuildsOn
<1>11. ASSUME NEW t \in Threads, CreateCommit(t) PROVE FrameTypeOK'
  BY <1>11, <1>0, ResetType DEF CreateCommit, Reply, FrameTypeOK
<1>12. ASSUME NEW t \in Threads, CreateStart(t) \/ FinishFails(t) \/ CopySource(t) PROVE FrameTypeOK'
  BY <1>12, <1>0, ResetType, CallDestroyType DEF CreateStart, FinishFails, CopySource, Reply, FrameTypeOK
<1>13. ASSUME NEW t \in Threads, DestroyLoad(t) PROVE FrameTypeOK'
  <2>1. CASE DestroyReturn(t, TRUE)
    BY <1>0, <2>1, DestroyReturnType
  <2>2. CASE ~DestroyReturn(t, TRUE)
    <3>1. registry[frame[t].name] \in Records \cup {NoRecord}
      BY <1>0, <1>13 DEF DestroyLoad, ThreadInv, Held, DiskTypeOK
    <3> QED
      BY <1>0, <1>13, <2>2, <3>1, SetRec DEF DestroyLoad
  <2> QED
    BY <2>1, <2>2
<1>14. ASSUME NEW t \in Threads, Removal(t) PROVE FrameTypeOK'
  BY <1>14, <1>0, RemovalEffect, DestroyReturnType DEF FrameTypeOK
<1>15. ASSUME NEW t \in Threads, DestroyCheck(t) PROVE FrameTypeOK'
  BY <1>15, <1>0, DestroyReturnType DEF DestroyCheck, FrameTypeOK
<1>16. ASSUME NEW t \in Threads, DestroyRelease(t) PROVE FrameTypeOK'
  BY <1>16, <1>0, DestroyReturnType DEF DestroyRelease, FrameTypeOK
<1>17. ASSUME NEW t \in Threads, DestroyUnregister(t) PROVE FrameTypeOK'
  BY <1>17, <1>0, DestroyReturnType DEF DestroyUnregister
<1>18. ASSUME NEW t \in Threads, GcEnter(t) PROVE FrameTypeOK'
  BY <1>18, <1>0 DEF GcEnter, FrameTypeOK
<1>19. ASSUME NEW t \in Threads, GcRaises(t) PROVE FrameTypeOK'
  BY <1>19, <1>0, ResetType DEF GcRaises, GcReturn
<1>20. ASSUME NEW t \in Threads, GcClear(t) PROVE FrameTypeOK'
  BY <1>20, <1>0, ResetType DEF GcClear, GcReturn
<1>21. ASSUME NEW t \in Threads, GcScan(t) \/ GcKeep(t) PROVE FrameTypeOK'
  BY <1>21, <1>0 DEF GcScan, GcKeep, GcRead, FrameTypeOK
<1>22. ASSUME NEW t \in Threads, GcLoopEnd(t) \/ GcAfter(t) \/ GcDiscover(t) PROVE FrameTypeOK'
  BY <1>22, <1>0 DEF GcLoopEnd, GcAfter, GcDiscover, GcRead, FrameTypeOK
<1>23. ASSUME NEW t \in Threads, GcReclaim(t) PROVE FrameTypeOK'
  <2>1. PICK n \in gcv[t].todo : GcCall(t, n, "g_loop", frame[t].uid = 0)
    BY <1>23 DEF GcReclaim
  <2>2. n \in Names
    BY <1>0 DEF GcTypeOK, GcLocals
  <2> QED
    BY <1>0, <2>1, <2>2, SetCall DEF GcCall
<1>24. ASSUME NEW t \in Threads, GcOrphan(t) PROVE FrameTypeOK'
  <2>1. PICK n \in gcv[t].todo : GcCall(t, n, "g_orphans", TRUE)
    BY <1>24 DEF GcOrphan
  <2>2. n \in Names
    BY <1>0 DEF GcTypeOK, GcLocals
  <2> QED
    BY <1>0, <2>1, <2>2, SetCall DEF GcCall
<1>25. ASSUME NEW t \in Threads, GcOrphansEnd(t) \/ GcReferences(t) \/ GcBridge(t) PROVE FrameTypeOK'
  BY <1>25, <1>0 DEF GcOrphansEnd, GcReferences, GcBridge, GcRead, FrameTypeOK
<1>26. ASSUME NEW t \in Threads, GcEpair(t) PROVE FrameTypeOK'
  BY <1>26, <1>0 DEF GcEpair, FrameTypeOK
<1>27. ASSUME NEW t \in Threads, GcEpairsEnd(t) \/ GcActive(t) PROVE FrameTypeOK'
  BY <1>27, <1>0 DEF GcEpairsEnd, GcActive, GcRead, FrameTypeOK
<1>28. CASE Environment
  BY <1>28, <1>0, Defaults DEF Environment, Crash, Reboot, Restart, ClientExit, ClientStart,
     BootPc, FrameTypeOK
<1>29. CASE UNCHANGED vars
  BY <1>29, <1>0 DEF vars, FrameTypeOK
<1> QED
  BY <1>1, <1>2, <1>3, <1>4, <1>5, <1>6, <1>7, <1>8, <1>9, <1>10, <1>11, <1>12, <1>13, <1>14,
     <1>15, <1>16, <1>17, <1>18, <1>19, <1>20, <1>21, <1>22, <1>23, <1>24, <1>25, <1>26, <1>27,
     <1>28, <1>29 DEF Next, Step, CreateStep, DestroyStep, GcStep, Construction, Removal

\* Updates of the locals of a gc keep their types.
LEMMA SetSnap ==
  ASSUME GcTypeOK, NEW t \in Threads, NEW s \in SUBSET Names,
         NEW r \in [Names -> Records \cup {NoRecord}],
         gcv' = [gcv EXCEPT ![t] = [@ EXCEPT !.snap = r, !.todo = s]]
  PROVE  GcTypeOK'
  BY DEF GcTypeOK, GcLocals

\* gc lists the unregistered names it found.
LEMMA SetTodo ==
  ASSUME GcTypeOK, NEW t \in Threads, NEW s \in SUBSET Names, gcv' = [gcv EXCEPT ![t].todo = s]
  PROVE  GcTypeOK'
  BY DEF GcTypeOK, GcLocals

\* gc takes a name off its list.
LEMMA DropTodo ==
  ASSUME GcTypeOK, NEW t \in Threads, NEW n, gcv' = [gcv EXCEPT ![t].todo = @ \ {n}]
  PROVE  GcTypeOK'
  BY DEF GcTypeOK, GcLocals

\* gc keeps a name of its list.
LEMMA KeepTodo ==
  ASSUME GcTypeOK, NEW t \in Threads, NEW n \in gcv[t].todo,
         gcv' = [gcv EXCEPT ![t] = [@ EXCEPT !.todo = gcv[t].todo \ {n}, !.keep = gcv[t].keep \cup {n}]]
  PROVE  GcTypeOK'
<1>1. gcv[t] \in GcLocals
  BY DEF GcTypeOK
<1>2. gcv[t].todo \ {n} \in SUBSET Names /\ gcv[t].keep \cup {n} \in SUBSET Names
  BY <1>1 DEF GcLocals
<1>3. [gcv[t] EXCEPT !.todo = gcv[t].todo \ {n}, !.keep = gcv[t].keep \cup {n}] \in GcLocals
  BY <1>1, <1>2 DEF GcLocals
<1> QED
  BY <1>3 DEF GcTypeOK

\* gc keeps the names registered meanwhile.
LEMMA SetKeep ==
  ASSUME GcTypeOK, NEW t \in Threads, NEW s \in SUBSET Names,
         gcv' = [gcv EXCEPT ![t].keep = @ \cup s]
  PROVE  GcTypeOK'
  BY DEF GcTypeOK, GcLocals

\* gc collects epairs.
LEMMA SetEps ==
  ASSUME GcTypeOK, NEW t \in Threads, NEW e \in SUBSET Epairs, gcv' = [gcv EXCEPT ![t].eps = e]
  PROVE  GcTypeOK'
  BY DEF GcTypeOK, GcLocals

\* gc notes the names whose leases stay.
LEMMA SetActive ==
  ASSUME GcTypeOK, NEW t \in Threads, NEW s \in SUBSET Names, gcv' = [gcv EXCEPT ![t].active = s]
  PROVE  GcTypeOK'
  BY DEF GcTypeOK, GcLocals

\* gc ends.
LEMMA GcReturnType ==
  ASSUME GcTypeOK, NEW t \in Threads, GcReturn(t)
  PROVE  GcTypeOK'
  BY Defaults DEF GcTypeOK, GcReturn

\* gc keeps a name whose destroy failed.
LEMMA DestroyReturnGc ==
  ASSUME GcTypeOK, NEW t \in Threads, NEW x \in BOOLEAN, frame[t].name \in Names, DestroyReturn(t, x)
  PROVE  GcTypeOK'
<1>1. CASE frame[t].back \notin {"g_loop", "g_orphans"}
  BY <1>1 DEF DestroyReturn, GcTypeOK
<1>2. CASE frame[t].back \in {"g_loop", "g_orphans"}
  <2>1. gcv[t] \in GcLocals
    BY DEF GcTypeOK
  <2>2. PICK k \in SUBSET Names : gcv' = [gcv EXCEPT ![t].keep = k]
    BY <1>2, <2>1 DEF DestroyReturn, GcLocals
  <2> QED
    BY <2>1, <2>2 DEF GcTypeOK, GcLocals
<1> QED
  BY <1>1, <1>2

\* The locals of every gc keep their types.
LEMMA GcLocalStep == IInv /\ [Next]_vars => GcTypeOK'
<1> SUFFICES ASSUME IInv, [Next]_vars PROVE GcTypeOK'
  OBVIOUS
<1> USE DEF TypeOK, threads
<1>0. TypeOK /\ \A t \in Threads : ThreadInv(t)
  BY DEF IInv
<1>1. ASSUME NEW t \in Workers, NewRequest(t) PROVE GcTypeOK'
  BY <1>1, <1>0, RequestForm DEF Request, GcTypeOK
<1>2. ASSUME NEW t \in Threads, CreateEnter(t) \/ DestroyEnter(t) PROVE GcTypeOK'
  BY <1>2, <1>0 DEF CreateEnter, DestroyEnter, EnterNamed, GcTypeOK
<1>3. ASSUME NEW t \in Threads, CreateDenied(t) \/ WriteFails(t) PROVE GcTypeOK'
  BY <1>3, <1>0 DEF CreateDenied, WriteFails, Refuse, GcTypeOK
<1>4. ASSUME NEW t \in Threads, AllocateFails(t) PROVE GcTypeOK'
  BY <1>4, <1>0 DEF AllocateFails, Refuse, GcTypeOK
<1>5. ASSUME NEW t \in Threads, CreateReconcile(t) \/ CreateBegin(t) PROVE GcTypeOK'
  BY <1>5, <1>0 DEF CreateReconcile, CreateBegin, GcTypeOK
<1>6. ASSUME NEW t \in Threads, EnsureCheck(t) \/ EnsureLock(t) PROVE GcTypeOK'
  BY <1>6, <1>0 DEF EnsureCheck, EnsureLock, GcTypeOK
<1>7. ASSUME NEW t \in Threads, EnsureConfigure(t) \/ EnsureFails(t) PROVE GcTypeOK'
  BY <1>7, <1>0 DEF EnsureConfigure, EnsureFails, GcTypeOK
<1>8. ASSUME NEW t \in Threads, CreateAllocate(t) PROVE GcTypeOK'
  BY <1>8, <1>0 DEF CreateAllocate, GcTypeOK
<1>9. ASSUME NEW t \in Threads, CreateWrite(t) PROVE GcTypeOK'
  BY <1>9, <1>0 DEF CreateWrite, GcTypeOK
<1>10. ASSUME NEW t \in Threads, Construction(t) PROVE GcTypeOK'
  BY <1>10, <1>0, ConstructionMakes DEF GcTypeOK, DiskTypeOK
<1>11. ASSUME NEW t \in Threads, CreateCommit(t) PROVE GcTypeOK'
  BY <1>11, <1>0 DEF CreateCommit, GcTypeOK
<1>12. ASSUME NEW t \in Threads, CreateStart(t) \/ FinishFails(t) \/ CopySource(t) PROVE GcTypeOK'
  BY <1>12, <1>0 DEF CreateStart, FinishFails, CopySource, BuildFrame, GcTypeOK
<1>13. ASSUME NEW t \in Threads, DestroyLoad(t) PROVE GcTypeOK'
  <2>1. frame[t].name \in Names
    BY <1>0, <1>13 DEF DestroyLoad, ThreadInv, Held, Removed
  <2> QED
    BY <1>0, <1>13, <2>1, DestroyReturnGc DEF DestroyLoad, GcTypeOK
<1>14. ASSUME NEW t \in Threads, Removal(t) PROVE GcTypeOK'
  <2>1. frame[t].name \in Names
    BY <1>0, <1>14, RemovalEffect DEF ThreadInv, Held
  <2> QED
    BY <1>0, <1>14, <2>1, RemovalEffect, DestroyReturnGc DEF GcTypeOK
<1>15. ASSUME NEW t \in Threads, DestroyCheck(t) PROVE GcTypeOK'
  <2>1. frame[t].name \in Names
    BY <1>0, <1>15 DEF DestroyCheck, Removing, ThreadInv, Held, Removed
  <2> QED
    BY <1>0, <1>15, <2>1, DestroyReturnGc DEF DestroyCheck, GcTypeOK
<1>16. ASSUME NEW t \in Threads, DestroyRelease(t) PROVE GcTypeOK'
  <2>1. frame[t].name \in Names
    BY <1>0, <1>16 DEF DestroyRelease, ThreadInv, Held, Removed
  <2> QED
    BY <1>0, <1>16, <2>1, DestroyReturnGc DEF DestroyRelease, GcTypeOK
<1>17. ASSUME NEW t \in Threads, DestroyUnregister(t) PROVE GcTypeOK'
  <2>1. frame[t].name \in Names
    BY <1>0, <1>17 DEF DestroyUnregister, ThreadInv, Held, Removed
  <2> QED
    BY <1>0, <1>17, <2>1, DestroyReturnGc DEF DestroyUnregister
<1>18. ASSUME NEW t \in Threads, GcEnter(t) PROVE GcTypeOK'
  BY <1>18, <1>0 DEF GcEnter, GcTypeOK
<1>19. ASSUME NEW t \in Threads, GcRaises(t) PROVE GcTypeOK'
  BY <1>19, <1>0, GcReturnType DEF GcRaises
<1>20. ASSUME NEW t \in Threads, GcClear(t) PROVE GcTypeOK'
  BY <1>20, <1>0, GcReturnType DEF GcClear
<1>21. ASSUME NEW t \in Threads, GcScan(t) \/ GcKeep(t) PROVE GcTypeOK'
  <2>1. CASE GcScan(t)
    BY <1>0, <2>1, SetSnap DEF GcScan, Registered, DiskTypeOK
  <2>2. CASE GcKeep(t)
    BY <1>0, <2>2, KeepTodo DEF GcKeep
  <2> QED
    BY <1>21, <2>1, <2>2
<1>22. ASSUME NEW t \in Threads, GcLoopEnd(t) \/ GcAfter(t) \/ GcDiscover(t) PROVE GcTypeOK'
  <2>1. CASE GcLoopEnd(t)
    BY <1>0, <2>1 DEF GcLoopEnd, GcTypeOK
  <2>2. CASE GcAfter(t)
    BY <1>0, <2>2, SetKeep DEF GcAfter, Registered
  <2>3. CASE GcDiscover(t)
    <3>1. PICK seen \in SUBSET {"jail", "vm", "dataset"} :
            gcv' = [gcv EXCEPT ![t].todo =
                      {n \in Names : \E k \in seen : <<k, n>> \in Visible} \ gcv[t].keep]
      BY <2>3 DEF GcDiscover
    <3>2. {n \in Names : \E k \in seen : <<k, n>> \in Visible} \ gcv[t].keep \in SUBSET Names
      OBVIOUS
    <3> QED
      BY <1>0, <3>1, <3>2, SetTodo
  <2> QED
    BY <1>22, <2>1, <2>2, <2>3
<1>23. ASSUME NEW t \in Threads, GcReclaim(t) PROVE GcTypeOK'
  BY <1>23, <1>0, DropTodo DEF GcReclaim, GcCall
<1>24. ASSUME NEW t \in Threads, GcOrphan(t) PROVE GcTypeOK'
  BY <1>24, <1>0, DropTodo DEF GcOrphan, GcCall
<1>25. ASSUME NEW t \in Threads, GcOrphansEnd(t) \/ GcReferences(t) \/ GcBridge(t) PROVE GcTypeOK'
  <2>1. CASE GcOrphansEnd(t)
    BY <1>0, <2>1 DEF GcOrphansEnd, GcTypeOK
  <2>2. CASE GcReferences(t)
    <3>1. {registry[n].ep : n \in Registered} \ {NoUnit} \in SUBSET Epairs
      BY <1>0 DEF DiskTypeOK, Registered, Records
    <3> QED
      BY <1>0, <2>2, <3>1, SetEps DEF GcReferences
  <2>3. CASE GcBridge(t)
    <3>1. member \ gcv[t].eps \in SUBSET Epairs
      BY <1>0 DEF DiskTypeOK
    <3> QED
      BY <1>0, <2>3, <3>1, SetEps DEF GcBridge
  <2> QED
    BY <1>25, <2>1, <2>2, <2>3
<1>26. ASSUME NEW t \in Threads, GcEpair(t) PROVE GcTypeOK'
  <2>1. PICK e \in gcv[t].eps : gcv' = [gcv EXCEPT ![t].eps = gcv[t].eps \ {e}]
    BY <1>26 DEF GcEpair
  <2>2. gcv[t].eps \ {e} \in SUBSET Epairs
    BY <1>0 DEF GcTypeOK, GcLocals
  <2> QED
    BY <1>0, <2>1, <2>2, SetEps
<1>27. ASSUME NEW t \in Threads, GcEpairsEnd(t) \/ GcActive(t) PROVE GcTypeOK'
  <2>1. CASE GcEpairsEnd(t)
    BY <1>0, <2>1 DEF GcEpairsEnd, GcTypeOK
  <2>2. CASE GcActive(t)
    BY <1>0, <2>2, SetActive DEF GcActive, Registered
  <2> QED
    BY <1>27, <2>1, <2>2
<1>28. CASE Environment
  BY <1>28, <1>0, Defaults DEF Environment, Crash, Reboot, Restart, ClientExit, ClientStart,
     BootPc, GcTypeOK
<1>29. CASE UNCHANGED vars
  BY <1>29, <1>0 DEF vars, GcTypeOK
<1> QED
  BY <1>1, <1>2, <1>3, <1>4, <1>5, <1>6, <1>7, <1>8, <1>9, <1>10, <1>11, <1>12, <1>13, <1>14,
     <1>15, <1>16, <1>17, <1>18, <1>19, <1>20, <1>21, <1>22, <1>23, <1>24, <1>25, <1>26, <1>27,
     <1>28, <1>29 DEF Next, Step, CreateStep, DestroyStep, GcStep, Construction, Removal

\* The registry, the leases and the host keep their types.
LEMMA DiskStep == IInv /\ [Next]_vars => DiskTypeOK'
<1> SUFFICES ASSUME IInv, [Next]_vars PROVE DiskTypeOK'
  OBVIOUS
<1> USE DEF DiskTypeOK
<1>0. DiskTypeOK /\ \A t \in Threads : ThreadInv(t)
  BY DEF IInv, TypeOK
<1>1. ASSUME NEW t \in Workers, NewRequest(t) PROVE DiskTypeOK'
  BY <1>1, <1>0, RequestForm DEF Request, disk, PoolTypeOK
<1>2. ASSUME NEW t \in Threads, CreateEnter(t) \/ DestroyEnter(t) PROVE DiskTypeOK'
  BY <1>2, <1>0 DEF CreateEnter, DestroyEnter, EnterNamed, disk, PoolTypeOK
<1>3. ASSUME NEW t \in Threads, CreateDenied(t) \/ WriteFails(t) PROVE DiskTypeOK'
  BY <1>3, <1>0 DEF CreateDenied, WriteFails, Refuse, disk, PoolTypeOK
<1>4. ASSUME NEW t \in Threads, AllocateFails(t) PROVE DiskTypeOK'
  BY <1>4, <1>0 DEF AllocateFails, Refuse, AllocateTorn, PoolTypeOK, LeaseValues
<1>5. ASSUME NEW t \in Threads, CreateReconcile(t) \/ CreateBegin(t) PROVE DiskTypeOK'
  BY <1>5, <1>0 DEF CreateReconcile, CreateBegin, disk, PoolTypeOK
<1>6. ASSUME NEW t \in Threads, EnsureCheck(t) \/ EnsureLock(t) PROVE DiskTypeOK'
  BY <1>6, <1>0 DEF EnsureCheck, EnsureLock, disk, PoolTypeOK
<1>7. ASSUME NEW t \in Threads, EnsureConfigure(t) \/ EnsureFails(t) PROVE DiskTypeOK'
  BY <1>7, <1>0 DEF EnsureConfigure, EnsureFails, disk, PoolTypeOK
<1>8. ASSUME NEW t \in Threads, CreateAllocate(t) PROVE DiskTypeOK'
  <2>1. frame[t].name \in Names
    BY <1>0, <1>8 DEF CreateAllocate, ThreadInv, Held, Preparing
  <2> QED
    BY <1>0, <1>8, <2>1 DEF CreateAllocate, Allocate, PoolTypeOK, LeaseValues
<1>9. ASSUME NEW t \in Threads, CreateWrite(t) PROVE DiskTypeOK'
  <2>1. frame[t].rec \in Records
    BY <1>0, <1>9 DEF CreateWrite, ThreadInv
  <2> QED
    BY <1>0, <1>9, <2>1 DEF CreateWrite, PoolTypeOK
<1>10. ASSUME NEW t \in Threads, Construction(t) PROVE DiskTypeOK'
  BY <1>10, <1>0, ConstructionMakes, ConstructionHost DEF PoolTypeOK
<1>11. ASSUME NEW t \in Threads, CreateCommit(t) PROVE DiskTypeOK'
  <2>1. frame[t].rec \in Records
    BY <1>0, <1>11 DEF CreateCommit, ThreadInv, Building
  <2> QED
    BY <1>0, <1>11, <2>1 DEF CreateCommit, PoolTypeOK
<1>12. ASSUME NEW t \in Threads, CreateStart(t) \/ FinishFails(t) \/ CopySource(t) PROVE DiskTypeOK'
  BY <1>12, <1>0 DEF CreateStart, FinishFails, CopySource, BuildFrame, disk, PoolTypeOK
<1>13. ASSUME NEW t \in Threads, DestroyLoad(t) PROVE DiskTypeOK'
  BY <1>13, <1>0 DEF DestroyLoad, disk, PoolTypeOK
<1>14. ASSUME NEW t \in Threads, Removal(t) PROVE DiskTypeOK'
  BY <1>14, <1>0, RemovalEffect DEF PoolTypeOK
<1>15. ASSUME NEW t \in Threads, DestroyCheck(t) PROVE DiskTypeOK'
  BY <1>15, <1>0 DEF DestroyCheck, disk, PoolTypeOK
<1>16. ASSUME NEW t \in Threads, DestroyRelease(t) PROVE DiskTypeOK'
  BY <1>16, <1>0 DEF DestroyRelease, Release, PoolTypeOK, LeaseValues
<1>17. ASSUME NEW t \in Threads, DestroyUnregister(t) PROVE DiskTypeOK'
  BY <1>17, <1>0 DEF DestroyUnregister, PoolTypeOK
<1>18. ASSUME NEW t \in Threads, GcEnter(t) PROVE DiskTypeOK'
  BY <1>18, <1>0 DEF GcEnter, GcFrame, disk, PoolTypeOK
<1>19. ASSUME NEW t \in Threads, GcRaises(t) PROVE DiskTypeOK'
  BY <1>19, <1>0 DEF GcRaises, GcReturn, disk, PoolTypeOK
<1>20. ASSUME NEW t \in Threads, GcClear(t) PROVE DiskTypeOK'
  BY <1>20, <1>0 DEF GcClear, Sweep, GcReturn, ClearOrphans, PoolTypeOK, LeaseValues
<1>21. ASSUME NEW t \in Threads, GcScan(t) \/ GcKeep(t) PROVE DiskTypeOK'
  BY <1>21, <1>0 DEF GcScan, GcKeep, GcRead, GcFrame, disk, PoolTypeOK
<1>22. ASSUME NEW t \in Threads, GcLoopEnd(t) \/ GcAfter(t) \/ GcDiscover(t) PROVE DiskTypeOK'
  BY <1>22, <1>0 DEF GcLoopEnd, GcAfter, GcDiscover, GcRead, GcFrame, disk, PoolTypeOK
<1>23. ASSUME NEW t \in Threads, GcReclaim(t) PROVE DiskTypeOK'
  BY <1>23, <1>0 DEF GcReclaim, GcCall, GcFrame, disk, PoolTypeOK
<1>24. ASSUME NEW t \in Threads, GcOrphan(t) PROVE DiskTypeOK'
  BY <1>24, <1>0 DEF GcOrphan, GcCall, GcFrame, disk, PoolTypeOK
<1>25. ASSUME NEW t \in Threads, GcOrphansEnd(t) \/ GcReferences(t) \/ GcBridge(t) PROVE DiskTypeOK'
  BY <1>25, <1>0 DEF GcOrphansEnd, GcReferences, GcBridge, GcRead, GcFrame, disk, PoolTypeOK
<1>26. ASSUME NEW t \in Threads, GcEpair(t) PROVE DiskTypeOK'
  BY <1>26, <1>0 DEF GcEpair, GcFrame, disk, PoolTypeOK
<1>27. ASSUME NEW t \in Threads, GcEpairsEnd(t) \/ GcActive(t) PROVE DiskTypeOK'
  BY <1>27, <1>0 DEF GcEpairsEnd, GcActive, GcRead, GcFrame, disk, PoolTypeOK
<1>28. CASE Environment
  BY <1>28, <1>0 DEF Environment, Crash, Reboot, Restart, ClientExit, ClientStart, PoolTypeOK,
     disk
<1>29. CASE UNCHANGED vars
  BY <1>29, <1>0 DEF vars, PoolTypeOK
<1> QED
  BY <1>1, <1>2, <1>3, <1>4, <1>5, <1>6, <1>7, <1>8, <1>9, <1>10, <1>11, <1>12, <1>13, <1>14,
     <1>15, <1>16, <1>17, <1>18, <1>19, <1>20, <1>21, <1>22, <1>23, <1>24, <1>25, <1>26, <1>27,
     <1>28, <1>29 DEF Next, Step, CreateStep, DestroyStep, GcStep, Construction, Removal

-----------------------------------------------------------------------------
(* What a step of one thread leaves alone *)

\* A thread moves itself only; it gets to the commit by a command of its create,
\* leaves it by committing or failing, and enters destroy by a free lock.
LEMMA OthersStay ==
  ASSUME IInv, NEW t \in Threads, Step(t)
  PROVE  /\ \A u \in Threads \ {t} : pc'[u] = pc[u] /\ frame'[u] = frame[u]
         /\ pc'[t] = "c_commit" => Construction(t)
         /\ pc[t] = "c_commit" => CreateCommit(t) \/ FinishFails(t)
         /\ pc[t] = "d_lock" => nameLock[frame[t].name] = Nobody
<1> USE DEF PcTypeOK, FrameTypeOK
<1>0. PcTypeOK /\ FrameTypeOK
  BY DEF IInv, TypeOK
<1>1. CASE CreateEnter(t) \/ DestroyEnter(t)
  BY <1>1, <1>0 DEF CreateEnter, DestroyEnter, EnterNamed, Goto
<1>2. CASE CreateDenied(t) \/ WriteFails(t)
  BY <1>2, <1>0 DEF CreateDenied, WriteFails, Refuse, Reply, Goto
<1>3. CASE AllocateFails(t)
  BY <1>3, <1>0 DEF AllocateFails, Refuse, Reply, Goto
<1>4. CASE CreateReconcile(t) \/ CreateBegin(t)
  BY <1>4, <1>0 DEF CreateReconcile, CreateBegin, CallDestroy, Goto
<1>5. CASE EnsureCheck(t) \/ EnsureLock(t)
  BY <1>5, <1>0 DEF EnsureCheck, EnsureLock, Ensured, Goto
<1>6. CASE EnsureConfigure(t) \/ EnsureFails(t)
  BY <1>6, <1>0 DEF EnsureConfigure, EnsureFails, Ensured, Reply, Goto
<1>7. CASE CreateAllocate(t)
  BY <1>7, <1>0 DEF CreateAllocate, Goto
<1>8. CASE CreateWrite(t)
  BY <1>8, <1>0 DEF CreateWrite, FirstBuildStep, Goto
<1>9. CASE Construction(t)
  BY <1>9, <1>0, ConstructionThread DEF Building, BuildsOn, CallDestroy, Goto
<1>10. CASE CreateCommit(t)
  BY <1>10, <1>0 DEF CreateCommit, Reply, Goto
<1>11. CASE CreateStart(t) \/ FinishFails(t) \/ CopySource(t)
  BY <1>11, <1>0 DEF CreateStart, FinishFails, CopySource, BuildFrame, Reply, CallDestroy, Goto
<1>12. CASE DestroyLoad(t)
  BY <1>12, <1>0 DEF DestroyLoad, DestroyReturn, Goto
<1>13. CASE Removal(t)
  BY <1>13, <1>0, RemovalEffect DEF Removing, DestroyReturn, Goto
<1>14. CASE DestroyCheck(t)
  BY <1>14, <1>0 DEF DestroyCheck, DestroyReturn, Goto
<1>15. CASE DestroyRelease(t)
  BY <1>15, <1>0 DEF DestroyRelease, DestroyReturn, Goto
<1>16. CASE DestroyUnregister(t)
  BY <1>16, <1>0 DEF DestroyUnregister, DestroyReturn, Goto
<1>17. CASE GcEnter(t)
  BY <1>17, <1>0 DEF GcEnter, Goto
<1>18. CASE GcRaises(t)
  BY <1>18, <1>0 DEF GcRaises, GcReturn, Goto
<1>19. CASE GcClear(t)
  BY <1>19, <1>0 DEF GcClear, GcReturn, Goto
<1>20. CASE GcScan(t) \/ GcKeep(t)
  BY <1>20, <1>0 DEF GcScan, GcKeep, GcRead, Goto
<1>21. CASE GcLoopEnd(t) \/ GcAfter(t) \/ GcDiscover(t)
  BY <1>21, <1>0 DEF GcLoopEnd, GcAfter, GcDiscover, GcRead, Goto
<1>22. CASE GcReclaim(t)
  BY <1>22, <1>0 DEF GcReclaim, GcCall, Goto
<1>23. CASE GcOrphan(t)
  BY <1>23, <1>0 DEF GcOrphan, GcCall, Goto
<1>24. CASE GcOrphansEnd(t) \/ GcReferences(t) \/ GcBridge(t)
  BY <1>24, <1>0 DEF GcOrphansEnd, GcReferences, GcBridge, GcRead, Goto
<1>25. CASE GcEpair(t)
  BY <1>25, <1>0 DEF GcEpair
<1>26. CASE GcEpairsEnd(t) \/ GcActive(t)
  BY <1>26, <1>0 DEF GcEpairsEnd, GcActive, GcRead, Goto
<1> QED
  BY <1>1, <1>2, <1>3, <1>4, <1>5, <1>6, <1>7, <1>8, <1>9, <1>10, <1>11, <1>12, <1>13, <1>14,
     <1>15, <1>16, <1>17, <1>18, <1>19, <1>20, <1>21, <1>22, <1>23, <1>24, <1>25, <1>26 DEF
     Step, CreateStep, DestroyStep, GcStep, Construction, Removal

\* A thread takes a free lock of a name, or gives back its own.
LEMMA OthersLocks ==
  ASSUME IInv, NEW t \in Threads, Step(t)
  PROVE  \A n \in Names : nameLock'[n] = nameLock[n] \/ nameLock[n] \in {t, Nobody}
<1> USE DEF DaemonTypeOK
<1>0. DaemonTypeOK /\ DiskTypeOK /\ (pc[t] \in Held => nameLock[frame[t].name] = t)
  BY DEF IInv, TypeOK, ThreadInv
<1>1. CASE CreateEnter(t) \/ DestroyEnter(t)
  BY <1>1, <1>0 DEF CreateEnter, DestroyEnter, EnterNamed
<1>2. CASE CreateDenied(t) \/ WriteFails(t)
  BY <1>2, <1>0 DEF CreateDenied, WriteFails, Refuse, Reply, locks, Unlock, Held, Preparing,
     Building, Removing, Removed
<1>3. CASE AllocateFails(t)
  BY <1>3, <1>0 DEF AllocateFails, Refuse, Reply, locks, Unlock, Held, Preparing, Building,
     Removing, Removed
<1>4. CASE CreateReconcile(t) \/ CreateBegin(t)
  BY <1>4, <1>0 DEF CreateReconcile, CreateBegin, locks
<1>5. CASE EnsureCheck(t) \/ EnsureLock(t)
  BY <1>5, <1>0 DEF EnsureCheck, EnsureLock, locks
<1>6. CASE EnsureConfigure(t) \/ EnsureFails(t)
  BY <1>6, <1>0 DEF EnsureConfigure, EnsureFails, Reply, locks, Unlock, Held, Preparing,
     Building, Removing, Removed
<1>7. CASE CreateAllocate(t)
  BY <1>7, <1>0 DEF CreateAllocate, locks
<1>8. CASE CreateWrite(t)
  BY <1>8, <1>0 DEF CreateWrite, locks
<1>9. CASE Construction(t)
  BY <1>9, <1>0, ConstructionMakes DEF DiskTypeOK
<1>10. CASE CreateCommit(t)
  BY <1>10, <1>0 DEF CreateCommit, Reply, locks, Unlock, Held, Preparing, Building, Removing,
     Removed
<1>11. CASE CreateStart(t) \/ FinishFails(t) \/ CopySource(t)
  BY <1>11, <1>0 DEF CreateStart, FinishFails, CopySource, BuildFrame, Reply, locks, Unlock, Held, Preparing, Building,
     Removing, Removed
<1>12. CASE DestroyLoad(t)
  BY <1>12, <1>0 DEF DestroyLoad, DestroyReturn, locks, Unlock, Held, Preparing, Building,
     Removing, Removed
<1>13. CASE Removal(t)
  BY <1>13, <1>0, RemovalEffect DEF DestroyReturn, Unlock, Held
<1>14. CASE DestroyCheck(t)
  BY <1>14, <1>0 DEF DestroyCheck, DestroyReturn, locks, Unlock, Held, Preparing, Building,
     Removing, Removed
<1>15. CASE DestroyRelease(t)
  BY <1>15, <1>0 DEF DestroyRelease, DestroyReturn, locks, Unlock, Held, Preparing, Building,
     Removing, Removed
<1>16. CASE DestroyUnregister(t)
  BY <1>16, <1>0 DEF DestroyUnregister, DestroyReturn, locks, Unlock, Held, Preparing,
     Building, Removing, Removed
<1>17. CASE GcEnter(t)
  BY <1>17, <1>0 DEF GcEnter, GcFrame, locks
<1>18. CASE GcRaises(t)
  BY <1>18, <1>0 DEF GcRaises, GcReturn, locks
<1>19. CASE GcClear(t)
  BY <1>19, <1>0 DEF GcClear, GcReturn, locks
<1>20. CASE GcScan(t) \/ GcKeep(t)
  BY <1>20, <1>0 DEF GcScan, GcKeep, GcRead, GcFrame, locks
<1>21. CASE GcLoopEnd(t) \/ GcAfter(t) \/ GcDiscover(t)
  BY <1>21, <1>0 DEF GcLoopEnd, GcAfter, GcDiscover, GcRead, GcFrame, locks
<1>22. CASE GcReclaim(t)
  BY <1>22, <1>0 DEF GcReclaim, GcCall, GcFrame, locks
<1>23. CASE GcOrphan(t)
  BY <1>23, <1>0 DEF GcOrphan, GcCall, GcFrame, locks
<1>24. CASE GcOrphansEnd(t) \/ GcReferences(t) \/ GcBridge(t)
  BY <1>24, <1>0 DEF GcOrphansEnd, GcReferences, GcBridge, GcRead, GcFrame, locks
<1>25. CASE GcEpair(t)
  BY <1>25, <1>0 DEF GcEpair, GcFrame, locks
<1>26. CASE GcEpairsEnd(t) \/ GcActive(t)
  BY <1>26, <1>0 DEF GcEpairsEnd, GcActive, GcRead, GcFrame, locks
<1> QED
  BY <1>1, <1>2, <1>3, <1>4, <1>5, <1>6, <1>7, <1>8, <1>9, <1>10, <1>11, <1>12, <1>13, <1>14,
     <1>15, <1>16, <1>17, <1>18, <1>19, <1>20, <1>21, <1>22, <1>23, <1>24, <1>25, <1>26 DEF
     Step, CreateStep, DestroyStep, GcStep, Construction, Removal

\* All that a step does to the registry and to what carries a name.
Untouched == registry' = registry /\ host' \subseteq host

\* The steps that write a record or make something, by the label they leave.
Writes(t) ==
  \/ Construction(t) /\ pc[t] \in Building
  \/ CreateWrite(t) \/ CreateCommit(t) \/ DestroyUnregister(t)

\* The steps that take something away.
Takes(t) == Removal(t) \/ CopySource(t) \/ GcEpair(t)

\* Every other step leaves the registry alone and makes nothing; only the last
\* probes give a name up.
LEMMA FewWrite ==
  ASSUME IInv, NEW t \in Threads, Step(t)
  PROVE  /\ backend' = backend /\ (Untouched \/ Writes(t))
         /\ host' = host \/ Construction(t) \/ Takes(t)
         /\ missed' = missed \/ DestroyCheck(t)
<1> USE DEF Takes, context
<1>0. DiskTypeOK
  BY DEF IInv, TypeOK
<1>1. CASE CreateEnter(t) \/ DestroyEnter(t)
  BY <1>1, <1>0 DEF CreateEnter, DestroyEnter, EnterNamed, disk, daemon, Untouched
<1>2. CASE CreateDenied(t) \/ WriteFails(t)
  BY <1>2, <1>0 DEF CreateDenied, WriteFails, Refuse, disk, daemon, Untouched
<1>3. CASE AllocateFails(t)
  BY <1>3, <1>0 DEF AllocateFails, Refuse, disk, daemon, Untouched
<1>4. CASE CreateReconcile(t) \/ CreateBegin(t)
  BY <1>4, <1>0 DEF CreateReconcile, CreateBegin, disk, daemon, Untouched
<1>5. CASE EnsureCheck(t) \/ EnsureLock(t)
  BY <1>5, <1>0 DEF EnsureCheck, EnsureLock, disk, daemon, Untouched
<1>6. CASE EnsureConfigure(t) \/ EnsureFails(t)
  BY <1>6, <1>0 DEF EnsureConfigure, EnsureFails, disk, daemon, Untouched
<1>7. CASE CreateAllocate(t)
  BY <1>7, <1>0 DEF CreateAllocate, disk, daemon, Untouched
<1>8. CASE CreateWrite(t)
  BY <1>8, <1>0 DEF CreateWrite, Writes, daemon
<1>9. CASE Construction(t)
  BY <1>9, <1>0, ConstructionMakes, ConstructionThread DEF DiskTypeOK, Writes
<1>10. CASE CreateCommit(t)
  BY <1>10, <1>0 DEF CreateCommit, Writes, Building, daemon
<1>11. CASE CreateStart(t) \/ FinishFails(t) \/ CopySource(t)
  BY <1>11, <1>0 DEF CreateStart, FinishFails, CopySource, BuildFrame, disk, daemon, Untouched
<1>12. CASE DestroyLoad(t)
  BY <1>12, <1>0 DEF DestroyLoad, disk, daemon, Untouched
<1>13. CASE Removal(t)
  BY <1>13, <1>0, RemovalEffect DEF Untouched
<1>14. CASE DestroyCheck(t)
  BY <1>14, <1>0 DEF DestroyCheck, disk, daemon, Untouched
<1>15. CASE DestroyRelease(t)
  BY <1>15, <1>0 DEF DestroyRelease, disk, daemon, Untouched
<1>16. CASE DestroyUnregister(t)
  BY <1>16, <1>0 DEF DestroyUnregister, Writes, Removed, daemon
<1>17. CASE GcEnter(t)
  BY <1>17, <1>0 DEF GcEnter, GcFrame, disk, daemon, Untouched
<1>18. CASE GcRaises(t)
  BY <1>18, <1>0 DEF GcRaises, GcReturn, disk, daemon, Untouched
<1>19. CASE GcClear(t)
  BY <1>19, <1>0 DEF GcClear, GcReturn, disk, daemon, Untouched
<1>20. CASE GcScan(t) \/ GcKeep(t)
  BY <1>20, <1>0 DEF GcScan, GcKeep, GcRead, GcFrame, disk, daemon, Untouched
<1>21. CASE GcLoopEnd(t) \/ GcAfter(t) \/ GcDiscover(t)
  BY <1>21, <1>0 DEF GcLoopEnd, GcAfter, GcDiscover, GcRead, GcFrame, disk, daemon, Untouched
<1>22. CASE GcReclaim(t)
  BY <1>22, <1>0 DEF GcReclaim, GcCall, GcFrame, disk, daemon, Untouched
<1>23. CASE GcOrphan(t)
  BY <1>23, <1>0 DEF GcOrphan, GcCall, GcFrame, disk, daemon, Untouched
<1>24. CASE GcOrphansEnd(t) \/ GcReferences(t) \/ GcBridge(t)
  BY <1>24, <1>0 DEF GcOrphansEnd, GcReferences, GcBridge, GcRead, GcFrame, disk, daemon,
     Untouched
<1>25. CASE GcEpair(t)
  BY <1>25, <1>0 DEF GcEpair, GcFrame, disk, daemon, Untouched
<1>26. CASE GcEpairsEnd(t) \/ GcActive(t)
  BY <1>26, <1>0 DEF GcEpairsEnd, GcActive, GcRead, GcFrame, disk, daemon, Untouched
<1> QED
  BY <1>1, <1>2, <1>3, <1>4, <1>5, <1>6, <1>7, <1>8, <1>9, <1>10, <1>11, <1>12, <1>13, <1>14,
     <1>15, <1>16, <1>17, <1>18, <1>19, <1>20, <1>21, <1>22, <1>23, <1>24, <1>25, <1>26 DEF
     Step, CreateStep, DestroyStep, GcStep, Construction, Removal

\* A step writes the record, and makes parts, of the name whose lock it holds.
LEMMA OthersNames ==
  ASSUME IInv, NEW t \in Threads, Step(t), NEW n \in Names,
         pc[t] \notin Held \/ n # frame[t].name
  PROVE  registry'[n] = registry[n] /\ Named(n) \cap host' \subseteq host
<1>0. registry \in [Names -> Records \cup {NoRecord}] /\ host \subseteq Resources
  BY DEF IInv, TypeOK, DiskTypeOK
<1>1. CASE Untouched
  BY <1>1 DEF Untouched
<1>2. CASE Construction(t) /\ pc[t] \in Building
  <2>1. n # frame[t].name
    BY <1>2 DEF Held
  <2> QED
    BY <1>0, <1>2, <2>1, ConstructionHost, ConstructionMakes
<1>3. CASE CreateWrite(t) \/ CreateCommit(t) \/ DestroyUnregister(t)
  <2>1. pc[t] \in Held
    BY <1>3 DEF CreateWrite, CreateCommit, DestroyUnregister, Held, Building, Removed
  <2> QED
    BY <1>0, <1>3, <2>1 DEF CreateWrite, CreateCommit, DestroyUnregister
<1> QED
  BY <1>1, <1>2, <1>3, FewWrite DEF Writes

\* What another thread knows stays true.
LEMMA OthersKnow ==
  ASSUME IInv, NEW t \in Threads, Step(t), NEW u \in Threads \ {t}
  PROVE  ThreadInv(u)'
<1> DEFINE n == frame[u].name
<1>1. pc'[u] = pc[u] /\ frame'[u] = frame[u] /\ backend' = backend
  BY OthersStay, FewWrite
<1>2. ThreadInv(u) /\ ThreadInv(t)
  BY DEF IInv
<1>3. CASE pc[u] \notin Held
  BY <1>1, <1>2, <1>3 DEF ThreadInv, Held
<1>4. CASE pc[u] \in Held
  <2>1. n \in Names /\ nameLock[n] = u
    BY <1>2, <1>4 DEF ThreadInv
  <2>2. pc[t] \notin Held \/ n # frame[t].name
    BY <1>2, <2>1 DEF ThreadInv
  <2>3. registry'[n] = registry[n] /\ Named(n) \cap host' \subseteq host
    BY <2>1, <2>2, OthersNames
  <2>4. nameLock'[n] = u
    BY <2>1, OthersLocks, DaemonAssumption
  <2>5. n \in missed \/ Gone(n) => n \in missed' \/ Gone(n)'
    BY <1>1, <2>1, <2>3, Growth DEF Gone, Named, Probed
  <2> QED
    BY <1>1, <1>2, <2>1, <2>3, <2>4, <2>5 DEF ThreadInv, VmAvailable
<1> QED
  BY <1>3, <1>4

\* What carries a name stays registered, and guests stay registered as guests.
LEMMA HostStep ==
  ASSUME IInv, NEW t \in Threads, Step(t)
  PROVE  RegisteredWhileExisting' /\ GuestsRegistered'
<1> DEFINE n == frame[t].name
<1>0. /\ RegisteredWhileExisting /\ GuestsRegistered /\ DataWithGuest /\ DataRecorded /\ ThreadInv(t)
      /\ registry \in [Names -> Records \cup {NoRecord}] /\ host \subseteq Resources
      /\ faults \in Nat /\ crashes \in Nat
  BY DEF IInv, TypeOK, DiskTypeOK, ClientTypeOK
<1>a. missed \subseteq missed' /\ faults' \in Nat /\ crashes' \in Nat
      /\ (faults' = 0 => faults = 0) /\ (crashes' = 0 => crashes = 0)
  BY Growth, ClientStep DEF Next, ClientTypeOK
<1>1. CASE Untouched
  BY <1>0, <1>a, <1>1 DEF Untouched, RegisteredWhileExisting, GuestsRegistered, Named, Probed
<1>2. CASE Construction(t) /\ pc[t] \in Building
  <2>1. registry' = registry /\ n \in Names /\ registry[n] # NoRecord
    BY <1>0, <1>2, ConstructionMakes DEF ThreadInv, Held
  <2>2. pc[t] = "c_vm" => registry[n].kind = "bhyve"
    BY <1>0, <1>2 DEF ThreadInv, Guest
  <2>3. /\ \A m \in Names : m # n => Named(m) \cap host' = Named(m) \cap host
        /\ \A m \in Names : <<"vm", m>> \in host' \ host => m = n /\ pc[t] = "c_vm"
    BY <1>2, ConstructionHost
  <2>4. RegisteredWhileExisting'
    BY <1>0, <1>a, <2>1, <2>3 DEF RegisteredWhileExisting, Named
  <2>5. GuestsRegistered'
    BY <1>0, <1>a, <2>1, <2>2, <2>3 DEF GuestsRegistered
  <2> QED
    BY <2>4, <2>5
<1>3. CASE CreateWrite(t) \/ CreateCommit(t)
  <2>1. n \in Names /\ registry' = [registry EXCEPT ![n] = frame[t].rec] /\ host' = host
        /\ frame[t].rec \in Records /\ (registry[n] = NoRecord \/ registry[n].kind = frame[t].rec.kind)
    BY <1>0, <1>3 DEF ThreadInv, Held, Building, CreateWrite, CreateCommit
  <2>2. frame[t].rec # NoRecord
    BY <2>1, RecordAssumption
  <2> QED
    BY <1>0, <1>a, <2>1, <2>2 DEF RegisteredWhileExisting, GuestsRegistered, Named
<1>4. CASE DestroyUnregister(t)
  <2>1. n \in Names /\ registry' = [registry EXCEPT ![n] = NoRecord] /\ host' = host
        /\ missed' = missed /\ crashes' = crashes /\ faults' = faults
        /\ (n \in missed \/ Gone(n))
    BY <1>0, <1>4 DEF ThreadInv, Held, Removed, DestroyUnregister, context
  <2>2. ASSUME n \notin missed, NEW x \in Named(n) \cap host
        PROVE x = <<"vmdata", n>> /\ crashes > 0 /\ faults > 0
    BY <1>0, <2>1, <2>2 DEF Gone, Named
  <2>3. ASSUME n \notin missed PROVE <<"vm", n>> \notin host
    BY <2>1, <2>3 DEF Gone, Probed
  <2>4. RegisteredWhileExisting'
    BY <1>0, <2>1, <2>2 DEF RegisteredWhileExisting, Named
  <2>5. GuestsRegistered'
    BY <1>0, <2>1, <2>3 DEF GuestsRegistered
  <2> QED
    BY <2>4, <2>5
<1> QED
  BY <1>1, <1>2, <1>3, <1>4, FewWrite DEF Writes

\* As long as nothing fails a guest and its dataset come and go together.
LEMMA PairStep ==
  ASSUME IInv, NEW t \in Threads, Step(t)
  PROVE  DataWithGuest'
<1> SUFFICES ASSUME faults' = 0
             PROVE  missed' = {} /\ \A n \in Names : <<"vmdata", n>> \in host' => <<"vm", n>> \in host'
  BY DEF DataWithGuest
<1>0. faults = 0 /\ missed = {} /\ \A n \in Names : <<"vmdata", n>> \in host => <<"vm", n>> \in host
  BY Growth DEF IInv, DataWithGuest
<1>1. ~Fault
  BY <1>0 DEF Fault
<1>2. missed' = {}
  <2>1. CASE DestroyCheck(t)
    <3>1. PcTypeOK /\ FrameTypeOK
      BY DEF IInv, TypeOK
    <3>2. pc'[t] = "d_release" => Known(frame[t].rec, frame[t].name) \cap Visible = {}
      BY <1>1, <2>1, <3>1 DEF DestroyCheck, DestroyReturn, Goto, PcTypeOK, FrameTypeOK, Frames
    <3> QED
      BY <1>0, <2>1, <3>2 DEF DestroyCheck
  <2> QED
    BY <1>0, <2>1, FewWrite
<1>3. ASSUME NEW n \in Names, <<"vmdata", n>> \in host' PROVE <<"vm", n>> \in host'
  <2>1. CASE host' = host
    BY <1>0, <1>3, <2>1
  <2>2. CASE Construction(t)
    <3>1. CASE CreateVm(t)
      <4>1. PICK z \in BOOLEAN :
              Build(t, "c_vm", {<<"vm", frame[t].name>>, <<"vmdata", frame[t].name>>} \cap host = {},
                    {<<"vm", frame[t].name>>} \cup (IF z THEN {<<"vmdata", frame[t].name>>} ELSE {}),
                    [frame[t].rec EXCEPT !.data = z], "c_commit")
        BY <3>1 DEF CreateVm
      <4>2. \/ host' = host
            \/ host' = host \cup {<<"vm", frame[t].name>>} \cup (IF z THEN {<<"vmdata", frame[t].name>>} ELSE {})
        BY <1>1, <4>1 DEF Build, BuildOk, BuildFails
      <4> QED
        BY <1>0, <1>3, <4>2
    <3>2. CASE ~CreateVm(t)
      <4>1. pc[t] # "c_vm"
        BY <2>2, <3>2 DEF Construction, CloneDataset, CreateEpair, AddMember, StartJail, CreateMemdisk, CloneSource, Build
      <4>2. PICK new \in SUBSET Makes(t) : host' = host \cup new
        BY <2>2, ConstructionMakes DEF IInv, TypeOK, DiskTypeOK
      <4>3. <<"vmdata", n>> \notin new
        BY <4>1, <4>2 DEF Makes
      <4> QED
        BY <1>0, <1>3, <4>2, <4>3
    <3> QED
      BY <3>1, <3>2
  <2>3. CASE Takes(t)
    <3> USE DEF Remove
    <3>1. CASE DestroyVm(t)
      <4> DEFINE gone == {<<"vm", frame[t].name>>, <<"vmdata", frame[t].name>>}
      <4>1. host' = host \/ host' = host \ (gone \cap host)
        BY <1>1, <3>1 DEF DestroyVm
      <4> QED
        BY <1>0, <1>3, <4>1
    <3>2. CASE DestroyMd(t)
      BY <1>0, <1>1, <1>3, <3>2 DEF DestroyMd, RecordedMd
    <3>3. CASE DestroyRecorded(t)
      BY <1>0, <1>1, <1>3, <3>3 DEF DestroyRecorded, RecordedData
    <3>4. CASE DestroyJail(t)
      BY <1>0, <1>1, <1>3, <3>4 DEF DestroyJail
    <3>5. CASE DestroyEpair(t)
      BY <1>0, <1>1, <1>3, <3>5 DEF DestroyEpair, RecordedEpair
    <3>6. CASE DestroyDataset(t)
      BY <1>0, <1>1, <1>3, <3>6 DEF DestroyDataset
    <3>7. CASE CopySource(t)
      BY <1>0, <1>3, <3>7 DEF CopySource
    <3>8. CASE GcEpair(t)
      BY <1>0, <1>3, <3>8 DEF GcEpair
    <3> QED
      BY <2>3, <3>1, <3>2, <3>3, <3>4, <3>5, <3>6, <3>7, <3>8 DEF Takes, Removal
  <2> QED
    BY <2>1, <2>2, <2>3, FewWrite
<1> QED
  BY <1>2, <1>3

\* Frame updates of create that keep the request's name.
LEMMA SameName ==
  ASSUME FrameTypeOK, NEW t \in Threads
  PROVE  /\ \A v : frame' = [frame EXCEPT ![t].want = v] =>
                     frame'[t].name = frame[t].name /\ frame'[t].owner = frame[t].owner
         /\ \A v : frame' = [frame EXCEPT ![t].owner = v] =>
                     frame'[t].name = frame[t].name /\ frame'[t].owner = v
         /\ \A v : frame' = [frame EXCEPT ![t].rec = v] =>
                     frame'[t].name = frame[t].name /\ frame'[t].kind = frame[t].kind
                     /\ frame'[t].rec = v
  BY DEF FrameTypeOK, Frames

\* Without a crash, a guest's dataset stays known: the create that made it
\* records it, or holds the lock of the name for ever in the destroy it calls.
LEMMA DataStep ==
  ASSUME IInv, NEW t \in Threads, Step(t)
  PROVE  DataRecorded'
<1> SUFFICES ASSUME crashes' = 0, NEW n \in Names \ missed', <<"vmdata", n>> \in host'
             PROVE  DataKnown(n)'
  BY DEF DataRecorded
<1>0. /\ n \in Names /\ n \notin missed /\ crashes = 0
      /\ registry \in [Names -> Records \cup {NoRecord}] /\ host \subseteq Resources
      /\ nameLock \in [Names -> Threads \cup {Nobody}]
      /\ \A u \in Threads : ThreadInv(u)
      /\ PcTypeOK /\ FrameTypeOK
  BY Growth DEF IInv, TypeOK, DiskTypeOK, DaemonTypeOK
<1>1. <<"vmdata", n>> \in host => DataKnown(n)
  BY <1>0 DEF IInv, DataRecorded
<1>2. /\ \A u \in Threads \ {t} : pc'[u] = pc[u] /\ frame'[u] = frame[u]
      /\ \A u \in Threads \ {t} : nameLock[n] = u => nameLock'[n] = u
  BY OthersStay, OthersLocks, DaemonAssumption
<1>3. CASE pc[t] \notin Held \/ frame[t].name # n
  <2>1. registry'[n] = registry[n] /\ <<"vmdata", n>> \in host
    BY <1>0, <1>3, OthersNames DEF Named
  <2>2. DataKnown(n)
    BY <1>1, <2>1
  <2>3. ~(pc'[t] = "c_commit" /\ frame'[t].name = n)
    <3> SUFFICES ASSUME pc'[t] = "c_commit", frame'[t].name = n PROVE FALSE
      OBVIOUS
    <3>1. Construction(t)
      BY OthersStay
    <3>2. pc[t] \in Held
      BY <3>1, ConstructionThread DEF Held
    <3>3. ~CallDestroy(t, TRUE)
      BY <1>0 DEF CallDestroy, Goto, PcTypeOK
    <3>4. frame'[t].name = frame[t].name
      BY <1>0, <3>1, <3>3, ConstructionThread, SameName DEF BuildsOn
    <3> QED
      BY <1>3, <3>2, <3>4
  <2>4. \A u \in Threads : pc'[u] = "c_commit" /\ frame'[u].name = n => frame'[u].rec.data
    BY <1>2, <2>2, <2>3 DEF DataKnown
  <2>5. CASE registry[n].data
    BY <2>1, <2>2, <2>4, <2>5 DEF DataKnown
  <2>6. CASE ~registry[n].data
    <3>1. PICK u \in Threads : /\ nameLock[n] = u /\ frame[u].name = n
                               /\ pc[u] = "c_commit" \/ OwnDestroy(u)
      BY <2>2, <2>6 DEF DataKnown
    <3>2. u # t
      <4> SUFFICES ASSUME u = t PROVE FALSE
        OBVIOUS
      <4>1. pc[t] # "c_commit"
        BY <1>3, <3>1 DEF Held, Building
      <4>2. pc[t] = "d_lock" /\ nameLock[frame[t].name] = t
        BY <3>1, <4>1 DEF OwnDestroy, WaitsFor
      <4> QED
        BY <4>2, OthersStay, DaemonAssumption
    <3>3. nameLock'[n] = u /\ pc'[u] = pc[u] /\ frame'[u] = frame[u]
      BY <1>2, <3>1, <3>2
    <3>4. OwnDestroy(u) => OwnDestroy(u)'
      BY <3>1, <3>3 DEF OwnDestroy, WaitsFor
    <3> QED
      <4>1. \E w \in Threads : /\ nameLock'[n] = w /\ frame'[w].name = n
                               /\ pc'[w] = "c_commit" \/ OwnDestroy(w)'
        BY <3>1, <3>3, <3>4
      <4> QED
        BY <2>1, <2>2, <2>4, <4>1 DEF DataKnown
  <2> QED
    BY <2>5, <2>6
<1>4. CASE pc[t] \in Held /\ frame[t].name = n
  <2>0. nameLock[n] = t /\ ThreadInv(t)
    BY <1>0, <1>4 DEF ThreadInv
  <2>a. \A u \in Threads \ {t} : ~(pc'[u] = "c_commit" /\ frame'[u].name = n)
    BY <1>0, <1>2, <2>0 DEF ThreadInv, Held, Building
  <2>b. \A u \in Threads : nameLock[n] = u => u = t
    BY <2>0
  <2>c. \/ \E l \in {"c_write", "d_unregister"} : pc[t] = l
        \/ <<"vmdata", n>> \in host /\ pc[t] # "c_commit" => registry[n].data
    BY <1>1, <1>4, <2>b DEF DataKnown, OwnDestroy, Held, Preparing, Building, Removing, Removed
  <2>1. CASE CreateWrite(t)
    <3>1. pc[t] = "c_write" /\ host' = host
      BY <2>1 DEF CreateWrite
    <3> QED
      BY <1>1, <1>4, <2>0, <3>1 DEF ThreadInv, DataKnown
  <2>2. CASE CreateCommit(t)
    <3>1. pc[t] = "c_commit" /\ host' = host /\ registry' = [registry EXCEPT ![n] = frame[t].rec]
      BY <1>4, <2>2 DEF CreateCommit
    <3>2. frame[t].rec.data /\ registry[n].kind = "bhyve" /\ frame[t].rec \in Records
          /\ registry[n].kind = frame[t].rec.kind
      BY <1>1, <1>4, <2>0, <3>1 DEF DataKnown, ThreadInv, Building
    <3>3. pc'[t] # "c_commit"
      BY <1>0, <2>2 DEF CreateCommit, Reply, Goto, PcTypeOK
    <3>4. registry'[n] = frame[t].rec /\ frame[t].rec # NoRecord
      BY <1>0, <3>1, <3>2, RecordAssumption
    <3> QED
      BY <2>a, <3>2, <3>3, <3>4 DEF DataKnown
  <2>3. CASE DestroyUnregister(t)
    <3>1. pc[t] = "d_unregister" /\ host' = host
      BY <2>3 DEF DestroyUnregister
    <3> QED
      BY <1>0, <1>4, <2>0, <3>1 DEF ThreadInv, Removed, Gone
  <2>4. CASE Construction(t)
    <3>1. pc[t] \in Building \ {"c_commit", "c_start"} /\ registry' = registry /\ nameLock' = nameLock
      BY <1>0, <2>4, ConstructionThread, ConstructionMakes
    <3>2. registry[n] # NoRecord /\ registry[n].kind = frame[t].kind
      BY <1>4, <2>0, <3>1 DEF ThreadInv
    <3>3. CASE <<"vmdata", n>> \in host
      <4>1. DataKnown(n) /\ registry[n].data
        BY <1>1, <1>4, <2>c, <3>1, <3>3 DEF Building
      <4>2. pc'[t] # "c_commit"
        <5> SUFFICES ASSUME pc'[t] = "c_commit" PROVE FALSE
          OBVIOUS
        <5>1. pc[t] \notin Jailed
          BY <2>0, <1>4, <3>2, <4>1 DEF ThreadInv, DataKnown
        <5>2. ~CreateVm(t)
          BY <1>0, <1>4, <3>3 DEF CreateVm, Build, BuildFails, CallDestroy, Goto, PcTypeOK
        <5> QED
          BY <1>0, <2>4, <5>1, <5>2 DEF Construction, CloneDataset, CreateEpair, AddMember, StartJail,
             CreateMemdisk, CloneSource, Build, BuildOk, BuildFails, CallDestroy, Goto, PcTypeOK, Jailed
      <4> QED
        BY <2>a, <3>1, <4>1, <4>2 DEF DataKnown
    <3>4. CASE <<"vmdata", n>> \notin host
      <4>1. pc[t] = "c_vm"
        BY <1>0, <2>4, <3>4, ConstructionMakes DEF Makes
      <4>2. CreateVm(t)
        BY <2>4, <4>1 DEF Construction, CloneDataset, CreateEpair, AddMember, StartJail,
           CreateMemdisk, CloneSource, Build
      <4>3. registry[n].kind = "bhyve"
        BY <1>4, <2>0, <3>2, <4>1 DEF ThreadInv, Guest
      <4>4. PICK z \in BOOLEAN, possible \in BOOLEAN :
              Build(t, "c_vm", possible,
                    {<<"vm", n>>} \cup (IF z THEN {<<"vmdata", n>>} ELSE {}),
                    [frame[t].rec EXCEPT !.data = z], "c_commit")
        BY <1>4, <4>2 DEF CreateVm
      <4> DEFINE rec == [frame[t].rec EXCEPT !.data = z]
      <4>5. CASE CallDestroy(t, TRUE)
        <5>1. pc'[t] = "d_lock" /\ frame'[t].back = "create" /\ frame'[t].name = n
          BY <1>0, <1>4, <4>5 DEF CallDestroy, Goto, PcTypeOK, FrameTypeOK, Frames
        <5>2. OwnDestroy(t)'
          BY <2>0, <3>1, <5>1 DEF OwnDestroy, WaitsFor
        <5> QED
          BY <2>0, <2>a, <3>1, <3>2, <4>3, <5>1, <5>2 DEF DataKnown
      <4>6. CASE ~CallDestroy(t, TRUE)
        <5>1. /\ host' = host \cup {<<"vm", n>>} \cup (IF z THEN {<<"vmdata", n>>} ELSE {})
              /\ frame' = [frame EXCEPT ![t].rec = rec] /\ Goto(t, "c_commit")
          BY <4>4, <4>6 DEF Build, BuildOk, BuildFails
        <5>2. z = TRUE
          BY <3>4, <5>1
        <5>3. frame[t].rec \in Records
          BY <2>0, <3>1 DEF ThreadInv
        <5>4. rec.data
          BY <5>2, <5>3 DEF Records
        <5> HIDE DEF rec
        <5>5. frame'[t].rec = rec /\ frame'[t].name = n /\ pc'[t] = "c_commit"
          BY <1>0, <1>4, <5>1, SameName DEF Goto, PcTypeOK
        <5>6. \A u \in Threads : pc'[u] = "c_commit" /\ frame'[u].name = n => frame'[u].rec.data
          BY <2>a, <5>4, <5>5
        <5> QED
          BY <2>0, <3>1, <3>2, <4>3, <5>5, <5>6 DEF DataKnown
      <4> QED
        BY <4>5, <4>6
    <3> QED
      BY <3>3, <3>4
  <2>5. CASE Untouched /\ ~Construction(t)
    <3>1. registry' = registry /\ <<"vmdata", n>> \in host
      BY <2>5 DEF Untouched
    <3>2. DataKnown(n) /\ pc'[t] # "c_commit"
      BY <1>1, <2>5, <3>1, OthersStay
    <3>3. \A u \in Threads : ~(pc'[u] = "c_commit" /\ frame'[u].name = n)
      BY <2>a, <3>2
    <3>4. CASE registry[n].data
      BY <3>1, <3>2, <3>3, <3>4 DEF DataKnown
    <3>5. CASE ~registry[n].data
      <4>1. pc[t] = "c_commit"
        BY <2>b, <3>2, <3>5, <1>4 DEF DataKnown, OwnDestroy, Held, Preparing, Building, Removing, Removed
      <4>2. CASE CreateCommit(t)
        BY <2>2, <4>2
      <4>3. CASE FinishFails(t)
        <5>1. CallDestroy(t, TRUE) /\ nameLock' = nameLock
          BY <4>3 DEF FinishFails, locks
        <5>2. pc'[t] = "d_lock" /\ frame'[t].back = "create" /\ frame'[t].name = n
          BY <1>0, <1>4, <5>1 DEF CallDestroy, Goto, PcTypeOK, FrameTypeOK, Frames
        <5>3. OwnDestroy(t)'
          BY <2>0, <5>1, <5>2 DEF OwnDestroy, WaitsFor
        <5> QED
          BY <2>0, <3>1, <3>2, <3>3, <5>1, <5>2, <5>3 DEF DataKnown
      <4> QED
        BY <4>1, <4>2, <4>3, OthersStay
    <3> QED
      BY <3>4, <3>5
  <2> QED
    BY <2>1, <2>2, <2>3, <2>4, <2>5, FewWrite DEF Writes
<1> QED
  BY <1>3, <1>4

-----------------------------------------------------------------------------
(* What a thread knows at its next label *)

\* A thread outside the lifecycle of a name knows nothing.
LEMMA Outside ==
  ASSUME NEW t \in Threads, pc'[t] \notin Held \cup {"c_lock", "d_lock"}
  PROVE  ThreadInv(t)'
<1>1. pc'[t] \notin Preparing \cup Building \cup Removing \cup Removed
      /\ pc'[t] \notin {"c_write"} \cup Jailed \cup Guest
  BY DEF Held, Building, Jailed, Guest
<1> QED
  BY <1>1 DEF ThreadInv

\* One that waits for the lock of a name knows the name.
LEMMA Waiting ==
  ASSUME NEW t \in Threads, pc'[t] \in {"c_lock", "d_lock"}, frame'[t].name \in Names
  PROVE  ThreadInv(t)'
<1>1. pc'[t] \notin Held
  BY DEF Held, Preparing, Building, Removing, Removed
<1>2. pc'[t] \notin Preparing \cup Building \cup Removing \cup Removed
      /\ pc'[t] \notin {"c_write"} \cup Jailed \cup Guest
  BY <1>1 DEF Held, Building, Jailed, Guest
<1> QED
  BY <1>1, <1>2 DEF ThreadInv

\* The labels of gc and the end of a request are outside.
LEMMA Leaves ==
  ASSUME PcTypeOK, NEW t \in Threads,
         NEW l \in {"idle", "g_lock", "g_scan", "g_loop", "g_after", "g_discover", "g_orphans",
                    "g_refs", "g_bridge", "g_epairs", "g_active", "g_clear"},
         Goto(t, l)
  PROVE  ThreadInv(t)'
<1>1. pc'[t] = l
  BY DEF PcTypeOK, Goto
<1>2. l \notin Held \cup {"c_lock", "d_lock"}
  BY DEF Held, Preparing, Building, Removing, Removed
<1> QED
  BY <1>1, <1>2, Outside

\* So does a destroy that returns.
LEMMA Returns ==
  ASSUME PcTypeOK, NEW t \in Threads, NEW failed \in BOOLEAN, DestroyReturn(t, failed)
  PROVE  ThreadInv(t)'
  BY Leaves DEF DestroyReturn

\* A create that calls destroy has a name to destroy.
LEMMA Calls ==
  ASSUME TypeOK, NEW t \in Threads, NEW force \in BOOLEAN, CallDestroy(t, force),
         frame[t].name \in Names
  PROVE  ThreadInv(t)'
<1>1. pc'[t] = "d_lock"
  BY DEF TypeOK, PcTypeOK, CallDestroy, Goto
<1>2. frame'[t].name = frame[t].name
  BY DEF TypeOK, FrameTypeOK, Frames, CallDestroy
<1> QED
  BY <1>1, <1>2, Waiting

\* And so has a gc that calls it.
LEMMA GcCalls ==
  ASSUME TypeOK, NEW t \in Threads, NEW n \in Names,
         NEW back, NEW force, GcCall(t, n, back, force)
  PROVE  ThreadInv(t)'
<1>1. pc'[t] = "d_lock"
  BY DEF TypeOK, PcTypeOK, GcCall, Goto
<1>2. frame'[t].name = n
  BY DEF TypeOK, FrameTypeOK, Frames, GcCall
<1> QED
  BY <1>1, <1>2, Waiting

\* A create knows that nothing is registered until it registers something itself.
LEMMA PreparingKnows ==
  ASSUME IInv, NEW t \in Threads, registry' = registry, nameLock' = nameLock,
         pc[t] \in Preparing \/ (pc[t] = "c_begin" /\ registry[frame[t].name] = NoRecord),
         pc'[t] \in Preparing, frame'[t].name = frame[t].name, frame'[t].owner \in Identities
  PROVE  ThreadInv(t)'
<1>1. /\ frame[t].name \in Names /\ nameLock[frame[t].name] = t
      /\ registry[frame[t].name] = NoRecord
  BY DEF IInv, ThreadInv, Held
<1>2. pc'[t] \notin Building \cup Removing \cup Removed /\ pc'[t] \notin {"c_write"} \cup Jailed \cup Guest
  BY DEF Preparing, Building, Jailed, Guest, Removing, Removed
<1> QED
  BY <1>1, <1>2 DEF ThreadInv

\* What the thread itself knows at its next label is true.
LEMMA CreateKnows ==
  ASSUME IInv, NEW t \in Threads, CreateStep(t)
  PROVE  ThreadInv(t)'
<1> DEFINE n == frame[t].name
<1>0. ThreadInv(t) /\ TypeOK /\ PcTypeOK /\ FrameTypeOK /\ DaemonTypeOK /\ DiskTypeOK
  BY DEF IInv, TypeOK
<1>a. pc[t] \in Held => n \in Names /\ nameLock[n] = t
  BY <1>0 DEF ThreadInv
<1>1. CASE CreateEnter(t)
  <2>1. pc'[t] = "c_begin" /\ frame' = frame /\ nameLock' = [nameLock EXCEPT ![n] = t] /\ pc[t] = "c_lock"
    BY <1>0, <1>1 DEF CreateEnter, EnterNamed, Goto, PcTypeOK
  <2>2. n \in Names /\ nameLock'[n] = t
    BY <1>0, <2>1 DEF ThreadInv, DaemonTypeOK
  <2>3. pc'[t] \notin Preparing \cup Building \cup Jailed \cup Guest \cup Removing \cup Removed
    BY <2>1 DEF Preparing, Building, Jailed, Guest, Removing, Removed
  <2> QED
    BY <2>1, <2>2, <2>3 DEF ThreadInv
<1>2. CASE CreateDenied(t) \/ WriteFails(t) \/ AllocateFails(t) \/ EnsureFails(t) \/ CreateStart(t)
  BY <1>0, <1>2, Leaves DEF CreateDenied, WriteFails, AllocateFails, EnsureFails, CreateStart, Refuse, Reply
<1>3. CASE CreateReconcile(t)
  <2>1. n \in Names /\ pc[t] = "c_begin"
    BY <1>a, <1>3 DEF CreateReconcile, Held
  <2>2. CallDestroy(t, registry[n] = NoRecord)
    BY <1>3 DEF CreateReconcile
  <2> QED
    BY <1>0, <2>1, <2>2, Calls
<1>4. CASE CreateBegin(t)
  <2>1. /\ frame' = [frame EXCEPT ![t].owner = Identity(frame[t].pid)]
        /\ frame[t].pid \in up /\ registry[n] = NoRecord /\ pc[t] = "c_begin"
        /\ pc'[t] = "ensure" /\ registry' = registry /\ nameLock' = nameLock
    BY <1>0, <1>4 DEF CreateBegin, Usable, Goto, PcTypeOK, disk, locks
  <2>2. Identity(frame[t].pid) \in Identities
    BY <1>0, <2>1 DEF TypeOK, ClientTypeOK, Identity, Identities
  <2>3. frame'[t].name = n /\ frame'[t].owner \in Identities
    BY <1>0, <2>1, <2>2, SameName
  <2>4. pc'[t] \in Preparing
    BY <2>1 DEF Preparing
  <2> QED
    BY <2>1, <2>3, <2>4, PreparingKnows
<1>5. CASE EnsureCheck(t) \/ EnsureLock(t) \/ EnsureConfigure(t)
  <2>1. pc[t] \in Preparing /\ registry' = registry /\ nameLock' = nameLock
    BY <1>5 DEF EnsureCheck, EnsureLock, EnsureConfigure, Preparing, disk, locks
  <2>2. frame[t].owner \in Identities
    BY <1>0, <2>1 DEF ThreadInv
  <2>3. frame' = frame \/ frame' = [frame EXCEPT ![t].want = "switch"]
    BY <1>5 DEF EnsureCheck, EnsureLock, EnsureConfigure, Ensured
  <2>4. pc'[t] \in Preparing
    BY <1>0, <1>5 DEF EnsureCheck, EnsureLock, EnsureConfigure, Ensured, Goto, PcTypeOK, Preparing
  <2>5. frame'[t].name = n /\ frame'[t].owner \in Identities
    BY <1>0, <2>2, <2>3, SameName
  <2> QED
    BY <2>1, <2>4, <2>5, PreparingKnows
<1>6. CASE CreateAllocate(t)
  <2>1. pc[t] = "c_alloc" /\ pc'[t] = "c_write" /\ registry' = registry /\ nameLock' = nameLock
    BY <1>0, <1>6 DEF CreateAllocate, Goto, PcTypeOK, locks
  <2>2. /\ n \in Names /\ nameLock[n] = t /\ registry[n] = NoRecord /\ frame[t].owner \in Identities
    BY <1>0, <2>1 DEF ThreadInv, Held, Preparing
  <2>3. PICK a \in Addresses :
          frame' = [frame EXCEPT ![t].rec =
                      [kind |-> frame[t].kind, owner |-> frame[t].owner, ip |-> a,
                       ep |-> NoUnit, md |-> NoUnit, data |-> frame[t].kind = "jail"]]
    BY <1>6 DEF CreateAllocate
  <2>4. frame[t].kind \in {"jail", "bhyve"}
    BY <1>0 DEF FrameTypeOK, Frames
  <2>5. PICK d \in BOOLEAN : d = (frame[t].kind = "jail")
    OBVIOUS
  <2> DEFINE r == [kind |-> frame[t].kind, owner |-> frame[t].owner, ip |-> a,
                   ep |-> NoUnit, md |-> NoUnit, data |-> frame[t].kind = "jail"]
  <2>6. r \in Records /\ r.kind = frame[t].kind
    <3>1. [kind |-> frame[t].kind, owner |-> frame[t].owner, ip |-> a,
           ep |-> NoUnit, md |-> NoUnit, data |-> d] \in Records
      BY <2>2, <2>4 DEF Records
    <3> QED
      BY <2>5, <3>1
  <2> HIDE DEF r
  <2>7. frame'[t].name = n /\ frame'[t].rec \in Records /\ frame'[t].rec.kind = frame'[t].kind
    <3>1. frame' = [frame EXCEPT ![t].rec = r]
      BY <2>3 DEF r
    <3> QED
      BY <1>0, <2>6, <3>1, SameName
  <2>8. pc'[t] \notin Preparing \cup Building \cup Jailed \cup Guest \cup Removing \cup Removed
    BY <2>1 DEF Preparing, Building, Jailed, Guest, Removing, Removed
  <2> QED
    BY <2>1, <2>2, <2>7, <2>8 DEF ThreadInv
<1>7. CASE CreateWrite(t)
  <2> DEFINE l == FirstBuildStep(frame[t].kind)
  <2>1. pc[t] = "c_write" /\ registry' = [registry EXCEPT ![n] = frame[t].rec] /\ frame' = frame
        /\ nameLock' = nameLock /\ pc'[t] = l
    BY <1>0, <1>7 DEF CreateWrite, locks, Goto, PcTypeOK
  <2>2. n \in Names /\ nameLock[n] = t /\ frame[t].rec \in Records /\ frame[t].rec.kind = frame[t].kind
    BY <1>0, <2>1 DEF ThreadInv, Held
  <2>3. frame[t].kind \in {"jail", "bhyve"}
    BY <1>0 DEF FrameTypeOK, Frames
  <2>4. /\ l \in {"c_clone", "c_md", "c_vm"} /\ (l = "c_clone" => frame[t].kind = "jail")
        /\ (l # "c_clone" => frame[t].kind = "bhyve")
    BY <2>3 DEF FirstBuildStep
  <2>5. l \notin Preparing \cup Removing \cup Removed /\ l # "c_write" /\ l # "c_start"
    BY <2>4 DEF Preparing, Removing, Removed
  <2>6. registry'[n] = frame[t].rec /\ frame[t].rec # NoRecord
    BY <1>0, <2>1, <2>2, RecordAssumption DEF DiskTypeOK
  <2> QED
    BY <2>1, <2>2, <2>4, <2>5, <2>6 DEF ThreadInv, Jailed, Guest
<1>8. CASE Construction(t)
  <2>1. pc[t] \in Building /\ n \in Names /\ nameLock[n] = t
    BY <1>a, <1>8, ConstructionThread DEF Held
  <2>2. CASE CallDestroy(t, TRUE)
    BY <1>0, <2>1, <2>2, Calls
  <2>3. CASE \E l \in Building, r \in Records : BuildsOn(t, l, r)
    <3>1. PICK l \in Building, r \in Records : BuildsOn(t, l, r)
      BY <2>3
    <3>2. pc'[t] = l /\ frame'[t].name = n /\ frame'[t].kind = frame[t].kind /\ frame'[t].rec = r
      BY <1>0, <3>1, SameName DEF BuildsOn, Goto, PcTypeOK
    <3>3. /\ registry[n] # NoRecord /\ registry[n].owner = r.owner /\ registry[n].kind = r.kind
          /\ registry[n].kind = frame[t].kind
          /\ (l \in Jailed => frame[t].kind = "jail") /\ (l \in Guest => frame[t].kind = "bhyve")
      BY <1>0, <2>1, <3>1 DEF ThreadInv, BuildsOn
    <3>4. registry' = registry /\ nameLock' = nameLock
      BY <1>0, <1>8, ConstructionMakes DEF DiskTypeOK
    <3>5. l \notin Preparing \cup Removing \cup Removed /\ l # "c_write"
      BY DEF Building, Preparing, Removing, Removed
    <3> QED
      BY <2>1, <3>2, <3>3, <3>4, <3>5 DEF ThreadInv
  <2> QED
    BY <1>8, <2>2, <2>3, ConstructionThread
<1>9. CASE CreateCommit(t) /\ frame[t].kind = "jail"
  BY <1>0, <1>9, Leaves DEF CreateCommit, Reply
<1>10. CASE CreateCommit(t) /\ frame[t].kind # "jail"
  <2>1. pc[t] = "c_commit" /\ registry' = [registry EXCEPT ![n] = frame[t].rec] /\ frame' = frame
        /\ nameLock' = nameLock /\ pc'[t] = "c_start"
    BY <1>0, <1>10 DEF CreateCommit, Goto, PcTypeOK
  <2>2. n \in Names /\ nameLock[n] = t /\ frame[t].rec \in Records /\ frame[t].rec.kind = frame[t].kind
    BY <1>0, <2>1 DEF ThreadInv, Held, Building
  <2>3. registry'[n] = frame[t].rec /\ frame[t].rec # NoRecord
    BY <1>0, <2>1, <2>2, RecordAssumption DEF DiskTypeOK
  <2>4. "c_start" \notin Preparing \cup Jailed \cup Removing \cup Removed
    BY DEF Preparing, Jailed, Removing, Removed
  <2>5. frame[t].kind = "bhyve"
    BY <1>0, <1>10 DEF FrameTypeOK, Frames
  <2> QED
    BY <2>1, <2>2, <2>3, <2>4, <2>5 DEF ThreadInv
<1>11. CASE FinishFails(t)
  <2>1. n \in Names /\ CallDestroy(t, TRUE)
    BY <1>a, <1>11 DEF FinishFails, Held, Building
  <2> QED
    BY <1>0, <2>1, Calls
<1>12. CASE CopySource(t)
  <2>1. pc[t] = "c_copy" /\ registry' = registry /\ nameLock' = nameLock
    BY <1>12 DEF CopySource, BuildFrame, disk, locks
  <2>2. pc[t] \in Building \cap Guest /\ pc[t] \in Held
    BY <2>1 DEF Held, Building, Guest
  <2>3. CASE CallDestroy(t, TRUE)
    BY <1>0, <1>a, <2>2, <2>3, Calls
  <2>4. CASE Goto(t, "c_vm") /\ UNCHANGED frame
    <3>1. pc'[t] = "c_vm" /\ frame' = frame
      BY <1>0, <2>4 DEF Goto, PcTypeOK
    <3>2. pc'[t] \in Building \cap Guest /\ pc'[t] \notin {"c_write"} \cup Preparing \cup Jailed \cup Removing \cup Removed
      BY <3>1 DEF Preparing, Building, Jailed, Guest, Removing, Removed
    <3> QED
      BY <1>0, <1>a, <2>1, <2>2, <3>1, <3>2 DEF ThreadInv
  <2> QED
    BY <1>12, <2>3, <2>4 DEF CopySource
<1> QED
  BY <1>1, <1>2, <1>3, <1>4, <1>5, <1>6, <1>7, <1>8, <1>9, <1>10, <1>11, <1>12 DEF CreateStep, Construction

\* The same for destroy.  The probes of DestroyCheck cannot see a guest without
\* the vm command: that no guest is left then rests on GuestsRegistered and on
\* the refusal of DestroyLoad to go on with a guest's record.
LEMMA DestroyKnows ==
  ASSUME IInv, NEW t \in Threads, DestroyStep(t)
  PROVE  ThreadInv(t)'
<1> DEFINE n == frame[t].name
<1>0. ThreadInv(t) /\ TypeOK /\ PcTypeOK /\ FrameTypeOK /\ DaemonTypeOK /\ DiskTypeOK
  BY DEF IInv, TypeOK
<1>a. pc[t] \in Held => n \in Names /\ nameLock[n] = t
  BY <1>0 DEF ThreadInv
<1>1. CASE DestroyEnter(t)
  <2>1. pc'[t] = "d_load" /\ frame' = frame /\ nameLock' = [nameLock EXCEPT ![n] = t] /\ pc[t] = "d_lock"
    BY <1>0, <1>1 DEF DestroyEnter, EnterNamed, Goto, PcTypeOK
  <2>2. n \in Names /\ nameLock'[n] = t
    BY <1>0, <2>1 DEF ThreadInv, DaemonTypeOK
  <2>3. pc'[t] \notin Preparing \cup Building \cup Jailed \cup Guest \cup Removing \cup Removed
    BY <2>1 DEF Preparing, Building, Jailed, Guest, Removing, Removed
  <2> QED
    BY <2>1, <2>2, <2>3 DEF ThreadInv
<1>2. CASE DestroyLoad(t)
  <2>1. pc[t] = "d_load" /\ registry' = registry /\ backend' = backend
    BY <1>2 DEF DestroyLoad, disk, daemon
  <2>2. CASE DestroyReturn(t, TRUE)
    BY <1>0, <2>2, Returns
  <2>3. CASE ~DestroyReturn(t, TRUE)
    <3>1. /\ frame' = [frame EXCEPT ![t].rec = registry[n]] /\ Goto(t, "d_vm") /\ nameLock' = nameLock
          /\ registry[n] # NoRecord /\ registry[n].kind = "bhyve" => VmAvailable
      BY <1>2, <2>3 DEF DestroyLoad
    <3>2. pc'[t] = "d_vm" /\ frame'[t].name = n /\ frame'[t].rec = registry[n]
      BY <1>0, <3>1, SameName DEF Goto, PcTypeOK
    <3>3. n \in Names /\ nameLock[n] = t
      BY <1>a, <2>1 DEF Held
    <3>4. pc'[t] \notin Preparing \cup Building \cup Jailed \cup Guest \cup Removed
      BY <3>2 DEF Preparing, Building, Jailed, Guest, Removed
    <3> QED
      BY <2>1, <3>1, <3>2, <3>3, <3>4 DEF ThreadInv, VmAvailable
  <2> QED
    BY <2>2, <2>3
<1>3. CASE Removal(t)
  <2>1. CASE DestroyReturn(t, TRUE)
    BY <1>0, <2>1, Returns
  <2>2. CASE \E l \in Removing : Goto(t, l) /\ UNCHANGED <<nameLock, frame, gcv>>
    <3>1. pc[t] \in Removing /\ registry' = registry /\ backend' = backend
      BY <1>3, RemovalEffect
    <3>2. pc'[t] \in Removing /\ frame' = frame /\ nameLock' = nameLock
      BY <1>0, <2>2 DEF Goto, PcTypeOK
    <3>3. pc[t] \in Held
      BY <3>1 DEF Held
    <3>4. pc'[t] \notin Preparing \cup Building \cup Removed /\ pc'[t] \notin {"c_write"} \cup Jailed \cup Guest
      BY <3>2 DEF Removing, Preparing, Building, Jailed, Guest, Removed
    <3> QED
      BY <1>0, <1>a, <3>1, <3>2, <3>3, <3>4 DEF ThreadInv, VmAvailable
  <2> QED
    BY <1>3, <2>1, <2>2, RemovalEffect
<1>4. CASE DestroyCheck(t)
  <2>1. pc[t] = "d_check" /\ registry' = registry /\ backend' = backend /\ host' = host
    BY <1>4 DEF DestroyCheck, disk, daemon
  <2>2. CASE DestroyReturn(t, TRUE)
    BY <1>0, <2>2, Returns
  <2>3. CASE ~DestroyReturn(t, TRUE)
    <3>1. Goto(t, "d_release") /\ UNCHANGED <<nameLock, frame>>
      BY <1>4, <2>3 DEF DestroyCheck
    <3>2. pc'[t] = "d_release"
      BY <1>0, <3>1 DEF Goto, PcTypeOK
    <3>3. /\ n \in Names /\ nameLock[n] = t /\ frame[t].rec = registry[n]
          /\ registry[n] # NoRecord /\ registry[n].kind = "bhyve" => VmAvailable
      BY <1>0, <2>1 DEF ThreadInv, Held, Removing
    <3>4. n \in missed' \/ Gone(n)'
      <4>1. CASE Known(frame[t].rec, n) \cap Visible # {}
        BY <1>4, <2>3, <3>2, <4>1 DEF DestroyCheck
      <4>2. CASE Known(frame[t].rec, n) \cap Visible = {}
        <5>1. CASE n \in missed
          BY <5>1, <1>4, Growth DEF Step, DestroyStep
        <5>2. CASE n \notin missed
          <6>1. <<"vm", n>> \in host => VmAvailable
            BY <3>3, <5>2 DEF IInv, GuestsRegistered
          <6>2. Probed(n) \cap host = {}
            BY <4>2, <6>1 DEF Known, Visible, Probed
          <6>3. faults = 0 => <<"vmdata", n>> \notin host
            BY <3>3, <6>2 DEF IInv, DataWithGuest, Probed
          <6>4. ASSUME crashes = 0, <<"vmdata", n>> \in host PROVE FALSE
            <7>1. DataKnown(n)
              BY <3>3, <5>2, <6>4 DEF IInv, DataRecorded
            <7>2. ~\E u \in Threads : nameLock[n] = u /\ (pc[u] = "c_commit" \/ OwnDestroy(u))
              BY <2>1, <3>3 DEF OwnDestroy
            <7>3. registry[n].data /\ registry[n].kind = "bhyve" /\ registry[n] # NoRecord
              BY <7>1, <7>2 DEF DataKnown
            <7>4. <<"vmdata", n>> \in Known(frame[t].rec, n)
              BY <3>3, <7>3 DEF Known, RecordedData
            <7> QED
              BY <4>2, <6>4, <7>4 DEF Visible
          <6>5. (faults' = 0 => faults = 0) /\ (crashes' = 0 => crashes = 0)
            BY <1>4, Growth DEF Step, DestroyStep
          <6> QED
            BY <2>1, <3>1, <6>2, <6>3, <6>4, <6>5 DEF Gone, Probed
        <5> QED
          BY <5>1, <5>2
      <4> QED
        BY <4>1, <4>2
    <3>5. pc'[t] \notin Preparing \cup Building \cup Jailed \cup Guest \cup Removing
      BY <3>2 DEF Preparing, Building, Jailed, Guest, Removing
    <3> QED
      BY <2>1, <3>1, <3>2, <3>3, <3>4, <3>5 DEF ThreadInv, VmAvailable
  <2> QED
    BY <2>2, <2>3
<1>5. CASE DestroyRelease(t)
  <2>1. pc[t] = "d_release" /\ registry' = registry /\ backend' = backend /\ host' = host
    BY <1>5 DEF DestroyRelease, daemon
  <2>2. CASE DestroyReturn(t, TRUE)
    BY <1>0, <2>2, Returns
  <2>3. CASE ~DestroyReturn(t, TRUE)
    <3>1. pc'[t] = "d_unregister" /\ UNCHANGED <<nameLock, frame>>
      BY <1>0, <1>5, <2>3 DEF DestroyRelease, Goto, PcTypeOK
    <3>0. n \in missed \/ Gone(n) => n \in missed' \/ Gone(n)'
      BY <1>5, <2>1, <3>1, Growth DEF Gone, Probed, Step, DestroyStep
    <3>2. pc[t] \in Removed /\ pc[t] \in Held
      BY <2>1 DEF Removed, Held
    <3>3. pc'[t] \notin Preparing \cup Building \cup Jailed \cup Guest \cup Removing
      BY <3>1 DEF Preparing, Building, Jailed, Guest, Removing
    <3> QED
      BY <1>0, <1>a, <2>1, <3>0, <3>1, <3>2, <3>3 DEF ThreadInv, VmAvailable
  <2> QED
    BY <2>2, <2>3
<1>6. CASE DestroyUnregister(t)
  BY <1>0, <1>6, Returns DEF DestroyUnregister
<1> QED
  BY <1>1, <1>2, <1>3, <1>4, <1>5, <1>6 DEF DestroyStep, Removal

\* And for gc, which knows nothing of a name until it has called destroy.
LEMMA GcKnows ==
  ASSUME IInv, NEW t \in Threads, GcStep(t)
  PROVE  ThreadInv(t)'
<1>0. TypeOK /\ PcTypeOK
  BY DEF IInv, TypeOK
<1>1. CASE GcEnter(t) \/ GcScan(t) \/ GcLoopEnd(t) \/ GcDiscover(t) \/ GcOrphansEnd(t)
  BY <1>0, <1>1, Leaves DEF GcEnter, GcScan, GcLoopEnd, GcDiscover, GcOrphansEnd
<1>2. CASE GcReferences(t) \/ GcBridge(t) \/ GcEpairsEnd(t) \/ GcActive(t)
  BY <1>0, <1>2, Leaves DEF GcReferences, GcBridge, GcEpairsEnd, GcActive
<1>3. CASE GcAfter(t)
  BY <1>0, <1>3, Leaves DEF GcAfter
<1>4. CASE GcRaises(t) \/ GcClear(t)
  BY <1>0, <1>4, Leaves DEF GcRaises, GcClear, GcReturn
<1>5. CASE GcKeep(t) \/ GcEpair(t)
  <2>1. pc'[t] \in {"g_loop", "g_epairs"}
    BY <1>5 DEF GcKeep, GcEpair
  <2>2. pc'[t] \notin Held \cup {"c_lock", "d_lock"}
    BY <2>1 DEF Held, Preparing, Building, Removing, Removed
  <2> QED
    BY <2>2, Outside
<1>6. CASE GcReclaim(t) \/ GcOrphan(t)
  <2>1. gcv[t].todo \subseteq Names
    BY <1>0 DEF TypeOK, GcTypeOK, GcLocals
  <2> QED
    BY <1>0, <1>6, <2>1, GcCalls DEF GcReclaim, GcOrphan
<1> QED
  BY <1>1, <1>2, <1>3, <1>4, <1>5, <1>6 DEF GcStep

-----------------------------------------------------------------------------
(* Requests, crashes and context *)

\* A request arrives at an idle thread.
LEMMA RequestKnows ==
  ASSUME IInv, NEW t \in Workers, NewRequest(t)
  PROVE  /\ RegisteredWhileExisting' /\ GuestsRegistered' /\ DataWithGuest' /\ DataRecorded'
         /\ \A u \in Threads : ThreadInv(u)'
<1>0. PcTypeOK /\ FrameTypeOK /\ t \in Threads
  BY DEF IInv, TypeOK, Threads
<1>1. PICK p \in Pids, f \in Frames, g \in GcLocals, l \in {"c_lock", "d_lock", "g_lock"} :
        Request(t, p, f, g, l) /\ (l # "g_lock" => f.name \in Names)
  BY RequestForm
<1>2. /\ UNCHANGED <<registry, host, nameLock, backend, faults, crashes, missed>>
      /\ frame' = [frame EXCEPT ![t] = f] /\ Goto(t, l)
  BY <1>1 DEF Request, disk, locks, daemon, context
<1>3. RegisteredWhileExisting' /\ GuestsRegistered' /\ DataWithGuest'
  BY <1>2 DEF IInv, RegisteredWhileExisting, GuestsRegistered, DataWithGuest, Named, Probed
<1>4. ThreadInv(t)'
  <2>1. CASE l = "g_lock"
    BY <1>0, <1>2, <2>1, Leaves
  <2>2. CASE l # "g_lock"
    <3>1. pc'[t] \in {"c_lock", "d_lock"} /\ frame'[t].name \in Names
      BY <1>0, <1>1, <1>2, <2>2 DEF PcTypeOK, FrameTypeOK, Goto
    <3> QED
      BY <1>0, <3>1, Waiting
  <2> QED
    BY <2>1, <2>2
<1>5. ASSUME NEW u \in Threads \ {t} PROVE ThreadInv(u)'
  <2>1. pc'[u] = pc[u] /\ frame'[u] = frame[u]
    BY <1>0, <1>2 DEF PcTypeOK, FrameTypeOK, Goto
  <2> QED
    BY <1>2, <2>1 DEF IInv, ThreadInv, Gone, Probed, VmAvailable
<1>6. DataRecorded'
  <2>1. pc[t] = "idle" /\ pc'[t] = l
    BY <1>0, <1>1 DEF Request, Goto, PcTypeOK
  <2>2. \A u \in Threads \ {t} : pc'[u] = pc[u] /\ frame'[u] = frame[u]
    BY <1>0, <1>2 DEF PcTypeOK, FrameTypeOK, Goto
  <2>3. ASSUME NEW n \in Names, DataKnown(n) PROVE DataKnown(n)'
    BY <1>2, <2>1, <2>2, <2>3 DEF DataKnown, OwnDestroy, WaitsFor
  <2> QED
    BY <1>2, <2>3 DEF IInv, DataRecorded
<1> QED
  BY <1>3, <1>4, <1>5, <1>6

\* A crash or a reboot forgets what the threads knew; the disk stays, and the
\* host keeps at most what it had.
LEMMA EnvironmentKnows ==
  ASSUME IInv, Environment
  PROVE  /\ RegisteredWhileExisting' /\ GuestsRegistered' /\ DataWithGuest' /\ DataRecorded'
         /\ \A u \in Threads : ThreadInv(u)'
<1>1. registry' = registry /\ host' \subseteq host /\ faults' = faults /\ missed' = missed
  BY DEF Environment, Crash, Reboot, Restart, ClientExit, ClientStart, disk, context
<1>a. \A n \in Names : <<"vm", n>> \in host' \/ <<"vm", n>> \notin host \/ <<"vmdata", n>> \notin host
  BY DEF Environment, Crash, Reboot, Restart, ClientExit, ClientStart
<1>2. RegisteredWhileExisting' /\ GuestsRegistered' /\ DataWithGuest'
  <2>1. crashes \in Nat /\ crashes' \in Nat /\ (crashes' = crashes \/ crashes' = crashes + 1)
    BY DEF IInv, TypeOK, ClientTypeOK, Environment, Crash, Reboot, Restart, ClientExit, ClientStart
  <2> QED
    BY <1>1, <1>a, <2>1 DEF IInv, RegisteredWhileExisting, GuestsRegistered, DataWithGuest, Named, Probed
<1>3. CASE Restart
  <2>1. ASSUME NEW u \in Threads PROVE pc'[u] \in {"g_lock", "idle"}
    BY <1>3 DEF Restart, BootPc
  <2>2. {"g_lock", "idle"} \cap (Held \cup {"c_lock", "d_lock"}) = {}
    BY DEF Held, Preparing, Building, Removing, Removed
  <2>3. DataRecorded'
    BY <1>3 DEF IInv, TypeOK, ClientTypeOK, Restart, DataRecorded
  <2> QED
    BY <1>2, <2>1, <2>2, <2>3, Outside
<1>4. CASE \E p \in Pids : ClientExit(p) \/ ClientStart(p)
  <2>1. UNCHANGED <<registry, host, nameLock, backend, pc, frame, missed, faults, crashes>>
    BY <1>4 DEF ClientExit, ClientStart, disk, locks, daemon, threads
  <2>2. DataRecorded'
    BY <2>1 DEF IInv, DataRecorded, DataKnown, OwnDestroy, WaitsFor
  <2>3. \A u \in Threads : ThreadInv(u)'
    BY <2>1 DEF IInv, ThreadInv, VmAvailable, Gone, Probed
  <2> QED
    BY <1>2, <2>2, <2>3
<1> QED
  BY <1>3, <1>4 DEF Environment, Crash, Reboot

\* The invariant is inductive.
LEMMA Invariance ==
  ASSUME IInv, [Next]_vars
  PROVE  IInv'
<1>1. TypeOK'
  BY ClientStep, DaemonStep, PcStep, FrameStep, GcLocalStep, DiskStep DEF TypeOK
<1>2. CASE \E t \in Workers : NewRequest(t)
  BY <1>1, <1>2, RequestKnows DEF IInv
<1>3. CASE \E t \in Threads : Step(t)
  <2>1. PICK t \in Threads : Step(t)
    BY <1>3
  <2>2. ThreadInv(t)'
    BY <2>1, CreateKnows, DestroyKnows, GcKnows DEF Step
  <2>3. \A u \in Threads \ {t} : ThreadInv(u)'
    BY <2>1, OthersKnow
  <2> QED
    BY <1>1, <2>1, <2>2, <2>3, HostStep, PairStep, DataStep DEF IInv
<1>4. CASE Environment
  BY <1>1, <1>4, EnvironmentKnows DEF IInv
<1>5. CASE UNCHANGED vars
  BY <1>1, <1>5 DEF vars, IInv, RegisteredWhileExisting, GuestsRegistered, DataWithGuest, DataRecorded,
     DataKnown, OwnDestroy, WaitsFor, ThreadInv, Gone, Named, Probed, VmAvailable
<1> QED
  BY <1>2, <1>3, <1>4, <1>5 DEF Next

-----------------------------------------------------------------------------

\* Every variable of the daemon, the disk and the host keeps its type.  (That
\* the record a destroy reads back is complete rests on the same invariant.)
THEOREM DaemonTypeCorrect == Spec => []TypeOK
<1>1. Init => IInv
  BY InitIInv
<1>2. IInv /\ [Next]_vars => IInv'
  BY Invariance
<1>3. IInv => TypeOK
  BY DEF IInv
<1> QED
  BY <1>1, <1>2, <1>3, PTL DEF Spec

\* Whatever carries a runtime's name on the host is registered, with any number
\* of threads, names, failing commands, crashes, reboots and concurrent gcs: a
\* destroy drops the record only when nothing is left, or when its probes failed
\* and were read as absence (missed), or, of a guest's dataset, when a crash kept
\* the create from recording it and a command has failed.
THEOREM NeverForgotten == Spec => []RegisteredWhileExisting
<1>1. Init => IInv
  BY InitIInv
<1>2. IInv /\ [Next]_vars => IInv'
  BY Invariance
<1>3. IInv => RegisteredWhileExisting
  BY DEF IInv
<1> QED
  BY <1>1, <1>2, <1>3, PTL DEF Spec
=============================================================================
