-------------------------- MODULE DaemonWhole_proofs --------------------------
(***************************************************************************)
(* For every number of threads, clients, addresses and units: as long as   *)
(* nothing has failed, a runtime that no request is working on is          *)
(* registered and complete or leaves no trace.  The inductive invariant    *)
(* says what a create has made, and what a destroy has removed, at each of *)
(* its labels, and that nobody else touches what a runtime consists of.    *)
(***************************************************************************)
EXTENDS DaemonSafety_proofs

\* No command has failed and the daemon has not died.
Quiet == faults = 0 /\ crashes = 0

\* The prepared disk of a guest.
Disk(n) == <<"vmdata", n>>

\* A lease is in a record, or in the one that a create is about to write.
LeasesOwned ==
  \A a \in Addresses, n \in Names : leases[a] = n =>
    \/ n \in Registered /\ registry[n].ip = a
    \/ \E t \in Threads : pc[t] = "c_write" /\ frame[t].name = n /\ frame[t].rec.ip = a

\* The record in memory and the one on disk while a create goes on, and what a destroy has
\* released.
TraceInv(t) ==
  LET f == frame[t]
      r == registry[frame[t].name] IN
  /\ pc[t] \in Building => f.rec.ip = r.ip
  /\ pc[t] = "d_unregister" => \A a \in Addresses : leases[a] # f.name

TracesKnown == LeasesOwned /\ \A t \in Threads : TraceInv(t)

\* While nothing fails, no name is given up, and what carries one is registered; a prepared
\* disk exists with its guest.
LEMMA HostKnown ==
  ASSUME IInv, Quiet, NEW n \in Names
  PROVE  /\ missed = {}
         /\ registry[n] = NoRecord => Named(n) \cap host = {}
         /\ Disk(n) \in host => <<"vm", n>> \in host
         /\ <<"vm", n>> \in host => registry[n] # NoRecord /\ registry[n].kind = "bhyve"
<1>1. missed = {} /\ (Disk(n) \in host => <<"vm", n>> \in host)
  BY DEF IInv, DataWithGuest, Quiet, Disk
<1>2. <<"vm", n>> \in host => registry[n] # NoRecord /\ registry[n].kind = "bhyve"
  BY <1>1 DEF IInv, GuestsRegistered
<1>3. registry[n] = NoRecord => Named(n) \cap host = {}
  BY <1>1 DEF IInv, RegisteredWhileExisting, Quiet
<1> QED
  BY <1>1, <1>2, <1>3

LEMMA QuietStays ==
  ASSUME IInv, [Next]_vars, Quiet'
  PROVE  Quiet
<1>1. faults' = 0 /\ crashes' = 0 /\ crashes \in Nat
  BY DEF Quiet, IInv, TypeOK, ClientTypeOK
<1>2. faults = 0 /\ crashes = 0
  BY <1>1, ClientStep
<1> QED
  BY <1>2 DEF Quiet

\* A new lease is a create's.
LEMMA LeasesGrow ==
  ASSUME IInv, NEW t \in Threads, Step(t),
         NEW a \in Addresses, NEW n \in Names, leases'[a] = n, leases[a] # n
  PROVE  CreateAllocate(t) /\ frame[t].name = n /\ leases' = [leases EXCEPT ![a] = n]
<1>0. /\ leases \in [Addresses -> LeaseValues] /\ n # Unleased /\ n # Blank
      /\ host \subseteq Resources
  BY PoolAssumption DEF IInv, TypeOK, DiskTypeOK, PoolTypeOK
<1>1. CASE CreateStep(t)
  <2>1. CASE CreateAllocate(t)
    <3>1. PICK b \in Addresses : leases' = [leases EXCEPT ![b] = frame[t].name]
      BY <2>1 DEF CreateAllocate, Allocate
    <3>2. b = a
      BY <1>0, <3>1
    <3> QED
      BY <1>0, <2>1, <3>1, <3>2
  <2>2. CASE AllocateFails(t)
    <3>1. leases' = leases \/ \E b \in FreeAddresses : leases' = [leases EXCEPT ![b] = Blank]
      BY <2>2 DEF AllocateFails, AllocateTorn
    <3> QED
      BY <1>0, <3>1 DEF FreeAddresses
  <2>3. CASE Construction(t)
    BY <1>0, <2>3, ConstructionMakes
  <2>4. CASE ~(AllocateFails(t) \/ CreateAllocate(t) \/ Construction(t))
    <3>1. leases' = leases
      BY <1>1, <2>4 DEF CreateStep, Construction, CreateEnter, EnterNamed, CreateDenied,
         CreateReconcile, CreateBegin, EnsureCheck, EnsureLock, EnsureConfigure, EnsureFails,
         WriteFails, CreateWrite, CopySource, BuildFrame, CreateCommit, CreateStart, FinishFails, disk
    <3> QED
      BY <3>1
  <2> QED
    BY <2>1, <2>2, <2>3, <2>4
<1>2. CASE DestroyStep(t)
  <2>1. CASE DestroyRelease(t)
    BY <1>0, <2>1 DEF DestroyRelease, Release
  <2>2. CASE Removal(t)
    BY <2>2, RemovalEffect
  <2>3. CASE ~(DestroyRelease(t) \/ Removal(t))
    <3>1. leases' = leases
      BY <1>2, <2>3 DEF DestroyStep, Removal, DestroyEnter, EnterNamed, DestroyLoad, DestroyCheck,
         DestroyUnregister, disk
    <3> QED
      BY <3>1
  <2> QED
    BY <2>1, <2>2, <2>3
<1>3. CASE GcStep(t)
  <2>1. CASE GcClear(t)
    <3>1. leases' = leases \/ \E s : leases' = [b \in Addresses |-> IF b \in s THEN Unleased ELSE leases[b]]
      BY <2>1 DEF GcClear, Sweep, ClearOrphans
    <3> QED
      BY <1>0, <3>1
  <2>2. CASE ~GcClear(t)
    <3>1. leases' = leases
      BY <1>3, <2>2 DEF GcStep, GcEnter, GcRaises, GcScan, GcKeep, GcReclaim, GcLoopEnd, GcAfter,
         GcDiscover, GcOrphan, GcOrphansEnd, GcReferences, GcBridge, GcEpair, GcEpairsEnd,
         GcActive, GcRead, GcCall, GcFrame
    <3> QED
      BY <3>1
  <2> QED
    BY <2>1, <2>2
<1> QED
  BY <1>1, <1>2, <1>3 DEF Step

\* While nothing fails, the record that a create is about to write is written.
LEMMA WriteFollows ==
  ASSUME IInv, Quiet', NEW t \in Threads, Step(t), pc[t] = "c_write"
  PROVE  CreateWrite(t)
<1>1. ~WriteFails(t)
  BY DEF WriteFails, Fault, Quiet, IInv, TypeOK, ClientTypeOK
<1>2. ~Construction(t) /\ ~Removal(t)
  BY ConstructionThread, RemovalEffect DEF Building, Removing
<1>3. CASE CreateStep(t)
  BY <1>1, <1>2, <1>3 DEF CreateStep, Construction, CreateEnter, EnterNamed, CreateDenied,
     CreateReconcile, CreateBegin, EnsureCheck, EnsureLock, EnsureConfigure, EnsureFails,
     AllocateFails, CreateAllocate, CopySource, CreateCommit, CreateStart, FinishFails
<1>4. CASE DestroyStep(t)
  BY <1>2, <1>4 DEF DestroyStep, Removal, DestroyEnter, EnterNamed, DestroyLoad, DestroyCheck,
     DestroyRelease, DestroyUnregister
<1>5. CASE GcStep(t)
  BY <1>5 DEF GcStep, GcEnter, GcRaises, GcScan, GcKeep, GcReclaim, GcLoopEnd, GcAfter,
     GcDiscover, GcOrphan, GcOrphansEnd, GcReferences, GcBridge, GcEpair, GcEpairsEnd,
     GcActive, GcClear
<1> QED
  BY <1>3, <1>4, <1>5 DEF Step

\* A lease stays with a record, whatever step is taken.
LEMMA LeasesOwnedStep ==
  ASSUME IInv, TracesKnown, Quiet', NEW t \in Threads, Step(t)
  PROVE  LeasesOwned'
<1>0. /\ ThreadInv(t) /\ TraceInv(t) /\ PcTypeOK /\ FrameTypeOK
      /\ registry \in [Names -> Records \cup {NoRecord}]
  BY DEF IInv, TypeOK, DiskTypeOK, TracesKnown
<1>1. SUFFICES ASSUME NEW a \in Addresses, NEW n \in Names, leases'[a] = n
               PROVE  \/ n \in Registered' /\ registry'[n].ip = a
                      \/ \E u \in Threads : pc'[u] = "c_write" /\ frame'[u].name = n /\ frame'[u].rec.ip = a
  BY DEF LeasesOwned
<1>2. CASE leases[a] # n
  <2>1. CreateAllocate(t) /\ frame[t].name = n /\ leases' = [leases EXCEPT ![a] = n]
    BY <1>1, <1>2, LeasesGrow
  <2>2. PICK b \in Addresses :
          /\ leases[b] = Unleased /\ leases' = [leases EXCEPT ![b] = n]
          /\ frame' = [frame EXCEPT ![t].rec =
                         [kind |-> frame[t].kind, owner |-> frame[t].owner, ip |-> b,
                          ep |-> NoUnit, md |-> NoUnit, data |-> frame[t].kind = "jail"]]
    BY <2>1 DEF CreateAllocate, Allocate, FreeAddresses
  <2>3. b = a
    BY <1>1, <1>2, <2>2 DEF IInv, TypeOK, DiskTypeOK, PoolTypeOK
  <2>4. pc'[t] = "c_write" /\ frame'[t].name = n /\ frame'[t].rec.ip = a
    BY <1>0, <2>1, <2>2, <2>3 DEF CreateAllocate, Goto, PcTypeOK, FrameTypeOK, Frames
  <2> QED
    BY <2>4
<1>3. CASE leases[a] = n /\ n \in Registered /\ registry[n].ip = a
  <2>1. CASE pc[t] \notin Held \/ n # frame[t].name
    BY <1>3, <2>1, OthersNames DEF Registered
  <2>2. CASE registry' = registry
    BY <1>3, <2>2 DEF Registered
  <2>3. CASE n = frame[t].name /\ CreateWrite(t)
    BY <1>0, <1>3, <2>3 DEF CreateWrite, ThreadInv, Registered
  <2>4. CASE n = frame[t].name /\ CreateCommit(t)
    <3>1. pc[t] \in Building /\ registry'[n] = frame[t].rec
      BY <1>0, <2>4 DEF CreateCommit, Building
    <3>2. frame[t].rec \in Records /\ frame[t].rec.ip = a
      BY <1>0, <1>3, <2>4, <3>1 DEF ThreadInv, TraceInv
    <3> QED
      BY <3>1, <3>2, RecordAssumption DEF Registered
  <2>5. CASE n = frame[t].name /\ DestroyUnregister(t)
    BY <1>0, <1>3, <2>5 DEF DestroyUnregister, TraceInv
  <2>6. CASE Construction(t)
    BY <2>2, <2>6, ConstructionMakes DEF IInv, TypeOK, DiskTypeOK
  <2> QED
    BY <2>1, <2>2, <2>3, <2>4, <2>5, <2>6, FewWrite DEF Untouched, Writes
<1>4. ASSUME NEW u \in Threads, leases[a] = n, pc[u] = "c_write", frame[u].name = n, frame[u].rec.ip = a
      PROVE  \/ n \in Registered' /\ registry'[n].ip = a
             \/ \E v \in Threads : pc'[v] = "c_write" /\ frame'[v].name = n /\ frame'[v].rec.ip = a
  <2>1. CASE u # t
    BY <1>4, <2>1, OthersStay
  <2>2. CASE u = t
    <3>1. CreateWrite(t) /\ frame[t].rec \in Records
      BY <1>0, <1>4, <2>2, WriteFollows DEF ThreadInv
    <3>2. registry'[n] = frame[t].rec
      BY <1>0, <1>4, <2>2, <3>1 DEF CreateWrite
    <3> QED
      BY <1>4, <2>2, <3>1, <3>2, RecordAssumption DEF Registered
  <2> QED
    BY <2>1, <2>2
<1> QED
  BY <1>1, <1>2, <1>3, <1>4 DEF TracesKnown, LeasesOwned

\* The steps that reach the labels at which a create or a destroy knows something.
LEMMA CreatesOnly ==
  ASSUME IInv, NEW t \in Threads, Step(t),
         ~(CreateAllocate(t) \/ CreateWrite(t) \/ CreateCommit(t) \/ Construction(t) \/ CopySource(t))
  PROVE  /\ pc'[t] \notin {"c_write"} \cup Building
         /\ ~(DestroyCheck(t) \/ DestroyRelease(t)) => pc'[t] \notin Removed
<1>0. PcTypeOK
  BY DEF IInv, TypeOK
<1>1. CASE CreateStep(t)
  <2>1. pc'[t] \in {"c_begin", "idle", "d_lock", "ensure", "c_alloc", "ensure_lock", "ensure_configure"}
    BY <1>0, <1>1 DEF CreateStep, Construction, CreateEnter, EnterNamed, CreateDenied,
       CreateReconcile, CreateBegin, EnsureCheck, EnsureLock, EnsureConfigure, EnsureFails,
       Ensured, AllocateFails, WriteFails, CreateStart, FinishFails, Refuse, Reply, CallDestroy,
       Goto, PcTypeOK
  <2> QED
    BY <2>1 DEF Building, Removed
<1>2. CASE DestroyStep(t)
  <2>1. CASE Removal(t)
    <3>1. pc'[t] \in Removing \cup {"idle", "g_loop", "g_orphans"}
      BY <1>0, <2>1, RemovalEffect DEF DestroyReturn, Goto, PcTypeOK
    <3> QED
      BY <3>1 DEF Removing, Building, Removed
  <2>2. CASE DestroyCheck(t) \/ DestroyRelease(t)
    <3>1. pc'[t] \in {"d_release", "d_unregister", "idle", "g_loop", "g_orphans"}
      BY <1>0, <2>2 DEF DestroyCheck, DestroyRelease, DestroyReturn, Goto, PcTypeOK
    <3> QED
      BY <2>2, <3>1 DEF Building
  <2>3. CASE DestroyEnter(t) \/ DestroyLoad(t) \/ DestroyUnregister(t)
    <3>1. pc'[t] \in {"d_load", "d_vm", "idle", "g_loop", "g_orphans"}
      BY <1>0, <2>3 DEF DestroyEnter, EnterNamed, DestroyLoad, DestroyUnregister, DestroyReturn, Goto,
         PcTypeOK
    <3> QED
      BY <3>1 DEF Building, Removed
  <2> QED
    BY <1>2, <2>1, <2>2, <2>3 DEF DestroyStep, Removal
<1>3. CASE GcStep(t)
  BY <1>3, GcMoves, LabelSets DEF GcGoesOn, GcDestroys, GcLabels, Building, Removed
<1> QED
  BY <1>1, <1>2, <1>3 DEF Step

\* What a thread knows of records, disks and leases follows from its own step.
LEMMA TraceMove ==
  ASSUME IInv, TracesKnown, Quiet, Quiet', NEW t \in Threads, Step(t)
  PROVE  TraceInv(t)'
<1> DEFINE f == frame[t]
           n == frame[t].name
<1>0. /\ ThreadInv(t) /\ TraceInv(t) /\ PcTypeOK /\ FrameTypeOK
      /\ registry \in [Names -> Records \cup {NoRecord}] /\ host \subseteq Resources
      /\ faults \in Nat
  BY DEF IInv, TypeOK, DiskTypeOK, ClientTypeOK, TracesKnown
<1>1. CASE CreateAllocate(t)
  <2>1. pc'[t] = "c_write"
    BY <1>0, <1>1, Zenon DEF CreateAllocate, Goto, PcTypeOK
  <2> QED
    BY <2>1 DEF TraceInv, Building
<1>2. CASE CreateWrite(t)
  <2>1. pc[t] = "c_write" /\ registry' = [registry EXCEPT ![n] = f.rec] /\ frame' = frame
    BY <1>2 DEF CreateWrite
  <2>2. pc'[t] \in Building
    BY <1>0, <1>2 DEF CreateWrite, FirstBuildStep, Goto, PcTypeOK, Building
  <2>3. n \in Names
    BY <1>0, <2>1 DEF ThreadInv, Held
  <2>4. registry'[n] = f.rec
    BY <1>0, <2>1, <2>3
  <2> QED
    BY <2>1, <2>2, <2>4 DEF TraceInv, Building
<1>3. CASE CreateCommit(t)
  <2>1. pc[t] = "c_commit" /\ registry' = [registry EXCEPT ![n] = f.rec]
    BY <1>3 DEF CreateCommit
  <2>2. pc'[t] = "idle" \/ (pc'[t] = "c_start" /\ frame' = frame)
    BY <1>0, <1>3 DEF CreateCommit, Reply, Goto, PcTypeOK
  <2>3. n \in Names
    BY <1>0, <2>1 DEF ThreadInv, Held, Building
  <2> QED
    BY <1>0, <2>1, <2>2, <2>3 DEF TraceInv, Building
<1>4. CASE Construction(t)
  <2>1. frame'[t].rec.ip = f.rec.ip /\ frame'[t].name = n /\ registry' = registry /\ pc[t] \in Building
    BY <1>0, <1>4, AddressKept, ConstructionMakes, ConstructionThread
  <2>2. pc'[t] \in Building \cup {"d_lock"}
    BY <1>0, <1>4, ConstructionThread DEF CallDestroy, BuildsOn, Goto, PcTypeOK
  <2> QED
    BY <1>0, <2>1, <2>2 DEF TraceInv, Building
<1>5. CASE CopySource(t)
  <2>1. /\ pc[t] = "c_copy" /\ registry' = registry
        /\ pc'[t] = "d_lock" \/ (pc'[t] = "c_vm" /\ frame' = frame)
    BY <1>0, <1>5 DEF CopySource, CallDestroy, BuildFrame, Goto, PcTypeOK, disk
  <2> QED
    BY <1>0, <2>1 DEF TraceInv, Building
<1>6. CASE DestroyCheck(t)
  <2>1. pc'[t] \in {"d_release", "idle", "g_loop", "g_orphans"}
    BY <1>0, <1>6 DEF DestroyCheck, DestroyReturn, Goto, PcTypeOK
  <2> QED
    BY <2>1 DEF TraceInv, Building
<1>7. CASE DestroyRelease(t)
  <2>1. ~Fault
    BY <1>0 DEF Fault, Quiet
  <2>2. pc[t] = "d_release" /\ pc'[t] = "d_unregister" /\ frame' = frame
    BY <1>0, <1>7, <2>1 DEF DestroyRelease, Goto, PcTypeOK
  <2>3. f.rec = registry[n] /\ n \in Names /\ nameLock[n] = t
    BY <1>0, <2>2 DEF ThreadInv, Removed, Held
  <2>4. ASSUME NEW a \in Addresses, leases'[a] = n PROVE FALSE
    <3>1. leases[a] = n
      <4>1. ~CreateAllocate(t)
        BY <2>2, Zenon DEF CreateAllocate
      <4> QED
        BY <2>3, <2>4, <4>1, LeasesGrow
    <3>2. ASSUME NEW u \in Threads, pc[u] = "c_write", frame[u].name = n PROVE FALSE
      <4>1. nameLock[n] = u
        BY <3>2 DEF IInv, ThreadInv, Held
      <4> QED
        BY <2>2, <2>3, <3>2, <4>1
    <3>3. registry[n] # NoRecord /\ registry[n].ip = a
      BY <2>3, <3>1, <3>2 DEF TracesKnown, LeasesOwned, Registered
    <3>4. leases' = [leases EXCEPT ![a] = Unleased]
      BY <1>7, <2>1, <2>3, <3>1, <3>3 DEF DestroyRelease, Release
    <3> QED
      BY <2>3, <2>4, <3>4, PoolAssumption DEF IInv, TypeOK, DiskTypeOK, PoolTypeOK
  <2> QED
    BY <2>2, <2>4 DEF TraceInv, Building
<1>8. CASE ~(CreateAllocate(t) \/ CreateWrite(t) \/ CreateCommit(t) \/ Construction(t)
             \/ CopySource(t) \/ DestroyCheck(t) \/ DestroyRelease(t))
  BY <1>8, CreatesOnly DEF TraceInv, Removed
<1> QED
  BY <1>1, <1>2, <1>3, <1>4, <1>5, <1>6, <1>7, <1>8

\* A thread touches what carries the name that it holds, and no more.
LEMMA PartsElsewhere ==
  ASSUME IInv, NEW t \in Threads, Step(t), NEW n \in Names, pc[t] \notin Held \/ n # frame[t].name
  PROVE  Named(n) \cap host' = Named(n) \cap host
<1>1. CASE Construction(t)
  <2>1. n # frame[t].name
    BY <1>1, ConstructionThread DEF Held
  <2> QED
    BY <1>1, <2>1, ConstructionHost
<1>2. CASE Removal(t)
  <2>1. n # frame[t].name
    BY <1>2, RemovalEffect DEF Held
  <2> QED
    BY <1>2, <2>1, RemovalHost
<1>3. CASE GcEpair(t)
  <2>1. host' = host \/ \E e : host' = host \ {<<"epair", e>>}
    BY <1>3 DEF GcEpair
  <2> QED
    BY <2>1 DEF Named, Probed
<1>4. CASE CopySource(t)
  BY <1>4 DEF CopySource, Named, Probed
<1> QED
  BY <1>1, <1>2, <1>3, <1>4, FewTouch

\* Nobody else changes what a thread knows of its name.
LEMMA OthersTrace ==
  ASSUME IInv, NEW t \in Threads, Step(t), NEW u \in Threads \ {t}, TraceInv(u)
  PROVE  TraceInv(u)'
<1> DEFINE n == frame[u].name
<1>1. pc'[u] = pc[u] /\ frame'[u] = frame[u]
  BY OthersStay
<1>2. CASE pc[u] \notin {"c_write"} \cup Building \cup Removed
  BY <1>1, <1>2 DEF TraceInv, Removed
<1>3. CASE pc[u] \in {"c_write"} \cup Building \cup Removed
  <2>1. ThreadInv(u) /\ ThreadInv(t)
    BY DEF IInv
  <2>2. pc[u] \in Held /\ n \in Names /\ nameLock[n] = u
    BY <1>3, <2>1 DEF ThreadInv, Held
  <2>3. pc[t] \notin Held \/ n # frame[t].name
    BY <2>1, <2>2 DEF ThreadInv
  <2>4. registry'[n] = registry[n]
    BY <2>2, <2>3, OthersNames
  <2>5. ~(CreateAllocate(t) /\ frame[t].name = n)
    <3>1. CreateAllocate(t) => pc[t] = "c_alloc"
      BY Zenon DEF CreateAllocate
    <3> QED
      BY <2>3, <3>1 DEF Held, Preparing
  <2>6. \A a \in Addresses : leases'[a] = n => leases[a] = n
    BY <2>2, <2>5, LeasesGrow
  <2> QED
    BY <1>1, <2>4, <2>6 DEF TraceInv
<1> QED
  BY <1>2, <1>3

LEMMA TracesStep ==
  ASSUME IInv, Quiet => TracesKnown, [Next]_vars
  PROVE  Quiet' => TracesKnown'
<1> SUFFICES ASSUME Quiet' PROVE TracesKnown'
  OBVIOUS
<1>0. Quiet /\ TracesKnown /\ Workers \subseteq Threads
  BY QuietStays DEF Threads
<1>1. ASSUME NEW t \in Threads, Step(t) PROVE TracesKnown'
  <2>1. LeasesOwned' /\ TraceInv(t)'
    BY <1>0, <1>1, LeasesOwnedStep, TraceMove
  <2>2. \A u \in Threads \ {t} : TraceInv(u)'
    BY <1>0, <1>1, OthersTrace DEF TracesKnown
  <2> QED
    BY <2>1, <2>2 DEF TracesKnown
<1>2. ASSUME NEW t \in Workers, NewRequest(t) PROVE TracesKnown'
  <2>1. /\ pc[t] = "idle" /\ pc'[t] \in {"c_lock", "d_lock", "g_lock"}
        /\ \A u \in Threads \ {t} : pc'[u] = pc[u] /\ frame'[u] = frame[u]
        /\ UNCHANGED <<registry, leases, host>>
    BY <1>2, RequestFields DEF IInv
  <2>2. TraceInv(t)'
    BY <2>1 DEF TraceInv, Building, Removed
  <2>3. \A u \in Threads \ {t} : TraceInv(u)'
    BY <1>0, <2>1 DEF TracesKnown, TraceInv
  <2>4. LeasesOwned'
    <3>1. Registered' = Registered
      BY <2>1 DEF Registered
    <3>2. \A u \in Threads : pc[u] = "c_write" => pc'[u] = pc[u] /\ frame'[u] = frame[u]
      BY <2>1
    <3> QED
      BY <1>0, <2>1, <3>1, <3>2 DEF TracesKnown, LeasesOwned
  <2> QED
    BY <2>2, <2>3, <2>4 DEF TracesKnown
<1>3. CASE Restart
  BY <1>3 DEF Restart, Quiet, IInv, TypeOK, ClientTypeOK
<1>4. CASE UNCHANGED <<pc, frame, registry, leases, host>>
  <2>1. Registered' = Registered
    BY <1>4 DEF Registered
  <2>2. \A u \in Threads : TraceInv(u)'
    BY <1>0, <1>4 DEF TracesKnown, TraceInv
  <2> QED
    BY <1>0, <1>4, <2>1, <2>2 DEF TracesKnown, LeasesOwned
<1> QED
  BY <1>1, <1>2, <1>3, <1>4 DEF Next, Environment, Crash, Reboot, ClientExit, ClientStart, vars,
     disk, threads

\* As long as no command fails and the daemon does not die, a name that no request holds and
\* that is not registered has left nothing: no jail, guest, dataset or prepared disk and no
\* lease (a create that is refused, not failed, has leased nothing yet, and destroy drops the
\* record last, after the release).
THEOREM NothingUnregistered ==
  Spec => [](Quiet => \A n \in Names : nameLock[n] = Nobody /\ registry[n] = NoRecord => NoTrace(n))
<1>1. Init => IInv /\ (Quiet => TracesKnown)
  <2> SUFFICES ASSUME Init PROVE TracesKnown
    BY InitIInv
  <2>1. /\ host = {} /\ \A t \in Threads : pc[t] \in {"g_lock", "idle"}
        /\ \A a \in Addresses : leases[a] = Unleased
    BY DEF Init, BootPc, PoolInit
  <2>2. \A t \in Threads : TraceInv(t)
    BY <2>1 DEF TraceInv, Building, Removed
  <2> QED
    BY <2>1, <2>2, PoolAssumption DEF TracesKnown, LeasesOwned
<1>2. IInv /\ (Quiet => TracesKnown) /\ [Next]_vars => IInv' /\ (Quiet' => TracesKnown')
  BY Invariance, TracesStep
<1>3. IInv /\ (Quiet => TracesKnown) =>
        (Quiet => \A n \in Names : nameLock[n] = Nobody /\ registry[n] = NoRecord => NoTrace(n))
  <2> SUFFICES ASSUME IInv, Quiet, TracesKnown, NEW n \in Names, nameLock[n] = Nobody,
                      registry[n] = NoRecord
               PROVE  NoTrace(n)
    OBVIOUS
  <2>1. Named(n) \cap host = {}
    BY HostKnown
  <2>2. ASSUME NEW t \in Threads, pc[t] = "c_write", frame[t].name = n PROVE FALSE
    BY <2>2, DaemonAssumption DEF IInv, ThreadInv, Held
  <2>3. \A a \in Addresses : leases[a] # n
    BY <2>2 DEF TracesKnown, LeasesOwned, Registered
  <2> QED
    BY <2>1, <2>3 DEF NoTrace
<1> QED
  BY <1>1, <1>2, <1>3, PTL DEF Spec

\* No two runtimes can share a unit: there is one name, or runtimes are guests whose disks
\* are not memory disks.
Unshared == (\A m, n \in Names : m = n) \/ (Kinds \subseteq {"bhyve"} /\ "memdisk" \notin Backends)

\* No client is root, and the threads are where GuardInvariant, AddressesAreDistinct and
\* Reconciliation have shown them to be.
Placed ==
  /\ IInv /\ StartupInv /\ ClientsInv /\ MainInv
  /\ \A t \in Threads : LockInv(t) /\ RightsInv(t) /\ AddressInv(t)

\* Only root sweeps the epairs.
SweepInv == \A t \in Threads : pc[t] \in {"g_refs", "g_bridge", "g_epairs"} => frame[t].uid = 0

LEMMA SweepStep ==
  ASSUME Placed, SweepInv, [Next]_vars
  PROVE  SweepInv'
<1>0. IInv /\ Workers \subseteq Threads /\ Main \in Threads
  BY DEF Placed, Threads
<1>1. ASSUME NEW t \in Threads, Step(t) PROVE SweepInv'
  <2>1. SUFFICES ASSUME pc'[t] \in {"g_refs", "g_bridge", "g_epairs"} PROVE frame'[t].uid = 0
    BY <1>0, <1>1, OthersStay DEF SweepInv
  <2>2. pc'[t] \notin Held \cup {"idle", "d_lock", "g_loop", "g_orphans"}
    BY <2>1, LabelSets DEF GcLabels
  <2>3. GcStep(t)
    BY <1>0, <1>1, <2>2, CreateMoves, DestroyMoves, LabelSets DEF Step, EntersName, CreateGoesOn,
       CreateDestroys, LeavesName, DestroyGoesOn, Held
  <2>4. \/ GcOrphansEnd(t) \/ GcReferences(t) \/ GcBridge(t) \/ GcEpair(t)
    BY <1>0, <2>1, <2>3 DEF GcStep, GcEnter, GcRaises, GcReturn, GcScan, GcKeep, GcReclaim, GcCall,
       GcLoopEnd, GcAfter, GcDiscover, GcOrphan, GcEpairsEnd, GcActive, GcClear, Goto, IInv,
       TypeOK, PcTypeOK
  <2>5. frame' = frame /\ pc[t] \in {"g_orphans", "g_refs", "g_bridge", "g_epairs"}
    BY <2>4 DEF GcOrphansEnd, GcReferences, GcBridge, GcEpair, GcRead
  <2> QED
    BY <2>5 DEF Placed, RightsInv, SweepInv
<1>2. ASSUME NEW t \in Workers, NewRequest(t) PROVE SweepInv'
  BY <1>0, <1>2, RequestFields DEF SweepInv, IInv
<1>3. CASE Restart
  BY <1>3 DEF Restart, BootPc, SweepInv
<1>4. CASE UNCHANGED <<pc, frame>>
  BY <1>4 DEF SweepInv
<1> QED
  BY <1>1, <1>2, <1>3, <1>4 DEF Next, Environment, Crash, Reboot, ClientExit, ClientStart, vars, threads

\* Before the daemon serves for the first time, there is nothing.
FreshInv == crashes = 0 /\ ~serving => host = {} /\ member = {} /\ Registered = {}

LEMMA FreshStep ==
  ASSUME Placed, FreshInv, [Next]_vars
  PROVE  FreshInv'
<1>0. IInv /\ Workers \subseteq Threads /\ Main \in Threads /\ crashes \in Nat /\ member \subseteq Epairs
      /\ registry \in [Names -> Records \cup {NoRecord}]
  BY DEF Placed, Threads, IInv, TypeOK, ClientTypeOK, DiskTypeOK
<1>1. ASSUME NEW t \in Threads, Step(t) PROVE FreshInv'
  <2>1. SUFFICES ASSUME crashes' = 0, ~serving'
                 PROVE  host' = {} /\ member' = {} /\ Registered' = {}
    BY DEF FreshInv
  <2>2. crashes = 0
    BY <1>0, <1>1, <2>1, ClientStep DEF Next
  <2>3. ~serving
    BY <1>0, <1>1, <2>1, StartupMove
  <2>4. host = {} /\ member = {} /\ Registered = {}
    BY <2>2, <2>3 DEF FreshInv
  <2>5. t = Main /\ pc[t] # "idle"
    BY <1>0, <1>1, <2>3, ThreadMoves, CallerKept DEF Placed, StartupInv, Threads
  <2>6. pc[t] \in GcLabels \cup Destroying \cup {"d_lock"}
    BY <2>5 DEF Placed, MainInv
  <2>7. ~CreateStep(t)
    BY <1>0, <2>6, CreateLabels, LabelSets
  <2>8. host' \subseteq host /\ member' \subseteq member
    <3>1. CASE Construction(t) \/ CopySource(t)
      BY <2>7, <3>1 DEF Construction, CreateStep
    <3>2. CASE Removal(t)
      BY <3>2, RemovalEffect
    <3>3. CASE GcEpair(t)
      <4>1. UNCHANGED <<host, member>> \/ \E e : host' = host \ {<<"epair", e>>} /\ member' = member \ {e}
        BY <3>3 DEF GcEpair
      <4> QED
        BY <4>1
    <3> QED
      BY <1>1, <3>1, <3>2, <3>3, FewTouch
  <2>9. \A n \in Names : registry'[n] \in {registry[n], NoRecord}
    BY <1>0, <1>1, <2>7, DestroyKeeps, GcMoves DEF Step, GcGoesOn, GcDestroys
  <2> QED
    BY <2>4, <2>8, <2>9 DEF Registered
<1>2. ASSUME NEW t \in Workers, NewRequest(t) PROVE FreshInv'
  BY <1>0, <1>2, RequestFields DEF FreshInv, IInv
<1>3. CASE Restart
  BY <1>0, <1>3 DEF Restart, FreshInv
<1>4. CASE UNCHANGED <<serving, crashes, host, member, registry>>
  BY <1>4 DEF FreshInv, Registered
<1> QED
  BY <1>1, <1>2, <1>3, <1>4 DEF Next, Environment, Crash, Reboot, ClientExit, ClientStart, vars,
     disk, daemon

\* Who does not hold the only name touches nothing.
LEMMA OneName ==
  ASSUME Placed, SweepInv, FreshInv, Quiet, \A m, n \in Names : m = n,
         NEW t \in Threads, Step(t), NEW n \in Names, pc[t] \notin Held \/ n # frame[t].name
  PROVE  UNCHANGED <<host, member>>
<1>1. pc[t] \notin Held
  BY DEF Placed, IInv, ThreadInv
<1>2. ~Construction(t) /\ ~Removal(t) /\ ~CopySource(t)
  BY <1>1, ConstructionThread, RemovalEffect DEF Held, Placed, CopySource, Building
<1>3. CASE GcEpair(t)
  <2>1. pc[t] = "g_epairs"
    BY <1>3 DEF GcEpair
  <2>2. t = Main
    BY <2>1 DEF SweepInv, Placed, ClientsInv, Threads
  <2>3. host = {} /\ member = {}
    BY <2>1, <2>2 DEF FreshInv, Placed, StartupInv, Quiet
  <2>4. UNCHANGED <<host, member>> \/ \E e : host' = host \ {<<"epair", e>>} /\ member' = member \ {e}
    BY <1>3 DEF GcEpair
  <2> QED
    BY <2>3, <2>4
<1> QED
  BY <1>2, <1>3, FewTouch

\* The record of a guest whose disk is not a memory disk.
UnitFree(r) == r.kind = "bhyve" /\ r.ep = NoUnit /\ r.md = NoUnit

\* With guests only, none on memory disks, no record has a unit.
UnitsUnused ==
  Kinds \subseteq {"bhyve"} /\ "memdisk" \notin Backends =>
    /\ \A n \in Registered : UnitFree(registry[n])
    /\ \A t \in Threads :
         /\ pc[t] \in Preparing \cup {"c_lock", "c_begin"} => frame[t].kind = "bhyve"
         /\ pc[t] \in {"c_write"} \cup Building => UnitFree(frame[t].rec)
         /\ pc[t] \in Building => pc[t] \in {"c_vm", "c_commit", "c_start"}

\* A create goes on with the kind it was asked for until its record is made.
LEMMA KindKept ==
  ASSUME IInv, NEW t \in Threads, Step(t), pc'[t] \in Preparing \cup {"c_lock", "c_begin"}
  PROVE  pc[t] \in Preparing \cup {"c_lock", "c_begin"} /\ frame'[t].kind = frame[t].kind
<1>0. PcTypeOK /\ FrameTypeOK
  BY DEF IInv, TypeOK
<1>1. pc'[t] \notin {"idle", "d_lock"} \cup Building \cup Destroying \cup GcLabels
  BY DEF Preparing, Building, Destroying, Removing, Removed, GcLabels
<1>2. CreateStep(t)
  <2>1. ~DestroyStep(t)
    <3>1. DestroyStep(t) => pc[t] # "c_lock"
      BY DestroyKeeps DEF Destroying, Removing, Removed
    <3>2. "d_load" \in Destroying /\ {"g_loop", "g_orphans"} \subseteq GcLabels
      BY DEF Destroying, GcLabels
    <3> QED
      BY <1>1, <3>1, <3>2, DestroyMoves, LabelSets DEF EntersName, DestroyGoesOn, LeavesName
  <2>2. ~GcStep(t)
    BY <1>1, GcMoves DEF GcGoesOn, GcDestroys
  <2> QED
    BY <2>1, <2>2 DEF Step
<1>3. ~Construction(t)
  <2>1. Construction(t) => pc'[t] \in Building \cup {"d_lock"}
    BY <1>0, ConstructionThread DEF CallDestroy, BuildsOn, Goto, PcTypeOK
  <2> QED
    BY <1>1, <2>1
<1>4. CASE CreateEnter(t)
  BY <1>0, <1>4 DEF CreateEnter, EnterNamed
<1>5. CASE CreateBegin(t)
  BY <1>0, <1>5 DEF CreateBegin, FrameTypeOK, Frames
<1>6. CASE EnsureCheck(t) \/ EnsureLock(t) \/ EnsureConfigure(t)
  BY <1>0, <1>6 DEF EnsureCheck, EnsureLock, EnsureConfigure, Ensured, FrameTypeOK, Frames, Preparing
<1>7. CASE CreateAllocate(t) \/ CreateWrite(t) \/ CreateCommit(t)
  <2>1. pc'[t] \in {"c_write", "idle"} \cup Building
    BY <1>0, <1>7, Zenon DEF CreateAllocate, CreateWrite, CreateCommit, FirstBuildStep, Reply, Goto,
       PcTypeOK, Building
  <2> QED
    BY <1>1, <2>1 DEF Preparing
<1>8. CASE CreateDenied(t) \/ CreateReconcile(t) \/ EnsureFails(t) \/ AllocateFails(t)
           \/ WriteFails(t) \/ CopySource(t) \/ CreateStart(t) \/ FinishFails(t)
  <2>1. pc'[t] \in {"idle", "d_lock", "c_vm"}
    BY <1>0, <1>8 DEF CreateDenied, CreateReconcile, EnsureFails, AllocateFails, WriteFails,
       CopySource, CreateStart, FinishFails, Refuse, Reply, CallDestroy, Goto, PcTypeOK
  <2> QED
    BY <1>1, <2>1 DEF Building
<1> QED
  BY <1>2, <1>3, <1>4, <1>5, <1>6, <1>7, <1>8 DEF CreateStep, Construction

LEMMA UnitsMove ==
  ASSUME IInv, UnitsUnused, Kinds \subseteq {"bhyve"} /\ "memdisk" \notin Backends,
         NEW t \in Threads, Step(t)
  PROVE  UnitsUnused'
<1> DEFINE n == frame[t].name
           r == frame[t].rec
<1>0. /\ PcTypeOK /\ FrameTypeOK /\ ThreadInv(t) /\ backend \in Backends
      /\ registry \in [Names -> Records \cup {NoRecord}]
  BY DEF IInv, TypeOK, DiskTypeOK, DaemonTypeOK
<1>a. /\ \A m \in Registered : UnitFree(registry[m])
      /\ pc[t] \in Preparing \cup {"c_lock", "c_begin"} => frame[t].kind = "bhyve"
      /\ pc[t] \in {"c_write"} \cup Building => UnitFree(r)
      /\ pc[t] \in Building => pc[t] \in {"c_vm", "c_commit", "c_start"}
  BY DEF UnitsUnused
<1>b. pc'[t] \in Preparing \cup {"c_lock", "c_begin"} => frame'[t].kind = "bhyve"
  BY <1>a, KindKept
<1>1. \A m \in Registered' : UnitFree(registry'[m])
  <2>1. ASSUME NEW m \in Names, registry'[m] # NoRecord, registry'[m] # registry[m]
        PROVE  UnitFree(registry'[m])
    <3>1. m = n /\ (CreateWrite(t) \/ CreateCommit(t))
      <4>1. pc[t] \in Held /\ m = n
        BY <2>1, OthersNames
      <4>2. ~Construction(t)
        BY <2>1, ConstructionMakes DEF IInv, TypeOK, DiskTypeOK
      <4>3. ~DestroyUnregister(t)
        BY <1>0, <2>1, <4>1 DEF DestroyUnregister
      <4> QED
        BY <2>1, <4>1, <4>2, <4>3, FewWrite DEF Untouched, Writes
    <3>2. registry'[m] = r /\ pc[t] \in {"c_write"} \cup Building
      BY <1>0, <3>1 DEF CreateWrite, CreateCommit, Building
    <3> QED
      BY <1>a, <3>2
  <2> QED
    BY <1>a, <2>1 DEF Registered
<1>2. /\ pc'[t] \in {"c_write"} \cup Building => UnitFree(frame'[t].rec)
      /\ pc'[t] \in Building => pc'[t] \in {"c_vm", "c_commit", "c_start"}
  <2>1. CASE CreateAllocate(t)
    <3>1. PICK b \in Addresses : frame' = [frame EXCEPT ![t].rec =
                         [kind |-> frame[t].kind, owner |-> frame[t].owner, ip |-> b,
                          ep |-> NoUnit, md |-> NoUnit, data |-> frame[t].kind = "jail"]]
      BY <2>1 DEF CreateAllocate
    <3>2. PICK d \in BOOLEAN : d = (frame[t].kind = "jail")
      OBVIOUS
    <3>3. pc'[t] = "c_write" /\ frame[t].kind = "bhyve"
      BY <1>0, <1>a, <2>1, Zenon DEF CreateAllocate, Goto, PcTypeOK, Preparing
    <3>4. UnitFree(frame'[t].rec)
      BY <1>0, <3>1, <3>2, <3>3 DEF FrameTypeOK, Frames, UnitFree
    <3> QED
      BY <3>3, <3>4 DEF Building
  <2>2. CASE CreateWrite(t)
    <3>1. frame' = frame /\ pc[t] = "c_write" /\ r.kind = frame[t].kind
      BY <1>0, <2>2 DEF CreateWrite, ThreadInv
    <3>2. frame[t].kind = "bhyve"
      BY <1>a, <3>1 DEF UnitFree
    <3>3. pc'[t] = "c_vm"
      BY <1>0, <2>2, <3>2 DEF CreateWrite, FirstBuildStep, Goto, PcTypeOK
    <3> QED
      BY <1>a, <3>1, <3>3
  <2>3. CASE CreateCommit(t)
    <3>1. pc[t] \in Building /\ (pc'[t] = "idle" \/ (pc'[t] = "c_start" /\ frame' = frame))
      BY <1>0, <2>3 DEF CreateCommit, Reply, Goto, PcTypeOK, Building
    <3> QED
      BY <1>a, <3>1 DEF Building
  <2>4. CASE Construction(t)
    <3>1. pc[t] \in Building
      BY <2>4, ConstructionThread DEF IInv
    <3>2. CreateVm(t)
      BY <1>a, <2>4, <3>1 DEF Construction, CloneDataset, CreateEpair, AddMember, StartJail,
         CreateMemdisk, CloneSource, CreateVm, Build
    <3>3. PICK z \in BOOLEAN :
            \/ CallDestroy(t, TRUE)
            \/ Goto(t, "c_commit") /\ frame' = [frame EXCEPT ![t].rec = [r EXCEPT !.data = z]]
      BY <3>2 DEF CreateVm, Build, BuildOk, BuildFails
    <3>4. r \in Records
      BY <1>0, <3>1 DEF ThreadInv
    <3>5. UnitFree([r EXCEPT !.data = z])
      BY <1>a, <3>1, <3>4 DEF UnitFree, Records
    <3>6. CASE CallDestroy(t, TRUE)
      BY <1>0, <3>6 DEF CallDestroy, Goto, PcTypeOK, Building
    <3>7. CASE Goto(t, "c_commit") /\ frame' = [frame EXCEPT ![t].rec = [r EXCEPT !.data = z]]
      BY <1>0, <3>5, <3>7, SameName DEF Goto, PcTypeOK
    <3> QED
      BY <3>3, <3>6, <3>7
  <2>5. ~CopySource(t)
    BY <1>a, Zenon DEF CopySource, Building
  <2>6. CASE ~(CreateAllocate(t) \/ CreateWrite(t) \/ CreateCommit(t) \/ Construction(t))
    <3>1. pc'[t] \notin {"c_write"} \cup Building
      BY <2>5, <2>6, CreatesOnly
    <3> QED
      BY <3>1
  <2> QED
    BY <2>1, <2>2, <2>3, <2>4, <2>6
<1> QED
  BY <1>1, <1>2, <1>b, OthersStay DEF UnitsUnused

\* The commands of a create that are done when a jail, or a guest, is complete.
JailDone(t) == pc[t] = "c_commit" /\ frame[t].kind = "jail"

GuestDone(t) == pc[t] = "c_start" \/ (pc[t] = "c_commit" /\ frame[t].kind = "bhyve")

\* The memory disk that the backend asks for exists.
MdMade(r) == (backend = "memdisk" <=> r.md # NoUnit) /\ RecordedMd(r) \subseteq host

\* What a create has made at each label, and what its next command needs to be absent.
BuildInv(t) ==
  LET n == frame[t].name
      r == frame[t].rec IN
  /\ pc[t] = "c_write" => r.md = NoUnit
  /\ pc[t] \in {"c_clone", "c_epair", "c_addm", "c_jail"} =>
       frame[t].kind = "jail" /\ <<"jail", n>> \notin host
  /\ pc[t] = "c_clone" => <<"dataset", n>> \notin host
  /\ pc[t] \in {"c_epair", "c_addm", "c_jail"} \/ JailDone(t) => <<"dataset", n>> \in host
  /\ pc[t] \in {"c_addm", "c_jail"} \/ JailDone(t) => <<"epair", r.ep>> \in host
  /\ pc[t] = "c_jail" \/ JailDone(t) => r.ep \in member
  /\ JailDone(t) => <<"jail", n>> \in host
  /\ pc[t] \in {"c_md", "c_source", "c_copy", "c_vm"} => <<"vm", n>> \notin host
  /\ pc[t] = "c_md" => backend = "memdisk"
  /\ pc[t] \in {"c_source", "c_copy", "c_vm"} \/ GuestDone(t) => MdMade(r)
  /\ GuestDone(t) => <<"vm", n>> \in host /\ RecordedData(r, n) \subseteq host
  /\ pc[t] = "c_start" => r = registry[n]

\* While nothing fails, a command of a create that is possible succeeds.
LEMMA NothingFails ==
  ASSUME IInv, Quiet'
  PROVE  ~Fault
BY DEF Fault, Quiet, IInv, TypeOK, ClientTypeOK

\* A command of a create that succeeds goes on with its record.
LEMMA BuildSucceeds ==
  ASSUME IInv, NEW t \in Threads, NEW new, NEW rec, NEW to, BuildOk(t, new, rec, to), BuildFrame
  PROVE  /\ host' = host \cup new /\ frame' = [frame EXCEPT ![t].rec = rec]
         /\ pc'[t] = to /\ frame'[t].rec = rec
         /\ frame'[t].name = frame[t].name /\ frame'[t].kind = frame[t].kind
         /\ backend' = backend /\ registry' = registry
<1>0. PcTypeOK /\ FrameTypeOK
  BY DEF IInv, TypeOK
<1> QED
  BY <1>0, SameName DEF BuildOk, BuildFrame, Goto, PcTypeOK, disk, daemon

LEMMA CloneBuilds ==
  ASSUME Placed, Quiet', NEW t \in Threads, BuildInv(t), CloneDataset(t)
  PROVE  BuildInv(t)'
<1> DEFINE n == frame[t].name
           d == <<"dataset", frame[t].name>>
<1>1. pc[t] = "c_clone" /\ IInv
  BY DEF CloneDataset, Build, Placed
<1>2. d \notin host /\ <<"jail", n>> \notin host /\ frame[t].kind = "jail"
  BY <1>1 DEF BuildInv
<1>3. BuildOk(t, {d}, frame[t].rec, "c_epair") /\ BuildFrame
  BY <1>1, <1>2, NothingFails DEF CloneDataset, Build, BuildFails
<1>4. /\ host' = host \cup {d} /\ pc'[t] = "c_epair" /\ frame'[t].rec = frame[t].rec
      /\ frame'[t].name = n /\ frame'[t].kind = frame[t].kind
  BY <1>1, <1>3, BuildSucceeds
<1> QED
  BY <1>2, <1>4 DEF BuildInv, JailDone, GuestDone

LEMMA EpairBuilds ==
  ASSUME Placed, Quiet', NEW t \in Threads, BuildInv(t), CreateEpair(t)
  PROVE  BuildInv(t)'
<1> DEFINE n == frame[t].name
<1>1. IInv /\ frame[t].rec \in Records /\ pc[t] = "c_epair"
  BY DEF CreateEpair, Build, Placed, IInv, ThreadInv, Building
<1>2. PICK u \in Epairs :
        BuildOk(t, {<<"epair", u>>}, [frame[t].rec EXCEPT !.ep = u], "c_addm") /\ BuildFrame
  BY <1>1, NothingFails DEF CreateEpair, Build, BuildFails, FreeUnits
<1>3. /\ host' = host \cup {<<"epair", u>>} /\ pc'[t] = "c_addm"
      /\ frame'[t].rec = [frame[t].rec EXCEPT !.ep = u]
      /\ frame'[t].name = n /\ frame'[t].kind = frame[t].kind
  BY <1>1, <1>2, BuildSucceeds
<1>4. frame'[t].rec.ep = u
  BY <1>1, <1>3 DEF Records
<1>5. <<"dataset", n>> \in host /\ <<"jail", n>> \notin host /\ frame[t].kind = "jail"
  BY <1>1 DEF BuildInv
<1> QED
  BY <1>3, <1>4, <1>5 DEF BuildInv, JailDone, GuestDone

LEMMA MemberBuilds ==
  ASSUME Placed, Quiet', NEW t \in Threads, BuildInv(t), AddMember(t)
  PROVE  BuildInv(t)'
<1> DEFINE n == frame[t].name
           e == frame[t].rec.ep
<1>1. pc[t] = "c_addm" /\ IInv
  BY DEF AddMember, Build, Placed
<1>2. /\ <<"dataset", n>> \in host /\ <<"jail", n>> \notin host /\ frame[t].kind = "jail"
      /\ <<"epair", e>> \in host
  BY <1>1 DEF BuildInv
<1>3. BuildOk(t, {}, frame[t].rec, "c_jail") /\ BuildFrame
  BY <1>1, <1>2, NothingFails DEF AddMember, Build, BuildFails
<1>4. /\ host' = host /\ pc'[t] = "c_jail" /\ frame'[t].rec = frame[t].rec
      /\ frame'[t].name = n /\ frame'[t].kind = frame[t].kind
  BY <1>1, <1>3, BuildSucceeds
<1>5. e \in member'
  BY <1>4 DEF AddMember
<1> QED
  BY <1>2, <1>4, <1>5 DEF BuildInv, JailDone, GuestDone

LEMMA JailBuilds ==
  ASSUME Placed, Quiet', NEW t \in Threads, BuildInv(t), StartJail(t)
  PROVE  BuildInv(t)'
<1> DEFINE n == frame[t].name
           j == <<"jail", frame[t].name>>
           e == frame[t].rec.ep
<1>1. pc[t] = "c_jail" /\ IInv /\ member' = member
  BY DEF StartJail, Build, Placed
<1>2. /\ <<"dataset", n>> \in host /\ j \notin host /\ frame[t].kind = "jail"
      /\ <<"epair", e>> \in host /\ e \in member
  BY <1>1 DEF BuildInv
<1>3. BuildOk(t, {j}, frame[t].rec, "c_commit") /\ BuildFrame
  BY <1>1, <1>2, NothingFails DEF StartJail, Build, BuildFails
<1>4. /\ host' = host \cup {j} /\ pc'[t] = "c_commit" /\ frame'[t].rec = frame[t].rec
      /\ frame'[t].name = n /\ frame'[t].kind = frame[t].kind
  BY <1>1, <1>3, BuildSucceeds
<1> QED
  BY <1>1, <1>2, <1>4 DEF BuildInv, JailDone, GuestDone

LEMMA MemdiskBuilds ==
  ASSUME Placed, Quiet', NEW t \in Threads, BuildInv(t), CreateMemdisk(t)
  PROVE  BuildInv(t)'
<1> DEFINE n == frame[t].name
<1>1. IInv /\ frame[t].rec \in Records /\ pc[t] = "c_md"
  BY DEF CreateMemdisk, Build, Placed, IInv, ThreadInv, Building
<1>2. PICK u \in Mds :
        BuildOk(t, {<<"md", u>>}, [frame[t].rec EXCEPT !.md = u], "c_source") /\ BuildFrame
  BY <1>1, NothingFails DEF CreateMemdisk, Build, BuildFails, FreeUnits
<1>3. /\ host' = host \cup {<<"md", u>>} /\ pc'[t] = "c_source"
      /\ frame'[t].rec = [frame[t].rec EXCEPT !.md = u]
      /\ frame'[t].name = n /\ backend' = backend
  BY <1>1, <1>2, BuildSucceeds
<1>4. frame'[t].rec.md = u /\ u # NoUnit
  BY <1>1, <1>3, DaemonAssumption DEF Records
<1>5. <<"vm", n>> \notin host /\ backend = "memdisk"
  BY <1>1 DEF BuildInv
<1>6. MdMade(frame[t].rec)'
  BY <1>3, <1>4, <1>5 DEF MdMade, RecordedMd
<1> QED
  BY <1>3, <1>5, <1>6 DEF BuildInv, JailDone, GuestDone

LEMMA SourceBuilds ==
  ASSUME Placed, Quiet', NEW t \in Threads, BuildInv(t), CloneSource(t)
  PROVE  BuildInv(t)'
<1> DEFINE n == frame[t].name
<1>1. pc[t] = "c_source" /\ IInv
  BY DEF CloneSource, Build, Placed
<1>2. PICK s \in {{}, {<<"source", n>>}}, l \in {"c_copy", "c_vm"} :
        BuildOk(t, s, frame[t].rec, l) /\ BuildFrame
  <2>1. ~Fault
    BY <1>1, NothingFails
  <2>2. CASE Build(t, "c_source", TRUE, {<<"source", n>>}, frame[t].rec, "c_copy")
    BY <2>1, <2>2 DEF Build, BuildFails
  <2>3. CASE Build(t, "c_source", TRUE, {}, frame[t].rec, "c_vm")
    BY <2>1, <2>3 DEF Build, BuildFails
  <2> QED
    BY <2>2, <2>3 DEF CloneSource
<1>3. /\ host' = host \cup s /\ pc'[t] = l /\ frame'[t].rec = frame[t].rec
      /\ frame'[t].name = n /\ backend' = backend
  BY <1>1, <1>2, BuildSucceeds
<1>4. <<"vm", n>> \notin host /\ MdMade(frame[t].rec)
  BY <1>1 DEF BuildInv
<1>5. MdMade(frame[t].rec)'
  BY <1>3, <1>4 DEF MdMade
<1> QED
  BY <1>2, <1>3, <1>4, <1>5 DEF BuildInv, JailDone, GuestDone

LEMMA CopyBuilds ==
  ASSUME Placed, Quiet', NEW t \in Threads, BuildInv(t), CopySource(t)
  PROVE  BuildInv(t)'
<1> DEFINE n == frame[t].name
<1>1. pc[t] = "c_copy" /\ IInv /\ PcTypeOK
  BY DEF CopySource, Placed, IInv, TypeOK
<1>2. host' = host \ {<<"source", n>>} /\ pc'[t] = "c_vm" /\ frame' = frame /\ backend' = backend
  BY <1>1, NothingFails DEF CopySource, Goto, PcTypeOK, BuildFrame, daemon
<1>3. <<"vm", n>> \notin host /\ MdMade(frame[t].rec)
  BY <1>1 DEF BuildInv
<1>4. RecordedMd(frame[t].rec) \subseteq host'
  BY <1>2, <1>3 DEF MdMade, RecordedMd
<1>5. MdMade(frame[t].rec)'
  BY <1>2, <1>3, <1>4 DEF MdMade
<1> QED
  BY <1>2, <1>3, <1>5 DEF BuildInv, JailDone, GuestDone

LEMMA VmBuilds ==
  ASSUME Placed, Quiet, Quiet', NEW t \in Threads, BuildInv(t), CreateVm(t)
  PROVE  BuildInv(t)'
<1> DEFINE n == frame[t].name
           r == frame[t].rec
<1>1. pc[t] = "c_vm" /\ IInv
  BY DEF CreateVm, Build, Placed
<1>2. frame[t].kind = "bhyve" /\ r \in Records /\ r.kind = "bhyve" /\ n \in Names
  BY <1>1 DEF IInv, ThreadInv, Building, Guest, Held
<1>3. <<"vm", n>> \notin host /\ MdMade(r) /\ <<"vmdata", n>> \notin host
  BY <1>1, <1>2, HostKnown DEF BuildInv, Disk
<1>4. {<<"vm", n>>, <<"vmdata", n>>} \cap host = {}
  BY <1>3
<1>5. PICK z \in BOOLEAN :
        /\ BuildOk(t, {<<"vm", n>>} \cup (IF z THEN {<<"vmdata", n>>} ELSE {}),
                   [r EXCEPT !.data = z], "c_commit")
        /\ BuildFrame
  BY <1>1, <1>4, NothingFails DEF CreateVm, Build, BuildFails
<1>6. PICK s : s = {<<"vm", n>>} \cup (IF z THEN {<<"vmdata", n>>} ELSE {})
  OBVIOUS
<1>7. /\ host' = host \cup s /\ pc'[t] = "c_commit" /\ frame'[t].rec = [r EXCEPT !.data = z]
      /\ frame'[t].name = n /\ frame'[t].kind = "bhyve" /\ backend' = backend
  BY <1>1, <1>2, <1>5, <1>6, BuildSucceeds
<1>8. /\ frame'[t].rec.md = r.md /\ frame'[t].rec.kind = "bhyve" /\ frame'[t].rec.data = z
      /\ frame'[t].rec \in Records
  BY <1>2, <1>7 DEF Records
<1>9. MdMade(frame[t].rec)'
  BY <1>2, <1>3, <1>7, <1>8, RecordAssumption DEF MdMade, RecordedMd
<1>10. <<"vm", n>> \in host' /\ RecordedData(frame'[t].rec, n) \subseteq host'
  BY <1>6, <1>7, <1>8 DEF RecordedData
<1> QED
  BY <1>7, <1>9, <1>10 DEF BuildInv, JailDone, GuestDone

\* What a create has made follows from its own step.
LEMMA BuildMove ==
  ASSUME Placed, Quiet, Quiet', NEW t \in Threads, Step(t), BuildInv(t)
  PROVE  BuildInv(t)'
<1> DEFINE n == frame[t].name
           r == frame[t].rec
<1>0. /\ IInv /\ PcTypeOK /\ FrameTypeOK /\ ThreadInv(t)
      /\ registry \in [Names -> Records \cup {NoRecord}]
  BY DEF Placed, IInv, TypeOK, DiskTypeOK
<1>1. CASE CreateAllocate(t)
  <2>1. PICK b \in Addresses : frame' = [frame EXCEPT ![t].rec =
                       [kind |-> frame[t].kind, owner |-> frame[t].owner, ip |-> b,
                        ep |-> NoUnit, md |-> NoUnit, data |-> frame[t].kind = "jail"]]
    BY <1>1 DEF CreateAllocate
  <2>2. PICK d \in BOOLEAN : d = (frame[t].kind = "jail")
    OBVIOUS
  <2>3. pc'[t] = "c_write"
    BY <1>0, <1>1, Zenon DEF CreateAllocate, Goto, PcTypeOK
  <2>4. frame'[t].rec.md = NoUnit
    BY <1>0, <2>1, <2>2 DEF FrameTypeOK, Frames
  <2> QED
    BY <2>3, <2>4 DEF BuildInv, JailDone, GuestDone
<1>2. CASE CreateWrite(t)
  <2>1. pc[t] = "c_write" /\ frame' = frame /\ host' = host /\ backend' = backend /\ n \in Names
    BY <1>0, <1>2 DEF CreateWrite, daemon, ThreadInv, Held
  <2>2. Named(n) \cap host = {} /\ r \in Records /\ r.md = NoUnit
    BY <1>0, <2>1, HostKnown DEF ThreadInv, BuildInv
  <2>3. frame[t].kind \in {"jail", "bhyve"}
    BY <1>0 DEF FrameTypeOK, Frames
  <2>4. CASE frame[t].kind = "jail"
    <3>1. pc'[t] = "c_clone"
      BY <1>0, <1>2, <2>4 DEF CreateWrite, FirstBuildStep, Goto, PcTypeOK
    <3> QED
      BY <2>1, <2>2, <2>4, <3>1 DEF BuildInv, JailDone, GuestDone, Named, Probed
  <2>5. CASE frame[t].kind = "bhyve" /\ backend = "memdisk"
    <3>1. pc'[t] = "c_md"
      BY <1>0, <1>2, <2>5 DEF CreateWrite, FirstBuildStep, Goto, PcTypeOK
    <3> QED
      BY <2>1, <2>2, <2>5, <3>1 DEF BuildInv, JailDone, GuestDone, Named, Probed
  <2>6. CASE frame[t].kind = "bhyve" /\ backend # "memdisk"
    <3>1. pc'[t] = "c_vm"
      BY <1>0, <1>2, <2>6 DEF CreateWrite, FirstBuildStep, Goto, PcTypeOK
    <3>2. MdMade(frame[t].rec)'
      BY <2>1, <2>2, <2>6 DEF MdMade, RecordedMd
    <3> QED
      BY <2>1, <2>2, <3>1, <3>2 DEF BuildInv, JailDone, GuestDone, Named, Probed
  <2> QED
    BY <2>3, <2>4, <2>5, <2>6
<1>3. CASE CreateCommit(t)
  <2>1. pc[t] = "c_commit" /\ registry' = [registry EXCEPT ![n] = r] /\ host' = host /\ backend' = backend
    BY <1>3 DEF CreateCommit, daemon
  <2>2. n \in Names
    BY <1>0, <2>1 DEF ThreadInv, Held, Building
  <2>3. CASE frame[t].kind = "jail"
    <3>1. pc'[t] = "idle"
      BY <1>0, <1>3, <2>3 DEF CreateCommit, Reply, Goto, PcTypeOK
    <3> QED
      BY <3>1 DEF BuildInv, JailDone, GuestDone
  <2>4. CASE frame[t].kind # "jail"
    <3>1. pc'[t] = "c_start" /\ frame' = frame
      BY <1>0, <1>3, <2>4 DEF CreateCommit, Goto, PcTypeOK
    <3>2. GuestDone(t)
      BY <1>0, <2>1, <2>4 DEF GuestDone, FrameTypeOK, Frames
    <3>3. MdMade(r) /\ <<"vm", n>> \in host /\ RecordedData(r, n) \subseteq host
      BY <3>2 DEF BuildInv
    <3>4. MdMade(frame[t].rec)'
      BY <2>1, <3>1, <3>3 DEF MdMade
    <3> QED
      BY <1>0, <2>1, <2>2, <3>1, <3>3, <3>4 DEF BuildInv, JailDone, GuestDone
  <2> QED
    BY <2>3, <2>4
<1>4. CASE Construction(t)
  BY <1>4, CloneBuilds, EpairBuilds, MemberBuilds, JailBuilds, MemdiskBuilds, SourceBuilds, VmBuilds
     DEF Construction
<1>5. CASE CopySource(t)
  BY <1>5, CopyBuilds
<1>6. CASE ~(CreateAllocate(t) \/ CreateWrite(t) \/ CreateCommit(t) \/ Construction(t)
             \/ CopySource(t))
  <2>1. pc'[t] \notin {"c_write"} \cup Building
    BY <1>0, <1>6, CreatesOnly
  <2> QED
    BY <2>1 DEF BuildInv, JailDone, GuestDone, Building
<1> QED
  BY <1>1, <1>2, <1>3, <1>4, <1>5, <1>6

\* What a destroy has removed at each label.
RemoveInv(t) ==
  LET n == frame[t].name
      r == frame[t].rec IN
  /\ pc[t] \in {"d_md", "d_recorded", "d_jail", "d_epair", "d_dataset", "d_check"} =>
       <<"vm", n>> \notin host
  /\ pc[t] \in {"d_recorded", "d_jail", "d_epair", "d_dataset", "d_check"} =>
       RecordedMd(r) \cap host = {}
  /\ pc[t] \in {"d_jail", "d_epair", "d_dataset", "d_check"} => RecordedData(r, n) \cap host = {}
  /\ pc[t] \in {"d_epair", "d_dataset", "d_check"} => <<"jail", n>> \notin host
  /\ pc[t] \in {"d_dataset", "d_check"} => RecordedEpair(r) \cap host = {}
  /\ pc[t] = "d_check" => <<"dataset", n>> \notin host

\* While nothing fails, a removal removes all that it is for.
LEMMA RemoveSucceeds ==
  ASSUME IInv, Quiet', NEW t \in Threads, NEW from, NEW targets, NEW to, Remove(t, from, targets, to)
  PROVE  /\ pc[t] = from /\ pc'[t] = to
         /\ host' = host \ targets /\ frame' = frame
<1>1. ~Fault /\ PcTypeOK
  BY NothingFails DEF IInv, TypeOK
<1> QED
  BY <1>1 DEF Remove, Goto, PcTypeOK

LEMMA RemovalMoves ==
  ASSUME IInv, Quiet, Quiet', NEW t \in Threads, Removal(t), RemoveInv(t)
  PROVE  RemoveInv(t)'
<1> DEFINE n == frame[t].name
           r == frame[t].rec
<1>0. ThreadInv(t) /\ n \in Names
  <2>1. pc[t] \in Held
    BY RemovalEffect DEF Held
  <2> QED
    BY <2>1 DEF IInv, ThreadInv
<1>1. CASE DestroyVm(t)
  <2>1. PICK s : s = IF <<"vm", n>> \in Visible THEN {<<"vm", n>>, <<"vmdata", n>>} ELSE {}
    OBVIOUS
  <2>2. Remove(t, "d_vm", s, "d_md")
    BY <1>1, <2>1 DEF DestroyVm
  <2>3. pc[t] = "d_vm" /\ pc'[t] = "d_md" /\ host' = host \ s /\ frame' = frame
    BY <2>2, RemoveSucceeds
  <2>4. <<"vm", n>> \in host => VmAvailable
    BY <1>0, <2>3, HostKnown DEF ThreadInv, Removing
  <2>5. <<"vm", n>> \notin host'
    BY <2>1, <2>3, <2>4 DEF Visible
  <2> QED
    BY <2>3, <2>5 DEF RemoveInv
<1>2. CASE DestroyMd(t)
  <2>1. Remove(t, "d_md", RecordedMd(r), "d_recorded")
    BY <1>2 DEF DestroyMd
  <2>2. pc[t] = "d_md" /\ pc'[t] = "d_recorded" /\ host' = host \ RecordedMd(r) /\ frame' = frame
    BY <2>1, RemoveSucceeds
  <2> QED
    BY <2>2 DEF RemoveInv
<1>3. CASE DestroyRecorded(t)
  <2>1. Remove(t, "d_recorded", RecordedData(r, n), "d_jail")
    BY <1>3 DEF DestroyRecorded
  <2>2. pc[t] = "d_recorded" /\ pc'[t] = "d_jail" /\ host' = host \ RecordedData(r, n) /\ frame' = frame
    BY <2>1, RemoveSucceeds
  <2> QED
    BY <2>2 DEF RemoveInv
<1>4. CASE DestroyJail(t)
  <2>1. Remove(t, "d_jail", {<<"jail", n>>}, "d_epair")
    BY <1>4 DEF DestroyJail
  <2>2. pc[t] = "d_jail" /\ pc'[t] = "d_epair" /\ host' = host \ {<<"jail", n>>} /\ frame' = frame
    BY <2>1, RemoveSucceeds
  <2> QED
    BY <2>2 DEF RemoveInv
<1>5. CASE DestroyEpair(t)
  <2>1. Remove(t, "d_epair", RecordedEpair(r), "d_dataset")
    BY <1>5 DEF DestroyEpair
  <2>2. pc[t] = "d_epair" /\ pc'[t] = "d_dataset" /\ host' = host \ RecordedEpair(r) /\ frame' = frame
    BY <2>1, RemoveSucceeds
  <2> QED
    BY <2>2 DEF RemoveInv
<1>6. CASE DestroyDataset(t)
  <2>1. Remove(t, "d_dataset", {<<"dataset", n>>}, "d_check")
    BY <1>6 DEF DestroyDataset
  <2>2. pc[t] = "d_dataset" /\ pc'[t] = "d_check" /\ host' = host \ {<<"dataset", n>>} /\ frame' = frame
    BY <2>1, RemoveSucceeds
  <2> QED
    BY <2>2 DEF RemoveInv
<1> QED
  BY <1>1, <1>2, <1>3, <1>4, <1>5, <1>6 DEF Removal

\* Only a removal leads to the next one.
LEMMA RemoveMove ==
  ASSUME IInv, Quiet, Quiet', NEW t \in Threads, Step(t), RemoveInv(t)
  PROVE  RemoveInv(t)'
<1> DEFINE Later == {"d_md", "d_recorded", "d_jail", "d_epair", "d_dataset", "d_check"}
<1>0. PcTypeOK
  BY DEF IInv, TypeOK
<1>1. CASE Removal(t)
  BY <1>1, RemovalMoves
<1>2. CASE ~Removal(t)
  <2>1. CASE CreateStep(t)
    <3>1. pc'[t] \in Creating \cup {"idle", "d_lock"}
      BY <2>1, CreateMoves, CreateLabels, LabelSets DEF EntersName, CreateGoesOn, CreateDestroys, LeavesName
    <3> QED
      BY <3>1 DEF RemoveInv, Creating, Preparing, Building
  <2>2. CASE GcStep(t)
    <3>1. pc'[t] \in GcLabels \cup {"idle", "d_lock"}
      BY <2>2, GcMoves DEF GcGoesOn, GcDestroys
    <3> QED
      BY <3>1 DEF RemoveInv, GcLabels
  <2>3. CASE DestroyStep(t)
    <3>1. pc'[t] \in {"d_load", "d_vm", "d_release", "d_unregister", "idle", "g_loop", "g_orphans"}
      BY <1>0, <1>2, <2>3 DEF DestroyStep, Removal, DestroyEnter, EnterNamed, DestroyLoad, DestroyCheck,
         DestroyRelease, DestroyUnregister, DestroyReturn, Goto, PcTypeOK
    <3> QED
      BY <3>1 DEF RemoveInv
  <2> QED
    BY <2>1, <2>2, <2>3 DEF Step
<1> QED
  BY <1>1, <1>2

\* What another thread does leaves the units of a runtime alone.
LEMMA UnitsElsewhere ==
  ASSUME Placed, SweepInv, FreshInv, Quiet, Unshared, NEW t \in Threads, Step(t),
         NEW n \in Names, pc[t] \notin Held \/ n # frame[t].name
  PROVE  UNCHANGED <<host, member>> \/ (Kinds \subseteq {"bhyve"} /\ "memdisk" \notin Backends)
BY OneName DEF Unshared

\* A thread inside the lock of a name is alone there.
LEMMA AloneInside ==
  ASSUME IInv, NEW t \in Threads, NEW u \in Threads \ {t}, pc[u] \in Held
  PROVE  frame[u].name \in Names /\ (pc[t] \notin Held \/ frame[u].name # frame[t].name)
BY DEF IInv, ThreadInv

LEMMA OthersBuild ==
  ASSUME Placed, SweepInv, FreshInv, UnitsUnused, Quiet, Unshared,
         NEW t \in Threads, Step(t), NEW u \in Threads \ {t}, BuildInv(u)
  PROVE  BuildInv(u)'
<1> DEFINE n == frame[u].name
           r == frame[u].rec
<1>0. IInv /\ pc'[u] = pc[u] /\ frame'[u] = frame[u] /\ backend' = backend /\ ThreadInv(u)
  BY OthersStay, FewWrite DEF Placed, IInv
<1>1. CASE pc[u] \notin {"c_write"} \cup Building
  BY <1>0, <1>1 DEF BuildInv, JailDone, GuestDone, Building
<1>2. CASE pc[u] \in {"c_write"} \cup Building
  <2>1. n \in Names /\ (pc[t] \notin Held \/ n # frame[t].name)
    BY <1>0, <1>2, AloneInside DEF Held
  <2>2. registry'[n] = registry[n]
    BY <1>0, <2>1, OthersNames
  <2>3. /\ Named(n) \cap host' = Named(n) \cap host
        /\ Disk(n) \in host' <=> Disk(n) \in host
    <3>1. Named(n) \cap host' = Named(n) \cap host
      BY <1>0, <2>1, PartsElsewhere
    <3> QED
      BY <3>1 DEF Named, Disk
  <2>4. CASE UNCHANGED <<host, member>>
    <3>1. MdMade(frame[u].rec)' <=> MdMade(r)
      BY <1>0, <2>4 DEF MdMade
    <3> QED
      BY <1>0, <2>2, <2>4, <3>1 DEF BuildInv, JailDone, GuestDone
  <2>5. CASE Kinds \subseteq {"bhyve"} /\ "memdisk" \notin Backends
    <3>1. UnitFree(r) /\ (pc[u] \in Building => pc[u] \in {"c_vm", "c_commit", "c_start"})
      BY <1>2, <2>5 DEF UnitsUnused
    <3>2. pc[u] \in Building => frame[u].kind = "bhyve"
      BY <1>0, <3>1 DEF ThreadInv, UnitFree
    <3>3. MdMade(frame[u].rec)' <=> MdMade(r)
      BY <1>0, <3>1 DEF MdMade, RecordedMd, UnitFree
    <3>4. <<"vm", n>> \in host' <=> <<"vm", n>> \in host
      BY <2>3 DEF Named, Probed
    <3>5. RecordedData(r, n) \subseteq {Disk(n)}
      BY <3>1 DEF RecordedData, UnitFree, Disk
    <3>6. ~JailDone(u)' /\ pc[u] \notin {"c_clone", "c_epair", "c_addm", "c_jail", "c_md", "c_source", "c_copy"}
      BY <1>0, <3>1, <3>2 DEF JailDone, Building
    <3>7. GuestDone(u)' <=> GuestDone(u)
      BY <1>0 DEF GuestDone
    <3>8. RecordedData(r, n) \subseteq host => RecordedData(r, n) \subseteq host'
      BY <2>3, <3>5
    <3> QED
      BY <1>0, <2>2, <3>3, <3>4, <3>6, <3>7, <3>8 DEF BuildInv
  <2> QED
    BY <1>0, <2>1, <2>4, <2>5, UnitsElsewhere
<1> QED
  BY <1>1, <1>2

LEMMA OthersRemove ==
  ASSUME Placed, SweepInv, FreshInv, UnitsUnused, Quiet, Unshared,
         NEW t \in Threads, Step(t), NEW u \in Threads \ {t}, RemoveInv(u)
  PROVE  RemoveInv(u)'
<1> DEFINE n == frame[u].name
           r == frame[u].rec
<1>0. /\ IInv /\ pc'[u] = pc[u] /\ frame'[u] = frame[u] /\ ThreadInv(u)
      /\ registry \in [Names -> Records \cup {NoRecord}]
  BY OthersStay DEF Placed, IInv, TypeOK, DiskTypeOK
<1>1. CASE pc[u] \notin Removing
  BY <1>0, <1>1 DEF RemoveInv, Removing
<1>2. CASE pc[u] \in Removing
  <2>1. n \in Names /\ (pc[t] \notin Held \/ n # frame[t].name)
    BY <1>0, <1>2, AloneInside DEF Held
  <2>2. r = registry[n]
    BY <1>0, <1>2 DEF ThreadInv
  <2>3. /\ Named(n) \cap host' = Named(n) \cap host
        /\ Disk(n) \in host' <=> Disk(n) \in host
    <3>1. Named(n) \cap host' = Named(n) \cap host
      BY <1>0, <2>1, PartsElsewhere
    <3> QED
      BY <3>1 DEF Named, Disk
  <2>4. CASE UNCHANGED <<host, member>>
    BY <1>0, <2>4 DEF RemoveInv
  <2>5. CASE Kinds \subseteq {"bhyve"} /\ "memdisk" \notin Backends
    <3>1. r = NoRecord \/ UnitFree(r)
      BY <2>1, <2>2, <2>5 DEF UnitsUnused, Registered
    <3>2. RecordedMd(r) = {} /\ RecordedEpair(r) = {}
      BY <3>1 DEF RecordedMd, RecordedEpair, UnitFree
    <3>3. RecordedData(r, n) \subseteq {Disk(n)}
      BY <3>1 DEF RecordedData, UnitFree, Disk
    <3>4. /\ <<"vm", n>> \in host' <=> <<"vm", n>> \in host
          /\ <<"jail", n>> \in host' <=> <<"jail", n>> \in host
          /\ <<"dataset", n>> \in host' <=> <<"dataset", n>> \in host
      BY <2>3 DEF Named, Probed
    <3>5. RecordedData(r, n) \cap host' = RecordedData(r, n) \cap host
      BY <2>3, <3>3
    <3> QED
      BY <1>0, <3>2, <3>4, <3>5 DEF RemoveInv
  <2> QED
    BY <1>0, <2>1, <2>4, <2>5, UnitsElsewhere
<1> QED
  BY <1>1, <1>2

\* No request has begun to change the runtime n.
Settled(n) == \A t \in Threads : nameLock[n] = t => pc[t] \in {"c_begin", "d_load", "d_vm"}

\* A registered runtime is complete until a request begins to change it.
WholeInv == \A n \in Registered : Settled(n) => Complete(n)

\* Whoever does not work on a runtime leaves it whole.
LEMMA WholeElsewhere ==
  ASSUME Placed, SweepInv, FreshInv, UnitsUnused, Quiet, Unshared, WholeInv,
         NEW t \in Threads, Step(t), NEW n \in Registered',
         pc[t] \notin Held \/ n # frame[t].name, Settled(n)'
  PROVE  Complete(n)'
<1> DEFINE r == registry[n]
<1>0. /\ IInv /\ StartupInv /\ ClientsInv /\ backend' = backend /\ n \in Names
      /\ registry \in [Names -> Records \cup {NoRecord}] /\ DaemonTypeOK
  BY FewWrite DEF Placed, IInv, TypeOK, DiskTypeOK, Registered
<1>1. registry'[n] = r /\ r \in Records
  BY <1>0, OthersNames DEF Registered
<1>2. Settled(n)
  <2>1. SUFFICES ASSUME NEW u \in Threads, nameLock[n] = u
                 PROVE  pc[u] \in {"c_begin", "d_load", "d_vm"}
    BY DEF Settled
  <2>2. u # t
    <3>1. SUFFICES ASSUME nameLock[n] = t PROVE FALSE
      BY <2>1
    <3>2. frame[t].name = n /\ pc[t] = "d_lock"
      BY <1>0, <3>1 DEF Placed, LockInv
    <3>3. EntersName(t)
      BY <1>0, <3>2, ThreadMoves, LabelSets DEF Moves, CreateGoesOn, DestroyGoesOn, CreateDestroys,
         LeavesName, GcGoesOn, GcDestroys
    <3> QED
      BY <3>1, <3>2, <3>3, DaemonAssumption DEF EntersName
  <2>3. nameLock'[n] = u
    BY <1>0, <2>1, <2>2, OthersLocks, DaemonAssumption
  <2>4. pc'[u] = pc[u]
    BY <1>0, <2>2, OthersStay
  <2> QED
    BY <2>3, <2>4 DEF Settled
<1>3. Complete(n)
  BY <1>0, <1>1, <1>2, DaemonAssumption DEF WholeInv, Registered
<1>4. leases'[r.ip] = n
  <2>1. r.ip \in Addresses /\ leases[r.ip] = n /\ n \in Registered
    BY <1>0, <1>1, <1>3, RecordAssumption DEF Complete, Records, Registered
  <2> QED
    BY <1>0, <2>1, LeasesStay DEF Held, Removed
<1>5. /\ Named(n) \cap host' = Named(n) \cap host
      /\ Disk(n) \in host' <=> Disk(n) \in host
  <2>1. Named(n) \cap host' = Named(n) \cap host
    BY <1>0, PartsElsewhere
  <2> QED
    BY <2>1 DEF Named, Disk
<1>6. CASE UNCHANGED <<host, member>>
  BY <1>0, <1>1, <1>3, <1>4, <1>6 DEF Complete
<1>7. CASE Kinds \subseteq {"bhyve"} /\ "memdisk" \notin Backends
  <2>1. UnitFree(r)
    BY <1>0, <1>1, <1>7, RecordAssumption DEF UnitsUnused, Registered
  <2>2. RecordedMd(r) = {} /\ RecordedData(r, n) \subseteq {Disk(n)} /\ r.kind = "bhyve"
    BY <2>1 DEF RecordedMd, RecordedData, UnitFree, Disk
  <2>3. <<"vm", n>> \in host' /\ RecordedData(r, n) \subseteq host'
    BY <1>3, <1>5, <2>2 DEF Complete, Named, Probed
  <2>4. (backend = "memdisk") = (r.md # NoUnit)
    BY <1>3, <2>2 DEF Complete
  <2> QED
    BY <1>0, <1>1, <1>4, <2>2, <2>3, <2>4 DEF Complete
<1> QED
  BY <1>0, <1>6, <1>7, UnitsElsewhere

\* While nothing fails, a destroy finds that nothing is left.
LEMMA NothingLeft ==
  ASSUME Quiet', IInv, NEW t \in Threads, RemoveInv(t), DestroyCheck(t)
  PROVE  pc'[t] = "d_release" /\ nameLock' = nameLock
<1>1. ~Fault /\ PcTypeOK
  BY NothingFails DEF IInv, TypeOK
<1>2. pc[t] = "d_check"
  BY DEF DestroyCheck
<1>3. Known(frame[t].rec, frame[t].name) \cap host = {}
  BY <1>2 DEF RemoveInv, Known, Probed
<1>4. Known(frame[t].rec, frame[t].name) \cap Visible = {}
  BY <1>3 DEF Visible
<1> QED
  BY <1>1, <1>4 DEF DestroyCheck, Goto, PcTypeOK

\* While nothing fails, only these steps leave the lock of a registered name, or begin to
\* change it.
LEMMA FewSettle ==
  ASSUME IInv, Quiet', NEW t \in Threads, Step(t), RemoveInv(t), pc[t] \in Held,
         NEW n \in Registered', n = frame[t].name, Settled(n)'
  PROVE  CreateDenied(t) \/ CreateCommit(t) \/ CreateStart(t) \/ DestroyLoad(t)
<1>0. /\ ~Fault /\ PcTypeOK /\ ThreadInv(t) /\ n \in Names /\ nameLock[n] = t
      /\ registry \in [Names -> Records \cup {NoRecord}]
  BY NothingFails DEF IInv, TypeOK, DiskTypeOK, ThreadInv
<1>1. SUFFICES ASSUME ~(CreateDenied(t) \/ CreateCommit(t) \/ CreateStart(t) \/ DestroyLoad(t))
               PROVE  FALSE
  OBVIOUS
<1>2. nameLock' = nameLock => pc'[t] \in {"c_begin", "d_load", "d_vm"}
  BY <1>0 DEF Settled
<1>3. CASE CreateStep(t)
  <2>1. CASE AllocateFails(t)
    BY <1>0, <2>1 DEF AllocateFails, Refuse, ThreadInv, Preparing, Registered
  <2>2. CASE Construction(t)
    <3>1. pc'[t] \in Building \cup {"d_lock"} /\ nameLock' = nameLock
      BY <1>0, <2>2, ConstructionThread, ConstructionMakes DEF CallDestroy, BuildsOn, Goto, PcTypeOK,
         IInv, TypeOK, DiskTypeOK
    <3> QED
      BY <1>2, <3>1 DEF Building
  <2>3. CASE CreateReconcile(t) \/ CreateBegin(t) \/ EnsureCheck(t) \/ EnsureLock(t) \/ EnsureConfigure(t)
    <3>1. pc'[t] \in {"d_lock", "ensure", "ensure_lock", "ensure_configure", "c_alloc"}
          /\ nameLock' = nameLock
      BY <1>0, <2>3 DEF CreateReconcile, CreateBegin, EnsureCheck, EnsureLock, EnsureConfigure,
         Ensured, CallDestroy, Goto, PcTypeOK, locks
    <3> QED
      BY <1>2, <3>1
  <2>4. CASE CreateAllocate(t) \/ CreateWrite(t)
    <3>1. pc'[t] \in {"c_write", "c_clone", "c_md", "c_vm"} /\ nameLock' = nameLock
      BY <1>0, <2>4, Zenon DEF CreateAllocate, CreateWrite, FirstBuildStep, Goto, PcTypeOK, locks
    <3> QED
      BY <1>2, <3>1
  <2>5. CASE CreateEnter(t)
    BY <2>5 DEF CreateEnter, EnterNamed, Held, Preparing, Building, Removing, Removed
  <2>6. CASE EnsureFails(t) \/ WriteFails(t) \/ FinishFails(t)
    BY <1>0, <2>6 DEF EnsureFails, WriteFails, FinishFails
  <2>7. CASE CopySource(t)
    <3>1. pc'[t] = "c_vm" /\ nameLock' = nameLock
      BY <1>0, <2>7 DEF CopySource, BuildFrame, Goto, PcTypeOK, locks
    <3> QED
      BY <1>2, <3>1
  <2> QED
    BY <1>1, <1>3, <2>1, <2>2, <2>3, <2>4, <2>5, <2>6, <2>7 DEF CreateStep, Construction
<1>4. CASE DestroyStep(t)
  <2>1. CASE Removal(t)
    <3>1. pc'[t] \in {"d_md", "d_recorded", "d_jail", "d_epair", "d_dataset", "d_check"}
          /\ nameLock' = nameLock
      BY <1>0, <2>1 DEF Removal, DestroyVm, DestroyMd, DestroyRecorded, DestroyJail, DestroyEpair,
         DestroyDataset, Remove, Goto, PcTypeOK
    <3> QED
      BY <1>2, <3>1
  <2>2. CASE DestroyCheck(t)
    BY <1>2, <2>2, NothingLeft
  <2>3. CASE DestroyRelease(t)
    <3>1. pc'[t] = "d_unregister" /\ nameLock' = nameLock
      BY <1>0, <2>3 DEF DestroyRelease, Goto, PcTypeOK
    <3> QED
      BY <1>2, <3>1
  <2>4. CASE DestroyUnregister(t)
    BY <1>0, <2>4 DEF DestroyUnregister, Registered
  <2>5. CASE DestroyEnter(t)
    BY <2>5 DEF DestroyEnter, EnterNamed, Held, Preparing, Building, Removing, Removed
  <2> QED
    BY <1>1, <1>4, <2>1, <2>2, <2>3, <2>4, <2>5 DEF DestroyStep, Removal
<1>5. CASE GcStep(t)
  BY <1>5, GcMoves, LabelSets DEF GcGoesOn, GcDestroys, GcLabels
<1> QED
  BY <1>3, <1>4, <1>5 DEF Step

\* Whoever works on a runtime leaves it whole.
LEMMA WholeOwn ==
  ASSUME Placed, Quiet', WholeInv, NEW t \in Threads, Step(t), BuildInv(t), RemoveInv(t),
         pc[t] \in Held, NEW n \in Registered', n = frame[t].name, Settled(n)'
  PROVE  Complete(n)'
<1> DEFINE r == registry[n]
<1>0. /\ IInv /\ ThreadInv(t) /\ AddressInv(t) /\ n \in Names /\ nameLock[n] = t
      /\ registry \in [Names -> Records \cup {NoRecord}] /\ FrameTypeOK
  BY DEF Placed, IInv, TypeOK, DiskTypeOK, ThreadInv
<1>1. CASE CreateDenied(t) \/ DestroyLoad(t)
  <2>1. UNCHANGED <<registry, leases, host, member, backend>> /\ pc[t] \in {"c_begin", "d_load"}
    BY <1>1 DEF CreateDenied, Refuse, DestroyLoad, disk, daemon
  <2>2. Settled(n) /\ n \in Registered
    BY <1>0, <2>1 DEF Settled, Registered
  <2>3. Complete(n)
    BY <2>2 DEF WholeInv
  <2> QED
    BY <2>1, <2>3 DEF Complete
<1>2. CASE CreateCommit(t)
  <2>1. /\ pc[t] = "c_commit" /\ UNCHANGED <<leases, host, member, backend>>
        /\ registry'[n] = frame[t].rec
    BY <1>0, <1>2 DEF CreateCommit, daemon
  <2>2. frame[t].kind = "jail"
    <3>1. SUFFICES ASSUME frame[t].kind # "jail" PROVE FALSE
      OBVIOUS
    <3>2. pc'[t] = "c_start" /\ nameLock' = nameLock
      BY <1>0, <1>2, <3>1 DEF CreateCommit, Goto, IInv, TypeOK, PcTypeOK
    <3> QED
      BY <1>0, <3>2 DEF Settled
  <2>3. frame[t].rec.kind = "jail" /\ leases[frame[t].rec.ip] = n
    BY <1>0, <2>1, <2>2 DEF ThreadInv, AddressInv, Building
  <2>4. /\ {<<"jail", n>>, <<"dataset", n>>} \subseteq host
        /\ frame[t].rec.ep \in member /\ <<"epair", frame[t].rec.ep>> \in host
    BY <2>1, <2>2 DEF BuildInv, JailDone
  <2> QED
    BY <2>1, <2>3, <2>4 DEF Complete
<1>3. CASE CreateStart(t)
  <2>1. pc[t] = "c_start" /\ UNCHANGED <<registry, leases, host, member, backend>>
    BY <1>3 DEF CreateStart, disk, daemon
  <2>2. frame[t].rec = r /\ r.kind = "bhyve" /\ leases[r.ip] = n
    BY <1>0, <2>1 DEF ThreadInv, AddressInv, Building, Guest, BuildInv
  <2>3. <<"vm", n>> \in host /\ RecordedData(r, n) \subseteq host /\ MdMade(r)
    BY <2>1, <2>2 DEF BuildInv, GuestDone
  <2> QED
    BY <2>1, <2>2, <2>3 DEF Complete, MdMade
<1> QED
  BY <1>0, <1>1, <1>2, <1>3, FewSettle

\* What holds while nothing has failed.
Whole ==
  /\ \A t \in Threads : AddressInv(t)
  /\ SweepInv /\ FreshInv /\ UnitsUnused /\ WholeInv
  /\ \A t \in Threads : BuildInv(t) /\ RemoveInv(t)

WholeGuard == ClientsInv /\ (Quiet => Whole)

LEMMA WholeMove ==
  ASSUME Unshared, Placed, Whole, Quiet, Quiet', NEW t \in Threads, Step(t), [Next]_vars
  PROVE  Whole'
<1>0. /\ IInv /\ StartupInv /\ ClientsInv /\ SweepInv /\ FreshInv /\ UnitsUnused /\ WholeInv
      /\ registry \in [Names -> Records \cup {NoRecord}]
  BY DEF Placed, Whole, IInv, TypeOK, DiskTypeOK
<1>1. ASSUME NEW u \in Threads PROVE AddressInv(u)'
  BY <1>0, AddressMove, OthersAddress DEF Whole
<1>2. ASSUME NEW u \in Threads PROVE BuildInv(u)'
  BY <1>0, BuildMove, OthersBuild DEF Whole
<1>3. ASSUME NEW u \in Threads PROVE RemoveInv(u)'
  BY <1>0, RemoveMove, OthersRemove DEF Whole
<1>4. UnitsUnused'
  <2>1. CASE Kinds \subseteq {"bhyve"} /\ "memdisk" \notin Backends
    BY <1>0, <2>1, UnitsMove
  <2>2. CASE ~(Kinds \subseteq {"bhyve"} /\ "memdisk" \notin Backends)
    BY <2>2 DEF UnitsUnused
  <2> QED
    BY <2>1, <2>2
<1>5. WholeInv'
  <2>1. SUFFICES ASSUME NEW n \in Registered', Settled(n)' PROVE Complete(n)'
    BY DEF WholeInv
  <2>2. CASE pc[t] \notin Held \/ n # frame[t].name
    BY <1>0, <2>1, <2>2, WholeElsewhere
  <2>3. CASE pc[t] \in Held /\ n = frame[t].name
    BY <1>0, <2>1, <2>3, WholeOwn DEF Whole
  <2> QED
    BY <2>2, <2>3
<1> QED
  BY <1>0, <1>1, <1>2, <1>3, <1>4, <1>5, SweepStep, FreshStep DEF Whole

\* The steps of nobody inside a lock leave all of this alone.
LEMMA WholeStays ==
  ASSUME Whole, UNCHANGED <<registry, leases, host, member, nameLock, backend, serving, crashes>>,
         \A u \in Threads :
           \/ pc'[u] = pc[u] /\ frame'[u] = frame[u]
           \/ /\ pc'[u] \in {"c_lock", "d_lock", "g_lock"}
              /\ pc'[u] = "c_lock" => frame'[u].kind \in Kinds
  PROVE  Whole'
<1>1. ASSUME NEW u \in Threads PROVE AddressInv(u)'
  BY DEF Whole, AddressInv, Building
<1>2. ASSUME NEW u \in Threads PROVE RemoveInv(u)'
  BY DEF Whole, RemoveInv
<1>3. ASSUME NEW u \in Threads PROVE BuildInv(u)'
  <2>1. CASE pc'[u] = pc[u] /\ frame'[u] = frame[u]
    <3>1. MdMade(frame[u].rec)' <=> MdMade(frame[u].rec)
      BY <2>1 DEF MdMade
    <3> QED
      BY <2>1, <3>1 DEF Whole, BuildInv, JailDone, GuestDone
  <2>2. CASE pc'[u] \in {"c_lock", "d_lock", "g_lock"}
    BY <2>2 DEF BuildInv, JailDone, GuestDone
  <2> QED
    BY <2>1, <2>2
<1>4. SweepInv' /\ FreshInv'
  BY DEF Whole, SweepInv, FreshInv, Registered
<1>5. UnitsUnused'
  BY DEF Whole, UnitsUnused, Registered, Preparing, Building
<1>6. WholeInv'
  <2>1. SUFFICES ASSUME NEW n \in Registered', Settled(n)' PROVE Complete(n)'
    BY DEF WholeInv
  <2>2. n \in Registered /\ Settled(n)
    BY <2>1 DEF Settled, Registered
  <2>3. Complete(n)
    BY <2>2 DEF Whole, WholeInv
  <2> QED
    BY <2>3 DEF Complete
<1> QED
  BY <1>1, <1>2, <1>3, <1>4, <1>5, <1>6 DEF Whole

LEMMA WholeStep ==
  ASSUME \A p \in Pids : Uid[p] # 0, Unshared, GuardInv, ReconcileInv, WholeGuard, [Next]_vars
  PROVE  WholeGuard'
<1>0. IInv /\ StartupInv /\ ClientsInv /\ ClientsInv'
  BY ClientsStep DEF GuardInv, ReconcileInv, WholeGuard
<1>1. SUFFICES ASSUME Quiet' PROVE Whole'
  BY <1>0 DEF WholeGuard
<1>2. Quiet /\ Whole
  BY <1>0, <1>1, QuietStays DEF WholeGuard
<1>3. Placed
  BY <1>0, <1>2 DEF Placed, GuardInv, ReconcileInv, BootInv, Whole
<1>4. ASSUME NEW t \in Threads, Step(t) PROVE Whole'
  BY <1>1, <1>2, <1>3, <1>4, WholeMove
<1>5. ASSUME NEW t \in Workers, NewRequest(t) PROVE Whole'
  <2>1. /\ pc'[t] \in {"c_lock", "d_lock", "g_lock"}
        /\ \A u \in Threads \ {t} : pc'[u] = pc[u] /\ frame'[u] = frame[u]
        /\ UNCHANGED <<registry, leases, host, nameLock, serving, crashes>>
    BY <1>0, <1>5, RequestFields DEF IInv
  <2>2. UNCHANGED <<member, backend>>
    BY <1>5 DEF NewRequest, RequestCreate, RequestDestroy, RequestGc, Request, daemon
  <2>3. pc'[t] = "c_lock" => frame'[t].kind \in Kinds
    <3>1. SUFFICES ASSUME pc'[t] = "c_lock" PROVE frame'[t].kind \in Kinds
      OBVIOUS
    <3>2. t \in Threads /\ PcTypeOK /\ FrameTypeOK
      BY <1>0 DEF Threads, IInv, TypeOK
    <3>3. PICK p \in Pids, n \in Names, k \in Kinds : RequestCreate(t, p, n, k)
      BY <1>5, <3>1, <3>2 DEF NewRequest, RequestDestroy, RequestGc, Request, Goto, PcTypeOK
    <3>4. frame'[t] = [NoFrame EXCEPT !.name = n, !.pid = p, !.uid = Uid[p], !.kind = k]
      BY <3>2, <3>3 DEF RequestCreate, Request, FrameTypeOK
    <3> QED
      BY <3>4 DEF NoFrame
  <2> QED
    BY <1>2, <2>1, <2>2, <2>3, WholeStays
<1>6. ~Restart
  BY <1>0, <1>1, <1>2 DEF Restart, Quiet
<1>7. CASE \/ UNCHANGED vars
           \/ \E p \in Pids : ClientExit(p) \/ ClientStart(p)
  <2>1. UNCHANGED <<registry, leases, host, member, nameLock, backend, serving, crashes, pc, frame>>
    BY <1>7 DEF vars, ClientExit, ClientStart, disk, locks, daemon, threads
  <2> QED
    BY <1>2, <2>1, WholeStays
<1> QED
  BY <1>4, <1>5, <1>6, <1>7 DEF Next, Environment, Crash, Reboot

\* AllOrNothing, under Quiet: as long as no command has failed and the daemon has not
\* crashed, a runtime that no request is working on is registered and complete, its record,
\* its resources and its lease agreeing with one another, or it leaves no trace at all.
\* The hypotheses are what the code needs for it.  No client is root: root's gc takes away
\* the interface of a create that has not recorded it yet (runtime_daemon.py:1019).  And no
\* two runtimes share a unit, because there is one name, or there are only guests whose
\* disks are not memory disks: an epair that a destroy has freed may be given to another
\* create before that destroy looks for leftovers, and it then keeps the record of a runtime
\* that is gone (runtime_daemon.py:880).
THEOREM WholeOrGone ==
  ASSUME \A p \in Pids : Uid[p] # 0, Unshared
  PROVE  Spec => [](Quiet => AllOrNothing)
<1>1. Init => WholeGuard
  <2>1. SUFFICES ASSUME Init PROVE WholeGuard
    OBVIOUS
  <2>2. \A t \in Threads : pc[t] \in {"g_lock", "idle"}
    BY <2>1 DEF Init, BootPc
  <2>3. ClientsInv /\ Registered = {} /\ host = {} /\ member = {}
    BY <2>1, DaemonAssumption DEF Init, BootPc, ClientsInv, Threads, Registered
  <2>4. \A t \in Threads : AddressInv(t) /\ RemoveInv(t)
    BY <2>2 DEF AddressInv, RemoveInv, Building
  <2>5. \A t \in Threads : BuildInv(t)
    BY <2>2 DEF BuildInv, JailDone, GuestDone
  <2>6. SweepInv /\ FreshInv /\ WholeInv
    BY <2>2, <2>3 DEF SweepInv, FreshInv, WholeInv
  <2>7. UnitsUnused
    BY <2>2, <2>3 DEF UnitsUnused, Preparing, Building
  <2> QED
    BY <2>3, <2>4, <2>5, <2>6, <2>7 DEF WholeGuard, Whole
<1>2. GuardInv /\ ReconcileInv /\ WholeGuard /\ [Next]_vars => WholeGuard'
  BY WholeStep
<1>3. /\ GuardInv /\ WholeGuard
      /\ Quiet => \A n \in Names : nameLock[n] = Nobody /\ registry[n] = NoRecord => NoTrace(n)
      => (Quiet => AllOrNothing)
  <2>1. SUFFICES ASSUME GuardInv, WholeGuard, Quiet, NEW n \in Names, nameLock[n] = Nobody,
                        registry[n] # NoRecord
                 PROVE  Complete(n)
    BY DEF AllOrNothing
  <2>2. Settled(n) /\ n \in Registered
    BY <2>1, DaemonAssumption DEF Settled, Registered
  <2> QED
    BY <2>1, <2>2 DEF WholeGuard, Whole, WholeInv
<1> QED
  BY <1>1, <1>2, <1>3, GuardInvariant, Reconciliation, NothingUnregistered, PTL DEF Spec

\* Without room for a fault or a crash nothing ever fails.
LEMMA NeverFails ==
  ASSUME MaxFaults = 0, MaxCrashes = 0, IInv, Quiet, [Next]_vars
  PROVE  Quiet'
<1>0. ~Fault /\ ~Restart /\ faults = 0 /\ crashes = 0 /\ host \subseteq Resources
  BY DEF Fault, Restart, Quiet, IInv, TypeOK, DiskTypeOK
<1> DEFINE Still == faults' = faults /\ crashes' = crashes
<1>1. ASSUME NEW t \in Threads, CreateStep(t) PROVE Still
  <2>1. CASE Construction(t)
    BY <1>0, <2>1 DEF Construction, CloneDataset, CreateEpair, AddMember, StartJail, CreateMemdisk,
       CloneSource, CreateVm, Build, BuildOk, BuildFails, BuildFrame, NoFault
  <2>2. CASE CreateEnter(t) \/ CreateDenied(t) \/ CreateReconcile(t) \/ CreateBegin(t)
             \/ AllocateFails(t) \/ WriteFails(t) \/ CopySource(t)
    BY <1>0, <2>2 DEF CreateEnter, EnterNamed, CreateDenied, CreateReconcile, CreateBegin,
       AllocateFails, WriteFails, CopySource, BuildFrame, Refuse, NoFault
  <2>3. CASE EnsureCheck(t) \/ EnsureLock(t) \/ EnsureConfigure(t) \/ EnsureFails(t)
    BY <1>0, <2>3 DEF EnsureCheck, EnsureLock, EnsureConfigure, EnsureFails
  <2>4. CASE CreateAllocate(t) \/ CreateWrite(t) \/ CreateCommit(t) \/ CreateStart(t) \/ FinishFails(t)
    BY <1>0, <2>4, Zenon DEF NoFault, CreateAllocate, CreateWrite, CreateCommit, CreateStart, FinishFails
  <2> QED
    BY <1>1, <2>1, <2>2, <2>3, <2>4 DEF CreateStep, Construction
<1>2. ASSUME NEW t \in Threads, DestroyStep(t) PROVE Still
  <2>1. CASE Removal(t)
    BY <1>0, <2>1 DEF Removal, DestroyVm, DestroyMd, DestroyRecorded, DestroyJail, DestroyEpair,
       DestroyDataset, Remove, NoFault
  <2>2. CASE DestroyEnter(t) \/ DestroyLoad(t) \/ DestroyCheck(t) \/ DestroyRelease(t)
             \/ DestroyUnregister(t)
    BY <1>0, <2>2 DEF DestroyEnter, EnterNamed, DestroyLoad, DestroyCheck, DestroyRelease,
       DestroyUnregister, NoFault
  <2> QED
    BY <1>2, <2>1, <2>2 DEF DestroyStep, Removal
<1>3. ASSUME NEW t \in Threads, GcStep(t) PROVE Still
  BY <1>0, <1>3 DEF GcStep, GcEnter, GcRaises, GcReturn, GcScan, GcKeep, GcReclaim, GcCall, GcLoopEnd,
     GcAfter, GcDiscover, GcOrphan, GcOrphansEnd, GcReferences, GcBridge, GcEpair, GcEpairsEnd,
     GcActive, GcClear, Sweep, GcRead, GcFrame, NoFault
<1>4. ASSUME NEW t \in Workers, NewRequest(t) PROVE Still
  BY <1>4 DEF NewRequest, RequestCreate, RequestDestroy, RequestGc, Request
<1>5. ASSUME Environment \/ UNCHANGED vars PROVE Still
  BY <1>0, <1>5 DEF Environment, Crash, Reboot, ClientExit, ClientStart, vars
<1>6. ASSUME NEW t \in Threads, Step(t) PROVE Still
  BY <1>1, <1>2, <1>3, <1>6 DEF Step
<1> HIDE DEF Still
<1>7. Still
  BY <1>4, <1>5, <1>6 DEF Next
<1> QED
  BY <1>0, <1>7 DEF Quiet, Still

\* AllOrNothing where nothing can fail, which is the run daemon_quiet for any number of
\* threads, clients, requests, addresses and units.
COROLLARY AlwaysWholeOrGone ==
  ASSUME \A p \in Pids : Uid[p] # 0, Unshared, MaxFaults = 0, MaxCrashes = 0
  PROVE  Spec => []AllOrNothing
<1>1. Init => Quiet
  BY DEF Init, Quiet
<1>2. GuardInv /\ Quiet /\ [Next]_vars => Quiet'
  BY NeverFails DEF GuardInv
<1> QED
  BY <1>1, <1>2, WholeOrGone, GuardInvariant, PTL DEF Spec

=============================================================================
