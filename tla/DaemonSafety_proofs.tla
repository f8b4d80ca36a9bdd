------------------------ MODULE DaemonSafety_proofs ------------------------
(***************************************************************************)
(* What the daemon's locks, rights and leases guarantee for every number   *)
(* of threads, clients, names and addresses: who may unregister a runtime, *)
(* that running runtimes have addresses of their own, that only two kinds  *)
(* of deadlock exist, what startup reconciliation reaches and spares, and  *)
(* that the daemon implements RuntimeLifecycle.                            *)
(***************************************************************************)
EXTENDS RuntimeDaemon_proofs

-----------------------------------------------------------------------------
(* How a thread moves *)

GcLabels ==
  {"g_lock", "g_scan", "g_loop", "g_after", "g_discover", "g_orphans", "g_refs", "g_bridge",
   "g_epairs", "g_active", "g_clear"}

\* Labels of a create, and of a destroy, inside the lock of a name.
Creating == {"c_begin", "c_write"} \cup Preparing \cup Building

Destroying == {"d_load"} \cup Removing \cup Removed

\* The thread works for the same caller and on the same name.
SameCall(t) ==
  /\ frame'[t].name = frame[t].name /\ frame'[t].uid = frame[t].uid
  /\ frame'[t].back = frame[t].back /\ frame'[t].force = frame[t].force

EntersName(t) ==
  /\ frame'[t] = frame[t] /\ registry' = registry
  /\ nameLock[frame[t].name] = Nobody /\ nameLock' = [nameLock EXCEPT ![frame[t].name] = t]
  /\ \/ pc[t] = "c_lock" /\ pc'[t] = "c_begin"
     \/ pc[t] = "d_lock" /\ pc'[t] = "d_load"

CreateGoesOn(t) ==
  /\ SameCall(t) /\ nameLock' = nameLock
  /\ pc[t] \in Creating /\ pc'[t] \in Creating

\* A destroy goes on from its load only with the right to.
DestroyGoesOn(t) ==
  /\ SameCall(t) /\ nameLock' = nameLock /\ registry' = registry
  /\ pc[t] \in Destroying /\ pc'[t] \in Removing \cup Removed
  /\ pc[t] = "d_load" => frame[t].force \/ Authorized(frame[t].uid, registry[frame[t].name])

CreateDestroys(t) ==
  /\ pc[t] \in Creating /\ pc'[t] = "d_lock" /\ nameLock' = nameLock
  /\ frame'[t].name = frame[t].name /\ frame'[t].uid = frame[t].uid /\ frame'[t].back = "create"

LeavesName(t) ==
  /\ pc[t] \in Held /\ Unlock(frame[t].name)
  /\ \/ pc'[t] = "idle" /\ (pc[t] \in Creating \/ frame[t].back \notin {"g_loop", "g_orphans"})
     \/ /\ pc[t] \in Destroying /\ pc'[t] = frame[t].back /\ frame[t].back \in {"g_loop", "g_orphans"}
        /\ frame'[t].uid = frame[t].uid

GcGoesOn(t) ==
  /\ pc[t] \in GcLabels /\ nameLock' = nameLock /\ registry' = registry
  /\ \/ pc'[t] = "idle"
     \/ /\ pc'[t] \in GcLabels \ {"g_lock"} /\ frame'[t] = frame[t]
        /\ pc'[t] \in {"g_discover", "g_orphans"} =>
             frame[t].uid = 0 \/ pc[t] \in {"g_discover", "g_orphans"}

GcDestroys(t) ==
  /\ pc[t] \in {"g_loop", "g_orphans"} /\ pc'[t] = "d_lock" /\ nameLock' = nameLock
  /\ registry' = registry
  /\ frame'[t].name \in Names /\ frame'[t].uid = frame[t].uid /\ frame'[t].back = pc[t]
  /\ frame'[t].force => frame[t].uid = 0 \/ pc[t] = "g_orphans"

\* Updates of the locals keep the call.
LEMMA CallKept ==
  ASSUME FrameTypeOK, NEW t \in Threads
  PROVE  /\ \A v : frame' = [frame EXCEPT ![t].want = v] => SameCall(t)
         /\ \A v : frame' = [frame EXCEPT ![t].owner = v] => SameCall(t)
         /\ \A v : frame' = [frame EXCEPT ![t].rec = v] => SameCall(t)
  BY DEF FrameTypeOK, Frames, SameCall

\* A create that calls destroy.
LEMMA CallMoves ==
  ASSUME TypeOK, NEW t \in Threads, NEW force, CallDestroy(t, force), pc[t] \in Creating,
         nameLock' = nameLock
  PROVE  CreateDestroys(t)
  BY DEF CreateDestroys, CallDestroy, Goto, TypeOK, PcTypeOK, FrameTypeOK, Frames

\* A create that ends.
LEMMA ReplyMoves ==
  ASSUME TypeOK, NEW t \in Threads, Reply(t), pc[t] \in Creating
  PROVE  LeavesName(t)
<1>1. pc[t] \in Held
  BY DEF Creating, Held
<1> QED
  BY <1>1 DEF LeavesName, Reply, Goto, TypeOK, PcTypeOK

\* A destroy that returns.
LEMMA ReturnMoves ==
  ASSUME TypeOK, NEW t \in Threads, NEW failed, DestroyReturn(t, failed), pc[t] \in Destroying
  PROVE  LeavesName(t)
<1>1. pc[t] \in Held
  BY DEF Destroying, Held
<1>2. [NoFrame EXCEPT !.uid = frame[t].uid].uid = frame[t].uid
  BY DEF NoFrame
<1> QED
  BY <1>1, <1>2 DEF LeavesName, DestroyReturn, Goto, TypeOK, PcTypeOK, FrameTypeOK

\* A gc that calls destroy.
LEMMA GcCallMoves ==
  ASSUME TypeOK, NEW t \in Threads, NEW n \in Names, NEW force, GcCall(t, n, pc[t], force),
         pc[t] \in {"g_loop", "g_orphans"}, force => frame[t].uid = 0 \/ pc[t] = "g_orphans"
  PROVE  GcDestroys(t)
  BY DEF GcDestroys, GcCall, GcFrame, Goto, TypeOK, PcTypeOK, FrameTypeOK, Frames

\* Every step of a create is a move.
LEMMA CreateMoves ==
  ASSUME IInv, NEW t \in Threads, CreateStep(t)
  PROVE  EntersName(t) \/ CreateGoesOn(t) \/ CreateDestroys(t) \/ LeavesName(t)
<1>0. TypeOK /\ PcTypeOK /\ FrameTypeOK /\ DiskTypeOK
  BY DEF IInv, TypeOK
<1>a. Creating \subseteq Held
  BY DEF Creating, Held
<1>1. CASE CreateEnter(t)
  BY <1>0, <1>1 DEF CreateEnter, EnterNamed, EntersName, Goto, PcTypeOK, disk
<1>2. CASE CreateDenied(t) \/ AllocateFails(t) \/ WriteFails(t)
  <2>1. Reply(t) /\ pc[t] \in Creating
    BY <1>2 DEF CreateDenied, AllocateFails, WriteFails, Refuse, Creating, Preparing
  <2> QED
    BY <1>0, <2>1, ReplyMoves
<1>3. CASE EnsureFails(t) \/ CreateStart(t)
  <2>1. Reply(t) /\ pc[t] \in Creating
    BY <1>3 DEF EnsureFails, CreateStart, Creating, Preparing, Building
  <2> QED
    BY <1>0, <2>1, ReplyMoves
<1>4. CASE CreateReconcile(t) \/ FinishFails(t)
  <2>1. nameLock' = nameLock /\ pc[t] \in Creating /\ \E force : CallDestroy(t, force)
    BY <1>4 DEF CreateReconcile, FinishFails, locks, Creating, Building
  <2> QED
    BY <1>0, <2>1, CallMoves
<1>5. CASE CreateBegin(t)
  <2>1. nameLock' = nameLock /\ pc[t] = "c_begin" /\ pc'[t] = "ensure" /\ SameCall(t)
    BY <1>0, <1>5, CallKept DEF CreateBegin, locks, Goto, PcTypeOK
  <2> QED
    BY <2>1 DEF CreateGoesOn, Creating, Preparing
<1>6. CASE EnsureCheck(t) \/ EnsureLock(t) \/ EnsureConfigure(t)
  <2>1. nameLock' = nameLock /\ pc[t] \in Preparing
    BY <1>6 DEF EnsureCheck, EnsureLock, EnsureConfigure, locks, Preparing
  <2>2. pc'[t] \in Preparing
    BY <1>0, <1>6 DEF EnsureCheck, EnsureLock, EnsureConfigure, Ensured, Goto, PcTypeOK, Preparing
  <2>3. SameCall(t)
    <3>1. frame' = frame \/ frame' = [frame EXCEPT ![t].want = "switch"]
      BY <1>6 DEF EnsureCheck, EnsureLock, EnsureConfigure, Ensured
    <3> QED
      BY <1>0, <3>1, CallKept DEF SameCall
  <2> QED
    BY <2>1, <2>2, <2>3 DEF CreateGoesOn, Creating
<1>7. CASE CreateAllocate(t)
  <2>1. nameLock' = nameLock /\ pc[t] = "c_alloc" /\ pc'[t] = "c_write"
    BY <1>0, <1>7 DEF CreateAllocate, locks, Goto, PcTypeOK
  <2>2. SameCall(t)
    BY <1>0, <1>7, CallKept DEF CreateAllocate
  <2> QED
    BY <2>1, <2>2 DEF CreateGoesOn, Creating, Preparing
<1>8. CASE CreateWrite(t)
  <2>1. nameLock' = nameLock /\ pc[t] = "c_write" /\ pc'[t] \in {"c_clone", "c_md", "c_vm"} /\ frame' = frame
    BY <1>0, <1>8 DEF CreateWrite, FirstBuildStep, locks, Goto, PcTypeOK
  <2> QED
    BY <2>1 DEF CreateGoesOn, SameCall, Creating, Building
<1>9. CASE Construction(t)
  <2>1. pc[t] \in Creating /\ nameLock' = nameLock
    BY <1>0, <1>9, ConstructionThread, ConstructionMakes DEF Creating, DiskTypeOK
  <2>2. CASE CallDestroy(t, TRUE)
    BY <1>0, <2>1, <2>2, CallMoves
  <2>3. CASE \E l \in Building, r \in Records : BuildsOn(t, l, r)
    <3>1. PICK l \in Building, r \in Records : BuildsOn(t, l, r)
      BY <2>3
    <3>2. pc'[t] = l /\ SameCall(t)
      BY <1>0, <3>1, CallKept DEF BuildsOn, Goto, PcTypeOK
    <3> QED
      BY <2>1, <3>2 DEF CreateGoesOn, Creating
  <2> QED
    BY <1>9, <2>2, <2>3, ConstructionThread
<1>10. CASE CreateCommit(t)
  <2>1. CASE frame[t].kind = "jail"
    <3>1. Reply(t) /\ pc[t] \in Creating
      BY <1>10, <2>1 DEF CreateCommit, Creating, Building
    <3> QED
      BY <1>0, <3>1, ReplyMoves
  <2>2. CASE frame[t].kind # "jail"
    <3>1. nameLock' = nameLock /\ pc[t] = "c_commit" /\ pc'[t] = "c_start" /\ frame' = frame
      BY <1>0, <1>10, <2>2 DEF CreateCommit, Goto, PcTypeOK
    <3> QED
      BY <3>1 DEF CreateGoesOn, SameCall, Creating, Building
  <2> QED
    BY <2>1, <2>2
<1>11. CASE CopySource(t)
  <2>1. nameLock' = nameLock /\ pc[t] = "c_copy" /\ pc[t] \in Creating
    BY <1>11 DEF CopySource, BuildFrame, locks, Creating, Building
  <2>2. CASE CallDestroy(t, TRUE)
    BY <1>0, <2>1, <2>2, CallMoves
  <2>3. CASE ~CallDestroy(t, TRUE)
    <3>1. pc'[t] = "c_vm" /\ frame' = frame
      BY <1>0, <1>11, <2>3 DEF CopySource, Goto, PcTypeOK
    <3> QED
      BY <2>1, <3>1 DEF CreateGoesOn, SameCall, Creating, Building
  <2> QED
    BY <2>2, <2>3
<1> QED
  BY <1>1, <1>2, <1>3, <1>4, <1>5, <1>6, <1>7, <1>8, <1>9, <1>10, <1>11 DEF CreateStep, Construction

\* Every step of a destroy is a move.
LEMMA DestroyMoves ==
  ASSUME IInv, NEW t \in Threads, DestroyStep(t)
  PROVE  EntersName(t) \/ DestroyGoesOn(t) \/ LeavesName(t)
<1>0. TypeOK /\ PcTypeOK /\ FrameTypeOK
  BY DEF IInv, TypeOK
<1>1. CASE DestroyEnter(t)
  BY <1>0, <1>1 DEF DestroyEnter, EnterNamed, EntersName, Goto, PcTypeOK, disk
<1>2. CASE DestroyLoad(t)
  <2>1. pc[t] = "d_load" /\ pc[t] \in Destroying /\ registry' = registry
    BY <1>2 DEF DestroyLoad, Destroying, disk
  <2>2. CASE DestroyReturn(t, TRUE)
    BY <1>0, <2>1, <2>2, ReturnMoves
  <2>3. CASE ~DestroyReturn(t, TRUE)
    <3>1. /\ frame[t].force \/ Authorized(frame[t].uid, registry[frame[t].name])
          /\ frame' = [frame EXCEPT ![t].rec = registry[frame[t].name]]
          /\ Goto(t, "d_vm") /\ nameLock' = nameLock
      BY <1>2, <2>3 DEF DestroyLoad
    <3>2. pc'[t] = "d_vm" /\ SameCall(t)
      BY <1>0, <3>1, CallKept DEF Goto, PcTypeOK
    <3> QED
      BY <2>1, <3>1, <3>2 DEF DestroyGoesOn, Removing
  <2> QED
    BY <2>2, <2>3
<1>3. CASE Removal(t)
  <2>1. pc[t] \in Removing /\ registry' = registry
    BY <1>3, RemovalEffect
  <2>2. CASE DestroyReturn(t, TRUE)
    BY <1>0, <2>1, <2>2, ReturnMoves DEF Destroying
  <2>3. CASE \E l \in Removing : Goto(t, l) /\ UNCHANGED <<nameLock, frame, gcv>>
    <3>1. pc'[t] \in Removing /\ SameCall(t) /\ nameLock' = nameLock
      BY <1>0, <2>3 DEF Goto, PcTypeOK, SameCall
    <3>2. pc[t] # "d_load"
      BY <2>1 DEF Removing
    <3> QED
      BY <2>1, <3>1, <3>2 DEF DestroyGoesOn, Destroying
  <2> QED
    BY <1>3, <2>2, <2>3, RemovalEffect
<1>4. CASE DestroyCheck(t) \/ DestroyRelease(t)
  <2>1. pc[t] \in {"d_check", "d_release"} /\ registry' = registry
    BY <1>4 DEF DestroyCheck, DestroyRelease, disk
  <2>2. CASE DestroyReturn(t, TRUE)
    BY <1>0, <2>1, <2>2, ReturnMoves DEF Destroying, Removing, Removed
  <2>3. CASE ~DestroyReturn(t, TRUE)
    <3>1. pc'[t] \in {"d_release", "d_unregister"} /\ UNCHANGED <<nameLock, frame>>
      BY <1>0, <1>4, <2>3 DEF DestroyCheck, DestroyRelease, Goto, PcTypeOK
    <3> QED
      BY <2>1, <3>1 DEF DestroyGoesOn, Destroying, Removing, Removed, SameCall
  <2> QED
    BY <2>2, <2>3
<1>5. CASE DestroyUnregister(t)
  BY <1>0, <1>5, ReturnMoves DEF DestroyUnregister, Destroying, Removed
<1> QED
  BY <1>1, <1>2, <1>3, <1>4, <1>5 DEF DestroyStep, Removal

\* Every step of a gc is a move.
LEMMA GcMoves ==
  ASSUME IInv, NEW t \in Threads, GcStep(t)
  PROVE  GcGoesOn(t) \/ GcDestroys(t)
<1>0. TypeOK /\ PcTypeOK /\ FrameTypeOK
  BY DEF IInv, TypeOK
<1> USE DEF Goto, PcTypeOK, GcLabels
<1>1. CASE GcEnter(t) \/ GcScan(t) \/ GcKeep(t) \/ GcLoopEnd(t)
  BY <1>0, <1>1 DEF GcEnter, GcScan, GcKeep, GcLoopEnd, GcRead, GcFrame, GcGoesOn
<1>2. CASE GcAfter(t)
  BY <1>0, <1>2 DEF GcAfter, GcRead, GcFrame, GcGoesOn
<1>3. CASE GcDiscover(t) \/ GcOrphansEnd(t) \/ GcReferences(t) \/ GcBridge(t)
  BY <1>0, <1>3 DEF GcDiscover, GcOrphansEnd, GcReferences, GcBridge, GcRead, GcFrame, GcGoesOn
<1>4. CASE GcEpair(t) \/ GcEpairsEnd(t) \/ GcActive(t)
  BY <1>0, <1>4 DEF GcEpair, GcEpairsEnd, GcActive, GcRead, GcFrame, GcGoesOn
<1>5. CASE GcRaises(t) \/ GcClear(t)
  BY <1>0, <1>5 DEF GcRaises, GcClear, GcReturn, GcGoesOn
<1>6. CASE GcReclaim(t) \/ GcOrphan(t)
  <2>1. gcv[t].todo \subseteq Names
    BY <1>0 DEF TypeOK, GcTypeOK, GcLocals
  <2>2. CASE GcReclaim(t)
    <3>1. PICK n \in gcv[t].todo : GcCall(t, n, "g_loop", frame[t].uid = 0)
      BY <2>2 DEF GcReclaim
    <3>2. pc[t] = "g_loop" /\ n \in Names
      BY <2>1, <2>2 DEF GcReclaim
    <3>3. PICK x \in BOOLEAN : x = (frame[t].uid = 0)
      OBVIOUS
    <3> QED
      BY <1>0, <3>1, <3>2, <3>3, GcCallMoves
  <2>3. CASE GcOrphan(t)
    <3>1. PICK n \in gcv[t].todo : GcCall(t, n, "g_orphans", TRUE)
      BY <2>3 DEF GcOrphan
    <3>2. pc[t] = "g_orphans" /\ n \in Names
      BY <2>1, <2>3 DEF GcOrphan
    <3> QED
      BY <1>0, <3>1, <3>2, GcCallMoves
  <2> QED
    BY <1>6, <2>2, <2>3
<1> QED
  BY <1>1, <1>2, <1>3, <1>4, <1>5, <1>6 DEF GcStep

Moves(t) ==
  \/ EntersName(t) \/ CreateGoesOn(t) \/ DestroyGoesOn(t) \/ CreateDestroys(t) \/ LeavesName(t)
  \/ GcGoesOn(t) \/ GcDestroys(t)

LEMMA ThreadMoves ==
  ASSUME IInv, NEW t \in Threads, Step(t)
  PROVE  Moves(t)
  BY CreateMoves, DestroyMoves, GcMoves DEF Step, Moves

\* The labels of a create, a destroy and a gc are different ones.
LEMMA LabelSets ==
  /\ Creating \subseteq Held /\ Destroying \subseteq Held /\ Removing \cup Removed \subseteq Destroying
  /\ Creating \cap Destroying = {}
  /\ (GcLabels \cup {"idle", "c_lock", "d_lock"}) \cap Held = {}
  /\ GcLabels \cap {"idle", "c_lock", "d_lock"} = {}
  /\ "d_load" \notin Removing \cup Removed /\ "d_load" \in Destroying
  /\ "c_begin" \in Creating
  BY DEF Creating, Destroying, Held, GcLabels, Preparing, Building, Removing, Removed

\* The locals of a request that nobody has worked on.
Plain(p, f, l) ==
  /\ l \in {"c_lock", "d_lock", "g_lock"}
  /\ ~f.force /\ f.back = "reply" /\ f.uid = Uid[p] /\ f.want = "bridge"

\* What a new request is.
LEMMA RequestFields ==
  ASSUME TypeOK, NEW t \in Workers, NewRequest(t)
  PROVE  /\ serving /\ pc[t] = "idle" /\ pc'[t] \in {"c_lock", "d_lock", "g_lock"}
         /\ ~frame'[t].force /\ frame'[t].back = "reply"
         /\ \E p \in Pids : frame'[t].uid = Uid[p]
         /\ frame'[t].want = "bridge"
         /\ \A u \in Threads \ {t} : pc'[u] = pc[u] /\ frame'[u] = frame[u] /\ gcv'[u] = gcv[u]
         /\ UNCHANGED <<registry, leases, host, nameLock, sharedLock, serving, missed, crashes>>
<1>0. t \in Threads /\ PcTypeOK /\ FrameTypeOK /\ GcTypeOK
  BY DEF TypeOK, Threads
<1>1. PICK p \in Pids : \/ \E n \in Names, k \in Kinds : RequestCreate(t, p, n, k)
                        \/ \E n \in Names : RequestDestroy(t, p, n)
                        \/ \E stale \in BOOLEAN : RequestGc(t, p, stale)
  BY DEF NewRequest
<1>2. PICK f, g, l : Request(t, p, f, g, l) /\ Plain(p, f, l)
  <2>1. ASSUME NEW n \in Names, NEW k \in Kinds, RequestCreate(t, p, n, k)
        PROVE  \E f, g, l : Request(t, p, f, g, l) /\ Plain(p, f, l)
    <3> DEFINE f == [NoFrame EXCEPT !.name = n, !.pid = p, !.uid = Uid[p], !.kind = k]
    <3>1. Request(t, p, f, NoGc, "c_lock")
      BY <2>1 DEF RequestCreate
    <3>2. Plain(p, f, "c_lock")
      BY DEF NoFrame, Plain
    <3> QED
      BY <3>1, <3>2
  <2>2. ASSUME NEW n \in Names, RequestDestroy(t, p, n)
        PROVE  \E f, g, l : Request(t, p, f, g, l) /\ Plain(p, f, l)
    <3> DEFINE f == [NoFrame EXCEPT !.name = n, !.uid = Uid[p]]
    <3>1. Request(t, p, f, NoGc, "d_lock")
      BY <2>2 DEF RequestDestroy
    <3>2. Plain(p, f, "d_lock")
      BY DEF NoFrame, Plain
    <3> QED
      BY <3>1, <3>2
  <2>3. ASSUME NEW stale \in BOOLEAN, RequestGc(t, p, stale)
        PROVE  \E f, g, l : Request(t, p, f, g, l) /\ Plain(p, f, l)
    <3> DEFINE f == [NoFrame EXCEPT !.uid = Uid[p]]
    <3>1. Request(t, p, f, [NoGc EXCEPT !.stale = stale], "g_lock")
      BY <2>3 DEF RequestGc
    <3>2. Plain(p, f, "g_lock")
      BY DEF NoFrame, Plain
    <3> QED
      BY <3>1, <3>2
  <2> QED
    BY <1>1, <2>1, <2>2, <2>3
<1>3. frame'[t] = f /\ pc'[t] = l
  BY <1>0, <1>2 DEF Request, Goto, PcTypeOK, FrameTypeOK
<1>4. \A u \in Threads \ {t} : pc'[u] = pc[u] /\ frame'[u] = frame[u] /\ gcv'[u] = gcv[u]
  BY <1>0, <1>2 DEF Request, Goto, PcTypeOK, FrameTypeOK, GcTypeOK
<1>5. serving /\ pc[t] = "idle"
      /\ UNCHANGED <<registry, leases, host, nameLock, sharedLock, serving, missed, crashes>>
  BY <1>2 DEF Request, disk, locks, daemon, context
<1> QED
  BY <1>2, <1>3, <1>4, <1>5 DEF Plain

-----------------------------------------------------------------------------
(* Locks *)

\* A thread holds the lock of its own name only, and only inside the lifecycle of that
\* name: also when a create waits, in vain, for the lock that it holds.
LockInv(t) ==
  \A n \in Names : nameLock[n] = t =>
    frame[t].name = n /\ (pc[t] \in Held \/ (pc[t] = "d_lock" /\ frame[t].back = "create"))

LEMMA LockMoves ==
  ASSUME IInv, NEW t \in Threads, Step(t), \A u \in Threads : LockInv(u)
  PROVE  \A u \in Threads : LockInv(u)'
<1>0. /\ TypeOK /\ ThreadInv(t) /\ LockInv(t) /\ nameLock \in [Names -> Threads \cup {Nobody}]
      /\ Nobody \notin Threads
  BY DaemonAssumption DEF IInv, TypeOK, DaemonTypeOK
<1>a. Moves(t)
  BY ThreadMoves
<1>b. pc[t] \in Held => frame[t].name \in Names /\ nameLock[frame[t].name] = t
  BY <1>0 DEF ThreadInv
<1>1. ASSUME NEW n \in Names PROVE nameLock'[n] \in {nameLock[n], t, Nobody}
  BY <1>0, <1>a DEF Moves, EntersName, CreateGoesOn, DestroyGoesOn, CreateDestroys, LeavesName,
     GcGoesOn, GcDestroys, Unlock
<1>2. ASSUME NEW u \in Threads \ {t} PROVE LockInv(u)'
  <2>1. pc'[u] = pc[u] /\ frame'[u] = frame[u] /\ LockInv(u)
    BY OthersStay
  <2>2. \A n \in Names : nameLock'[n] = u => nameLock[n] = u
    BY <1>0, <1>1
  <2> QED
    BY <2>1, <2>2 DEF LockInv
<1>3. LockInv(t)'
  <2>1. CASE EntersName(t)
    <3>1. frame'[t] = frame[t] /\ pc'[t] \in Held
      BY <2>1, LabelSets DEF EntersName
    <3>2. ASSUME NEW n \in Names, nameLock'[n] = t PROVE n = frame[t].name
      <4>1. CASE nameLock[n] = t
        BY <4>1, <1>0 DEF LockInv
      <4>2. CASE nameLock[n] # t
        BY <1>0, <2>1, <3>2, <4>2 DEF EntersName
      <4> QED
        BY <4>1, <4>2
    <3> QED
      BY <3>1, <3>2 DEF LockInv
  <2>2. CASE CreateGoesOn(t) \/ DestroyGoesOn(t) \/ CreateDestroys(t)
    <3>1. /\ nameLock' = nameLock /\ frame'[t].name = frame[t].name
          /\ pc'[t] \in Held \/ (pc'[t] = "d_lock" /\ frame'[t].back = "create")
      BY <2>2, LabelSets DEF CreateGoesOn, DestroyGoesOn, CreateDestroys, SameCall
    <3> QED
      BY <1>0, <3>1 DEF LockInv
  <2>3. CASE LeavesName(t)
    <3>1. ASSUME NEW n \in Names PROVE nameLock'[n] # t
      <4>1. nameLock' = [nameLock EXCEPT ![frame[t].name] = Nobody]
        BY <2>3 DEF LeavesName, Unlock
      <4>2. CASE nameLock[n] = t
        BY <4>1, <4>2, <1>0 DEF LockInv
      <4>3. CASE nameLock[n] # t
        BY <4>1, <4>3, <1>0
      <4> QED
        BY <4>2, <4>3
    <3> QED
      BY <3>1 DEF LockInv
  <2>4. CASE GcGoesOn(t) \/ GcDestroys(t)
    <3>1. nameLock' = nameLock /\ pc[t] \in GcLabels
      BY <2>4 DEF GcGoesOn, GcDestroys, GcLabels
    <3>2. \A n \in Names : nameLock[n] # t
      BY <1>0, <3>1, LabelSets DEF LockInv
    <3> QED
      BY <3>1, <3>2 DEF LockInv
  <2> QED
    BY <1>a, <2>1, <2>2, <2>3, <2>4 DEF Moves
<1> QED
  BY <1>2, <1>3

\* A new request holds nothing, and after a crash nobody does.
LEMMA LockStep ==
  ASSUME IInv, [Next]_vars, \A u \in Threads : LockInv(u)
  PROVE  \A u \in Threads : LockInv(u)'
<1>1. CASE \E t \in Threads : Step(t)
  BY <1>1, LockMoves
<1>2. ASSUME NEW t \in Workers, NewRequest(t) PROVE \A u \in Threads : LockInv(u)'
  <2>1. pc[t] = "idle" /\ t \in Threads /\ nameLock' = nameLock
        /\ \A u \in Threads \ {t} : pc'[u] = pc[u] /\ frame'[u] = frame[u]
    BY <1>2, RequestFields DEF IInv, Threads
  <2>2. \A n \in Names : nameLock[n] # t
    BY <2>1, LabelSets DEF LockInv
  <2> QED
    BY <2>1, <2>2 DEF LockInv
<1>3. CASE Restart
  BY <1>3, DaemonAssumption DEF Restart, LockInv
<1>4. CASE UNCHANGED <<nameLock, pc, frame>>
  BY <1>4 DEF LockInv
<1> QED
  BY <1>1, <1>2, <1>3, <1>4 DEF Next, Environment, Crash, Reboot, ClientExit, ClientStart, vars,
     locks, threads

-----------------------------------------------------------------------------
(* Rights *)

\* A destroy that works without asking acts for root, or was called by a create and
\* waits for ever; one that has asked acts for the owner or for root.
RightsInv(t) ==
  LET f == frame[t] IN
  /\ pc[t] = "d_lock" /\ f.back = "create" => nameLock[f.name] = t
  /\ pc[t] \in Destroying => f.back # "create"
  /\ pc[t] \in Destroying \cup {"d_lock"} =>
       /\ f.force => f.uid = 0 \/ f.back = "create"
       /\ f.back = "g_orphans" => f.uid = 0
  /\ pc[t] \in {"g_discover", "g_orphans"} => f.uid = 0
  /\ pc[t] \in Removing \cup Removed =>
       registry[f.name] = NoRecord \/ Authorized(f.uid, registry[f.name])

LEMMA RightsMove ==
  ASSUME IInv, NEW t \in Threads, Step(t), RightsInv(t)
  PROVE  RightsInv(t)'
<1>0. ThreadInv(t) /\ Nobody \notin Threads
  BY DaemonAssumption DEF IInv
<1>1. CASE EntersName(t)
  <2>1. pc'[t] \in {"c_begin", "d_load"} /\ frame'[t] = frame[t]
    BY <1>1 DEF EntersName
  <2>2. pc'[t] \notin Removing \cup Removed \cup {"d_lock", "g_discover", "g_orphans"}
    BY <2>1 DEF Removing, Removed
  <2>3. pc'[t] \in Destroying => pc[t] = "d_lock" /\ frame[t].back # "create"
    BY <1>0, <1>1, LabelSets DEF EntersName, RightsInv
  <2> QED
    BY <2>1, <2>2, <2>3 DEF RightsInv
<1>2. CASE CreateGoesOn(t)
  <2>1. pc'[t] \notin Destroying \cup Removing \cup Removed \cup {"d_lock", "g_discover", "g_orphans"}
    BY <1>2, LabelSets DEF CreateGoesOn, GcLabels
  <2> QED
    BY <2>1 DEF RightsInv
<1>3. CASE DestroyGoesOn(t)
  <2>1. /\ pc[t] \in Destroying /\ pc'[t] \in Removing \cup Removed /\ pc'[t] \in Destroying
        /\ pc'[t] \notin {"d_lock", "g_discover", "g_orphans"}
    BY <1>3, LabelSets DEF DestroyGoesOn, GcLabels
  <2>2. SameCall(t) /\ registry' = registry
    BY <1>3 DEF DestroyGoesOn
  <2>3. registry[frame[t].name] = NoRecord \/ Authorized(frame[t].uid, registry[frame[t].name])
    <3>1. CASE pc[t] = "d_load"
      BY <1>3, <2>1, <3>1 DEF DestroyGoesOn, RightsInv, Authorized
    <3>2. CASE pc[t] # "d_load"
      BY <2>1, <3>2 DEF RightsInv, Destroying
    <3> QED
      BY <3>1, <3>2
  <2> QED
    BY <2>1, <2>2, <2>3 DEF RightsInv, SameCall, Authorized
<1>4. CASE CreateDestroys(t)
  <2>1. nameLock'[frame'[t].name] = t /\ pc'[t] = "d_lock" /\ frame'[t].back = "create"
    BY <1>0, <1>4, LabelSets DEF CreateDestroys, ThreadInv
  <2>2. "d_lock" \notin Destroying \cup Removing \cup Removed
    BY LabelSets
  <2> QED
    BY <2>1, <2>2 DEF RightsInv
<1>5. CASE LeavesName(t)
  <2>1. CASE pc'[t] = "idle"
    <3>1. "idle" \notin Destroying \cup Removing \cup Removed
      BY LabelSets
    <3> QED
      BY <2>1, <3>1 DEF RightsInv
  <2>2. CASE pc'[t] # "idle"
    <3>1. /\ pc[t] \in Destroying /\ pc'[t] \in {"g_loop", "g_orphans"}
          /\ pc'[t] = frame[t].back /\ frame'[t].uid = frame[t].uid
      BY <1>5, <2>2 DEF LeavesName
    <3>2. pc'[t] \notin Destroying \cup Removing \cup Removed \cup {"d_lock"}
      BY <3>1, LabelSets DEF GcLabels
    <3> QED
      BY <3>1, <3>2 DEF RightsInv
  <2> QED
    BY <2>1, <2>2
<1>6. CASE GcGoesOn(t)
  <2>1. pc'[t] \notin Destroying \cup Removing \cup Removed \cup {"d_lock"}
    BY <1>6, LabelSets DEF GcGoesOn
  <2> QED
    BY <1>6, <2>1 DEF RightsInv, GcGoesOn
<1>7. CASE GcDestroys(t)
  <2>1. "d_lock" \notin Destroying \cup Removing \cup Removed
    BY LabelSets
  <2> QED
    BY <1>7, <2>1 DEF RightsInv, GcDestroys
<1> QED
  BY <1>1, <1>2, <1>3, <1>4, <1>5, <1>6, <1>7, ThreadMoves DEF Moves

\* The record of the name that a thread works on is changed by nobody else.
LEMMA OthersRights ==
  ASSUME IInv, NEW t \in Threads, Step(t), NEW u \in Threads \ {t}, RightsInv(u), LockInv(t)
  PROVE  RightsInv(u)'
<1> DEFINE n == frame[u].name
<1>1. pc'[u] = pc[u] /\ frame'[u] = frame[u]
  BY OthersStay
<1>2. ThreadInv(u) /\ ThreadInv(t)
  BY DEF IInv
<1>3. pc[u] = "d_lock" /\ frame[u].back = "create" => nameLock'[n] = u
  <2> SUFFICES ASSUME pc[u] = "d_lock", frame[u].back = "create" PROVE nameLock'[n] = u
    OBVIOUS
  <2>1. nameLock[n] = u /\ n \in Names
    BY <1>2 DEF RightsInv, ThreadInv
  <2> QED
    BY <2>1, OthersLocks, DaemonAssumption
<1>4. pc[u] \in Removing \cup Removed => registry'[n] = registry[n]
  <2> SUFFICES ASSUME pc[u] \in Removing \cup Removed PROVE registry'[n] = registry[n]
    OBVIOUS
  <2>1. nameLock[n] = u /\ n \in Names
    BY <1>2, LabelSets DEF ThreadInv
  <2>2. pc[t] \notin Held \/ n # frame[t].name
    BY <1>2, <2>1 DEF ThreadInv
  <2> QED
    BY <2>1, <2>2, OthersNames
<1> QED
  BY <1>1, <1>3, <1>4 DEF RightsInv, Authorized

LEMMA RightsStep ==
  ASSUME IInv, [Next]_vars, \A u \in Threads : LockInv(u) /\ RightsInv(u)
  PROVE  \A u \in Threads : RightsInv(u)'
<1>1. ASSUME NEW t \in Threads, Step(t) PROVE \A u \in Threads : RightsInv(u)'
  BY <1>1, RightsMove, OthersRights
<1>2. ASSUME NEW t \in Workers, NewRequest(t) PROVE \A u \in Threads : RightsInv(u)'
  <2>1. /\ pc'[t] \in {"c_lock", "d_lock", "g_lock"} /\ ~frame'[t].force /\ frame'[t].back = "reply"
        /\ \A u \in Threads \ {t} : pc'[u] = pc[u] /\ frame'[u] = frame[u]
        /\ UNCHANGED <<nameLock, registry>>
    BY <1>2, RequestFields DEF IInv
  <2>2. pc'[t] \notin Destroying \cup Removing \cup Removed
    BY <2>1, LabelSets DEF GcLabels
  <2> QED
    BY <2>1, <2>2 DEF RightsInv, Authorized
<1>3. CASE Restart
  <2>1. \A u \in Threads : pc'[u] \in {"g_lock", "idle"}
    BY <1>3 DEF Restart, BootPc
  <2>2. \A u \in Threads : pc'[u] \notin Destroying \cup Removing \cup Removed
    BY <2>1, LabelSets DEF GcLabels
  <2> QED
    BY <2>1, <2>2 DEF RightsInv
<1>4. CASE UNCHANGED <<nameLock, registry, pc, frame>>
  BY <1>4 DEF RightsInv, Authorized
<1> QED
  BY <1>1, <1>2, <1>3, <1>4 DEF Next, Environment, Crash, Reboot, ClientExit, ClientStart, vars,
     locks, threads, disk

\* The daemon's invariant with its locks and rights.
GuardInv == IInv /\ \A t \in Threads : LockInv(t) /\ RightsInv(t)

LEMMA GuardInvariant == Spec => []GuardInv
<1>1. Init => GuardInv
  <2> SUFFICES ASSUME Init PROVE GuardInv
    OBVIOUS
  <2>1. \A t \in Threads : pc[t] \in {"g_lock", "idle"} /\ \A n \in Names : nameLock[n] # t
    BY DaemonAssumption DEF Init, BootPc
  <2>2. \A t \in Threads : pc[t] \notin Destroying \cup Removing \cup Removed
    BY <2>1, LabelSets DEF GcLabels
  <2> QED
    BY <2>1, <2>2, InitIInv DEF GuardInv, LockInv, RightsInv
<1>2. GuardInv /\ [Next]_vars => GuardInv'
  BY Invariance, LockStep, RightsStep DEF GuardInv
<1> QED
  BY <1>1, <1>2, PTL DEF Spec

\* A record disappears only by a destroy that acts for root or for the user recorded as the
\* runtime's owner at that moment (destroy, _authorize_record), whatever the snapshot said
\* from which a gc chose the name.
THEOREM OnlyOwners == Spec => OnlyOwnerUnregisters
<1>1. ASSUME GuardInv, Next, NEW n \in Names, registry[n] # NoRecord, registry'[n] = NoRecord
      PROVE  \E t \in Threads : /\ pc[t] = "d_unregister" /\ frame[t].name = n
                                /\ Authorized(frame[t].uid, registry[n])
  <2>1. registry' # registry
    BY <1>1
  <2>2. PICK t \in Threads : Step(t)
    BY <1>1, <2>1, RequestFields DEF Next, Environment, Crash, Reboot, Restart, ClientExit,
       ClientStart, disk, GuardInv, IInv
  <2>3. IInv /\ ThreadInv(t) /\ RightsInv(t) /\ registry \in [Names -> Records \cup {NoRecord}]
    BY <1>1 DEF GuardInv, IInv, TypeOK, DiskTypeOK
  <2>4. pc[t] \in Held /\ n = frame[t].name
    BY <1>1, <2>2, <2>3, OthersNames
  <2>5. Writes(t)
    BY <2>1, <2>2, <2>3, FewWrite DEF Untouched
  <2>6. ~(Construction(t) /\ pc[t] \in Building)
    BY <2>1, <2>3, ConstructionMakes DEF IInv, TypeOK, DiskTypeOK
  <2>7. ~(CreateWrite(t) \/ CreateCommit(t))
    BY <1>1, <2>3, <2>4, RecordAssumption DEF CreateWrite, CreateCommit, ThreadInv, Building
  <2>8. pc[t] = "d_unregister"
    BY <2>5, <2>6, <2>7 DEF Writes, DestroyUnregister
  <2> QED
    BY <1>1, <2>3, <2>4, <2>8 DEF RightsInv, Removed
<1>2. GuardInv /\ [Next]_vars =>
        [\A n \in Names : registry[n] # NoRecord /\ registry'[n] = NoRecord =>
           \E t \in Threads : /\ pc[t] = "d_unregister" /\ frame[t].name = n
                              /\ Authorized(frame[t].uid, registry[n])]_vars
  BY <1>1
<1> QED
  BY <1>2, GuardInvariant, PTL DEF Spec, OnlyOwnerUnregisters

-----------------------------------------------------------------------------
(* Waiting for each other *)

\* Outside the configuration of the bridge the shared lock is held by a gc only, also while
\* the gc destroys a runtime.
SharedInv(t) ==
  sharedLock = t =>
    \/ pc[t] = "ensure_configure"
    \/ pc[t] \in GcLabels \ {"g_lock"}
    \/ pc[t] \in Destroying \cup {"d_lock"} /\ frame[t].back \in {"g_loop", "g_orphans"}

\* The shared lock is taken to configure the bridge and by a gc, and both release it when
\* they end.
SharedMoves(t) ==
  \/ sharedLock' = Nobody
  \/ sharedLock' = t /\ pc'[t] \in {"ensure_configure", "g_scan"}
  \/ /\ sharedLock' = sharedLock /\ pc[t] # "ensure_configure"
     /\ pc[t] \in GcLabels => pc'[t] # "idle"

LEMMA SharedSteps ==
  ASSUME IInv, NEW t \in Threads, Step(t)
  PROVE  SharedMoves(t)
<1>0. PcTypeOK /\ host \subseteq Resources
  BY DEF IInv, TypeOK, DiskTypeOK
<1>1. CASE CreateStep(t)
  <2>0. pc[t] \notin GcLabels
    BY <1>1, CreateMoves, LabelSets DEF EntersName, CreateGoesOn, CreateDestroys, LeavesName, GcLabels,
       Held
  <2>1. CASE Construction(t)
    <3>1. sharedLock' = sharedLock /\ pc[t] \in Building
      BY <1>0, <2>1, ConstructionMakes, ConstructionThread
    <3> QED
      BY <2>0, <3>1 DEF SharedMoves, Building
  <2>2. CASE EnsureLock(t) \/ EnsureConfigure(t) \/ EnsureFails(t)
    BY <1>0, <2>2 DEF EnsureLock, EnsureConfigure, EnsureFails, SharedMoves, Goto, PcTypeOK
  <2>3. CASE CreateEnter(t) \/ CreateReconcile(t) \/ CreateBegin(t) \/ EnsureCheck(t) \/ CopySource(t)
    BY <2>0, <2>3 DEF CreateEnter, EnterNamed, CreateReconcile, CreateBegin, EnsureCheck, CopySource,
       BuildFrame, locks, SharedMoves
  <2>4. CASE CreateDenied(t) \/ AllocateFails(t) \/ WriteFails(t) \/ FinishFails(t)
    BY <2>0, <2>4 DEF CreateDenied, AllocateFails, WriteFails, Refuse, FinishFails, locks, SharedMoves
  <2>5. CASE CreateAllocate(t) \/ CreateWrite(t) \/ CreateCommit(t) \/ CreateStart(t)
    BY <2>0, <2>5 DEF CreateAllocate, CreateWrite, CreateCommit, CreateStart, locks, SharedMoves
  <2> QED
    BY <1>1, <2>1, <2>2, <2>3, <2>4, <2>5 DEF CreateStep, Construction
<1>2. CASE DestroyStep(t)
  <2>0. pc[t] \notin GcLabels \cup {"ensure_configure"}
    BY <1>2, DestroyMoves, LabelSets DEF EntersName, DestroyGoesOn, LeavesName, DestroyStep, DestroyEnter,
       EnterNamed, DestroyLoad, DestroyVm, DestroyMd, DestroyRecorded, DestroyJail, DestroyEpair,
       DestroyDataset, Remove, DestroyCheck, DestroyRelease, DestroyUnregister, GcLabels
  <2>1. sharedLock' = sharedLock
    BY <1>2 DEF DestroyStep, DestroyEnter, EnterNamed, DestroyLoad, DestroyVm, DestroyMd,
       DestroyRecorded, DestroyJail, DestroyEpair, DestroyDataset, Remove, DestroyCheck,
       DestroyRelease, DestroyUnregister
  <2> QED
    BY <2>0, <2>1 DEF SharedMoves
<1>3. CASE GcStep(t)
  <2> USE DEF SharedMoves, Goto, PcTypeOK, GcLabels
  <2>1. CASE GcEnter(t) \/ GcRaises(t) \/ GcClear(t)
    BY <1>0, <2>1 DEF GcEnter, GcRaises, GcClear, GcReturn
  <2>2. CASE GcScan(t) \/ GcKeep(t) \/ GcReclaim(t) \/ GcLoopEnd(t) \/ GcAfter(t)
    BY <1>0, <2>2 DEF GcScan, GcKeep, GcReclaim, GcLoopEnd, GcAfter, GcRead, GcCall
  <2>3. CASE GcDiscover(t) \/ GcOrphan(t) \/ GcOrphansEnd(t) \/ GcReferences(t) \/ GcBridge(t)
    BY <1>0, <2>3 DEF GcDiscover, GcOrphan, GcOrphansEnd, GcReferences, GcBridge, GcRead, GcCall
  <2>4. CASE GcEpair(t) \/ GcEpairsEnd(t) \/ GcActive(t)
    BY <1>0, <2>4 DEF GcEpair, GcEpairsEnd, GcActive, GcRead
  <2> QED
    BY <1>3, <2>1, <2>2, <2>3, <2>4 DEF GcStep
<1> QED
  BY <1>1, <1>2, <1>3 DEF Step

LEMMA SharedStep ==
  ASSUME GuardInv, [Next]_vars, \A u \in Threads : SharedInv(u)
  PROVE  \A u \in Threads : SharedInv(u)'
<1>0. IInv /\ Nobody \notin Threads /\ Workers \subseteq Threads
  BY DaemonAssumption DEF GuardInv, Threads
<1>1. ASSUME NEW t \in Threads, Step(t) PROVE \A u \in Threads : SharedInv(u)'
  <2>1. SharedMoves(t) /\ Moves(t)
    BY <1>0, <1>1, SharedSteps, ThreadMoves
  <2>2. ASSUME NEW u \in Threads \ {t} PROVE SharedInv(u)'
    BY <1>0, <1>1, <2>1, OthersStay DEF SharedInv, SharedMoves
  <2>3. SharedInv(t)'
    <3>1. SUFFICES ASSUME sharedLock' = t, pc'[t] \notin {"ensure_configure", "g_scan"}
                   PROVE  SharedInv(t)'
      BY DEF SharedInv, GcLabels
    <3>2. /\ sharedLock = t /\ pc[t] # "ensure_configure"
          /\ pc[t] \in GcLabels => pc'[t] # "idle"
      BY <1>0, <2>1, <3>1 DEF SharedMoves
    <3>3. CASE pc[t] \in GcLabels \ {"g_lock"}
      <4>1. GcGoesOn(t) \/ GcDestroys(t)
        BY <2>1, <3>3, LabelSets DEF Moves, EntersName, CreateGoesOn, DestroyGoesOn, CreateDestroys, LeavesName
      <4> QED
        BY <3>2, <3>3, <4>1 DEF GcGoesOn, GcDestroys, SharedInv
    <3>4. CASE pc[t] \in Destroying \cup {"d_lock"} /\ frame[t].back \in {"g_loop", "g_orphans"}
      <4>1. EntersName(t) \/ DestroyGoesOn(t) \/ LeavesName(t)
        BY <2>1, <3>4, LabelSets DEF Moves, CreateGoesOn, CreateDestroys, GcGoesOn, GcDestroys, GcLabels
      <4>2. CASE EntersName(t)
        BY <3>4, <4>2, LabelSets DEF EntersName, SharedInv
      <4>3. CASE DestroyGoesOn(t)
        BY <3>4, <4>3, LabelSets DEF DestroyGoesOn, SameCall, SharedInv
      <4>4. CASE LeavesName(t)
        BY <3>4, <4>4, LabelSets DEF LeavesName, SharedInv, GcLabels
      <4> QED
        BY <4>1, <4>2, <4>3, <4>4
    <3> QED
      BY <3>2, <3>3, <3>4 DEF SharedInv
  <2> QED
    BY <2>2, <2>3
<1>2. ASSUME NEW t \in Workers, NewRequest(t) PROVE \A u \in Threads : SharedInv(u)'
  <2>1. /\ pc[t] = "idle" /\ sharedLock' = sharedLock
        /\ \A u \in Threads \ {t} : pc'[u] = pc[u] /\ frame'[u] = frame[u]
    BY <1>0, <1>2, RequestFields DEF IInv
  <2>2. sharedLock # t
    BY <1>0, <2>1, LabelSets DEF SharedInv, GcLabels
  <2> QED
    BY <2>1, <2>2 DEF SharedInv
<1>3. CASE Restart
  BY <1>0, <1>3 DEF Restart, SharedInv
<1>4. CASE UNCHANGED <<sharedLock, pc, frame>>
  BY <1>4 DEF SharedInv
<1> QED
  BY <1>1, <1>2, <1>3, <1>4 DEF Next, Environment, Crash, Reboot, ClientExit, ClientStart, vars,
     locks, threads

\* Who holds the lock of a name and waits is a create: for its own lock, or for the shared
\* one.  Who holds the shared lock and waits is a gc, in a destroy.
LEMMA HoldersWait ==
  ASSUME GuardInv, \A u \in Threads : SharedInv(u), NEW u \in Threads, NEW v \in Threads,
         WaitsFor(u, v)
  PROVE  /\ \A n \in Names : nameLock[n] = u => OwnDestroy(u) \/ (pc[u] = "ensure_lock" /\ sharedLock = v)
         /\ sharedLock = u => /\ pc[u] = "d_lock" /\ frame[u].back \in {"g_loop", "g_orphans"}
                              /\ frame[u].name \in Names /\ nameLock[frame[u].name] = v
<1>0. LockInv(u) /\ RightsInv(u) /\ ThreadInv(u) /\ SharedInv(u)
  BY DEF GuardInv, IInv
<1>1. /\ Held \cap {"g_lock", "ensure_lock", "d_lock", "c_lock"} = {"ensure_lock"}
      /\ \A l \in (GcLabels \ {"g_lock"}) \cup Destroying : l \notin {"g_lock", "ensure_lock", "d_lock", "c_lock"}
  BY DEF Held, GcLabels, Destroying, Preparing, Building, Removing, Removed
<1>2. pc[u] \in {"g_lock", "ensure_lock", "d_lock", "c_lock"}
  BY DEF WaitsFor
<1>3. ASSUME NEW n \in Names, nameLock[n] = u
      PROVE  OwnDestroy(u) \/ (pc[u] = "ensure_lock" /\ sharedLock = v)
  BY <1>0, <1>1, <1>2, <1>3 DEF LockInv, RightsInv, OwnDestroy, WaitsFor
<1>4. ASSUME sharedLock = u
      PROVE  /\ pc[u] = "d_lock" /\ frame[u].back \in {"g_loop", "g_orphans"}
             /\ frame[u].name \in Names /\ nameLock[frame[u].name] = v
  <2>1. pc[u] = "ensure_configure" \/ pc[u] = "d_lock" \/ pc[u] \in (GcLabels \ {"g_lock"}) \cup Destroying
    BY <1>0, <1>4 DEF SharedInv
  <2>3. pc[u] = "d_lock"
    BY <1>1, <1>2, <2>1
  <2>4. "d_lock" \notin GcLabels
    BY LabelSets
  <2> QED
    BY <1>0, <1>4, <2>3, <2>4 DEF SharedInv, ThreadInv, WaitsFor
<1> QED
  BY <1>3, <1>4

\* However many creates, destroys and gcs run at once, and whatever fails or crashes, there
\* are two ways to a deadlock, both found in the code: a create that calls self.destroy while
\* it holds the lock of its own name (_serialized_lifecycle), and a create inside that lock
\* that waits for _shared_lock, which a gc holds that destroys the runtime of that name.  A
\* deadlock of any set of threads, whatever it is made of, contains one of the two.
THEOREM OnlyDeadlocks == Spec => []OnlyKnownDeadlocks
<1> DEFINE Sharing == \A t \in Threads : SharedInv(t)
<1>1. Init => Sharing
  BY DaemonAssumption DEF Init, SharedInv
<1>2. GuardInv /\ Sharing /\ [Next]_vars => Sharing'
  BY SharedStep
<1>3. GuardInv /\ Sharing => OnlyKnownDeadlocks
  <2> SUFFICES ASSUME GuardInv, Sharing, NEW S \in SUBSET Threads, Deadlock(S)
               PROVE  \E t, u \in S : OwnDestroy(t) \/ Crossed(t, u)
    BY DEF OnlyKnownDeadlocks
  <2>1. ASSUME NEW w \in S, NEW n \in Names, nameLock[n] = w
        PROVE  OwnDestroy(w) \/ \E v \in S : pc[w] = "ensure_lock" /\ sharedLock = v
    <3>1. PICK v \in S : WaitsFor(w, v)
      BY DEF Deadlock
    <3> QED
      BY <2>1, <3>1, HoldersWait
  <2>2. ASSUME NEW v \in S, sharedLock = v PROVE \E t, u \in S : OwnDestroy(t) \/ Crossed(t, u)
    <3>1. PICK w \in S : WaitsFor(v, w)
      BY DEF Deadlock
    <3>2. /\ pc[v] = "d_lock" /\ frame[v].back \in {"g_loop", "g_orphans"}
          /\ frame[v].name \in Names /\ nameLock[frame[v].name] = w
      BY <2>2, <3>1, HoldersWait
    <3>3. OwnDestroy(w) \/ pc[w] = "ensure_lock"
      BY <2>1, <3>2
    <3>4. pc[w] = "ensure_lock" => Crossed(w, v)
      BY <2>2, <3>1, <3>2 DEF Crossed, WaitsFor
    <3> QED
      BY <3>3, <3>4
  <2>3. PICK t \in S, u \in S : WaitsFor(t, u)
    BY DEF Deadlock
  <2>4. CASE sharedLock = u
    BY <2>2, <2>4
  <2>5. CASE sharedLock # u
    <3>1. frame[t].name \in Names /\ nameLock[frame[t].name] = u
      BY <2>3, <2>5 DEF WaitsFor, GuardInv, IInv, ThreadInv
    <3> QED
      BY <2>1, <2>2, <3>1
  <2> QED
    BY <2>4, <2>5
<1> QED
  BY <1>1, <1>2, <1>3, GuardInvariant, PTL DEF Spec

-----------------------------------------------------------------------------
(* Refinement of RuntimeLifecycle *)

\* A removal of destroy takes nothing that carries another name, and a guest's dataset only
\* along with the guest or because the record names it.
LEMMA RemovalHost ==
  ASSUME NEW t \in Threads, Removal(t)
  PROVE  /\ \A m \in Names : m # frame[t].name => Named(m) \cap host' = Named(m) \cap host
         /\ \A m \in Names : <<"vmdata", m>> \in host \ host' =>
              <<"vm", m>> \in host \/ frame[t].rec # NoRecord
<1> DEFINE n == frame[t].name
           Own == {<<"jail", n>>, <<"vm", n>>, <<"vmdata", n>>, <<"dataset", n>>}
           Unit == {x \in host : x[1] \in {"epair", "md"}}
<1>1. ASSUME NEW from, NEW targets, NEW to, Remove(t, from, targets, to)
      PROVE  host' \subseteq host /\ host \ host' \subseteq targets
  BY <1>1 DEF Remove
<1>2. /\ host' \subseteq host /\ host \ host' \subseteq Own \cup Unit
      /\ \A m \in Names : <<"vmdata", m>> \in host \ host' =>
           <<"vm", m>> \in host \/ frame[t].rec # NoRecord
  <2>1. CASE DestroyVm(t)
    BY <1>1, <2>1 DEF DestroyVm, Visible
  <2>2. CASE DestroyMd(t)
    BY <1>1, <2>2 DEF DestroyMd, RecordedMd
  <2>3. CASE DestroyRecorded(t)
    BY <1>1, <2>3 DEF DestroyRecorded, RecordedData
  <2>4. CASE DestroyJail(t)
    BY <1>1, <2>4 DEF DestroyJail
  <2>5. CASE DestroyEpair(t)
    BY <1>1, <2>5 DEF DestroyEpair, RecordedEpair
  <2>6. CASE DestroyDataset(t)
    BY <1>1, <2>6 DEF DestroyDataset
  <2> QED
    BY <2>1, <2>2, <2>3, <2>4, <2>5, <2>6 DEF Removal
<1>3. ASSUME NEW m \in Names, m # n PROVE Named(m) \cap (Own \cup Unit) = {}
  BY <1>3 DEF Named, Probed
<1> QED
  BY <1>2, <1>3

\* Only the commands of a create, the removals of a destroy and gc's sweep of epairs touch
\* the host.
LEMMA FewTouch ==
  ASSUME NEW t \in Threads, Step(t)
  PROVE  UNCHANGED <<host, member>> \/ Construction(t) \/ CopySource(t) \/ Removal(t) \/ GcEpair(t)
<1>1. CASE CreateStep(t)
  <2>1. CASE CreateEnter(t) \/ CreateBegin(t) \/ CreateReconcile(t) \/ FinishFails(t)
    BY <2>1 DEF CreateEnter, EnterNamed, CreateBegin, CreateReconcile, FinishFails
  <2>2. CASE CreateDenied(t) \/ AllocateFails(t) \/ WriteFails(t)
    BY <2>2 DEF CreateDenied, AllocateFails, WriteFails, Refuse
  <2>3. CASE EnsureCheck(t) \/ EnsureLock(t) \/ EnsureConfigure(t) \/ EnsureFails(t)
    BY <2>3 DEF EnsureCheck, EnsureLock, EnsureConfigure, EnsureFails
  <2>4. CASE CreateAllocate(t) \/ CreateWrite(t) \/ CreateCommit(t) \/ CreateStart(t)
    BY <2>4 DEF CreateAllocate, CreateWrite, CreateCommit, CreateStart
  <2> QED
    BY <1>1, <2>1, <2>2, <2>3, <2>4 DEF CreateStep, Construction
<1>2. CASE DestroyStep(t)
  BY <1>2 DEF DestroyStep, Removal, DestroyEnter, EnterNamed, DestroyLoad, DestroyCheck,
     DestroyRelease, DestroyUnregister
<1>3. CASE GcStep(t)
  <2>1. CASE GcEnter(t) \/ GcScan(t) \/ GcKeep(t) \/ GcReclaim(t) \/ GcLoopEnd(t) \/ GcAfter(t)
    BY <2>1 DEF GcEnter, GcScan, GcKeep, GcReclaim, GcLoopEnd, GcAfter, GcRead, GcCall
  <2>2. CASE GcDiscover(t) \/ GcOrphan(t) \/ GcOrphansEnd(t) \/ GcReferences(t) \/ GcBridge(t)
    BY <2>2 DEF GcDiscover, GcOrphan, GcOrphansEnd, GcReferences, GcBridge, GcRead, GcCall
  <2>3. CASE GcEpairsEnd(t) \/ GcActive(t) \/ GcRaises(t) \/ GcClear(t)
    BY <2>3 DEF GcEpairsEnd, GcActive, GcRead, GcRaises, GcClear, GcReturn
  <2> QED
    BY <1>3, <2>1, <2>2, <2>3 DEF GcStep
<1> QED
  BY <1>1, <1>2, <1>3 DEF Step

\* The states of RuntimeLifecycle.
Owners == [n \in Names |-> IF registry[n] = NoRecord THEN NoRecord ELSE registry[n].owner]

Existing == [n \in Names |-> PartsOf(n)]

\* A step of the lifecycle, in these words.
Lives ==
  \/ UNCHANGED <<Owners, Existing>>
  \/ \E n \in Names, p \in Identities :
       Owners[n] = NoRecord /\ Owners' = [Owners EXCEPT ![n] = p] /\ Existing' = Existing
  \/ \E n \in Names, new \in SUBSET PartKinds :
       Owners[n] # NoRecord /\ Existing' = [Existing EXCEPT ![n] = new] /\ Owners' = Owners
  \/ \E n \in Names : /\ Existing[n] \subseteq {"vmdata"}
                      /\ Owners' = [Owners EXCEPT ![n] = NoRecord] /\ Existing' = Existing
  \/ Existing' = [n \in Names |-> Existing[n] \ {"jail"}] /\ Owners' = Owners

LEMMA LivesIsNext == Lives => [Life!Next]_(<<Owners, Existing>>)
  BY DEF Lives, Life!Next, Life!Register, Life!Change, Life!Unregister, Life!HostRestart,
     Owners, Existing

\* Nothing is to be said of n that was not true before: what carries the name stays, or was
\* given up before.
Same(n) ==
  /\ n \in missed' <=> n \in missed
  /\ n \in missed \/ Named(n) \cap host' = Named(n) \cap host

LEMMA PartsStay ==
  ASSUME NEW n \in Names, Same(n)
  PROVE  Existing'[n] = Existing[n]
<1>1. n \in missed \/ \A k \in PartKinds : <<k, n>> \in host' <=> <<k, n>> \in host
  BY DEF Same, Named, Probed, PartKinds
<1>2. /\ Existing[n] = IF n \in missed THEN {} ELSE {k \in PartKinds : <<k, n>> \in host}
      /\ Existing'[n] = IF n \in missed' THEN {} ELSE {k \in PartKinds : <<k, n>> \in host'}
  BY DEF Existing, PartsOf
<1> QED
  BY <1>1, <1>2 DEF Same

\* One name's parts change, or are given up, while it is registered.
LEMMA PartsChange ==
  ASSUME NEW n \in Names, registry' = registry, registry[n] \in Records,
         \A m \in Names : m # n => Same(m)
  PROVE  Lives
<1>1. Existing' = [Existing EXCEPT ![n] = Existing'[n]]
  <2>1. \A m \in Names : m # n => Existing'[m] = Existing[m]
    BY PartsStay
  <2> QED
    BY <2>1 DEF Existing
<1>2. Existing'[n] \in SUBSET PartKinds
  BY DEF Existing, PartsOf
<1>3. Owners[n] # NoRecord /\ Owners' = Owners
  BY RecordAssumption DEF Owners, Records
<1> QED
  BY <1>1, <1>2, <1>3 DEF Lives

\* Neither registry nor parts change.
LEMMA PartsKept ==
  ASSUME registry' = registry, \A n \in Names : Same(n)
  PROVE  Lives
<1>1. Existing' = Existing
  <2>1. \A m \in Names : Existing'[m] = Existing[m]
    BY PartsStay
  <2> QED
    BY <2>1 DEF Existing
<1>2. Owners' = Owners
  BY DEF Owners
<1> QED
  BY <1>1, <1>2 DEF Lives

\* What is not registered carries no name, unless it was given up before.
LEMMA Unregistered ==
  ASSUME IInv, NEW n \in Names \ missed, registry[n] = NoRecord
  PROVE  Probed(n) \cap host = {}
<1>1. ASSUME NEW x \in Probed(n) \cap host PROVE FALSE
  <2>1. x \in Named(n) \cap host /\ x # <<"vmdata", n>>
    BY DEF Named, Probed
  <2> QED
    BY <2>1 DEF IInv, RegisteredWhileExisting
<1> QED
  BY <1>1

\* Every step of a thread is one of the lifecycle of the name it works on, or none.
LEMMA StepLives ==
  ASSUME IInv, NEW t \in Threads, Step(t)
  PROVE  Lives
<1>0. /\ ThreadInv(t) /\ host \subseteq Resources
      /\ registry \in [Names -> Records \cup {NoRecord}]
  BY DEF IInv, TypeOK, DiskTypeOK
<1> PICK n : n = frame[t].name
  OBVIOUS
<1>1. CASE Construction(t)
  <2>1. pc[t] \in Building /\ registry' = registry /\ missed' = missed
    BY <1>0, <1>1, ConstructionThread, ConstructionMakes
  <2>2. n \in Names /\ registry[n] \in Records
    BY <1>0, <2>1, LabelSets DEF ThreadInv, Creating
  <2>3. \A m \in Names : m # n => Same(m)
    BY <1>1, <2>1, ConstructionHost DEF Same
  <2> QED
    BY <2>1, <2>2, <2>3, PartsChange
<1>2. CASE Removal(t)
  <2>1. pc[t] \in Removing /\ registry' = registry /\ host' \subseteq host /\ missed' = missed
    BY <1>2, RemovalEffect
  <2>2. n \in Names /\ frame[t].rec = registry[n]
    BY <1>0, <2>1, LabelSets DEF ThreadInv
  <2>3. \A m \in Names : m # n => Same(m)
    BY <1>2, <2>1, RemovalHost DEF Same
  <2>4. CASE registry[n] = NoRecord
    <3>1. ASSUME n \notin missed PROVE Named(n) \cap host' = Named(n) \cap host
      <4>1. Probed(n) \cap host = {}
        BY <2>2, <2>4, <3>1, Unregistered
      <4>2. <<"vmdata", n>> \notin host \ host'
        BY <1>2, <2>2, <2>4, <4>1, RemovalHost DEF Probed
      <4> QED
        BY <2>1, <4>1, <4>2 DEF Named
    <3>2. Same(n)
      BY <2>1, <3>1 DEF Same
    <3> QED
      BY <2>1, <2>3, <3>2, PartsKept
  <2>5. CASE registry[n] # NoRecord
    BY <1>0, <2>1, <2>2, <2>3, <2>5, PartsChange
  <2> QED
    BY <2>4, <2>5
<1>3. CASE GcEpair(t) \/ CopySource(t)
  <2>1. registry' = registry /\ missed' = missed
    BY <1>3 DEF GcEpair, GcFrame, CopySource, BuildFrame, disk, context
  <2>2. \E x \in ({"epair"} \X Epairs) \cup ({"source"} \X Names) : host' \in {host, host \ {x}}
    <3>1. CASE GcEpair(t)
      <4>1. gcv[t].eps \subseteq Epairs
        BY DEF IInv, TypeOK, GcTypeOK, GcLocals
      <4>2. PICK e \in gcv[t].eps : host' = host \/ host' = host \ {<<"epair", e>>}
        BY <3>1 DEF GcEpair
      <4>3. <<"epair", e>> \in {"epair"} \X Epairs
        BY <4>1
      <4> QED
        BY <4>2, <4>3
    <3>2. CASE CopySource(t)
      <4>1. n \in Names /\ host' \in {host, host \ {<<"source", n>>}}
        BY <1>0, <3>2 DEF CopySource, ThreadInv, Held, Building
      <4> QED
        BY <4>1
    <3> QED
      BY <1>3, <3>1, <3>2
  <2>3. \A m \in Names : Same(m)
    BY <2>1, <2>2 DEF Same, Named, Probed
  <2> QED
    BY <2>1, <2>3, PartsKept
<1>4. CASE host' = host /\ registry' = registry /\ missed' = missed
  BY <1>4, PartsKept DEF Same
<1>5. CASE CreateWrite(t) \/ CreateCommit(t)
  <2>1. /\ n \in Names /\ registry' = [registry EXCEPT ![n] = frame[t].rec] /\ frame[t].rec \in Records
        /\ registry[n] = NoRecord \/ (registry[n] \in Records /\ registry[n].owner = frame[t].rec.owner)
    BY <1>0, <1>5 DEF CreateWrite, CreateCommit, ThreadInv, Held, Building
  <2>2. host' = host /\ missed' = missed
    BY <1>5 DEF CreateWrite, CreateCommit, context
  <2>3. frame[t].rec # NoRecord /\ frame[t].rec.owner \in Identities
    BY <2>1, RecordAssumption DEF Records
  <2>4. Owners' = [Owners EXCEPT ![n] = frame[t].rec.owner] /\ Existing' = Existing
    BY <1>0, <2>1, <2>2, <2>3 DEF Owners, Existing, PartsOf
  <2>5. CASE registry[n] = NoRecord
    <3>1. Owners[n] = NoRecord
      BY <2>1, <2>5 DEF Owners
    <3> QED
      BY <2>1, <2>3, <2>4, <3>1 DEF Lives
  <2>6. CASE registry[n] # NoRecord
    <3>1. Owners[n] = frame[t].rec.owner
      BY <2>1, <2>6 DEF Owners
    <3>2. Owners' = Owners
      BY <2>1, <2>4, <3>1 DEF Owners
    <3> QED
      BY <2>4, <3>2 DEF Lives
  <2> QED
    BY <2>5, <2>6
<1>6. CASE DestroyCheck(t)
  <2>1. /\ n \in Names /\ frame[t].rec = registry[n] /\ registry' = registry /\ host' = host
        /\ missed' \in {missed, missed \cup {n}}
    BY <1>0, <1>6 DEF DestroyCheck, ThreadInv, Held, Removing, disk
  <2>2. CASE missed' = missed
    BY <1>4, <2>1, <2>2
  <2>3. CASE registry[n] # NoRecord
    <3>1. \A m \in Names : m # n => Same(m)
      BY <2>1 DEF Same
    <3> QED
      BY <1>0, <2>1, <2>3, <3>1, PartsChange
  <2>4. CASE registry[n] = NoRecord /\ n \notin missed
    <3>1. Probed(n) \cap host = {}
      BY <2>1, <2>4, Unregistered
    <3>2. Known(frame[t].rec, n) \cap Visible = {}
      BY <2>1, <2>4, <3>1 DEF Known, RecordedData, RecordedEpair, RecordedMd, Visible
    <3>3. missed' = missed
      BY <1>6, <3>2 DEF DestroyCheck
    <3> QED
      BY <2>2, <3>3
  <2> QED
    BY <2>1, <2>2, <2>3, <2>4
<1>7. CASE DestroyUnregister(t)
  <2>1. /\ n \in Names /\ registry' = [registry EXCEPT ![n] = NoRecord] /\ host' = host
        /\ missed' = missed /\ (n \in missed \/ Probed(n) \cap host = {})
    BY <1>0, <1>7 DEF ThreadInv, Held, Removed, DestroyUnregister, Gone, context
  <2>2. Existing[n] \subseteq {"vmdata"} /\ Existing' = Existing
    BY <2>1 DEF Existing, PartsOf, PartKinds, Probed
  <2>3. Owners' = [Owners EXCEPT ![n] = NoRecord]
    BY <1>0, <2>1 DEF Owners
  <2> QED
    BY <2>1, <2>2, <2>3 DEF Lives
<1>8. (registry' = registry \/ Construction(t) \/ CreateWrite(t) \/ CreateCommit(t) \/ DestroyUnregister(t))
      /\ (missed' = missed \/ DestroyCheck(t))
  BY FewWrite DEF Untouched, Writes
<1> QED
  BY <1>1, <1>2, <1>3, <1>4, <1>5, <1>6, <1>7, <1>8, FewTouch

\* What the daemon promises for every name, it keeps: it is registered by one process while
\* it is free, parts exist only while it is registered, it stays with its owner, and it is
\* unregistered when nothing is left but a guest's dataset, through failures, crashes and
\* reboots at any point.  Only where failing probes hid what was left it promises nothing
\* any more.
THEOREM DaemonImplementsLifecycle == Spec => ImplementsLifecycle
<1>1. Init => Life!Init
  BY DEF Init, Life!Init, PartsOf
<1>2. GuardInv /\ [Next]_vars => [Life!Next]_(<<Owners, Existing>>)
  <2> SUFFICES ASSUME GuardInv, [Next]_vars PROVE Lives
    BY LivesIsNext
  <2>1. ASSUME NEW t \in Threads, Step(t) PROVE Lives
    BY <2>1, StepLives DEF GuardInv
  <2>2. ASSUME NEW t \in Workers, NewRequest(t) PROVE Lives
    BY <2>2, RequestFields, PartsKept DEF GuardInv, IInv, Same
  <2>3. CASE Reboot
    <3>1. /\ registry' = registry /\ host' = {r \in host : r[1] \in {"dataset", "vm", "vmdata"}}
          /\ missed' = missed
      BY <2>3 DEF Reboot, Restart, disk
    <3>2. Existing' = [m \in Names |-> Existing[m] \ {"jail"}]
      <4>1. ASSUME NEW m \in Names PROVE Existing'[m] = Existing[m] \ {"jail"}
        <5>1. /\ Existing[m] = IF m \in missed THEN {} ELSE {k \in PartKinds : <<k, m>> \in host}
              /\ Existing'[m] = IF m \in missed THEN {} ELSE {k \in PartKinds : <<k, m>> \in host'}
          BY <3>1 DEF Existing, PartsOf
        <5>2. \A k \in PartKinds : <<k, m>> \in host' <=> <<k, m>> \in host /\ k # "jail"
          BY <3>1 DEF PartKinds
        <5> QED
          BY <5>1, <5>2
      <4> QED
        BY <4>1 DEF Existing
    <3>3. Owners' = Owners
      BY <3>1 DEF Owners
    <3> QED
      BY <3>2, <3>3 DEF Lives
  <2>4. CASE UNCHANGED <<registry, host, missed>>
    BY <2>4, PartsKept DEF Same
  <2> QED
    BY <2>1, <2>2, <2>3, <2>4 DEF Next, Environment, Crash, Restart, ClientExit, ClientStart, vars,
       disk, context
<1>3. ASSUME [Life!Next]_(<<Owners, Existing>>)
      PROVE  [Life!Next]_(<<[n \in Names |-> IF registry[n] = NoRecord THEN NoRecord ELSE registry[n].owner],
                            [n \in Names |-> PartsOf(n)]>>)
  BY <1>3 DEF Owners, Existing
<1> QED
  BY <1>1, <1>2, <1>3, GuardInvariant, PTL DEF Spec, ImplementsLifecycle, Life!Spec

-----------------------------------------------------------------------------
(* Addresses *)

\* Main works as root, alone, and before the daemon serves; when it sweeps the leases it
\* knows what is registered.
StartupInv ==
  /\ ~serving => \A t \in Workers : pc[t] = "idle"
  /\ pc[Main] # "idle" => ~serving /\ frame[Main].uid = 0
  /\ pc[Main] = "g_clear" => Registered = gcv[Main].active

\* No client is root.
ClientsInv == \A t \in Workers : pc[t] # "idle" => frame[t].uid # 0

\* A create has leased the address that it is going to register, or has registered.
AddressInv(t) ==
  LET f == frame[t] IN
  /\ pc[t] = "c_write" => f.rec.ip \in Addresses /\ leases[f.rec.ip] = f.name
  /\ pc[t] \in Building =>
       f.rec.ip = registry[f.name].ip /\ f.rec.ip \in Addresses /\ leases[f.rec.ip] = f.name

\* The address of what exists, and was not given up, is leased to its name.
LeasedInv == \A n \in Names \ missed : Probed(n) \cap host # {} => leases[registry[n].ip] = n

\* A thread that works keeps its caller.
LEMMA CallerKept ==
  ASSUME NEW t \in Threads, Moves(t)
  PROVE  pc[t] # "idle" /\ (pc'[t] = "idle" \/ frame'[t].uid = frame[t].uid)
  BY LabelSets DEF Moves, EntersName, CreateGoesOn, DestroyGoesOn, CreateDestroys, LeavesName,
     GcGoesOn, GcDestroys, SameCall

\* Who starts to serve is Main, at its end, and the sweep follows the last look at the
\* registry.
LEMMA StartupMove ==
  ASSUME IInv, NEW t \in Threads, Step(t)
  PROVE  /\ serving' = serving \/ (t = Main /\ serving' /\ pc'[Main] = "idle")
         /\ \A u \in Threads \ {t} : gcv'[u] = gcv[u]
         /\ pc'[t] = "g_clear" => Registered' = gcv'[t].active
<1>0. TypeOK /\ PcTypeOK /\ FrameTypeOK /\ GcTypeOK /\ DiskTypeOK
  BY DEF IInv, TypeOK
<1>1. CASE CreateStep(t)
  <2>1. pc'[t] # "g_clear"
    BY <1>1, CreateMoves, LabelSets DEF EntersName, CreateGoesOn, CreateDestroys, LeavesName, GcLabels
  <2>2. CASE Construction(t)
    BY <1>0, <2>1, <2>2, ConstructionMakes DEF DiskTypeOK
  <2>3. CASE ~Construction(t)
    <3>1. serving' = serving /\ gcv' = gcv
      BY <1>1, <2>3 DEF CreateStep, Construction, CreateEnter, EnterNamed, CreateDenied,
         CreateReconcile, CreateBegin, EnsureCheck, EnsureLock, EnsureConfigure, EnsureFails,
         AllocateFails, CreateAllocate, WriteFails, CreateWrite, CopySource, BuildFrame,
         CreateCommit, CreateStart, FinishFails, Refuse, daemon
    <3> QED
      BY <2>1, <3>1
  <2> QED
    BY <2>2, <2>3
<1>2. CASE DestroyStep(t)
  <2>1. pc'[t] # "g_clear"
    BY <1>2, DestroyMoves DEF EntersName, DestroyGoesOn, LeavesName, Removing, Removed
  <2>2. serving' = serving
    <3>1. CASE Removal(t)
      BY <3>1, RemovalEffect
    <3>2. CASE ~Removal(t)
      BY <1>2, <3>2 DEF DestroyStep, Removal, DestroyEnter, EnterNamed, DestroyLoad,
         DestroyCheck, DestroyRelease, DestroyUnregister, daemon
    <3> QED
      BY <3>1, <3>2
  <2>3. gcv' = gcv \/ \E failed : DestroyReturn(t, failed)
    <3>1. CASE Removal(t)
      BY <3>1, RemovalEffect
    <3>2. CASE ~Removal(t)
      BY <1>2, <3>2 DEF DestroyStep, Removal, DestroyEnter, EnterNamed, DestroyLoad,
         DestroyCheck, DestroyRelease, DestroyUnregister
    <3> QED
      BY <3>1, <3>2
  <2>4. \A u \in Threads \ {t} : gcv'[u] = gcv[u]
    BY <1>0, <2>3 DEF DestroyReturn, GcTypeOK
  <2> QED
    BY <2>1, <2>2, <2>4
<1>3. CASE GcStep(t)
  <2>1. CASE GcActive(t)
    BY <1>0, <2>1 DEF GcActive, GcRead, GcFrame, Goto, PcTypeOK, GcTypeOK, GcLocals, daemon, Registered
  <2>2. CASE GcRaises(t) \/ GcClear(t)
    <3>1. serving' = (serving \/ t = Main) /\ pc' = [pc EXCEPT ![t] = "idle"]
          /\ gcv' = [gcv EXCEPT ![t] = NoGc]
      BY <2>2 DEF GcRaises, GcClear, GcReturn, Goto
    <3>2. CASE t = Main
      BY <1>0, <3>1, <3>2 DEF PcTypeOK, GcTypeOK
    <3>3. CASE t # Main
      <4>1. serving \in BOOLEAN
        BY <1>0 DEF TypeOK, DaemonTypeOK
      <4>2. serving' = serving
        BY <3>1, <3>3, <4>1
      <4> QED
        BY <1>0, <3>1, <4>2 DEF PcTypeOK, GcTypeOK
    <3> QED
      BY <3>2, <3>3
  <2>3. CASE GcEnter(t) \/ GcScan(t) \/ GcKeep(t) \/ GcLoopEnd(t) \/ GcAfter(t)
    BY <1>0, <2>3 DEF GcEnter, GcScan, GcKeep, GcLoopEnd, GcAfter, GcRead, GcFrame, daemon, Goto,
       PcTypeOK, GcTypeOK
  <2>4. CASE GcReclaim(t) \/ GcOrphan(t)
    BY <1>0, <2>4 DEF GcReclaim, GcOrphan, GcCall, GcFrame, daemon, Goto, PcTypeOK, GcTypeOK
  <2>5. CASE GcDiscover(t) \/ GcOrphansEnd(t) \/ GcReferences(t) \/ GcBridge(t)
    BY <1>0, <2>5 DEF GcDiscover, GcOrphansEnd, GcReferences, GcBridge, GcRead, GcFrame, daemon,
       Goto, PcTypeOK, GcTypeOK
  <2>6. CASE GcEpair(t) \/ GcEpairsEnd(t)
    BY <1>0, <2>6 DEF GcEpair, GcEpairsEnd, GcRead, GcFrame, daemon, Goto, PcTypeOK, GcTypeOK
  <2> QED
    BY <1>3, <2>1, <2>2, <2>3, <2>4, <2>5, <2>6 DEF GcStep
<1> QED
  BY <1>1, <1>2, <1>3 DEF Step

LEMMA StartupStep ==
  ASSUME IInv, [Next]_vars, StartupInv
  PROVE  StartupInv'
<1>0. Workers \subseteq Threads /\ Main \in Threads /\ Main \notin Workers
  BY DaemonAssumption DEF Threads
<1>1. ASSUME NEW t \in Threads, Step(t) PROVE StartupInv'
  <2>0. pc[t] # "idle" /\ (pc'[t] = "idle" \/ frame'[t].uid = frame[t].uid)
    BY <1>1, ThreadMoves, CallerKept
  <2>1. \A u \in Threads \ {t} : pc'[u] = pc[u] /\ frame'[u] = frame[u] /\ gcv'[u] = gcv[u]
    BY <1>1, OthersStay, StartupMove
  <2>2. /\ serving' = serving \/ (t = Main /\ serving' /\ pc'[Main] = "idle")
        /\ pc'[t] = "g_clear" => Registered' = gcv'[t].active
    BY <1>1, StartupMove
  <2>3. CASE t = Main
    BY <1>0, <2>0, <2>1, <2>2, <2>3 DEF StartupInv
  <2>4. CASE t \in Workers
    <3>1. serving /\ pc[Main] = "idle"
      BY <2>0, <2>4 DEF StartupInv
    <3> QED
      BY <1>0, <2>0, <2>1, <2>2, <2>4, <3>1 DEF StartupInv
  <2> QED
    BY <2>3, <2>4 DEF Threads
<1>2. ASSUME NEW t \in Workers, NewRequest(t) PROVE StartupInv'
  <2>1. /\ serving' /\ serving /\ registry' = registry
        /\ \A u \in Threads \ {t} : pc'[u] = pc[u] /\ frame'[u] = frame[u] /\ gcv'[u] = gcv[u]
    BY <1>2, RequestFields DEF IInv
  <2> QED
    BY <1>0, <2>1 DEF StartupInv, Registered
<1>3. CASE Restart
  <2>1. /\ (pc'[Main] = "g_lock" /\ ~serving') \/ pc'[Main] = "idle"
        /\ \A u \in Workers : pc'[u] = "idle"
        /\ frame'[Main] = NoFrame
    BY <1>0, <1>3 DEF Restart, BootPc
  <2> QED
    BY <2>1 DEF StartupInv, NoFrame
<1>4. CASE UNCHANGED <<serving, pc, frame, gcv, registry>>
  BY <1>4 DEF StartupInv, Registered
<1> QED
  BY <1>1, <1>2, <1>3, <1>4 DEF Next, Environment, Crash, Reboot, ClientExit, ClientStart, vars,
     threads, daemon, disk

LEMMA ClientsStep ==
  ASSUME \A p \in Pids : Uid[p] # 0, IInv, [Next]_vars, ClientsInv
  PROVE  ClientsInv'
<1>0. Workers \subseteq Threads /\ Main \notin Workers
  BY DaemonAssumption DEF Threads
<1>1. ASSUME NEW t \in Threads, Step(t) PROVE ClientsInv'
  <2>1. pc[t] # "idle" /\ (pc'[t] = "idle" \/ frame'[t].uid = frame[t].uid)
    BY <1>1, ThreadMoves, CallerKept
  <2> QED
    BY <1>0, <1>1, <2>1, OthersStay DEF ClientsInv
<1>2. ASSUME NEW t \in Workers, NewRequest(t) PROVE ClientsInv'
  BY <1>0, <1>2, RequestFields DEF ClientsInv, IInv
<1>3. CASE Restart
  BY <1>0, <1>3 DEF Restart, BootPc, ClientsInv
<1>4. CASE UNCHANGED <<pc, frame>>
  BY <1>4 DEF ClientsInv
<1> QED
  BY <1>1, <1>2, <1>3, <1>4 DEF Next, Environment, Crash, Reboot, ClientExit, ClientStart, vars, threads

\* A lease goes by the destroy of its name, which has found nothing left of it, or by the
\* sweep of the daemon's startup, which spares registered names.
LEMMA LeasesStay ==
  ASSUME IInv, StartupInv, ClientsInv, NEW t \in Threads, Step(t),
         NEW a \in Addresses, NEW n \in Names, leases[a] = n, leases'[a] # n
  PROVE  \/ pc[t] = "d_release" /\ frame[t].name = n
         \/ t = Main /\ pc[t] = "g_clear" /\ n \notin Registered
<1>0. leases \in [Addresses -> LeaseValues] /\ n # Unleased /\ host \subseteq Resources
  BY PoolAssumption DEF IInv, TypeOK, DiskTypeOK, PoolTypeOK
<1>1. CASE CreateStep(t)
  <2>1. CASE AllocateFails(t) \/ CreateAllocate(t)
    <3>1. leases' = leases \/ \E b \in FreeAddresses : \E v : leases' = [leases EXCEPT ![b] = v]
      BY <2>1 DEF AllocateFails, CreateAllocate, Allocate, AllocateTorn
    <3> QED
      BY <1>0, <3>1 DEF FreeAddresses
  <2>2. CASE Construction(t)
    BY <1>0, <2>2, ConstructionMakes
  <2>3. CASE ~(AllocateFails(t) \/ CreateAllocate(t) \/ Construction(t))
    <3>1. leases' = leases
      BY <1>1, <2>3 DEF CreateStep, Construction, CreateEnter, EnterNamed, CreateDenied,
         CreateReconcile, CreateBegin, EnsureCheck, EnsureLock, EnsureConfigure, EnsureFails,
         WriteFails, CreateWrite, CopySource, BuildFrame, CreateCommit, CreateStart, FinishFails, disk
    <3> QED
      BY <3>1
  <2> QED
    BY <2>1, <2>2, <2>3
<1>2. CASE DestroyStep(t)
  <2>1. CASE DestroyRelease(t)
    <3>1. CASE frame[t].name = n
      BY <2>1, <3>1 DEF DestroyRelease
    <3>2. CASE frame[t].name # n
      BY <1>0, <2>1, <3>2 DEF DestroyRelease, Release
    <3> QED
      BY <3>1, <3>2
  <2>2. CASE Removal(t)
    BY <2>2, RemovalEffect
  <2>3. CASE ~(DestroyRelease(t) \/ Removal(t))
    <3>1. leases' = leases
      BY <1>2, <2>3 DEF DestroyStep, Removal, DestroyEnter, EnterNamed, DestroyLoad, DestroyCheck,
         DestroyUnregister, disk
    <3> QED
      BY <3>1
  <2> QED
    BY <2>1, <2>2, <2>3
<1>3. CASE GcStep(t)
  <2>1. CASE GcClear(t)
    <3>1. frame[t].uid = 0 /\ Sweep(gcv[t].active)
      BY <2>1 DEF GcClear
    <3>2. n \notin gcv[t].active
      BY <1>0, <3>1 DEF Sweep, ClearOrphans, Orphans
    <3>3. pc[t] = "g_clear" /\ t = Main
      BY <2>1, <3>1 DEF GcClear, ClientsInv, Threads
    <3> QED
      BY <3>2, <3>3 DEF StartupInv
  <2>2. CASE ~GcClear(t)
    <3>1. leases' = leases
      BY <1>3, <2>2 DEF GcStep, GcEnter, GcRaises, GcScan, GcKeep, GcReclaim, GcLoopEnd, GcAfter,
         GcDiscover, GcOrphan, GcOrphansEnd, GcReferences, GcBridge, GcEpair, GcEpairsEnd,
         GcActive, GcRead, GcCall, GcFrame
    <3> QED
      BY <3>1
  <2> QED
    BY <2>1, <2>2
<1> QED
  BY <1>1, <1>2, <1>3 DEF Step

\* A command of a create leaves the address in the record alone.
LEMMA AddressKept ==
  ASSUME IInv, NEW t \in Threads, Construction(t)
  PROVE  frame'[t].rec.ip = frame[t].rec.ip /\ frame'[t].name = frame[t].name
<1>0. FrameTypeOK /\ frame[t].rec \in Records
  BY ConstructionThread DEF IInv, TypeOK, ThreadInv
<1>1. CASE CallDestroy(t, TRUE)
  BY <1>0, <1>1 DEF CallDestroy, FrameTypeOK, Frames
<1>2. CASE \E r : frame' = [frame EXCEPT ![t].rec = r] /\ r.ip = frame[t].rec.ip
  BY <1>0, <1>2 DEF FrameTypeOK, Frames
<1>3. ASSUME NEW r \in Records
      PROVE  /\ \A u : [r EXCEPT !.ep = u].ip = r.ip
             /\ \A u : [r EXCEPT !.md = u].ip = r.ip
             /\ \A u : [r EXCEPT !.data = u].ip = r.ip
  BY DEF Records
<1> USE DEF Build, BuildOk, BuildFails
<1>4. CASE CloneDataset(t) \/ AddMember(t) \/ StartJail(t) \/ CloneSource(t)
  BY <1>1, <1>2, <1>4 DEF CloneDataset, AddMember, StartJail, CloneSource
<1>5. CASE CreateEpair(t)
  <2>1. PICK u \in Epairs :
          Build(t, "c_epair", TRUE, {<<"epair", u>>}, [frame[t].rec EXCEPT !.ep = u], "c_addm")
    BY <1>5 DEF CreateEpair, FreeUnits
  <2>2. CallDestroy(t, TRUE) \/ frame' = [frame EXCEPT ![t].rec = [frame[t].rec EXCEPT !.ep = u]]
    BY <2>1
  <2>3. [frame[t].rec EXCEPT !.ep = u].ip = frame[t].rec.ip
    BY <1>0, <1>3
  <2> QED
    BY <1>1, <1>2, <2>2, <2>3
<1>6. CASE CreateMemdisk(t)
  <2>1. PICK u \in Mds :
          Build(t, "c_md", TRUE, {<<"md", u>>}, [frame[t].rec EXCEPT !.md = u], "c_source")
    BY <1>6 DEF CreateMemdisk, FreeUnits
  <2>2. CallDestroy(t, TRUE) \/ frame' = [frame EXCEPT ![t].rec = [frame[t].rec EXCEPT !.md = u]]
    BY <2>1
  <2>3. [frame[t].rec EXCEPT !.md = u].ip = frame[t].rec.ip
    BY <1>0, <1>3
  <2> QED
    BY <1>1, <1>2, <2>2, <2>3
<1>7. CASE CreateVm(t)
  <2>1. PICK z \in BOOLEAN :
          CallDestroy(t, TRUE) \/ frame' = [frame EXCEPT ![t].rec = [frame[t].rec EXCEPT !.data = z]]
    BY <1>7 DEF CreateVm
  <2>2. CallDestroy(t, TRUE) \/ frame' = [frame EXCEPT ![t].rec = [frame[t].rec EXCEPT !.data = z]]
    BY <2>1
  <2>3. [frame[t].rec EXCEPT !.data = z].ip = frame[t].rec.ip
    BY <1>0, <1>3
  <2> QED
    BY <1>1, <1>2, <2>2, <2>3
<1> QED
  BY <1>4, <1>5, <1>6, <1>7 DEF Construction

\* A create keeps the address it has leased, from the lease to its end.
LEMMA AddressMove ==
  ASSUME IInv, NEW t \in Threads, Step(t), AddressInv(t)
  PROVE  AddressInv(t)'
<1> DEFINE n == frame[t].name
<1>0. TypeOK /\ PcTypeOK /\ FrameTypeOK /\ DiskTypeOK /\ ThreadInv(t)
  BY DEF IInv, TypeOK
<1>1. CASE CreateAllocate(t)
  <2>1. PICK a \in Addresses :
          /\ a \in FreeAddresses /\ leases' = [leases EXCEPT ![a] = n]
          /\ frame' = [frame EXCEPT ![t].rec =
                         [kind |-> frame[t].kind, owner |-> frame[t].owner, ip |-> a,
                          ep |-> NoUnit, md |-> NoUnit, data |-> frame[t].kind = "jail"]]
    BY <1>1 DEF CreateAllocate, Allocate
  <2>2. pc'[t] = "c_write"
    BY <1>0, <1>1 DEF CreateAllocate, Goto, PcTypeOK
  <2>3. frame'[t].rec.ip = a /\ frame'[t].name = n
    BY <1>0, <2>1 DEF FrameTypeOK, Frames
  <2>4. leases'[a] = n
    BY <1>0, <2>1 DEF DiskTypeOK, PoolTypeOK
  <2> QED
    BY <2>2, <2>3, <2>4 DEF AddressInv, Building
<1>2. CASE CreateWrite(t)
  <2>1. pc[t] = "c_write" /\ registry' = [registry EXCEPT ![n] = frame[t].rec] /\ leases' = leases
        /\ frame' = frame
    BY <1>2 DEF CreateWrite
  <2>2. pc'[t] # "c_write"
    BY <1>0, <1>2 DEF CreateWrite, FirstBuildStep, Goto, PcTypeOK
  <2>3. n \in Names
    BY <1>0, <2>1 DEF ThreadInv, Held
  <2>4. registry'[n] = frame[t].rec
    BY <1>0, <2>1, <2>3 DEF DiskTypeOK
  <2> QED
    BY <2>1, <2>2, <2>4 DEF AddressInv
<1>3. CASE Construction(t)
  <2>1. pc[t] \in Building /\ pc'[t] # "c_write"
    <3>1. "c_write" \notin Building
      BY DEF Building
    <3>2. CASE CallDestroy(t, TRUE)
      BY <1>0, <1>3, <3>2, ConstructionThread DEF CallDestroy, Goto, PcTypeOK
    <3>3. CASE \E l \in Building, r \in Records : BuildsOn(t, l, r)
      BY <1>0, <1>3, <3>1, <3>3, ConstructionThread DEF BuildsOn, Goto, PcTypeOK
    <3> QED
      BY <1>3, <3>2, <3>3, ConstructionThread
  <2>2. registry' = registry /\ leases' = leases
    BY <1>0, <1>3, ConstructionMakes DEF DiskTypeOK
  <2> QED
    BY <1>3, <2>1, <2>2, AddressKept DEF AddressInv
<1>4. CASE CreateCommit(t)
  <2>1. pc[t] = "c_commit" /\ registry' = [registry EXCEPT ![n] = frame[t].rec] /\ leases' = leases
    BY <1>4 DEF CreateCommit
  <2>2. n \in Names
    BY <1>0, <2>1 DEF ThreadInv, Held, Building
  <2>3. registry'[n] = frame[t].rec
    BY <1>0, <2>1, <2>2 DEF DiskTypeOK
  <2>4. pc'[t] = "idle" \/ (pc'[t] = "c_start" /\ frame' = frame)
    BY <1>0, <1>4 DEF CreateCommit, Reply, Goto, PcTypeOK
  <2> QED
    BY <2>1, <2>3, <2>4 DEF AddressInv, Building
<1>6. CASE CopySource(t)
  <2>1. pc[t] \in Building /\ registry' = registry /\ leases' = leases
    BY <1>6 DEF CopySource, BuildFrame, disk, Building
  <2>2. pc'[t] \in {"c_vm", "d_lock"} /\ (pc'[t] = "c_vm" => frame' = frame)
    BY <1>0, <1>6 DEF CopySource, CallDestroy, Goto, PcTypeOK
  <2> QED
    BY <2>1, <2>2 DEF AddressInv, Building
<1>5. CASE ~(\/ CreateAllocate(t) \/ CreateWrite(t) \/ Construction(t) \/ CreateCommit(t)
            \/ CopySource(t))
  <2>1. pc'[t] \notin {"c_write"} \cup Building
    <3>1. CASE CreateStep(t)
      <4>1. CASE CreateEnter(t) \/ CreateBegin(t) \/ CreateReconcile(t) \/ FinishFails(t)
        BY <1>0, <4>1 DEF CreateEnter, EnterNamed, CreateBegin, CreateReconcile, FinishFails,
           CallDestroy, Goto, PcTypeOK, Building
      <4>2. CASE CreateDenied(t) \/ AllocateFails(t) \/ WriteFails(t)
        BY <1>0, <4>2 DEF CreateDenied, AllocateFails, WriteFails, Refuse, Reply, Goto, PcTypeOK, Building
      <4>3. CASE EnsureCheck(t) \/ EnsureLock(t) \/ EnsureConfigure(t) \/ EnsureFails(t) \/ CreateStart(t)
        BY <1>0, <4>3 DEF EnsureCheck, EnsureLock, EnsureConfigure, EnsureFails, CreateStart,
           Ensured, Reply, Goto, PcTypeOK, Building
      <4> QED
        BY <1>5, <3>1, <4>1, <4>2, <4>3 DEF CreateStep, Construction
    <3>2. CASE DestroyStep(t)
      BY <3>2, DestroyMoves DEF EntersName, DestroyGoesOn, LeavesName, Removing, Removed, Building
    <3>3. CASE GcStep(t)
      BY <3>3, GcMoves DEF GcGoesOn, GcDestroys, GcLabels, Building
    <3> QED
      BY <3>1, <3>2, <3>3 DEF Step
  <2> QED
    BY <2>1 DEF AddressInv
<1> QED
  BY <1>1, <1>2, <1>3, <1>4, <1>5, <1>6

\* Nobody else takes away the address of a create: the lock of its name keeps destroys out,
\* and the sweep of the startup is over before there are creates.
LEMMA OthersAddress ==
  ASSUME IInv, StartupInv, ClientsInv, NEW t \in Threads, Step(t), NEW u \in Threads \ {t}, AddressInv(u)
  PROVE  AddressInv(u)'
<1> DEFINE n == frame[u].name
           a == frame[u].rec.ip
<1>1. pc'[u] = pc[u] /\ frame'[u] = frame[u]
  BY OthersStay
<1>2. CASE pc[u] \notin {"c_write"} \cup Building
  BY <1>1, <1>2 DEF AddressInv
<1>3. CASE pc[u] \in {"c_write"} \cup Building
  <2>1. ThreadInv(u) /\ ThreadInv(t)
    BY DEF IInv
  <2>2. pc[u] \in Held /\ n \in Names /\ nameLock[n] = u
    BY <1>3, <2>1 DEF ThreadInv, Held
  <2>3. a \in Addresses /\ leases[a] = n
    BY <1>3 DEF AddressInv
  <2>4. pc[t] \notin Held \/ n # frame[t].name
    BY <2>1, <2>2 DEF ThreadInv
  <2>5. registry'[n] = registry[n]
    BY <2>2, <2>4, OthersNames
  <2>6. ~(pc[t] = "d_release" /\ frame[t].name = n)
    BY <2>4 DEF Held, Removed
  <2>7. ~(t = Main /\ pc[t] = "g_clear")
    <3>1. SUFFICES ASSUME t = Main, pc[t] = "g_clear" PROVE FALSE
      OBVIOUS
    <3>2. u \in Workers /\ ~serving
      BY <3>1 DEF Threads, StartupInv
    <3>3. pc[u] = "idle"
      BY <3>2 DEF StartupInv
    <3> QED
      BY <1>3, <3>3 DEF Building
  <2>8. leases'[a] = n
    BY <2>2, <2>3, <2>6, <2>7, LeasesStay
  <2> QED
    BY <1>1, <2>5, <2>8 DEF AddressInv
<1> QED
  BY <1>2, <1>3

\* What a thread makes exists under a leased address, and a lease outlives what exists.
LEMMA LeasedStep ==
  ASSUME IInv, StartupInv, ClientsInv, LeasedInv, NEW t \in Threads, Step(t), AddressInv(t)
  PROVE  LeasedInv'
<1> DEFINE m == frame[t].name
<1>0. /\ ThreadInv(t) /\ RegisteredWhileExisting
      /\ registry \in [Names -> Records \cup {NoRecord}] /\ host \subseteq Resources
  BY DEF IInv, TypeOK, DiskTypeOK
<1>1. SUFFICES ASSUME NEW n \in Names \ missed', Probed(n) \cap host' # {}
               PROVE  leases'[registry'[n].ip] = n
  BY DEF LeasedInv, Probed
<1>a. n \in Names \ missed
  BY Growth
<1>2. CASE Probed(n) \cap host = {}
  <2>1. ~(host' \subseteq host)
    BY <1>1, <1>2
  <2>2. Construction(t) /\ pc[t] \in Building
    BY <2>1, FewWrite DEF Untouched, Writes, CreateWrite, CreateCommit, DestroyUnregister
  <2>3. n = m
    BY <1>1, <1>2, <2>2, ConstructionHost DEF Named, Probed
  <2>4. registry' = registry /\ leases' = leases
    BY <1>0, <2>2, ConstructionMakes
  <2> QED
    BY <2>2, <2>3, <2>4 DEF AddressInv
<1>3. CASE Probed(n) \cap host # {}
  <2>1. registry[n] \in Records
    BY <1>0, <1>a, <1>3, Unregistered
  <2>2. registry[n].ip \in Addresses /\ leases[registry[n].ip] = n
    BY <1>a, <1>3, <2>1 DEF LeasedInv, Records
  <2>3. ~(pc[t] \in Removed /\ m = n)
    BY <1>0, <1>a, <1>3 DEF ThreadInv, Gone
  <2>4. n \in Registered
    BY <2>1, RecordAssumption DEF Registered
  <2>5. leases'[registry[n].ip] = n
    BY <2>2, <2>3, <2>4, LeasesStay DEF Removed
  <2>6. registry'[n].ip = registry[n].ip
    <3>1. CASE pc[t] \notin Held \/ n # m
      BY <3>1, OthersNames
    <3>2. CASE Untouched
      BY <3>2 DEF Untouched
    <3>3. CASE Construction(t)
      BY <1>0, <3>3, ConstructionMakes
    <3>4. CASE n = m /\ CreateWrite(t)
      <4>1. registry[n] = NoRecord
        BY <1>0, <3>4 DEF CreateWrite, ThreadInv
      <4> QED
        BY <2>4, <4>1 DEF Registered
    <3>5. CASE n = m /\ CreateCommit(t)
      <4>1. pc[t] = "c_commit" /\ registry'[n] = frame[t].rec
        BY <1>0, <3>5 DEF CreateCommit
      <4>2. pc[t] \in Building
        BY <4>1 DEF Building
      <4> QED
        BY <3>5, <4>1, <4>2 DEF AddressInv
    <3>6. CASE n = m /\ DestroyUnregister(t)
      BY <2>3, <3>6 DEF DestroyUnregister, Removed
    <3> QED
      BY <3>1, <3>2, <3>3, <3>4, <3>5, <3>6, FewWrite DEF Writes
  <2> QED
    BY <2>5, <2>6
<1> QED
  BY <1>2, <1>3

AddressGuard == IInv /\ StartupInv /\ ClientsInv /\ LeasedInv /\ \A t \in Threads : AddressInv(t)

\* The steps that no thread takes leave leases and records alone, and make nothing.
LEMMA AddressElsewhere ==
  ASSUME AddressGuard, leases' = leases, registry' = registry, host' \subseteq host,
         missed' = missed,
         \A t \in Threads : \/ pc'[t] = pc[t] /\ frame'[t] = frame[t]
                            \/ pc'[t] \in {"idle", "c_lock", "d_lock", "g_lock"}
  PROVE  LeasedInv' /\ \A t \in Threads : AddressInv(t)'
<1>1. LeasedInv'
  BY DEF AddressGuard, LeasedInv, Probed
<1>2. ASSUME NEW t \in Threads PROVE AddressInv(t)'
  <2>1. CASE pc'[t] = pc[t] /\ frame'[t] = frame[t]
    BY <2>1 DEF AddressGuard, AddressInv
  <2>2. CASE pc'[t] \in {"idle", "c_lock", "d_lock", "g_lock"}
    BY <2>2 DEF AddressInv, Building
  <2> QED
    BY <2>1, <2>2
<1> QED
  BY <1>1, <1>2

\* Two running runtimes never have the same private address, as long as no client is root:
\* an address is leased before the record that names it is written (_allocate,
\* _write_registry) and released only when destroy has found nothing left of the runtime,
\* whatever fails or crashes in between, with or without reconciliation at startup.
THEOREM AddressesAreDistinct ==
  ASSUME \A p \in Pids : Uid[p] # 0
  PROVE  Spec => []AddressesDistinct
<1>1. Init => AddressGuard
  <2> SUFFICES ASSUME Init PROVE AddressGuard
    OBVIOUS
  <2>1. /\ \A t \in Workers : pc[t] = "idle"
        /\ (pc[Main] = "g_lock" /\ ~serving) \/ pc[Main] = "idle"
        /\ frame[Main] = NoFrame /\ host = {}
    BY DaemonAssumption DEF Init, BootPc, Threads
  <2>2. \A t \in Threads : pc[t] \notin {"c_write"} \cup Building
    BY <2>1 DEF Threads, Building
  <2> QED
    BY <2>1, <2>2, InitIInv DEF AddressGuard, StartupInv, ClientsInv, LeasedInv, AddressInv, NoFrame
<1>2. AddressGuard /\ [Next]_vars => AddressGuard'
  <2> SUFFICES ASSUME AddressGuard, [Next]_vars PROVE AddressGuard'
    OBVIOUS
  <2>0. IInv' /\ StartupInv' /\ ClientsInv'
    BY Invariance, StartupStep, ClientsStep DEF AddressGuard
  <2>1. ASSUME NEW t \in Threads, Step(t)
        PROVE  LeasedInv' /\ \A u \in Threads : AddressInv(u)'
    BY <2>0, <2>1, LeasedStep, AddressMove, OthersAddress DEF AddressGuard
  <2>2. ASSUME NEW t \in Workers, NewRequest(t)
        PROVE  LeasedInv' /\ \A u \in Threads : AddressInv(u)'
    <3>1. /\ pc'[t] \in {"c_lock", "d_lock", "g_lock"}
          /\ \A u \in Threads \ {t} : pc'[u] = pc[u] /\ frame'[u] = frame[u]
          /\ leases' = leases /\ registry' = registry /\ host' = host /\ missed' = missed
      BY <2>2, RequestFields DEF AddressGuard, IInv
    <3> QED
      BY <3>1, AddressElsewhere
  <2>3. CASE Restart /\ host' \subseteq host /\ missed' = missed
    <3>1. \A t \in Threads : pc'[t] \in {"idle", "g_lock"}
      BY <2>3 DEF Restart, BootPc
    <3> QED
      BY <2>0, <2>3, <3>1, AddressElsewhere DEF Restart, disk, AddressGuard
  <2>4. CASE UNCHANGED <<leases, registry, host, missed, pc, frame>>
    BY <2>0, <2>4, AddressElsewhere DEF AddressGuard
  <2>5. CASE Crash \/ Reboot
    BY <2>3, <2>5 DEF Crash, Reboot, context
  <2> QED
    BY <2>0, <2>1, <2>2, <2>4, <2>5 DEF Next, Environment, ClientExit, ClientStart, vars, threads,
       disk, AddressGuard
<1>3. AddressGuard => AddressesDistinct
  <2> SUFFICES ASSUME AddressGuard, NEW m \in Names \ missed, NEW n \in Names \ missed, m # n,
                      Running(m), Running(n)
               PROVE  registry[m].ip # registry[n].ip
    BY DEF AddressesDistinct
  <2>1. Probed(m) \cap host # {} /\ Probed(n) \cap host # {}
    BY DEF Running, Probed
  <2>2. leases[registry[m].ip] = m /\ leases[registry[n].ip] = n
    BY <2>1 DEF AddressGuard, LeasedInv
  <2> QED
    BY <2>2
<1> QED
  BY <1>1, <1>2, <1>3, PTL DEF Spec

-----------------------------------------------------------------------------
(* Startup reconciliation *)

\* A thread leaves the clients alone.
LEMMA ClientsStay ==
  ASSUME IInv, NEW t \in Threads, Step(t)
  PROVE  inc' = inc /\ up' = up
<1> USE DEF context
<1>1. CASE CreateStep(t)
  <2>1. CASE Construction(t)
    BY <2>1, ConstructionMakes DEF IInv, TypeOK, DiskTypeOK
  <2>2. CASE ~Construction(t)
    BY <1>1, <2>2 DEF CreateStep, Construction, CreateEnter, EnterNamed, CreateDenied, Refuse,
       CreateReconcile, CreateBegin, EnsureCheck, EnsureLock, EnsureConfigure, EnsureFails,
       AllocateFails, CreateAllocate, WriteFails, CreateWrite, CopySource, BuildFrame, CreateCommit,
       CreateStart, FinishFails
  <2> QED
    BY <2>1, <2>2
<1>2. CASE DestroyStep(t)
  <2>1. CASE Removal(t)
    BY <2>1, RemovalEffect
  <2>2. CASE ~Removal(t)
    BY <1>2, <2>2 DEF DestroyStep, Removal, DestroyEnter, EnterNamed, DestroyLoad, DestroyCheck,
       DestroyRelease, DestroyUnregister
  <2> QED
    BY <2>1, <2>2
<1>3. CASE GcStep(t)
  BY <1>3 DEF GcStep, GcEnter, GcRaises, GcReturn, GcScan, GcKeep, GcReclaim, GcLoopEnd, GcAfter,
     GcDiscover, GcOrphan, GcOrphansEnd, GcReferences, GcBridge, GcEpair, GcEpairsEnd, GcActive,
     GcClear, GcRead, GcCall, GcFrame
<1> QED
  BY <1>1, <1>2, <1>3 DEF Step

\* Nobody is recorded as an owner before it was started: who is dead stays dead, also when
\* its pid is given to a new process.
Dated(id) == id[2] <= inc[id[1]]

DatedInv ==
  /\ \A n \in Registered : Dated(registry[n].owner)
  /\ \A t \in Threads : /\ pc[t] \in Preparing => Dated(frame[t].owner)
                        /\ pc[t] = "c_write" => Dated(frame[t].rec.owner)

LEMMA DatedMove ==
  ASSUME IInv, DatedInv, NEW t \in Threads, Step(t)
  PROVE  DatedInv'
<1> DEFINE n == frame[t].name
<1>0. /\ TypeOK /\ PcTypeOK /\ FrameTypeOK /\ ThreadInv(t) /\ host \subseteq Resources
      /\ registry \in [Names -> Records \cup {NoRecord}]
  BY DEF IInv, TypeOK, DiskTypeOK
<1>1. inc' = inc /\ up' = up
  BY ClientsStay
<1>2. \A m \in Registered' : \/ Dated(registry[m].owner) /\ registry'[m] = registry[m]
                             \/ Dated(frame[t].rec.owner) /\ registry'[m] = frame[t].rec
  <2>1. CASE Untouched
    BY <2>1 DEF Untouched, Registered, DatedInv
  <2>2. CASE Construction(t)
    BY <1>0, <2>2, ConstructionMakes DEF Registered, DatedInv
  <2>3. CASE CreateWrite(t)
    BY <1>0, <2>3 DEF CreateWrite, Registered, DatedInv
  <2>4. CASE CreateCommit(t)
    <3>1. n \in Registered /\ registry[n].owner = frame[t].rec.owner
      BY <1>0, <2>4 DEF CreateCommit, ThreadInv, Held, Building, Registered
    <3> QED
      BY <1>0, <2>4, <3>1 DEF CreateCommit, Registered, DatedInv
  <2>5. CASE DestroyUnregister(t)
    BY <1>0, <2>5 DEF DestroyUnregister, Registered, DatedInv
  <2> QED
    BY <2>1, <2>2, <2>3, <2>4, <2>5, FewWrite DEF Writes
<1>3. ASSUME NEW u \in Threads \ {t}
      PROVE  /\ pc'[u] \in Preparing => Dated(frame'[u].owner)
             /\ pc'[u] = "c_write" => Dated(frame'[u].rec.owner)
  BY OthersStay DEF DatedInv
<1>4. /\ pc'[t] \in Preparing => Dated(frame'[t].owner)
      /\ pc'[t] = "c_write" => Dated(frame'[t].rec.owner)
  <2>1. CASE CreateBegin(t)
    <3>1. frame[t].pid \in Pids /\ inc[frame[t].pid] \in Nat
      BY <1>0, <2>1, DaemonAssumption DEF CreateBegin, Usable, TypeOK, ClientTypeOK
    <3>2. frame'[t].owner = Identity(frame[t].pid) /\ pc'[t] = "ensure"
      BY <1>0, <2>1 DEF CreateBegin, Goto, PcTypeOK, FrameTypeOK, Frames
    <3> QED
      BY <3>1, <3>2 DEF Dated, Identity
  <2>2. CASE EnsureCheck(t) \/ EnsureLock(t) \/ EnsureConfigure(t)
    <3>1. pc[t] \in Preparing /\ pc'[t] # "c_write"
      BY <1>0, <2>2 DEF EnsureCheck, EnsureLock, EnsureConfigure, Ensured, Goto, PcTypeOK, Preparing
    <3>2. frame'[t].owner = frame[t].owner
      BY <1>0, <2>2 DEF EnsureCheck, EnsureLock, EnsureConfigure, Ensured, FrameTypeOK, Frames
    <3> QED
      BY <3>1, <3>2 DEF DatedInv
  <2>3. CASE CreateAllocate(t)
    <3>1. pc[t] \in Preparing /\ pc'[t] = "c_write"
      BY <1>0, <2>3 DEF CreateAllocate, Goto, PcTypeOK, Preparing
    <3>2. PICK a \in Addresses :
            frame' = [frame EXCEPT ![t].rec =
                        [kind |-> frame[t].kind, owner |-> frame[t].owner, ip |-> a,
                         ep |-> NoUnit, md |-> NoUnit, data |-> frame[t].kind = "jail"]]
      BY <2>3 DEF CreateAllocate
    <3>3. frame'[t].rec.owner = frame[t].owner
      BY <1>0, <3>2 DEF FrameTypeOK, Frames
    <3>4. "c_write" \notin Preparing
      BY DEF Preparing
    <3> QED
      BY <3>1, <3>3, <3>4 DEF DatedInv
  <2>4. CASE ~(CreateBegin(t) \/ EnsureCheck(t) \/ EnsureLock(t) \/ EnsureConfigure(t) \/ CreateAllocate(t))
    <3>1. pc'[t] \notin Preparing \cup {"c_write"}
      <4>1. CASE CreateStep(t)
        <5>1. CASE CreateEnter(t) \/ CreateReconcile(t) \/ FinishFails(t)
          BY <1>0, <5>1 DEF CreateEnter, EnterNamed, CreateReconcile, FinishFails, CallDestroy,
             Goto, PcTypeOK, Preparing
        <5>2. CASE CreateDenied(t) \/ AllocateFails(t) \/ WriteFails(t)
          BY <1>0, <5>2 DEF CreateDenied, AllocateFails, WriteFails, Refuse, Reply, Goto, PcTypeOK,
             Preparing
        <5>3. CASE EnsureFails(t) \/ CreateStart(t) \/ CreateWrite(t) \/ CreateCommit(t)
          BY <1>0, <5>3 DEF EnsureFails, CreateStart, CreateWrite, CreateCommit, FirstBuildStep,
             Reply, Goto, PcTypeOK, Preparing
        <5>5. CASE CopySource(t)
          BY <1>0, <5>5 DEF CopySource, CallDestroy, Goto, PcTypeOK, Preparing
        <5>4. CASE Construction(t)
          <6>1. CASE CallDestroy(t, TRUE)
            BY <1>0, <6>1 DEF CallDestroy, Goto, PcTypeOK, Preparing
          <6>2. CASE \E l \in Building, r \in Records : BuildsOn(t, l, r)
            BY <1>0, <6>2 DEF BuildsOn, Goto, PcTypeOK, Preparing, Building
          <6> QED
            BY <5>4, <6>1, <6>2, ConstructionThread
        <5> QED
          BY <2>4, <4>1, <5>1, <5>2, <5>3, <5>4, <5>5 DEF CreateStep, Construction
      <4>2. CASE DestroyStep(t)
        BY <4>2, DestroyMoves DEF EntersName, DestroyGoesOn, LeavesName, Removing, Removed, Preparing
      <4>3. CASE GcStep(t)
        BY <4>3, GcMoves DEF GcGoesOn, GcDestroys, GcLabels, Preparing
      <4> QED
        BY <4>1, <4>2, <4>3 DEF Step
    <3> QED
      BY <3>1
  <2> QED
    BY <2>1, <2>2, <2>3, <2>4
<1> QED
  BY <1>1, <1>2, <1>3, <1>4 DEF DatedInv, Dated

\* The epairs that records refer to.
Refs == {registry[n].ep : n \in Registered}

\* Main is at a label of gc, or in a destroy that this label has called.
From(l) == pc[Main] = l \/ (pc[Main] \in Destroying \cup {"d_lock"} /\ frame[Main].back = l)

\* Main only reconciles, and only what is stale.
MainInv ==
  /\ pc[Main] \in GcLabels \cup Destroying \cup {"d_lock", "idle"}
  /\ pc[Main] \in Destroying \cup {"d_lock"} => frame[Main].back \in {"g_loop", "g_orphans"}
  /\ pc[Main] # "idle" => gcv[Main].stale

\* What is left to look at is registered as it was, or not any more.
SnapInv ==
  From("g_loop") =>
    \A n \in gcv[Main].todo :
      gcv[Main].snap[n] # NoRecord /\ registry[n] \in {gcv[Main].snap[n], NoRecord}

\* Who owns what Main destroys is dead.
DeadInv ==
  From("g_loop") /\ pc[Main] # "g_loop" =>
    LET n == frame[Main].name IN registry[n] = NoRecord \/ ~Alive(registry[n].owner)

\* What Main takes for a leftover is not registered.
OrphanInv ==
  /\ pc[Main] = "g_discover" => Registered \subseteq gcv[Main].keep
  /\ From("g_orphans") => gcv[Main].todo \cap Registered = {}
  /\ From("g_orphans") /\ pc[Main] # "g_orphans" => frame[Main].name \notin Registered

\* The epairs that Main has left on the bridge are referenced.
MemberInv ==
  /\ pc[Main] = "g_bridge" => gcv[Main].eps \subseteq Refs
  /\ pc[Main] = "g_epairs" => member \ gcv[Main].eps \subseteq Refs
  /\ pc[Main] \in {"g_active", "g_clear"} => member \subseteq Refs

BootInv == MainInv /\ (faults = 0 => SnapInv /\ DeadInv /\ OrphanInv /\ MemberInv)

\* Nothing to know about a Main that has ended or begins.
LEMMA MainOutside ==
  ASSUME pc'[Main] \in {"idle", "g_lock", "g_scan", "g_after", "g_refs"},
         pc'[Main] # "idle" => gcv'[Main].stale
  PROVE  BootInv'
<1>1. /\ pc'[Main] \notin Destroying \cup {"d_lock", "g_loop", "g_orphans", "g_discover", "g_bridge",
                                            "g_epairs", "g_active", "g_clear"}
      /\ pc'[Main] \in GcLabels \cup {"idle"}
  BY DEF Destroying, Removing, Removed, GcLabels
<1> QED
  BY <1>1 DEF BootInv, MainInv, SnapInv, DeadInv, OrphanInv, MemberInv, From

\* A create has labels of its own.
LEMMA CreateLabels ==
  ASSUME IInv, NEW t \in Threads, CreateStep(t)
  PROVE  pc[t] \in Creating \cup {"c_lock"}
<1>1. CASE Construction(t)
  BY <1>1, ConstructionThread DEF Creating
<1>2. CASE ~Construction(t)
  BY <1>2 DEF CreateStep, Construction, CreateEnter, EnterNamed, CreateDenied, CreateReconcile,
     CreateBegin, EnsureCheck, EnsureLock, EnsureConfigure, EnsureFails, AllocateFails,
     CreateAllocate, WriteFails, CreateWrite, CopySource, CreateCommit, CreateStart, FinishFails,
     Creating, Preparing, Building
<1> QED
  BY <1>1, <1>2

\* A destroy changes no more of the gc that has called it than the names to keep, and
\* writes no record.
LEMMA DestroyKeeps ==
  ASSUME IInv, NEW t \in Threads, DestroyStep(t)
  PROVE  /\ gcv'[t].todo = gcv[t].todo /\ gcv'[t].snap = gcv[t].snap /\ gcv'[t].stale = gcv[t].stale
         /\ \A n \in Names : registry'[n] \in {registry[n], NoRecord}
         /\ pc[t] \in Destroying \cup {"d_lock"}
<1>0. GcTypeOK /\ registry \in [Names -> Records \cup {NoRecord}]
  BY DEF IInv, TypeOK, DiskTypeOK
<1>1. CASE Removal(t)
  <2>1. registry' = registry /\ pc[t] \in Removing /\ (gcv' = gcv \/ DestroyReturn(t, TRUE))
    BY <1>1, RemovalEffect
  <2>2. gcv' = gcv \/ \E k : gcv' = [gcv EXCEPT ![t].keep = k]
    BY <2>1 DEF DestroyReturn
  <2> QED
    BY <1>0, <2>1, <2>2 DEF GcTypeOK, GcLocals, Destroying
<1>2. CASE ~Removal(t)
  <2>1. gcv' = gcv \/ \E k : gcv' = [gcv EXCEPT ![t].keep = k]
    BY <1>2 DEF DestroyStep, Removal, DestroyEnter, EnterNamed, DestroyLoad, DestroyCheck,
       DestroyRelease, DestroyUnregister, DestroyReturn
  <2>2. registry' = registry \/ registry' = [registry EXCEPT ![frame[t].name] = NoRecord]
    BY <1>2 DEF DestroyStep, Removal, DestroyEnter, EnterNamed, DestroyLoad, DestroyCheck,
       DestroyRelease, DestroyUnregister, disk
  <2>3. pc[t] \in Destroying \cup {"d_lock"}
    BY <1>2 DEF DestroyStep, Removal, DestroyEnter, EnterNamed, DestroyLoad, DestroyCheck,
       DestroyRelease, DestroyUnregister, Destroying, Removing, Removed
  <2> QED
    BY <1>0, <2>1, <2>2, <2>3 DEF GcTypeOK, GcLocals
<1> QED
  BY <1>1, <1>2

\* A destroy that Main has called: it goes on, or it returns to where it was called.
LEMMA BootDestroy ==
  ASSUME IInv, BootInv, DestroyStep(Main)
  PROVE  BootInv'
<1> DEFINE f == frame[Main]
<1>0. /\ Main \in Threads /\ PcTypeOK /\ FrameTypeOK /\ ThreadInv(Main)
      /\ registry \in [Names -> Records \cup {NoRecord}] /\ gcv[Main].todo \subseteq Names
  BY DEF IInv, TypeOK, DiskTypeOK, GcTypeOK, GcLocals, Threads
<1>1. /\ gcv'[Main].todo = gcv[Main].todo /\ gcv'[Main].snap = gcv[Main].snap
      /\ gcv'[Main].stale = gcv[Main].stale
      /\ \A n \in Names : registry'[n] \in {registry[n], NoRecord}
      /\ pc[Main] \in Destroying \cup {"d_lock"}
  BY <1>0, DestroyKeeps
<1>2. inc' = inc /\ up' = up /\ (faults' = 0 => faults = 0)
  BY <1>0, ClientsStay, ClientStep DEF Step, Next
<1>3. pc[Main] \notin {"idle", "g_loop", "g_orphans"} /\ f.back \in {"g_loop", "g_orphans"} /\ From(f.back)
  BY <1>1, LabelSets DEF BootInv, MainInv, From, GcLabels, Destroying, Removing, Removed
<1>4. Registered' \subseteq Registered
  BY <1>1 DEF Registered
<1>5. CASE EntersName(Main) \/ DestroyGoesOn(Main)
  <2>1. /\ pc'[Main] \in Destroying /\ registry' = registry
        /\ frame'[Main].name = f.name /\ frame'[Main].back = f.back
    BY <1>1, <1>5, LabelSets DEF EntersName, DestroyGoesOn, SameCall, Creating
  <2>2. pc'[Main] \notin {"idle", "g_loop", "g_orphans", "g_discover", "g_bridge", "g_epairs", "g_active", "g_clear"}
    BY <2>1 DEF Destroying, Removing, Removed
  <2>3. MainInv'
    BY <1>1, <1>3, <2>1, <2>2 DEF BootInv, MainInv
  <2>4. \A l \in {"g_loop", "g_orphans"} : From(l)' => From(l)
    BY <1>1, <2>1, <2>2 DEF From
  <2>5. ASSUME faults' = 0 PROVE SnapInv' /\ DeadInv' /\ OrphanInv' /\ MemberInv'
    <3>1. SnapInv /\ DeadInv /\ OrphanInv
      BY <1>2, <2>5 DEF BootInv
    <3>2. SnapInv'
      BY <1>1, <2>1, <2>4, <3>1 DEF SnapInv
    <3>3. DeadInv'
      BY <1>2, <1>3, <2>1, <2>4, <3>1 DEF DeadInv, Alive, Identity
    <3>4. OrphanInv'
      BY <1>1, <1>3, <2>1, <2>2, <2>4, <3>1 DEF OrphanInv, Registered
    <3>5. MemberInv'
      BY <2>2 DEF MemberInv
    <3> QED
      BY <3>2, <3>3, <3>4, <3>5
  <2> QED
    BY <2>3, <2>5 DEF BootInv
<1>6. CASE LeavesName(Main)
  <2>1. CASE pc'[Main] = "idle"
    BY <2>1, MainOutside
  <2>2. CASE pc'[Main] # "idle"
    <3>1. pc'[Main] = f.back /\ pc'[Main] \in {"g_loop", "g_orphans"}
      BY <1>6, <2>2 DEF LeavesName
    <3>2. pc'[Main] \notin Destroying \cup {"d_lock", "g_discover", "g_bridge", "g_epairs", "g_active", "g_clear"}
      BY <3>1 DEF Destroying, Removing, Removed
    <3>3. MainInv'
      BY <1>1, <1>3, <3>1, <3>2 DEF BootInv, MainInv, GcLabels
    <3>4. \A l \in {"g_loop", "g_orphans"} : From(l)' => From(l) /\ pc'[Main] = l
      BY <1>3, <3>1, <3>2 DEF From
    <3>5. ASSUME faults' = 0 PROVE SnapInv' /\ DeadInv' /\ OrphanInv' /\ MemberInv'
      <4>1. SnapInv /\ OrphanInv
        BY <1>2, <3>5 DEF BootInv
      <4>2. SnapInv'
        <5>1. SUFFICES ASSUME From("g_loop")', NEW n \in gcv'[Main].todo
                       PROVE  /\ gcv'[Main].snap[n] # NoRecord
                              /\ registry'[n] \in {gcv'[Main].snap[n], NoRecord}
          BY DEF SnapInv
        <5> QED
          BY <1>0, <1>1, <3>4, <4>1, <5>1 DEF SnapInv
      <4>3. DeadInv'
        BY <3>4 DEF DeadInv
      <4>4. OrphanInv'
        BY <1>1, <1>4, <3>2, <3>4, <4>1 DEF OrphanInv
      <4>5. MemberInv'
        BY <3>2 DEF MemberInv
      <4> QED
        BY <4>2, <4>3, <4>4, <4>5
    <3> QED
      BY <3>3, <3>5 DEF BootInv
  <2> QED
    BY <2>1, <2>2
<1> QED
  BY <1>0, <1>5, <1>6, DestroyMoves

\* Main looks at the registry and reclaims what is stale in it.
LEMMA BootLoop ==
  ASSUME IInv, StartupInv, BootInv, GcScan(Main) \/ GcKeep(Main) \/ GcReclaim(Main)
  PROVE  BootInv'
<1>0. Main \in Threads /\ TypeOK /\ PcTypeOK /\ FrameTypeOK /\ GcTypeOK /\ gcv[Main] \in GcLocals
  BY DEF IInv, TypeOK, GcTypeOK, Threads
<1>a. "g_loop" \notin Destroying \cup {"d_lock"} /\ "d_lock" \notin Destroying
  BY DEF Destroying, Removing, Removed
<1>b. /\ inc' = inc /\ up' = up /\ (faults' = 0 => faults = 0)
  BY <1>0, ClientsStay, ClientStep DEF Step, GcStep, Next
<1>1. CASE GcScan(Main)
  <2>1. /\ pc'[Main] = "g_loop" /\ pc[Main] # "idle" /\ registry' = registry
        /\ gcv'[Main].snap = registry /\ gcv'[Main].todo = Registered /\ gcv'[Main].stale = gcv[Main].stale
    BY <1>0, <1>1 DEF GcScan, GcRead, Goto, PcTypeOK, GcTypeOK, GcLocals
  <2>2. MainInv'
    BY <1>a, <2>1 DEF BootInv, MainInv, GcLabels
  <2>3. SnapInv'
    BY <2>1 DEF SnapInv, Registered
  <2> QED
    BY <1>a, <2>1, <2>2, <2>3 DEF BootInv, DeadInv, OrphanInv, MemberInv, From
<1>2. CASE GcKeep(Main)
  <2>1. pc' = pc /\ pc[Main] = "g_loop" /\ registry' = registry
    BY <1>2 DEF GcKeep, GcRead
  <2>2. /\ gcv'[Main].todo \subseteq gcv[Main].todo /\ gcv'[Main].snap = gcv[Main].snap
        /\ gcv'[Main].stale = gcv[Main].stale
    <3>1. PICK n \in gcv[Main].todo :
            gcv' = [gcv EXCEPT ![Main] =
                      [@ EXCEPT !.todo = gcv[Main].todo \ {n}, !.keep = gcv[Main].keep \cup {n}]]
      BY <1>2 DEF GcKeep
    <3>2. gcv'[Main] = [gcv[Main] EXCEPT !.todo = gcv[Main].todo \ {n}, !.keep = gcv[Main].keep \cup {n}]
      BY <1>0, <3>1 DEF GcTypeOK
    <3> QED
      BY <1>0, <3>2 DEF GcLocals
  <2>3. MainInv'
    BY <1>a, <2>1, <2>2 DEF BootInv, MainInv, GcLabels
  <2>4. faults' = 0 => SnapInv'
    BY <1>b, <2>1, <2>2 DEF BootInv, SnapInv, From
  <2> QED
    BY <1>a, <2>1, <2>3, <2>4 DEF BootInv, DeadInv, OrphanInv, MemberInv, From
<1>3. CASE GcReclaim(Main)
  <2>1. PICK n \in gcv[Main].todo :
          /\ IF gcv[Main].stale /\ Alive(gcv[Main].snap[n].owner) THEN Fault ELSE NoFault
          /\ GcCall(Main, n, "g_loop", frame[Main].uid = 0)
    BY <1>3 DEF GcReclaim
  <2>2. pc[Main] = "g_loop"
    BY <1>3 DEF GcReclaim
  <2>3. pc'[Main] = "d_lock" /\ registry' = registry
    BY <1>0, <2>1 DEF GcCall, Goto, PcTypeOK
  <2>4. frame'[Main].name = n /\ frame'[Main].back = "g_loop"
    BY <1>0, <2>1 DEF GcCall, FrameTypeOK, Frames
  <2>5. /\ gcv'[Main].todo \subseteq gcv[Main].todo /\ gcv'[Main].snap = gcv[Main].snap
        /\ gcv'[Main].stale = gcv[Main].stale
    BY <1>0, <2>1 DEF GcCall, GcTypeOK, GcLocals
  <2>6. MainInv'
    BY <2>2, <2>3, <2>4, <2>5 DEF BootInv, MainInv
  <2>7. ASSUME faults' = 0 PROVE SnapInv' /\ DeadInv'
    <3>1. SnapInv /\ From("g_loop")
      BY <1>b, <2>2, <2>7 DEF BootInv, From
    <3>2. SnapInv'
      BY <2>3, <2>5, <3>1 DEF SnapInv
    <3>3. gcv[Main].stale
      BY <2>2 DEF BootInv, MainInv
    <3>4. ~Fault
      BY <1>0, <2>7 DEF Fault, TypeOK, ClientTypeOK
    <3>5. ~Alive(gcv[Main].snap[n].owner)
      BY <2>1, <3>3, <3>4
    <3>6. registry[n] = NoRecord \/ ~Alive(registry[n].owner)
      BY <3>1, <3>5 DEF SnapInv
    <3>7. DeadInv'
      BY <1>b, <2>3, <2>4, <3>6 DEF DeadInv, Alive, Identity
    <3> QED
      BY <3>2, <3>7
  <2>8. OrphanInv' /\ MemberInv'
    BY <1>a, <2>3, <2>4 DEF OrphanInv, MemberInv, From
  <2> QED
    BY <2>6, <2>7, <2>8 DEF BootInv
<1> QED
  BY <1>1, <1>2, <1>3

\* Main looks for what is not registered.
LEMMA BootOrphans ==
  ASSUME IInv, StartupInv, BootInv, GcAfter(Main) \/ GcDiscover(Main) \/ GcOrphan(Main)
  PROVE  BootInv'
<1>0. Main \in Threads /\ PcTypeOK /\ FrameTypeOK /\ GcTypeOK /\ gcv[Main] \in GcLocals
  BY DEF IInv, TypeOK, GcTypeOK, Threads
<1>a. {"g_discover", "g_orphans"} \cap (Destroying \cup {"d_lock", "g_loop"}) = {}
  BY DEF Destroying, Removing, Removed
<1>b. faults' = 0 => faults = 0
  BY <1>0, ClientStep DEF Step, GcStep, Next
<1>1. CASE GcAfter(Main)
  <2>1. pc[Main] = "g_after" /\ registry' = registry
    BY <1>1 DEF GcAfter, GcRead
  <2>2. pc'[Main] = "g_discover"
    BY <1>0, <1>1, <2>1 DEF GcAfter, Goto, PcTypeOK, StartupInv
  <2>3. Registered' \subseteq gcv'[Main].keep /\ gcv'[Main].stale = gcv[Main].stale
    BY <1>0, <1>1, <2>1 DEF GcAfter, GcTypeOK, GcLocals, Registered
  <2>4. MainInv'
    BY <1>a, <2>1, <2>2, <2>3 DEF BootInv, MainInv, GcLabels
  <2> QED
    BY <1>a, <2>2, <2>3, <2>4 DEF BootInv, SnapInv, DeadInv, OrphanInv, MemberInv, From
<1>2. CASE GcDiscover(Main)
  <2>1. pc[Main] = "g_discover" /\ pc'[Main] = "g_orphans" /\ registry' = registry
    BY <1>0, <1>2 DEF GcDiscover, GcRead, Goto, PcTypeOK
  <2>2. gcv'[Main].todo \cap gcv[Main].keep = {} /\ gcv'[Main].stale = gcv[Main].stale
    <3>1. PICK seen : gcv' = [gcv EXCEPT ![Main].todo =
                                {n \in Names : \E k \in seen : <<k, n>> \in Visible} \ gcv[Main].keep]
      BY <1>2 DEF GcDiscover
    <3> QED
      BY <1>0, <3>1 DEF GcTypeOK, GcLocals
  <2>3. MainInv'
    BY <1>a, <2>1, <2>2 DEF BootInv, MainInv, GcLabels
  <2>4. faults' = 0 => OrphanInv'
    BY <1>a, <1>b, <2>1, <2>2 DEF BootInv, OrphanInv, From, Registered
  <2> QED
    BY <1>a, <2>1, <2>3, <2>4 DEF BootInv, SnapInv, DeadInv, MemberInv, From
<1>3. CASE GcOrphan(Main)
  <2>1. PICK n \in gcv[Main].todo : GcCall(Main, n, "g_orphans", TRUE)
    BY <1>3 DEF GcOrphan
  <2>2. pc[Main] = "g_orphans"
    BY <1>3 DEF GcOrphan
  <2>3. pc'[Main] = "d_lock" /\ registry' = registry
    BY <1>0, <2>1 DEF GcCall, Goto, PcTypeOK
  <2>4. frame'[Main].name = n /\ frame'[Main].back = "g_orphans"
    BY <1>0, <2>1 DEF GcCall, FrameTypeOK, Frames
  <2>5. gcv'[Main].todo \subseteq gcv[Main].todo /\ gcv'[Main].stale = gcv[Main].stale
    BY <1>0, <2>1 DEF GcCall, GcTypeOK, GcLocals
  <2>6. MainInv'
    BY <2>2, <2>3, <2>4, <2>5 DEF BootInv, MainInv
  <2>7. faults' = 0 => OrphanInv'
    BY <1>b, <2>2, <2>3, <2>4, <2>5 DEF BootInv, OrphanInv, From, Registered
  <2>8. SnapInv' /\ DeadInv' /\ MemberInv'
    BY <1>a, <2>3, <2>4 DEF SnapInv, DeadInv, MemberInv, From
  <2> QED
    BY <2>6, <2>7, <2>8 DEF BootInv
<1> QED
  BY <1>1, <1>2, <1>3

\* Main looks at the bridge.
LEMMA BootBridge ==
  ASSUME IInv, BootInv,
         \/ GcReferences(Main) \/ GcBridge(Main) \/ GcEpair(Main) \/ GcEpairsEnd(Main)
         \/ GcActive(Main)
  PROVE  BootInv'
<1>0. Main \in Threads /\ TypeOK /\ PcTypeOK /\ GcTypeOK /\ gcv[Main] \in GcLocals
  BY DEF IInv, TypeOK, GcTypeOK, Threads
<1>a. {"g_bridge", "g_epairs", "g_active", "g_clear"}
        \cap (Destroying \cup {"d_lock", "g_loop", "g_orphans", "g_discover"}) = {}
  BY DEF Destroying, Removing, Removed
<1>b. faults' = 0 => faults = 0
  BY <1>0, ClientStep DEF Step, GcStep, Next
<1>1. /\ pc'[Main] \in {"g_bridge", "g_epairs", "g_active", "g_clear"}
      /\ gcv'[Main].stale = gcv[Main].stale /\ pc[Main] # "idle" /\ registry' = registry
  BY <1>0 DEF GcReferences, GcBridge, GcEpair, GcEpairsEnd, GcActive, GcRead, Goto, PcTypeOK,
     GcTypeOK, GcLocals
<1>2. MainInv' /\ SnapInv' /\ DeadInv' /\ OrphanInv'
  BY <1>a, <1>1 DEF BootInv, MainInv, SnapInv, DeadInv, OrphanInv, From, GcLabels
<1>3. ASSUME faults' = 0 PROVE MemberInv'
  <2>0. MemberInv /\ Refs' = Refs
    BY <1>b, <1>1, <1>3 DEF BootInv, Refs, Registered
  <2>1. CASE GcReferences(Main)
    <3>1. pc'[Main] = "g_bridge" /\ gcv'[Main].eps = Refs \ {NoUnit}
      BY <1>0, <2>1 DEF GcReferences, Goto, PcTypeOK, GcTypeOK, GcLocals, Refs
    <3> QED
      BY <2>0, <3>1 DEF MemberInv
  <2>2. CASE GcBridge(Main)
    <3>0. ~Fault
      BY <1>0, <1>3 DEF Fault, TypeOK, ClientTypeOK
    <3>1. /\ pc[Main] = "g_bridge" /\ pc'[Main] = "g_epairs" /\ member' = member
          /\ gcv'[Main].eps = member \ gcv[Main].eps
      BY <1>0, <2>2, <3>0 DEF GcBridge, GcRead, Goto, PcTypeOK, GcTypeOK, GcLocals
    <3> QED
      BY <2>0, <3>1 DEF MemberInv
  <2>3. CASE GcEpair(Main)
    <3>1. ~Fault
      BY <1>0, <1>3 DEF Fault, TypeOK, ClientTypeOK
    <3>2. PICK e \in gcv[Main].eps :
            gcv' = [gcv EXCEPT ![Main].eps = @ \ {e}] /\ member' = member \ {e}
      BY <2>3, <3>1 DEF GcEpair
    <3>3. pc' = pc /\ pc[Main] = "g_epairs" /\ gcv'[Main].eps = gcv[Main].eps \ {e}
      BY <1>0, <2>3, <3>2 DEF GcEpair, GcTypeOK, GcLocals
    <3> QED
      BY <2>0, <3>2, <3>3 DEF MemberInv
  <2>4. CASE GcEpairsEnd(Main)
    <3>1. pc[Main] = "g_epairs" /\ pc'[Main] = "g_active" /\ member' = member /\ gcv[Main].eps = {}
      BY <1>0, <2>4 DEF GcEpairsEnd, GcRead, Goto, PcTypeOK
    <3> QED
      BY <2>0, <3>1 DEF MemberInv
  <2>5. CASE GcActive(Main)
    <3>1. pc[Main] = "g_active" /\ pc'[Main] = "g_clear" /\ member' = member
      BY <1>0, <2>5 DEF GcActive, GcRead, Goto, PcTypeOK
    <3> QED
      BY <2>0, <3>1 DEF MemberInv
  <2> QED
    BY <2>1, <2>2, <2>3, <2>4, <2>5
<1> QED
  BY <1>2, <1>3 DEF BootInv

\* Main works alone: what it has found stays so, whatever becomes of the clients.
LEMMA BootStep ==
  ASSUME IInv, StartupInv, DatedInv, BootInv, [Next]_vars
  PROVE  BootInv'
<1>0. Main \in Threads /\ Main \notin Workers /\ Workers \subseteq Threads /\ PcTypeOK /\ GcTypeOK
  BY DaemonAssumption DEF IInv, TypeOK, Threads
<1>1. CASE Step(Main)
  <2>1. pc[Main] # "idle" /\ pc[Main] \in GcLabels \cup Destroying \cup {"d_lock"}
    BY <1>0, <1>1, ThreadMoves, CallerKept DEF BootInv, MainInv
  <2>2. CASE CreateStep(Main)
    BY <1>0, <2>1, <2>2, CreateLabels, LabelSets
  <2>3. CASE DestroyStep(Main)
    BY <2>3, BootDestroy
  <2>4. CASE GcScan(Main) \/ GcKeep(Main) \/ GcReclaim(Main)
    BY <2>4, BootLoop
  <2>5. CASE GcAfter(Main) \/ GcDiscover(Main) \/ GcOrphan(Main)
    BY <2>5, BootOrphans
  <2>6. CASE \/ GcReferences(Main) \/ GcBridge(Main) \/ GcEpair(Main) \/ GcEpairsEnd(Main)
             \/ GcActive(Main)
    BY <2>6, BootBridge
  <2>7. CASE GcEnter(Main) \/ GcLoopEnd(Main) \/ GcOrphansEnd(Main)
    <3>1. pc'[Main] \in {"g_scan", "g_after", "g_refs"} /\ gcv' = gcv
      BY <1>0, <2>7 DEF GcEnter, GcLoopEnd, GcOrphansEnd, GcRead, Goto, PcTypeOK
    <3> QED
      BY <2>1, <3>1, MainOutside DEF BootInv, MainInv
  <2>8. CASE GcRaises(Main) \/ GcClear(Main)
    <3>1. pc'[Main] = "idle"
      BY <1>0, <2>8 DEF GcRaises, GcClear, GcReturn, Goto, PcTypeOK
    <3> QED
      BY <3>1, MainOutside
  <2> QED
    BY <1>1, <2>2, <2>3, <2>4, <2>5, <2>6, <2>7, <2>8 DEF Step, GcStep
<1>2. ASSUME NEW t \in Workers, Step(t) \/ NewRequest(t) PROVE BootInv'
  <2>1. serving /\ pc'[Main] = pc[Main]
    <3>1. CASE Step(t)
      BY <1>0, <3>1, ThreadMoves, CallerKept, OthersStay DEF StartupInv
    <3>2. CASE NewRequest(t)
      BY <1>0, <3>2, RequestFields DEF IInv
    <3> QED
      BY <1>2, <3>1, <3>2
  <2>2. pc[Main] = "idle"
    BY <2>1 DEF StartupInv
  <2> QED
    BY <2>1, <2>2, MainOutside
<1>3. CASE Restart
  <2>1. pc'[Main] \in {"g_lock", "idle"} /\ gcv'[Main].stale
    BY <1>0, <1>3 DEF Restart, BootPc, NoGc
  <2> QED
    BY <2>1, MainOutside
<1>4. CASE UNCHANGED <<pc, frame, gcv, registry, host, member, faults>>
           /\ \A id \in Identities : Dated(id) => (Alive(id)' => Alive(id))
  <2>1. Registered' = Registered /\ Refs' = Refs /\ \A l : From(l)' = From(l)
    BY <1>4 DEF Registered, Refs, From
  <2>2. MainInv' /\ (SnapInv => SnapInv') /\ (OrphanInv => OrphanInv') /\ (MemberInv => MemberInv')
    BY <1>4, <2>1 DEF BootInv, MainInv, SnapInv, OrphanInv, MemberInv
  <2>3. DeadInv => DeadInv'
    <3> DEFINE n == frame[Main].name
    <3>1. SUFFICES ASSUME DeadInv, From("g_loop"), pc[Main] # "g_loop", registry[n] # NoRecord,
                          Alive(registry[n].owner)'
                   PROVE  FALSE
      BY <1>4, <2>1 DEF DeadInv
    <3>2. n \in Names
      <4>1. pc[Main] \in Held \cup {"c_lock", "d_lock"}
        BY <3>1, LabelSets DEF From
      <4> QED
        BY <1>0, <4>1 DEF IInv, ThreadInv
    <3>3. n \in Registered /\ registry[n].owner \in Identities
      BY <3>1, <3>2 DEF Registered, IInv, TypeOK, DiskTypeOK, Records
    <3>4. Dated(registry[n].owner) /\ registry' = registry /\ frame' = frame
      BY <1>4, <3>3 DEF DatedInv
    <3>5. Alive(registry[n].owner)
      BY <1>4, <3>1, <3>3, <3>4 DEF Alive, Identity
    <3> QED
      BY <3>1, <3>5 DEF DeadInv
  <2> QED
    BY <1>4, <2>2, <2>3 DEF BootInv
<1>5. ASSUME NEW p \in Pids, ClientExit(p) \/ ClientStart(p) PROVE BootInv'
  <2>1. inc \in [Pids -> 1..MaxInc] /\ up \subseteq Pids /\ MaxInc \in Nat
    BY DaemonAssumption DEF IInv, TypeOK, ClientTypeOK
  <2>2. ASSUME NEW id \in Identities, Dated(id), Alive(id)' PROVE Alive(id)
    <3>1. PICK q \in Pids, i \in 1..MaxInc : id = <<q, i>>
      BY DEF Identities
    <3>2. q \in up' /\ i = inc'[q] /\ i <= inc[q]
      BY <2>2, <3>1 DEF Alive, Identity, Dated
    <3>3. CASE ClientExit(p)
      BY <3>1, <3>2, <3>3 DEF ClientExit, Alive, Identity
    <3>4. CASE ClientStart(p)
      <4>1. inc' = [inc EXCEPT ![p] = inc[p] + 1] /\ up' = up \cup {p}
        BY <3>4 DEF ClientStart
      <4>2. q # p
        BY <2>1, <3>2, <4>1
      <4> QED
        BY <2>1, <3>1, <3>2, <4>1, <4>2 DEF Alive, Identity
    <3> QED
      BY <1>5, <3>3, <3>4
  <2>3. UNCHANGED <<pc, frame, gcv, registry, host, member, faults>>
    BY <1>5 DEF ClientExit, ClientStart, disk, threads
  <2> QED
    BY <1>4, <2>2, <2>3
<1>6. CASE UNCHANGED vars
  <2>1. \A id : Alive(id)' = Alive(id)
    BY <1>6 DEF vars, Alive, Identity
  <2> QED
    BY <1>4, <1>6, <2>1 DEF vars
<1> QED
  BY <1>1, <1>2, <1>3, <1>5, <1>6 DEF Next, Environment, Crash, Reboot, Threads

LEMMA DatedStep ==
  ASSUME IInv, DatedInv, [Next]_vars
  PROVE  DatedInv'
<1>0. inc \in [Pids -> 1..MaxInc] /\ Workers \subseteq Threads /\ MaxInc \in Nat
  BY DaemonAssumption DEF IInv, TypeOK, ClientTypeOK, Threads
<1>1. ASSUME NEW t \in Threads, Step(t) PROVE DatedInv'
  BY <1>1, DatedMove
<1>2. ASSUME NEW t \in Workers, NewRequest(t) PROVE DatedInv'
  <2>1. /\ registry' = registry /\ pc'[t] \notin Preparing \cup {"c_write"}
        /\ \A u \in Threads \ {t} : pc'[u] = pc[u] /\ frame'[u] = frame[u]
    BY <1>2, RequestFields DEF IInv, Preparing
  <2>2. inc' = inc
    BY <1>2, RequestForm DEF Request, context
  <2> QED
    BY <2>1, <2>2 DEF DatedInv, Dated, Registered
<1>3. CASE Restart /\ inc' = inc
  <2>1. \A t \in Threads : pc'[t] \notin Preparing \cup {"c_write"}
    BY <1>3 DEF Restart, BootPc, Preparing
  <2> QED
    BY <1>3, <2>1 DEF Restart, disk, DatedInv, Dated, Registered
<1>4. CASE UNCHANGED <<pc, frame, registry, inc>>
  BY <1>4 DEF DatedInv, Dated, Registered
<1>5. ASSUME NEW p \in Pids, ClientStart(p) PROVE DatedInv'
  <2>1. UNCHANGED <<pc, frame, registry>> /\ inc' = [inc EXCEPT ![p] = inc[p] + 1]
    BY <1>5 DEF ClientStart, disk, threads
  <2>2. ASSUME NEW id \in Identities, Dated(id) PROVE id[2] <= inc'[id[1]]
    <3>1. PICK q \in Pids, i \in 1..MaxInc : id = <<q, i>>
      BY DEF Identities
    <3> QED
      BY <1>0, <2>1, <2>2, <3>1 DEF Dated
  <2>3. ASSUME NEW n \in Registered PROVE registry[n].owner \in Identities
    BY DEF Registered, IInv, TypeOK, DiskTypeOK, Records
  <2>4. ASSUME NEW t \in Threads
        PROVE  /\ pc[t] \in Preparing => frame[t].owner \in Identities
               /\ pc[t] = "c_write" => frame[t].rec.owner \in Identities
    BY DEF IInv, ThreadInv, Records
  <2>5. \A n \in Registered : registry[n].owner[2] <= inc'[registry[n].owner[1]]
    BY <2>2, <2>3 DEF DatedInv
  <2>6. ASSUME NEW t \in Threads
        PROVE  /\ pc[t] \in Preparing => frame[t].owner[2] <= inc'[frame[t].owner[1]]
               /\ pc[t] = "c_write" => frame[t].rec.owner[2] <= inc'[frame[t].rec.owner[1]]
    BY <2>2, <2>4 DEF DatedInv
  <2> QED
    BY <2>1, <2>5, <2>6 DEF DatedInv, Dated, Registered
<1> QED
  BY <1>1, <1>2, <1>3, <1>4, <1>5 DEF Next, Environment, Crash, Reboot, ClientExit, vars, threads,
     disk, context

ReconcileInv == IInv /\ StartupInv /\ DatedInv /\ BootInv

LEMMA Reconciliation == Spec => []ReconcileInv
<1>1. Init => ReconcileInv
  <2> SUFFICES ASSUME Init PROVE ReconcileInv
    OBVIOUS
  <2>1. /\ (pc[Main] = "g_lock" /\ ~serving) \/ pc[Main] = "idle"
        /\ gcv[Main].stale /\ frame[Main].uid = 0 /\ Registered = {}
        /\ \A t \in Workers : pc[t] = "idle"
        /\ \A t \in Threads : pc[t] \in {"g_lock", "idle"}
    BY DaemonAssumption DEF Init, BootPc, NoGc, NoFrame, Registered, Threads
  <2>2. StartupInv
    BY <2>1 DEF StartupInv
  <2>3. DatedInv
    BY <2>1 DEF DatedInv, Preparing
  <2>4. "g_lock" \in GcLabels /\ {"g_lock", "idle"} \cap Destroying = {}
    BY DEF GcLabels, Destroying, Removing, Removed
  <2>5. BootInv
    BY <2>1, <2>4 DEF BootInv, MainInv, SnapInv, DeadInv, OrphanInv, MemberInv, From
  <2> QED
    BY <2>2, <2>3, <2>5, InitIInv DEF ReconcileInv
<1>2. ReconcileInv /\ [Next]_vars => ReconcileInv'
  BY Invariance, StartupStep, DatedStep, BootStep DEF ReconcileInv
<1> QED
  BY <1>1, <1>2, PTL DEF Spec

\* The gc that main() runs before it serves unregisters only runtimes whose recorded owner
\* is dead, as long as no command has failed: who was dead when _process_alive was asked
\* stays dead, and no create is under way that could register the name again.
THEOREM StartupSpares == Spec => StartupSparesLiveOwners
<1>1. ASSUME ReconcileInv, NEW n \in Names, DestroyUnregister(Main), frame[Main].name = n,
             registry[n] # NoRecord
      PROVE  faults > 0 \/ ~Alive(registry[n].owner)
  <2>1. faults \in Nat
    BY <1>1 DEF ReconcileInv, IInv, TypeOK, ClientTypeOK
  <2>2. pc[Main] \in Destroying /\ n \in Registered
    BY <1>1 DEF DestroyUnregister, Destroying, Removed, Registered
  <2>3. pc[Main] \notin {"g_loop", "g_orphans"}
    BY <2>2, LabelSets DEF GcLabels
  <2>4. ASSUME faults = 0 PROVE ~Alive(registry[n].owner)
    <3>1. DeadInv /\ OrphanInv /\ (From("g_loop") \/ From("g_orphans"))
      BY <1>1, <2>2, <2>4 DEF ReconcileInv, BootInv, MainInv, From
    <3> QED
      BY <1>1, <2>2, <2>3, <3>1 DEF DeadInv, OrphanInv
  <2> QED
    BY <2>1, <2>4
<1>2. ReconcileInv /\ [Next]_vars =>
        [\A n \in Names : DestroyUnregister(Main) /\ frame[Main].name = n /\ registry[n] # NoRecord =>
           faults > 0 \/ ~Alive(registry[n].owner)]_vars
  BY <1>1
<1> QED
  BY <1>2, Reconciliation, PTL DEF Spec, StartupSparesLiveOwners

\* The daemon starts to serve by the sweep that ends Main's gc, or without one when it has
\* been started so.
LEMMA ServingMove ==
  ASSUME ReconcileInv, Next, serving', ~serving, crashes' = crashes
  PROVE  GcClear(Main)
<1>0. /\ Main \in Threads /\ Main \notin Workers /\ Workers \subseteq Threads
      /\ crashes \in Nat
  BY DaemonAssumption DEF Threads, ReconcileInv, IInv, TypeOK, ClientTypeOK
<1>a. ~Restart
  <2>1. SUFFICES ASSUME crashes' = crashes + 1 PROVE FALSE
    BY DEF Restart
  <2> QED
    BY <1>0, <2>1
<1>b. ASSUME NEW t \in Workers, NewRequest(t) PROVE FALSE
  BY <1>b, RequestFields DEF ReconcileInv, IInv
<1>1. PICK t \in Threads : Step(t)
  BY <1>a, <1>b DEF Next, Environment, Crash, Reboot, ClientExit, ClientStart, daemon
<1>2. t = Main /\ pc'[Main] = "idle"
  BY <1>1, StartupMove DEF ReconcileInv
<1>3. pc[Main] # "idle" /\ pc[Main] \in GcLabels \cup Destroying \cup {"d_lock"}
  BY <1>0, <1>1, <1>2, ThreadMoves, CallerKept DEF ReconcileInv, BootInv, MainInv
<1>4. ~CreateStep(Main)
  BY <1>0, <1>3, CreateLabels, LabelSets DEF ReconcileInv
<1>5. ASSUME DestroyStep(Main) PROVE FALSE
  <2>1. serving' = serving
    <3>1. CASE Removal(Main)
      BY <1>0, <3>1, RemovalEffect DEF ReconcileInv, daemon
    <3>2. CASE ~Removal(Main)
      BY <1>5, <3>2 DEF DestroyStep, Removal, DestroyEnter, EnterNamed, DestroyLoad, DestroyCheck,
         DestroyRelease, DestroyUnregister, daemon
    <3> QED
      BY <3>1, <3>2
  <2> QED
    BY <2>1
<1>6. GcStep(Main)
  BY <1>1, <1>2, <1>4, <1>5 DEF Step
<1> QED
  BY <1>0, <1>6 DEF GcStep, GcEnter, GcRaises, GcScan, GcKeep, GcReclaim, GcLoopEnd, GcAfter,
     GcDiscover, GcOrphan, GcOrphansEnd, GcReferences, GcBridge, GcEpair, GcEpairsEnd, GcActive,
     GcRead, GcCall, GcFrame, daemon

\* When serve_forever begins after a reconciliation, pool.clear_orphans has left only leases
\* of registered names, unless it could not read one, and, unless a command has failed, the
\* epairs on the bridge are those that records refer to (_bridge_epairs() -
\* referenced_epairs): whatever the daemon's death has left is gone.
THEOREM StartupReclaims == Spec => StartupReclaimsLeftovers
<1>1. ASSUME ReconcileInv, Next, serving', ~serving, crashes' = crashes
      PROVE  /\ faults' = faults => \A a \in Addresses : leases'[a] \in Registered' \cup {Unleased}
             /\ faults = 0 => \A e \in member : \E n \in Registered : registry[n].ep = e
  <2>1. GcClear(Main)
    BY <1>1, ServingMove
  <2>2. pc[Main] = "g_clear"
    BY <2>1 DEF GcClear
  <2>3. registry' = registry /\ Registered' = Registered
    BY <2>1 DEF GcClear, GcReturn, Registered
  <2>4. frame[Main].uid = 0 /\ Registered = gcv[Main].active
    BY <1>1, <2>2 DEF ReconcileInv, StartupInv
  <2>5. ASSUME faults' = faults, NEW a \in Addresses PROVE leases'[a] \in Registered' \cup {Unleased}
    <3>1. ~Fault
      BY <1>1, <2>5 DEF Fault, ReconcileInv, IInv, TypeOK, ClientTypeOK
    <3>2. ClearOrphans(Registered, Orphans(Registered))
      BY <2>1, <2>4, <3>1 DEF GcClear, Sweep
    <3> QED
      BY <2>3, <3>2 DEF ClearOrphans, Orphans
  <2>6. faults = 0 => member \subseteq Refs
    BY <1>1, <2>2 DEF ReconcileInv, BootInv, MemberInv
  <2> QED
    BY <2>5, <2>6 DEF Refs
<1>2. ReconcileInv /\ [Next]_vars =>
        [serving' /\ ~serving /\ crashes' = crashes =>
           /\ faults' = faults => \A a \in Addresses : leases'[a] \in Registered' \cup {Unleased}
           /\ faults = 0 => \A e \in member : \E n \in Registered : registry[n].ep = e]_vars
  BY <1>1
<1> QED
  BY <1>2, Reconciliation, PTL DEF Spec, StartupReclaimsLeftovers
=============================================================================
