---------------------- MODULE ProvisionerCleanup_proofs ----------------------
(***************************************************************************)
(* For every number of sessions, processes, allocate calls, ports and      *)
(* faults: nothing is left of a session after a failed launch or cleanup,  *)
(* and the tunnel of a running kernel is wired to the ports its client and *)
(* its kernel know.  Both follow from what holds of a session at each      *)
(* stage of pre_launch, launch_kernel and the cleanup, as long as it has   *)
(* met none of the known gaps.                                             *)
(***************************************************************************)
EXTENDS Provisioner_proofs

\* A call that has begun to search for ports may have some, a call that is over has some
\* if it succeeded and none if it failed.
GotInv ==
  \A k \in Tasks :
    /\ task[k].at = "done" => task[k].got # {}
    /\ task[k].at \in {"idle", "wait", "failed"} => task[k].got = {}

\* The ssh processes and the runtimes belong to incarnations that have been.
IdInv ==
  /\ \A t \in ssh : t.id[1] = ProcOf[t.s] /\ t.id[2] <= inc[t.id[1]]
  /\ \A s \in Sessions : rt[s] # NoRuntime => rt[s][2] <= inc[rt[s][1]]

\* Before the branches of the gather, and after the connection has been withdrawn.
Outside == {"idle", "creating", "release", "destroy"}

\* The allocate call of the launch is not through yet.
Pending(s) == \E k \in Tasks : prov[s].mine = k /\ task[k].s = s

\* Where a session is says which attributes it may have and whether it has an ssh process.
Flow(s) ==
  /\ at[s] \notin {"gather", "fail"} => prov[s].mine = Nobody
  /\ at[s] # "release" => prov[s].rel = {}
  /\ at[s] \in Outside \/ Pending(s) => ~prov[s].prepared
  /\ lost[s].create > 0 \/ lost[s].destroy > 0 => s \in spoiled
  /\ \A t \in ssh :
       t.s = s /\ t.id = Identity(s) /\ Live(s) => at[s] = "running" /\ t.ports = prov[s].cmd

\* Nothing is reserved or rewritten outside the gather and the run, and the original
\* connection is remembered as soon as the file is rewritten.
Clean(s) ==
  /\ at[s] \in Outside \/ Pending(s) => prov[s].res = {} /\ prov[s].orig = {} /\ conn[s] = {}
  /\ prov[s].orig \subseteq {{}} /\ (prov[s].orig = {} => conn[s] = {})
  /\ at[s] = "idle" => ~prov[s].dir /\ ~prov[s].created

\* The command line, the connection file and its copy agree once there are ports, and the
\* session knows of the runtime that it owns.
Agreed(s) ==
  /\ (at[s] = "gather" /\ prov[s].prepared) \/ at[s] \in {"ready", "running"} =>
       conn[s] = prov[s].cmd /\ conn[s] # {}
  /\ at[s] \in {"ready", "running"} => prov[s].staged = conn[s]
  /\ at[s] \in {"gather", "ready", "running"} => rt[s] = Identity(s)
  /\ Live(s) /\ rt[s] = Identity(s) => prov[s].created \/ (at[s] = "creating" /\ s \in stuck)

\* A port whose socket a session has: in its reservation, or in an allocate call, which has
\* bound it at least.
Taken(s, p) ==
  \/ p \in prov[s].res
  \/ \E k \in Tasks : /\ task[k].s = s
                      /\ p \in task[k].got \/ (task[k].at = "claim" /\ p = Candidate(k))

\* Every live lease and every socket of the pool that a session has is one it knows of.
Known(s) ==
  /\ \A f \in files : f.s = s /\ Alive(f.id) => f.port \in Held(s)
  /\ \A p \in Ports : bound[p] = <<"pool", s>> => Taken(s, p)

Orderly(s) == Flow(s) /\ (s \in spoiled \/ (Clean(s) /\ Agreed(s) /\ Known(s)))

CleanupInv == GotInv /\ IdInv /\ \A s \in Sessions : Orderly(s)

\* A step of others: the session stays as it is, and the names of its process mean the same.
LEMMA OrderlyFrame ==
  ASSUME NEW s \in Sessions, Orderly(s), Identity(s)' = Identity(s), Live(s)' = Live(s),
         at'[s] = at[s], prov'[s] = prov[s], conn'[s] = conn[s], rt'[s] = rt[s], lost'[s] = lost[s],
         spoiled \subseteq spoiled', stuck \subseteq stuck',
         \A k \in Tasks : task'[k] = task[k] \/ (task[k].s # s /\ task'[k].s # s),
         \A f \in files' : f.s = s => f \in files /\ (Alive(f.id)' => Alive(f.id)),
         \A p \in Ports : bound'[p] = <<"pool", s>> => bound[p] = <<"pool", s>>,
         \A t \in ssh' : t.s = s => \E u \in ssh : u.s = s /\ u.id = t.id /\ u.ports = t.ports
  PROVE  Orderly(s)'
<1>1. Pending(s)' => Pending(s)
  BY DEF Pending
<1>2. Flow(s)'
  BY <1>1 DEF Orderly, Flow
<1>3. Clean(s) => Clean(s)'
  BY <1>1 DEF Clean
<1>4. Agreed(s) => Agreed(s)'
  BY DEF Agreed
<1>5. \A k \in Tasks : task[k].s = s => task'[k] = task[k]
  OBVIOUS
<1>6. \A p : p \in Held(s) => p \in Held(s)'
  BY <1>5, HeldBy
<1>7. \A k \in Tasks : task[k].s = s => Candidate(k)' = Candidate(k)
  BY <1>5 DEF Candidate
<1>8. \A p : Taken(s, p) => Taken(s, p)'
  BY <1>5, <1>7 DEF Taken
<1>9. Known(s) => Known(s)'
  BY <1>6, <1>8 DEF Known
<1> QED
  BY <1>2, <1>3, <1>4, <1>9 DEF Orderly

\* The same, when no process has died or started.
LEMMA OrderlyKept ==
  ASSUME NEW s \in Sessions, Orderly(s), UNCHANGED <<inc, up>>,
         at'[s] = at[s], prov'[s] = prov[s], conn'[s] = conn[s], rt'[s] = rt[s], lost'[s] = lost[s],
         spoiled \subseteq spoiled', stuck \subseteq stuck',
         \A k \in Tasks : task'[k] = task[k] \/ (task[k].s # s /\ task'[k].s # s),
         \A f \in files' : f.s = s => f \in files,
         \A p \in Ports : bound'[p] = <<"pool", s>> => bound[p] = <<"pool", s>>,
         \A t \in ssh' : t.s = s => \E u \in ssh : u.s = s /\ u.id = t.id /\ u.ports = t.ports
  PROVE  Orderly(s)'
<1>1. Identity(s)' = Identity(s) /\ Live(s)' = Live(s) /\ \A i : Alive(i)' = Alive(i)
  BY DEF Identity, Live, Alive
<1> QED
  BY <1>1, OrderlyFrame

\* The session keeps its ports, and gets no lease and no socket.
LEMMA KnownKept ==
  ASSUME NEW s \in Sessions, Known(s), UNCHANGED <<inc, up>>,
         \A f \in files' : f.s = s => f \in files,
         \A p \in Ports : bound'[p] = <<"pool", s>> => bound[p] = <<"pool", s>>,
         prov[s].res \subseteq prov'[s].res, prov[s].rel \subseteq prov'[s].rel,
         \A k \in Tasks : task[k].s = s =>
           \/ task[k].got = {} /\ task[k].at # "claim"
           \/ /\ task'[k].s = s /\ task[k].got \subseteq task'[k].got
              /\ task[k].at = "claim" => task'[k].at = "claim" /\ task'[k].i = task[k].i
  PROVE  Known(s)'
<1>1. \A p : p \in Held(s) => p \in Held(s)'
  BY HeldBy
<1>2. \A k \in Tasks : task[k].s = s /\ task[k].at = "claim" =>
        task'[k].at = "claim" /\ Candidate(k)' = Candidate(k)
  BY DEF Candidate
<1>3. \A i : Alive(i)' = Alive(i)
  BY DEF Alive
<1> QED
  BY <1>1, <1>2, <1>3 DEF Known, Taken

\* The steps of a session in pre_launch and _destroy_runtime, and those of the daemon:
\* they leave the pool, the connection file and the ssh processes alone.
Moves(s) ==
  \/ PreLaunch(s) \/ NotUsable(s) \/ CreateRefused(s) \/ CreateHangs(s) \/ CreateGivenUp(s)
  \/ SshReady(s) \/ Stage(s) \/ NoDestroy(s) \/ DestroyAnswered(s) \/ DestroyGivenUp(s)
  \/ LateCreate(s) \/ LateDestroy(s) \/ StaleGc(s)

\* What none of them changes.
LEMMA MovesKeep ==
  ASSUME Sound, NEW s \in Sessions, Moves(s)
  PROVE  /\ UNCHANGED <<files, bound, flock, task, inc, up, conn, ssh>>
         /\ spoiled \subseteq spoiled' /\ stuck \subseteq stuck'
         /\ prov'[s].res = prov[s].res /\ prov'[s].rel = prov[s].rel /\ prov'[s].orig = prov[s].orig
         /\ prov'[s].prepared = prov[s].prepared /\ prov'[s].cmd = prov[s].cmd
         /\ prov'[s].mine \in {prov[s].mine, Nobody}
         /\ \A r \in Sessions \ {s} :
              at'[r] = at[r] /\ prov'[r] = prov[r] /\ rt'[r] = rt[r] /\ lost'[r] = lost[r]
<1>1. /\ at \in [Sessions -> Stages] /\ prov \in [Sessions -> ProvType] /\ prov[s] \in ProvType
      /\ rt \in [Sessions -> Identities \cup {NoRuntime}]
      /\ lost \in [Sessions -> [create : 0..MaxFaults, destroy : 0..MaxFaults]]
  BY TypeParts DEF Sound, RestType
<1>2. UNCHANGED <<files, bound, flock, task, inc, up, conn, ssh>>
  BY DEF Moves, PreLaunch, NotUsable, Created, CreateRefused, CreateHangs, CreateGivenUp,
     SshReady, Stage, NoDestroy, DestroyAnswered, DestroyGivenUp, LateCreate, LateDestroy, StaleGc,
     procs, pool, session
<1>3. spoiled \subseteq spoiled' /\ stuck \subseteq stuck'
  BY DEF Moves, PreLaunch, NotUsable, Created, CreateRefused, CreateHangs, CreateGivenUp, GiveUp, Spoil,
     SshReady, Stage, NoDestroy, DestroyAnswered, DestroyGivenUp, LateCreate, LateDestroy, StaleGc,
     history, daemon
<1>4. \/ UNCHANGED prov
      \/ prov' = [prov EXCEPT ![s].dir = TRUE]
      \/ prov' = [prov EXCEPT ![s].created = TRUE]
      \/ prov' = [prov EXCEPT ![s].ready = TRUE]
      \/ prov' = [prov EXCEPT ![s].staged = conn[s], ![s].mine = Nobody]
      \/ prov' = [prov EXCEPT ![s].created = FALSE, ![s].dir = FALSE]
  BY DEF Moves, PreLaunch, NotUsable, CreateRefused, CreateHangs, CreateGivenUp,
     SshReady, Stage, Copy, NoDestroy, DestroyAnswered, DestroyGivenUp, Finished,
     LateCreate, LateDestroy, StaleGc, session
<1>5. /\ prov'[s].res = prov[s].res /\ prov'[s].rel = prov[s].rel /\ prov'[s].orig = prov[s].orig
      /\ prov'[s].prepared = prov[s].prepared /\ prov'[s].cmd = prov[s].cmd
      /\ prov'[s].mine \in {prov[s].mine, Nobody}
      /\ \A r \in Sessions \ {s} : prov'[r] = prov[r]
  BY <1>1, <1>4 DEF ProvType
<1>6. \A r \in Sessions \ {s} : at'[r] = at[r]
  <2>1. UNCHANGED at \/ \E label : at' = [at EXCEPT ![s] = label]
    BY DEF Moves, PreLaunch, CreateKey, NotUsable, CreateRefused, CreateHangs, CreateGivenUp, GiveUp, Goto,
       SshReady, Stage, Copy, NoDestroy, DestroyAnswered, DestroyGivenUp, LateCreate, LateDestroy, StaleGc, session
  <2> QED
    BY <1>1, <2>1
<1>7. \A r \in Sessions \ {s} : rt'[r] = rt[r]
  <2>1. UNCHANGED rt \/ \E x : rt' = [rt EXCEPT ![s] = x]
    BY <1>1
     DEF Moves, PreLaunch, NotUsable, Created, CreateRefused, CreateHangs, CreateGivenUp, daemon,
       SshReady, Stage, NoDestroy, DestroyAnswered, DestroyGivenUp, LateCreate, LateDestroy, StaleGc
  <2> QED
    BY <1>1, <2>1
<1>8. \A r \in Sessions \ {s} : lost'[r] = lost[r]
  <2>1. CASE UNCHANGED lost
    BY <2>1
  <2>2. CASE CreateGivenUp(s) \/ DestroyGivenUp(s) \/ LateCreate(s) \/ LateDestroy(s)
    BY <1>1, <2>2 DEF CreateGivenUp, DestroyGivenUp, GiveUp, LateCreate, LateDestroy
  <2> QED
    BY <2>1, <2>2 DEF Moves, PreLaunch, NotUsable, Created, CreateRefused, CreateHangs, daemon,
       SshReady, Stage, NoDestroy, DestroyAnswered, StaleGc
<1> QED
  BY <1>2, <1>3, <1>5, <1>6, <1>7, <1>8

\* The session itself after one of these steps: where it goes, with which attributes.
LEMMA MovesFields ==
  ASSUME Sound, NEW s \in Sessions, Moves(s)
  PROVE  \/ /\ PreLaunch(s) /\ at[s] = "idle" /\ at'[s] \in {"creating", "fail"}
            /\ prov'[s].created = prov[s].created /\ UNCHANGED <<rt, lost, stuck>>
         \/ /\ NotUsable(s) /\ at[s] = "creating" /\ at'[s] = "fail"
            /\ prov'[s].created /\ UNCHANGED <<lost, stuck>>
         \/ /\ CreateRefused(s) /\ at[s] = "creating" /\ at'[s] = "fail" /\ s \notin stuck
            /\ UNCHANGED <<prov, rt, lost, stuck>>
         \/ /\ CreateHangs(s) /\ at[s] = "creating" /\ UNCHANGED <<at, prov, lost>> /\ s \in stuck'
         \/ /\ CreateGivenUp(s) /\ at[s] = "creating" /\ at'[s] = "fail" /\ s \in spoiled'
         \/ /\ SshReady(s) /\ at[s] = "gather" /\ at'[s] \in {"gather", "fail"}
            /\ prov'[s].created = prov[s].created /\ UNCHANGED <<rt, lost, stuck>>
         \/ /\ Stage(s) /\ at[s] = "gather" /\ prov[s].prepared /\ UNCHANGED <<rt, lost, stuck>>
            /\ prov'[s].created = prov[s].created
            /\ \/ at'[s] = "fail"
               \/ at'[s] = "ready" /\ prov'[s].staged = conn[s] /\ prov'[s].mine = Nobody
         \/ /\ NoDestroy(s) /\ at[s] = "destroy" /\ at'[s] = "idle" /\ ~prov[s].created
            /\ ~prov'[s].created /\ ~prov'[s].dir /\ UNCHANGED <<rt, lost>>
         \/ /\ DestroyAnswered(s) /\ at[s] = "destroy" /\ at'[s] = "idle" /\ UNCHANGED lost
            /\ ~prov'[s].created /\ ~prov'[s].dir
            /\ rt'[s] = NoRuntime \/ s \in spoiled'
         \/ /\ DestroyGivenUp(s) /\ at[s] = "destroy" /\ at'[s] = "idle" /\ s \in spoiled'
         \/ /\ LateCreate(s) \/ LateDestroy(s)
            /\ lost[s].create > 0 \/ lost[s].destroy > 0
            /\ UNCHANGED <<at, prov>>
         \/ /\ StaleGc(s) /\ UNCHANGED <<at, prov, lost, stuck>> /\ rt'[s] = NoRuntime
            /\ rt[s] # NoRuntime
            /\ ~Alive(rt[s]) \/ s \in spoiled'
<1>1. /\ at \in [Sessions -> Stages] /\ prov \in [Sessions -> ProvType] /\ prov[s] \in ProvType
      /\ rt \in [Sessions -> Identities \cup {NoRuntime}]
  BY TypeParts DEF Sound, RestType
<1>2. CASE PreLaunch(s)
  BY <1>1, <1>2 DEF PreLaunch, CreateKey, Goto, daemon, ProvType
<1>3. CASE NotUsable(s)
  BY <1>1, <1>3 DEF NotUsable, Created, Goto, ProvType
<1>4. CASE CreateRefused(s)
  BY <1>1, <1>4 DEF CreateRefused, Goto, daemon
<1>5. CASE CreateHangs(s)
  BY <1>1, <1>5 DEF CreateHangs, session
<1>6. CASE CreateGivenUp(s)
  BY <1>1, <1>6 DEF CreateGivenUp, GiveUp, Goto, Spoil
<1>7. CASE SshReady(s)
  BY <1>1, <1>7 DEF SshReady, Goto, daemon, ProvType
<1>8. CASE Stage(s)
  <2>1. UNCHANGED prov \/ prov' = [prov EXCEPT ![s].staged = conn[s], ![s].mine = Nobody]
    BY <1>8 DEF Stage, Copy
  <2>2. prov'[s].created = prov[s].created
    BY <1>1, <2>1 DEF ProvType
  <2>3. prov' = [prov EXCEPT ![s].staged = conn[s], ![s].mine = Nobody] =>
          prov'[s].staged = conn[s] /\ prov'[s].mine = Nobody
    BY <1>1 DEF ProvType
  <2> QED
    BY <1>1, <1>8, <2>2, <2>3 DEF Stage, Copy, Goto, daemon
<1>9. CASE NoDestroy(s)
  BY <1>1, <1>9 DEF NoDestroy, Finished, Goto, daemon, ProvType
<1>10. CASE DestroyAnswered(s)
  BY <1>1, <1>10 DEF DestroyAnswered, Finished, Goto, Spoil, ProvType
<1>11. CASE DestroyGivenUp(s)
  BY <1>1, <1>11 DEF DestroyGivenUp, GiveUp, Goto, Spoil
<1>12. CASE LateCreate(s) \/ LateDestroy(s)
  BY <1>12 DEF LateCreate, LateDestroy, session
<1>13. CASE StaleGc(s)
  BY <1>1, <1>13 DEF StaleGc, Spoil, session
<1> QED
  BY <1>2, <1>3, <1>4, <1>5, <1>6, <1>7, <1>8, <1>9, <1>10, <1>11, <1>12, <1>13 DEF Moves

\* Such a step keeps the session in order.
LEMMA OrderlyMoves ==
  ASSUME Sound, NEW s \in Sessions, Orderly(s), Moves(s)
  PROVE  Orderly(s)'
<1>1. /\ UNCHANGED <<bound, files, task, inc, up, conn, ssh>>
      /\ spoiled \subseteq spoiled' /\ stuck \subseteq stuck'
      /\ prov'[s].res = prov[s].res /\ prov'[s].rel = prov[s].rel /\ prov'[s].orig = prov[s].orig
      /\ prov'[s].prepared = prov[s].prepared /\ prov'[s].cmd = prov[s].cmd
      /\ prov'[s].mine \in {prov[s].mine, Nobody}
  BY MovesKeep
<1>2. Identity(s)' = Identity(s) /\ Live(s)' = Live(s)
  BY <1>1 DEF Identity, Live
<1>3. Pending(s)' => Pending(s)
  BY <1>1, PortAssumption DEF Pending
<1>4. Flow(s)'
  <2>1. /\ at'[s] \notin {"gather", "fail"} => prov'[s].mine = Nobody
        /\ at'[s] # "release" => prov'[s].rel = {}
    BY <1>1, MovesFields DEF Orderly, Flow
  <2>2. at'[s] \in Outside \/ Pending(s)' => ~prov'[s].prepared
    BY <1>1, <1>3, MovesFields DEF Orderly, Flow, Outside
  <2>3. lost'[s].create > 0 \/ lost'[s].destroy > 0 => s \in spoiled'
    BY <1>1, MovesFields DEF Orderly, Flow
  <2>4. at[s] = "running" => at'[s] = "running"
    BY MovesFields
  <2> QED
    BY <1>1, <1>2, <2>1, <2>2, <2>3, <2>4 DEF Orderly, Flow
<1>5. ASSUME s \notin spoiled', Clean(s), Agreed(s), Known(s)
      PROVE  Clean(s)' /\ Agreed(s)' /\ Known(s)'
  <2>1. ~(LateCreate(s) \/ LateDestroy(s))
    BY <1>1, <1>5 DEF Orderly, Flow, LateCreate, LateDestroy
  <2>2. Clean(s)'
    <3>1. at'[s] \in Outside \/ Pending(s)' => at[s] \in Outside \/ Pending(s)
      BY <1>3, MovesFields DEF Outside
    <3>2. at'[s] = "idle" => ~prov'[s].dir /\ ~prov'[s].created
      BY <1>5, MovesFields DEF Clean
    <3> QED
      BY <1>1, <1>5, <3>1, <3>2 DEF Clean
  <2>3. Agreed(s)'
    <3>1. (at'[s] = "gather" /\ prov'[s].prepared) \/ at'[s] \in {"ready", "running"} =>
            (at[s] = "gather" /\ prov[s].prepared) \/ at[s] \in {"ready", "running"}
      BY <1>1, <1>5, MovesFields DEF Outside
    <3>2. at'[s] \in {"ready", "running"} => prov'[s].staged = conn[s]
      BY <1>5, MovesFields DEF Agreed
    <3>3. ASSUME StaleGc(s), at[s] # "idle"
          PROVE  rt[s] # Identity(s)
      BY <1>5, <3>3, NotIdle DEF StaleGc, Spoil, Alive, Identity, Live, Sound
    <3>4. at'[s] \in {"gather", "ready", "running"} => rt'[s] = Identity(s)
      BY <1>5, <2>1, <3>3, MovesFields DEF Agreed
    <3>5. Identity(s) # NoRuntime
      BY LeaseType, PortAssumption, ProvisionerAssumption DEF Sound, TypeOK, PortsTypeOK, Identity, Identities
    <3>6. Live(s) /\ rt'[s] = Identity(s) => prov'[s].created \/ (at'[s] = "creating" /\ s \in stuck')
      BY <1>5, <2>1, <3>5, MovesFields DEF Agreed
    <3> QED
      BY <1>1, <1>2, <1>5, <3>1, <3>2, <3>4, <3>6 DEF Agreed
  <2> QED
    BY <1>1, <1>5, <2>2, <2>3, KnownKept
<1> QED
  BY <1>1, <1>4, <1>5 DEF Orderly

-----------------------------------------------------------------------------
(* The pool and the ssh processes *)

\* What a step of an allocate call does to the call.
LEMMA GotAllocate ==
  ASSUME Sound, GotInv, NEW k \in Tasks, AllocateStep(k)
  PROVE  GotInv' /\ \A j \in Tasks \ {k} : task'[j] = task[j]
<1>1. PortsTypeOK /\ task \in [Tasks -> TaskType] /\ task[k] \in TaskType
  BY DEF Sound, TypeOK, PortsTypeOK, TaskType
<1>2. PICK new \in TaskType : task' = [task EXCEPT ![k] = new]
  BY <1>1, AllocateTask DEF Sound
<1>3. \A j \in Tasks \ {k} : task'[j] = task[j]
  BY <1>1, <1>2
<1>4. CASE Enter(k) \/ Look(k) \/ Bind(k) \/ ClaimFails(k) \/ Exhausted(k)
  <2>1. (\E label \in {"look", "failed", "bind", "claim", "undo"} : Step(k, label)) \/ NextPort(k)
    BY <1>4 DEF Enter, Look, Bind, ClaimFails, Exhausted
  <2>2. task'[k].got = task[k].got /\ task'[k].at \in {"look", "failed", "bind", "claim", "undo"}
    BY <1>1, <2>1, OneTask
  <2>3. task'[k].at = "failed" => task[k].at = "wait"
    BY <1>1, <1>4, OneTask DEF Enter, Look, Bind, ClaimFails, Exhausted
  <2> QED
    BY <1>3, <2>2, <2>3 DEF GotInv
<1>5. CASE Claim(k)
  <2>1. task'[k].got # {} /\ task'[k].at \in {"look", "done"}
    BY <1>1, <1>5 DEF Claim, TaskType
  <2> QED
    BY <1>3, <2>1 DEF GotInv
<1>6. CASE Undo(k)
  <2>1. task'[k].got = {} /\ task'[k].at = "failed"
    BY <1>1, <1>6 DEF Undo, TaskType
  <2> QED
    BY <1>3, <2>1 DEF GotInv
<1> QED
  BY <1>3, <1>4, <1>5, <1>6 DEF AllocateStep

\* The call of a launch begins.
LEMMA CallFields ==
  ASSUME Sound, NEW k \in Tasks, NEW s \in Sessions, Call(k, s)
  PROVE  /\ task[k] = NoTask /\ task'[k].s = s /\ task'[k].got = {} /\ task'[k].at \in {"wait", "failed"}
         /\ \A j \in Tasks \ {k} : task'[j] = task[j]
<1>1. task \in [Tasks -> TaskType]
  BY DEF Sound, TypeOK, PortsTypeOK, TaskType
<1> QED
  BY <1>1 DEF Call, NoTask, Sound, TaskInv

\* Any step: the calls that are over have what their result says.
LEMMA GotStep ==
  ASSUME Sound, GotInv, [Next]_vars
  PROVE  GotInv'
<1>1. NoTask.at = "idle" /\ NoTask.got = {} /\ task \in [Tasks -> TaskType]
  BY DEF NoTask, Sound, TypeOK, PortsTypeOK, TaskType
<1>2. ASSUME NEW s \in Sessions, CreateAnswered(s)
      PROVE  GotInv'
  BY <1>1, <1>2, CallFields DEF CreateAnswered, GotInv
<1>3. ASSUME NEW k \in Tasks, Prepared(k) \/ NotReserved(k)
      PROVE  GotInv'
  BY <1>1, <1>3 DEF Prepared, NotReserved, GotInv
<1>4. ASSUME NEW q \in Procs, Die(q)
      PROVE  GotInv'
  BY <1>1, <1>4 DEF Die, ProcessDies, GotInv
<1>5. ASSUME UNCHANGED task
      PROVE  GotInv'
  BY <1>5 DEF GotInv
<1>6. ASSUME NEW s \in Sessions, PreLaunch(s) \/ (SessionStep(s) /\ ~CreateAnswered(s)) \/ Cleanup(s)
                                   \/ LateCreate(s) \/ LateDestroy(s) \/ StaleGc(s)
      PROVE  GotInv'
  <2>1. CASE Moves(s)
    BY <1>5, <2>1, MovesKeep
  <2>2. CASE Launch(s) \/ Fail(s) \/ Cleanup(s) \/ Release(s)
    BY <1>5, <2>2 DEF Launch, Fail, Cleanup, Withdraw, Release
  <2> QED
    BY <1>6, <2>1, <2>2 DEF Moves, SessionStep
<1>7. ASSUME (\E t \in ssh : SshBinds(t) \/ SshEnds(t)) \/ (\E p \in Ports : StrangerActs(p))
             \/ (\E q \in Procs : StartAgain(q)) \/ UNCHANGED vars
      PROVE  GotInv'
  BY <1>5, <1>7 DEF SshBinds, SshEnds, StrangerActs, Stranger, StartAgain, ProcessStarts, pool, vars
<1> QED
  BY <1>2, <1>3, <1>4, <1>6, <1>7, GotAllocate DEF Next, TaskStep, Allocating, SessionStep

\* Any step: the incarnations of a process only go on.
LEMMA IdStep ==
  ASSUME Sound, IdInv, [Next]_vars
  PROVE  IdInv'
<1>1. /\ inc \in [Procs -> 1..MaxInc] /\ MaxInc \in Nat /\ ProcOf \in [Sessions -> Procs]
      /\ ssh \subseteq [s : Sessions, id : Identities, ports : SUBSET Ports, up : BOOLEAN]
      /\ rt \in [Sessions -> Identities \cup {NoRuntime}]
  BY PortAssumption DEF Sound, TypeOK, PortsTypeOK
<1>2. ASSUME UNCHANGED inc,
             \A t \in ssh' : \/ \E u \in ssh : u.s = t.s /\ u.id = t.id
                             \/ t.s \in Sessions /\ t.id = Identity(t.s),
             \A s \in Sessions : rt'[s] \in {rt[s], NoRuntime, Identity(s)}
      PROVE  IdInv'
  <2>1. \A s \in Sessions : Identity(s)[1] = ProcOf[s] /\ Identity(s)[2] <= inc[Identity(s)[1]]
    BY <1>1 DEF Identity
  <2>2. \A t \in ssh' : t.id[1] = ProcOf[t.s] /\ t.id[2] <= inc'[t.id[1]]
    BY <1>2, <2>1 DEF IdInv
  <2>3. \A s \in Sessions : rt'[s] # NoRuntime => rt'[s][2] <= inc'[rt'[s][1]]
    BY <1>2, <2>1 DEF IdInv
  <2> QED
    BY <2>2, <2>3 DEF IdInv
<1>3. ASSUME UNCHANGED <<inc, ssh, rt>>
      PROVE  IdInv'
  BY <1>3 DEF IdInv
<1>4. ASSUME NEW s \in Sessions, Moves(s) \/ CreateAnswered(s)
      PROVE  IdInv'
  <2>1. UNCHANGED <<inc, ssh>>
    BY <1>4, MovesKeep DEF CreateAnswered, Created, Call, procs
  <2>2. \A r \in Sessions : rt'[r] \in {rt[r], NoRuntime, Identity(r)}
    BY <1>1, <1>4 DEF Moves, PreLaunch, NotUsable, Created, CreateAnswered, CreateRefused, CreateHangs, CreateGivenUp,
       SshReady, Stage, NoDestroy, DestroyAnswered, DestroyGivenUp, LateCreate, LateDestroy, StaleGc, daemon
  <2> QED
    BY <1>2, <2>1, <2>2
<1>5. ASSUME NEW s \in Sessions, Launch(s) \/ Fail(s) \/ Cleanup(s) \/ Release(s)
      PROVE  IdInv'
  <2>1. UNCHANGED <<inc, rt>>
    BY <1>5 DEF Launch, Fail, Cleanup, Withdraw, Release, procs, daemon
  <2>2. \A t \in ssh' : t \in ssh \/ (t.s = s /\ t.id = Identity(s))
    BY <1>5 DEF Launch, Fail, Cleanup, Withdraw, Release
  <2> QED
    BY <1>2, <2>1, <2>2
<1>6. ASSUME NEW t \in ssh, SshBinds(t) \/ SshEnds(t)
      PROVE  IdInv'
  <2>1. UNCHANGED <<inc, rt>>
    BY <1>6 DEF SshBinds, SshEnds, procs, daemon
  <2>2. [t EXCEPT !.up = TRUE].s = t.s /\ [t EXCEPT !.up = TRUE].id = t.id
    BY <1>1
  <2>3. \A u \in ssh' : u \in ssh \/ u = [t EXCEPT !.up = TRUE]
    BY <1>6 DEF SshBinds, SshEnds
  <2> QED
    BY <1>2, <2>1, <2>2, <2>3
<1>7. ASSUME (\E k \in Tasks : TaskStep(k)) \/ (\E p \in Ports : StrangerActs(p))
             \/ (\E q \in Procs : Die(q)) \/ UNCHANGED vars
      PROVE  IdInv'
  <2>1. \A k \in Tasks : AllocateStep(k) => UNCHANGED inc
    BY AllocatePool DEF Sound, TypeOK, procs
  <2> QED
    BY <1>3, <1>7, <2>1 DEF TaskStep, Allocating, Prepared, NotReserved, StrangerActs, Stranger, Die, ProcessDies,
       procs, daemon, vars
<1>8. ASSUME NEW q \in Procs, StartAgain(q)
      PROVE  IdInv'
  <2>1. UNCHANGED <<ssh, rt>> /\ inc' = [inc EXCEPT ![q] = inc[q] + 1]
    BY <1>8 DEF StartAgain, ProcessStarts, daemon
  <2>2. \A p \in Procs : inc[p] \in Nat /\ inc'[p] \in Nat /\ inc[p] <= inc'[p]
    BY <1>1, <2>1
  <2>3. \A i \in Identities : i[1] \in Procs /\ i[2] \in Nat
    BY <1>1 DEF Identities
  <2>4. \A i \in Identities : i[2] <= inc[i[1]] => i[2] <= inc'[i[1]]
    BY <2>2, <2>3
  <2> QED
    BY <1>1, <2>1, <2>4 DEF IdInv
<1> QED
  BY <1>4, <1>5, <1>6, <1>7, <1>8 DEF Next, SessionStep, Moves

\* A live lease file is the lease of its port for the session in its name.
LEMMA LiveLease ==
  ASSUME Sound, LeaseInv, NEW f \in files, Alive(f.id)
  PROVE  f = Lease(f.port, f.s)
<1>1. f \in [port : Ports, id : Identities, s : Sessions] /\ f.id \in Procs \X (1..MaxInc)
  BY DEF Sound, TypeOK, PortsTypeOK, Identities
<1>2. f.id = <<ProcOf[f.s], inc[ProcOf[f.s]]>>
  BY <1>1 DEF LeaseInv, FilesDated, Alive
<1> QED
  BY <1>1, <1>2 DEF Lease, Identity

\* A step of an allocate call: its session knows what it claims and gives up.
LEMMA KnownAllocate ==
  ASSUME Sound, LeaseInv, NEW k \in Tasks, AllocateStep(k), UNCHANGED prov,
         NEW s \in Sessions, s = task[k].s, Known(s), s \notin spoiled'
  PROVE  Known(s)'
<1>1. /\ PortsTypeOK /\ UNCHANGED <<inc, up>>
      /\ task \in [Tasks -> TaskType] /\ task[k] \in TaskType
      /\ bound \in [Ports -> {Free, Host} \cup ({"pool", "ssh"} \X Sessions)]
  BY AllocatePool DEF Sound, TypeOK, PortsTypeOK, TaskType, procs
<1>2. \A i : Alive(i)' = Alive(i)
  BY <1>1 DEF Alive
<1>3. task[k].at \in {"bind", "claim"} => Candidate(k) \in Ports
  BY <1>1, CandidateInRange
<1>4. <<"pool", s>> # Free
  <2>1. <<"pool", s>> \in {"pool", "ssh"} \X Sessions
    OBVIOUS
  <2> QED
    BY <2>1, PortAssumption
<1>5. CASE Enter(k) \/ Look(k) \/ Exhausted(k)
  <2>1. (\E label : Step(k, label)) \/ NextPort(k)
    BY <1>5 DEF Enter, Look, Exhausted
  <2>2. UNCHANGED <<files, bound>> /\ task[k].at # "claim"
    BY <1>5 DEF Enter, Look, Exhausted
  <2>3. \A j \in Tasks : /\ task'[j].s = task[j].s /\ task'[j].got = task[j].got
                         /\ task[j].at = "claim" => task'[j].at = "claim" /\ task'[j].i = task[j].i
    BY <1>1, <2>1, <2>2, OneTask
  <2> QED
    BY <1>1, <2>2, <2>3, KnownKept
<1>6. CASE Bind(k) /\ NextPort(k)
  <2>1. UNCHANGED <<files, bound>> /\ task[k].at # "claim"
    <3>1. ~Step(k, "claim")
      BY <1>1, <1>6, OneTask
    <3> QED
      BY <1>6, <3>1 DEF Bind
  <2>2. \A j \in Tasks : /\ task'[j].s = task[j].s /\ task'[j].got = task[j].got
                         /\ task[j].at = "claim" => task'[j].at = "claim" /\ task'[j].i = task[j].i
    BY <1>1, <1>6, <2>1, OneTask
  <2> QED
    BY <1>1, <2>1, <2>2, KnownKept
<1>7. CASE Bind(k) /\ ~NextPort(k)
  <2>1. /\ task[k].at = "bind" /\ UNCHANGED files /\ Step(k, "claim")
        /\ bound' = [bound EXCEPT ![Candidate(k)] = <<"pool", s>>]
    BY <1>7 DEF Bind
  <2>2. /\ \A j \in Tasks : /\ task'[j].s = task[j].s /\ task'[j].got = task[j].got
                            /\ task'[j].i = task[j].i
                            /\ task[j].at = "claim" => task'[j].at = "claim"
        /\ task'[k].at = "claim"
    BY <1>1, <2>1, OneTask
  <2>3. \A j \in Tasks : Candidate(j)' = Candidate(j)
    BY <2>2 DEF Candidate
  <2>4. \A p : p \in Held(s) => p \in Held(s)'
    BY <2>2, HeldBy
  <2>5. \A f \in files' : f.s = s /\ Alive(f.id)' => f.port \in Held(s)'
    BY <1>2, <2>1, <2>4 DEF Known
  <2>6. ASSUME NEW p \in Ports, bound'[p] = <<"pool", s>>
        PROVE  Taken(s, p)'
    <3>1. CASE p = Candidate(k)
      BY <2>2, <2>3, <3>1 DEF Taken
    <3>2. CASE p # Candidate(k)
      <4>1. bound[p] = <<"pool", s>>
        BY <1>1, <2>1, <2>6, <3>2
      <4> QED
        BY <2>2, <2>3, <4>1 DEF Known, Taken
    <3> QED
      BY <3>1, <3>2
  <2> QED
    BY <2>5, <2>6 DEF Known
<1>8. CASE Claim(k)
  <2>1. /\ task[k].at = "claim" /\ UNCHANGED bound
        /\ files' \subseteq files \cup {Lease(Candidate(k), s)}
    BY <1>8 DEF Claim
  <2>2. /\ task'[k].got = task[k].got \cup {Candidate(k)} /\ task'[k].s = s
        /\ \A j \in Tasks \ {k} : task'[j] = task[j]
    BY <1>1, <1>8 DEF Claim, TaskType
  <2>3. \A j \in Tasks : task'[j].s = task[j].s /\ task[j].got \subseteq task'[j].got
    BY <2>2
  <2>4. \A j \in Tasks \ {k} : Candidate(j)' = Candidate(j)
    BY <2>2 DEF Candidate
  <2>5. (\A p : p \in Held(s) => p \in Held(s)') /\ Candidate(k) \in Held(s)'
    BY <2>2, <2>3, HeldBy
  <2>6. \A f \in files' : f.s = s /\ Alive(f.id)' => f.port \in Held(s)'
    <3>1. Lease(Candidate(k), s).port = Candidate(k)
      BY DEF Lease
    <3> QED
      BY <1>2, <2>1, <2>5, <3>1 DEF Known
  <2>7. ASSUME NEW p \in Ports, bound'[p] = <<"pool", s>>
        PROVE  Taken(s, p)'
    <3>1. CASE p = Candidate(k)
      BY <2>2, <3>1 DEF Taken
    <3>2. CASE p # Candidate(k)
      BY <2>1, <2>2, <2>3, <2>4, <2>7, <3>2 DEF Known, Taken
    <3> QED
      BY <3>1, <3>2
  <2> QED
    BY <2>6, <2>7 DEF Known
<1>9. CASE ClaimFails(k)
  <2>1. /\ task[k].at = "claim" /\ Step(k, "undo") /\ files' \subseteq files
        /\ bound' = [bound EXCEPT ![Candidate(k)] = Free]
    BY <1>9 DEF ClaimFails, Spoil
  <2>2. /\ \A j \in Tasks : task'[j].s = task[j].s /\ task'[j].got = task[j].got
        /\ \A j \in Tasks \ {k} : task'[j] = task[j]
    BY <1>1, <2>1, OneTask
  <2>3. \A j \in Tasks \ {k} : Candidate(j)' = Candidate(j)
    BY <2>2 DEF Candidate
  <2>4. \A p : p \in Held(s) => p \in Held(s)'
    BY <2>2, HeldBy
  <2>5. \A f \in files' : f.s = s /\ Alive(f.id)' => f.port \in Held(s)'
    BY <1>2, <2>1, <2>4 DEF Known
  <2>6. ASSUME NEW p \in Ports, bound'[p] = <<"pool", s>>
        PROVE  Taken(s, p)'
    <3>1. p # Candidate(k) /\ bound[p] = <<"pool", s>>
      BY <1>1, <1>3, <1>4, <2>1, <2>6
    <3> QED
      BY <2>2, <2>3, <3>1 DEF Known, Taken
  <2> QED
    BY <2>5, <2>6 DEF Known
<1>10. CASE Undo(k)
  <2>0. s \in spoiled' \/ files' = files \ {Lease(p, s) : p \in task[k].got}
    BY <1>10 DEF Undo, Unlinked, Spoil
  <2>1. /\ task[k].at = "undo" /\ files' = files \ {Lease(p, s) : p \in task[k].got}
        /\ \A p \in Ports : bound'[p] = IF p \in task[k].got /\ bound[p] = <<"pool", s>> THEN Free ELSE bound[p]
    BY <1>10, <2>0 DEF Undo, Closed
  <2>2. /\ task'[k].got = {} /\ task'[k].s = s
        /\ \A j \in Tasks \ {k} : task'[j] = task[j]
    BY <1>1, <1>10 DEF Undo, TaskType
  <2>3. \A j \in Tasks \ {k} : Candidate(j)' = Candidate(j)
    BY <2>2 DEF Candidate
  <2>4. \A p : p \in Held(s) /\ p \notin task[k].got => p \in Held(s)'
    BY <2>2, HeldBy
  <2>5. ASSUME NEW f \in files', f.s = s, Alive(f.id)'
        PROVE  f.port \in Held(s)'
    <3>1. f \in files /\ Alive(f.id) /\ f = Lease(f.port, s)
      BY <1>2, <2>1, <2>5, LiveLease
    <3>2. f.port \notin task[k].got
      BY <2>1, <3>1
    <3> QED
      BY <2>4, <2>5, <3>1, <3>2 DEF Known
  <2>6. ASSUME NEW p \in Ports, bound'[p] = <<"pool", s>>
        PROVE  Taken(s, p)'
    <3>1. p \notin task[k].got /\ bound[p] = <<"pool", s>>
      BY <1>4, <2>1, <2>6
    <3> QED
      BY <2>1, <2>2, <2>3, <3>1 DEF Known, Taken
  <2> QED
    BY <2>5, <2>6 DEF Known
<1> QED
  BY <1>5, <1>6, <1>7, <1>8, <1>9, <1>10 DEF AllocateStep

\* A step of an allocate call keeps every session in order.
LEMMA OrderlyAllocate ==
  ASSUME Sound, LeaseInv, NEW k \in Tasks, Allocating(k), NEW s \in Sessions, Orderly(s)
  PROVE  Orderly(s)'
<1>1. /\ AllocateStep(k) /\ UNCHANGED <<inc, up, at, prov, conn, ssh, rt, stuck, lost>>
      /\ spoiled \subseteq spoiled'
  BY AllocatePool DEF Allocating, session, daemon, procs, Sound, TypeOK
<1>2. PICK new \in TaskType : task' = [task EXCEPT ![k] = new] /\ new.s = task[k].s /\ task[k].s \in Sessions
  BY <1>1, AllocateTask DEF Sound, TypeOK
<1>3. /\ \A j \in Tasks : task'[j].s = task[j].s
      /\ \A j \in Tasks \ {k} : task'[j] = task[j]
  BY <1>2, TaskSet DEF Sound, TypeOK
<1>4. CASE s = task[k].s
  <2>1. Flow(s)' /\ (Clean(s) => Clean(s)') /\ (Agreed(s) => Agreed(s)')
    <3>1. Identity(s)' = Identity(s) /\ Live(s)' = Live(s) /\ Pending(s)' = Pending(s)
      BY <1>1, <1>3 DEF Identity, Live, Pending
    <3> QED
      BY <1>1, <3>1 DEF Orderly, Flow, Clean, Agreed
  <2>2. Known(s) /\ s \notin spoiled' => Known(s)'
    BY <1>1, <1>4, KnownAllocate
  <2> QED
    BY <1>1, <2>1, <2>2 DEF Orderly
<1>5. CASE s # task[k].s
  <2>1. \A f \in files' : f.s = s => f \in files
    BY <1>1, <1>5 DEF AllocateStep, Enter, Look, Bind, Claim, ClaimFails, Exhausted, Undo, Unlinked, Lease
  <2>2. ASSUME NEW p \in Ports, bound'[p] = <<"pool", s>>
        PROVE  bound[p] = <<"pool", s>>
    <3>1. <<"pool", s>> # Free /\ <<"pool", s>> # <<"pool", task[k].s>>
      <4>1. <<"pool", s>> \in {"pool", "ssh"} \X Sessions
        OBVIOUS
      <4> QED
        BY <1>5, <4>1, PortAssumption
    <3>2. bound \in [Ports -> {Free, Host} \cup ({"pool", "ssh"} \X Sessions)]
      BY DEF Sound, TypeOK, PortsTypeOK
    <3> QED
      BY <1>1, <2>2, <3>1, <3>2 DEF AllocateStep, Enter, Look, Bind, Claim, ClaimFails, Exhausted, Undo, Closed
  <2>3. \A j \in Tasks : task'[j] = task[j] \/ (task[j].s # s /\ task'[j].s # s)
    BY <1>3, <1>5
  <2>4. \A t \in ssh' : t.s = s => \E u \in ssh : u.s = s /\ u.id = t.id /\ u.ports = t.ports
    BY <1>1
  <2> QED
    BY <1>1, <2>1, <2>2, <2>3, <2>4, OrderlyKept
<1> QED
  BY <1>4, <1>5

\* A stranger takes no socket of the pool.
LEMMA OrderlyStranger ==
  ASSUME Sound, NEW p \in Ports, StrangerActs(p), NEW s \in Sessions, Orderly(s)
  PROVE  Orderly(s)'
<1>1. UNCHANGED <<inc, up, at, prov, conn, ssh, rt, stuck, lost, files, task, spoiled>>
  BY DEF StrangerActs, Stranger, procs, history, session, daemon
<1>2. ASSUME NEW x \in Ports, bound'[x] = <<"pool", s>>
      PROVE  bound[x] = <<"pool", s>>
  <2>1. <<"pool", s>> \in {"pool", "ssh"} \X Sessions
    OBVIOUS
  <2>2. bound \in [Ports -> {Free, Host} \cup ({"pool", "ssh"} \X Sessions)]
    BY DEF Sound, TypeOK, PortsTypeOK
  <2> QED
    BY <1>2, <2>1, <2>2, PortAssumption DEF StrangerActs, Stranger
<1> QED
  BY <1>1, <1>2, OrderlyKept

\* An ssh process binds its ports or ends.
LEMMA OrderlySsh ==
  ASSUME Sound, NEW t \in ssh, SshBinds(t) \/ SshEnds(t), NEW s \in Sessions, Orderly(s)
  PROVE  Orderly(s)'
<1>1. UNCHANGED <<inc, up, at, prov, conn, rt, stuck, lost, files, task, spoiled>>
  BY DEF SshBinds, SshEnds, procs, history, session, daemon
<1>2. t \in [s : Sessions, id : Identities, ports : SUBSET Ports, up : BOOLEAN]
  BY DEF Sound, TypeOK
<1>3. <<"pool", s>> # Free /\ \A r : <<"pool", s>> # <<"ssh", r>>
  <2>1. <<"pool", s>> \in {"pool", "ssh"} \X Sessions
    OBVIOUS
  <2> QED
    BY <2>1, PortAssumption
<1>4. \A x \in Ports : bound'[x] = <<"pool", s>> => bound[x] = <<"pool", s>>
  BY <1>3 DEF SshBinds, SshEnds, Ended
<1>5. \A v \in ssh' : v \in ssh \/ (v.s = t.s /\ v.id = t.id /\ v.ports = t.ports)
  BY <1>2 DEF SshBinds, SshEnds
<1> QED
  BY <1>1, <1>4, <1>5, OrderlyKept

-----------------------------------------------------------------------------
(* The gather, the launch and the cleanup *)

\* The gather begins: there is a runtime, and nothing else yet.
LEMMA OrderlyAnswered ==
  ASSUME Sound, NEW r \in Sessions, CreateAnswered(r), NEW s \in Sessions, Orderly(s)
  PROVE  Orderly(s)'
<1>1. /\ at \in [Sessions -> Stages] /\ prov \in [Sessions -> ProvType] /\ prov[r] \in ProvType
      /\ rt \in [Sessions -> Identities \cup {NoRuntime}]
  BY TypeParts DEF Sound, RestType
<1>2. PICK k \in Tasks : Call(k, r) /\ prov' = [prov EXCEPT ![r].created = TRUE, ![r].mine = k]
  BY DEF CreateAnswered
<1>3. /\ UNCHANGED <<files, bound, inc, up, spoiled, conn, ssh, stuck, lost>>
      /\ at[r] = "creating" /\ at' = [at EXCEPT ![r] = "gather"] /\ rt' = [rt EXCEPT ![r] = Identity(r)]
  BY <1>2 DEF Call, CreateAnswered, Created, Goto, procs, history
<1>4. /\ task[k].s = Nobody /\ task[k].at = "idle" /\ task[k].got = {} /\ task'[k].s = r
      /\ \A j \in Tasks \ {k} : task'[j] = task[j]
  BY <1>2, CallFields DEF NoTask
<1>5. CASE s # r
  <2>1. at'[s] = at[s] /\ prov'[s] = prov[s] /\ rt'[s] = rt[s]
    BY <1>1, <1>2, <1>3, <1>5
  <2>2. \A j \in Tasks : task'[j] = task[j] \/ (task[j].s # s /\ task'[j].s # s)
    BY <1>4, <1>5, PortAssumption
  <2>3. \A t \in ssh' : t.s = s => \E u \in ssh : u.s = s /\ u.id = t.id /\ u.ports = t.ports
    BY <1>3
  <2> QED
    BY <1>3, <2>1, <2>2, <2>3, OrderlyKept
<1>6. CASE s = r
  <2>1. /\ at[s] = "creating" /\ at'[s] = "gather" /\ rt'[s] = Identity(s) /\ prov'[s].created
        /\ prov'[s].res = prov[s].res /\ prov'[s].rel = prov[s].rel /\ prov'[s].orig = prov[s].orig
        /\ prov'[s].prepared = prov[s].prepared
    BY <1>1, <1>2, <1>3, <1>6 DEF ProvType
  <2>2. Identity(s)' = Identity(s) /\ Live(s)' = Live(s)
    BY <1>3 DEF Identity, Live
  <2>3. Flow(s)'
    BY <1>3, <2>1, <2>2 DEF Orderly, Flow, Outside
  <2>4. Clean(s) => Clean(s)'
    BY <1>3, <2>1 DEF Clean, Outside
  <2>5. Agreed(s)'
    <3>1. ~prov'[s].prepared
      BY <2>1 DEF Orderly, Flow, Outside
    <3> QED
      BY <2>1, <2>2, <3>1 DEF Agreed
  <2>6. Known(s) => Known(s)'
    <3>1. \A j \in Tasks : task[j].s = s => task'[j] = task[j]
      BY <1>4, PortAssumption
    <3> QED
      BY <1>3, <2>1, <3>1, KnownKept
  <2> QED
    BY <1>3, <2>3, <2>4, <2>5, <2>6 DEF Orderly
<1> QED
  BY <1>5, <1>6

\* What _prepare_connection does to its session.
LEMMA PreparedFields ==
  ASSUME Sound, NEW k \in Tasks, Prepared(k), NEW s \in Sessions, s = task[k].s
  PROVE  /\ UNCHANGED <<files, inc, up, ssh, rt, stuck, lost>> /\ spoiled \subseteq spoiled'
         /\ task'[k] = NoTask /\ \A j \in Tasks \ {k} : task'[j] = task[j]
         /\ \A p \in Ports :
              bound'[p] = IF p \in prov[s].res \ task[k].got /\ bound[p] = <<"pool", s>> THEN Free ELSE bound[p]
         /\ \A r \in Sessions \ {s} : at'[r] = at[r] /\ prov'[r] = prov[r] /\ conn'[r] = conn[r]
         /\ prov'[s].mine = prov[s].mine /\ prov'[s].rel = prov[s].rel /\ prov'[s].created = prov[s].created
         /\ prov'[s].res = task[k].got
         /\ prov[s].mine # k =>
              /\ at'[s] = at[s] /\ s \in spoiled'
              /\ prov'[s].prepared = prov[s].prepared /\ prov'[s].cmd = prov[s].cmd
         /\ prov[s].mine = k =>
              \/ /\ at'[s] = at[s] /\ prov'[s].orig = {conn[s]}
                 /\ prov'[s].cmd = task[k].got /\ conn'[s] = task[k].got
              \/ /\ at'[s] = "fail" /\ prov'[s].orig = prov[s].orig
                 /\ conn'[s] = conn[s] \/ s \in spoiled'
<1>1. /\ at \in [Sessions -> Stages] /\ prov \in [Sessions -> ProvType] /\ prov[s] \in ProvType
      /\ conn \in [Sessions -> SUBSET Ports] /\ task \in [Tasks -> TaskType]
      /\ prov[s].prepared \in BOOLEAN
  BY TypeParts DEF Sound, RestType, PortsTypeOK, TaskType, ProvType
<1>2. UNCHANGED <<files, inc, up, ssh, rt, stuck, lost>> /\ spoiled \subseteq spoiled'
  BY DEF Prepared, RewriteRaises, Spoil, procs, daemon
<1>3. task'[k] = NoTask /\ \A j \in Tasks \ {k} : task'[j] = task[j]
  BY <1>1 DEF Prepared
<1>4. \A p \in Ports :
        bound'[p] = IF p \in prov[s].res \ task[k].got /\ bound[p] = <<"pool", s>> THEN Free ELSE bound[p]
  BY DEF Prepared, Closed
<1>5. CASE Rewrite(s, task[k].got, prov[s].mine = k) /\ UNCHANGED at
           /\ (prov[s].mine # k => s \in spoiled')
  <2>1. \A r \in Sessions \ {s} : at'[r] = at[r] /\ prov'[r] = prov[r] /\ conn'[r] = conn[r]
    BY <1>1, <1>5 DEF Rewrite
  <2>2. CASE prov[s].mine = k
    <3>1. /\ prov'[s].mine = prov[s].mine /\ prov'[s].rel = prov[s].rel /\ prov'[s].created = prov[s].created
          /\ prov'[s].res = task[k].got /\ prov'[s].orig = {conn[s]}
          /\ prov'[s].cmd = task[k].got /\ conn'[s] = task[k].got
      BY <1>1, <1>5, <2>2 DEF Rewrite, ProvType
    <3> QED
      BY <1>2, <1>3, <1>4, <1>5, <2>1, <2>2, <3>1
  <2>3. CASE prov[s].mine # k
    <3>1. /\ prov'[s].mine = prov[s].mine /\ prov'[s].rel = prov[s].rel /\ prov'[s].created = prov[s].created
          /\ prov'[s].res = task[k].got
          /\ prov'[s].prepared = prov[s].prepared /\ prov'[s].cmd = prov[s].cmd
      BY <1>1, <1>5, <2>3 DEF Rewrite, ProvType
    <3> QED
      BY <1>2, <1>3, <1>4, <1>5, <2>1, <2>3, <3>1
  <2> QED
    BY <2>2, <2>3
<1>6. CASE RewriteRaises(s, task[k].got, prov[s].mine = k)
  <2>1. \A r \in Sessions \ {s} : at'[r] = at[r] /\ prov'[r] = prov[r] /\ conn'[r] = conn[r]
    BY <1>1, <1>6 DEF RewriteRaises, Goto
  <2>2. /\ prov'[s].mine = prov[s].mine /\ prov'[s].rel = prov[s].rel /\ prov'[s].created = prov[s].created
        /\ prov'[s].res = task[k].got /\ prov'[s].orig = prov[s].orig
        /\ prov'[s].prepared = prov[s].prepared /\ prov'[s].cmd = prov[s].cmd
    BY <1>1, <1>6 DEF RewriteRaises, ProvType
  <2>3. prov[s].mine # k => at'[s] = at[s] /\ s \in spoiled'
    BY <1>1, <1>6 DEF RewriteRaises, Spoil
  <2>4. prov[s].mine = k => at'[s] = "fail" /\ (conn'[s] = conn[s] \/ s \in spoiled')
    BY <1>1, <1>6 DEF RewriteRaises, Spoil, Goto
  <2> QED
    BY <1>2, <1>3, <1>4, <2>1, <2>2, <2>3, <2>4
<1> QED
  BY <1>5, <1>6 DEF Prepared, Spoil

\* A reservation of the launch that waits for it, or of one that is over: a known gap.
LEMMA OrderlyPrepared ==
  ASSUME Sound, GotInv, NEW k \in Tasks, Prepared(k), NEW s \in Sessions, Orderly(s)
  PROVE  Orderly(s)'
<1>1. PICK r \in Sessions : r = task[k].s
  BY DEF Prepared, Sound, TaskInv
<1>2. /\ UNCHANGED <<files, inc, up, ssh, rt, stuck, lost>> /\ spoiled \subseteq spoiled'
      /\ task'[k] = NoTask /\ \A j \in Tasks \ {k} : task'[j] = task[j]
      /\ \A p \in Ports :
           bound'[p] = IF p \in prov[r].res \ task[k].got /\ bound[p] = <<"pool", r>> THEN Free ELSE bound[p]
      /\ \A x \in Sessions \ {r} : at'[x] = at[x] /\ prov'[x] = prov[x] /\ conn'[x] = conn[x]
  BY <1>1, PreparedFields
<1>3. NoTask.s = Nobody /\ Nobody \notin Sessions
  BY PortAssumption DEF NoTask
<1>4. <<"pool", s>> # Free
  <2>1. <<"pool", s>> \in {"pool", "ssh"} \X Sessions
    OBVIOUS
  <2> QED
    BY <2>1, PortAssumption
<1>5. \A p \in Ports : bound'[p] = <<"pool", s>> => bound[p] = <<"pool", s>>
  BY <1>2, <1>4
<1>6. CASE s # r
  <2>1. \A j \in Tasks : task'[j] = task[j] \/ (task[j].s # s /\ task'[j].s # s)
    BY <1>1, <1>2, <1>3, <1>6
  <2>2. \A t \in ssh' : t.s = s => \E u \in ssh : u.s = s /\ u.id = t.id /\ u.ports = t.ports
    BY <1>2
  <2> QED
    BY <1>2, <1>5, <1>6, <2>1, <2>2, OrderlyKept
<1>7. CASE s = r
  <2>1. /\ prov'[s].mine = prov[s].mine /\ prov'[s].rel = prov[s].rel /\ prov'[s].created = prov[s].created
        /\ prov'[s].res = task[k].got
        /\ prov[s].mine # k =>
              /\ at'[s] = at[s] /\ s \in spoiled'
              /\ prov'[s].prepared = prov[s].prepared /\ prov'[s].cmd = prov[s].cmd
        /\ prov[s].mine = k =>
              \/ /\ at'[s] = at[s] /\ prov'[s].orig = {conn[s]}
                 /\ prov'[s].cmd = task[k].got /\ conn'[s] = task[k].got
              \/ /\ at'[s] = "fail" /\ prov'[s].orig = prov[s].orig
                 /\ conn'[s] = conn[s] \/ s \in spoiled'
    BY <1>1, <1>7, PreparedFields
  <2>2. Identity(s)' = Identity(s) /\ Live(s)' = Live(s) /\ task[k].got # {} /\ task[k].at = "done"
    BY <1>2 DEF Identity, Live, GotInv, Prepared
  <2>3. Pending(s)' => Pending(s) /\ prov[s].mine # k
    BY <1>2, <1>3, <2>1 DEF Pending
  <2>4. prov[s].mine = k => at[s] \in {"gather", "fail"} /\ Pending(s)
    BY <1>1, <1>7, PortAssumption DEF Orderly, Flow, Pending
  <2>5. Flow(s)'
    <3>1. CASE prov[s].mine # k
      BY <1>2, <2>1, <2>2, <2>3, <3>1 DEF Orderly, Flow
    <3>2. CASE prov[s].mine = k
      <4>1. at'[s] \in {"gather", "fail"}
        BY <2>1, <2>4, <3>2
      <4>2. \A t \in ssh : ~(t.s = s /\ t.id = Identity(s) /\ Live(s))
        BY <2>4, <3>2 DEF Orderly, Flow
      <4>3. prov[s].rel = {}
        BY <2>4, <3>2 DEF Orderly, Flow
      <4> QED
        BY <1>2, <2>1, <2>2, <2>3, <3>2, <4>1, <4>2, <4>3 DEF Orderly, Flow, Outside
    <3> QED
      BY <3>1, <3>2
  <2>6. ASSUME s \notin spoiled'
        PROVE  Clean(s)' /\ Agreed(s)' /\ Known(s)'
    <3>1. /\ prov[s].mine = k /\ at[s] \in {"gather", "fail"} /\ Pending(s)
          /\ Clean(s) /\ Agreed(s) /\ Known(s) /\ ~Pending(s)'
      BY <1>2, <2>1, <2>3, <2>4, <2>6 DEF Orderly
    <3>2. prov[s].res = {} /\ prov[s].orig = {} /\ conn[s] = {}
      BY <3>1 DEF Clean
    <3>3. Clean(s)'
      BY <2>1, <2>6, <3>1, <3>2 DEF Clean, Outside
    <3>4. Agreed(s)'
      BY <1>2, <2>1, <2>2, <2>6, <3>1 DEF Agreed
    <3>5. Known(s)'
      <4>1. \A p : p \in Held(s) => p \in Held(s)'
        BY <1>1, <1>2, <1>7, <2>1, <3>2, HeldBy
      <4>2. \A i : Alive(i)' = Alive(i)
        BY <1>2 DEF Alive
      <4>3. ASSUME NEW p \in Ports, Taken(s, p)
            PROVE  Taken(s, p)'
        <5>1. PICK j \in Tasks : /\ task[j].s = s
                                 /\ p \in task[j].got \/ (task[j].at = "claim" /\ p = Candidate(j))
          BY <3>2, <4>3 DEF Taken
        <5>2. CASE j = k
          BY <2>1, <2>2, <5>1, <5>2 DEF Taken
        <5>3. CASE j # k
          <6>1. task'[j] = task[j] /\ Candidate(j)' = Candidate(j)
            BY <1>2, <5>3 DEF Candidate
          <6> QED
            BY <5>1, <6>1 DEF Taken
        <5> QED
          BY <5>2, <5>3
      <4> QED
        BY <1>2, <1>5, <3>1, <4>1, <4>2, <4>3 DEF Known
    <3> QED
      BY <3>3, <3>4, <3>5
  <2> QED
    BY <2>5, <2>6 DEF Orderly
<1> QED
  BY <1>6, <1>7

\* allocate has raised: there is nothing to give up.
LEMMA OrderlyNotReserved ==
  ASSUME Sound, GotInv, NEW k \in Tasks, NotReserved(k), NEW s \in Sessions, Orderly(s)
  PROVE  Orderly(s)'
<1>1. PICK r \in Sessions : r = task[k].s
  BY DEF NotReserved, Sound, TaskInv
<1>2. at \in [Sessions -> Stages] /\ task \in [Tasks -> TaskType]
  BY DEF Sound, TypeOK, PortsTypeOK, TaskType, Stages
<1>3. /\ UNCHANGED <<files, bound, inc, up, spoiled, prov, conn, ssh, rt, stuck, lost>>
      /\ task'[k] = NoTask /\ \A j \in Tasks \ {k} : task'[j] = task[j]
      /\ (at' = [at EXCEPT ![r] = "fail"] /\ prov[r].mine = k) \/ UNCHANGED at
  BY <1>1, <1>2 DEF NotReserved, Goto, procs, history, daemon
<1>4. NoTask.s = Nobody /\ Nobody \notin Sessions /\ task[k].got = {} /\ task[k].at = "failed"
  BY PortAssumption DEF NoTask, NotReserved, GotInv
<1>5. CASE s # r
  <2>1. \A j \in Tasks : task'[j] = task[j] \/ (task[j].s # s /\ task'[j].s # s)
    BY <1>1, <1>3, <1>4, <1>5
  <2>2. \A t \in ssh' : t.s = s => \E u \in ssh : u.s = s /\ u.id = t.id /\ u.ports = t.ports
    BY <1>3
  <2>3. at'[s] = at[s]
    BY <1>2, <1>3, <1>5
  <2> QED
    BY <1>3, <2>1, <2>2, <2>3, OrderlyKept
<1>6. CASE s = r
  <2>1. Identity(s)' = Identity(s) /\ Live(s)' = Live(s)
    BY <1>3 DEF Identity, Live
  <2>2. Pending(s)' => Pending(s)
    BY <1>3, <1>4 DEF Pending
  <2>3. at'[s] = at[s] \/ (at'[s] = "fail" /\ at[s] \in {"gather", "fail"})
    <3>1. prov[s].mine = k => at[s] \in {"gather", "fail"}
      BY PortAssumption DEF Orderly, Flow
    <3> QED
      BY <1>2, <1>3, <1>6, <3>1
  <2>4. Flow(s)'
    BY <1>3, <2>1, <2>2, <2>3 DEF Orderly, Flow, Outside
  <2>5. Clean(s) => Clean(s)'
    BY <1>3, <2>2, <2>3 DEF Clean, Outside
  <2>6. Agreed(s) => Agreed(s)'
    BY <1>3, <2>1, <2>3 DEF Agreed
  <2>7. Known(s) => Known(s)'
    BY <1>3, <1>4, KnownKept
  <2> QED
    BY <1>3, <2>4, <2>5, <2>6, <2>7 DEF Orderly
<1> QED
  BY <1>5, <1>6

\* launch_kernel: ssh is started for the ports of the command line.
LEMMA OrderlyLaunch ==
  ASSUME Sound, NEW r \in Sessions, Launch(r), NEW s \in Sessions, Orderly(s)
  PROVE  Orderly(s)'
<1>1. at \in [Sessions -> Stages]
  BY DEF Sound, TypeOK, Stages
<1>2. /\ UNCHANGED <<files, task, inc, up, spoiled, prov, conn, rt, stuck, lost>> /\ at[r] = "ready"
      /\ \A x \in Sessions \ {r} : at'[x] = at[x]
      /\ at'[r] \in {"running", "fail"}
      /\ \A t \in ssh' : \/ t \in ssh
                         \/ t.s = r /\ t.ports = prov[r].cmd /\ at'[r] = "running"
  BY <1>1 DEF Launch, Goto, procs, history, daemon
<1>3. \A p \in Ports : bound'[p] = <<"pool", s>> => bound[p] = <<"pool", s>>
  <2>1. <<"pool", s>> \in {"pool", "ssh"} \X Sessions
    OBVIOUS
  <2> QED
    BY <2>1, PortAssumption DEF Launch, Closed
<1>4. CASE s # r
  BY <1>2, <1>3, <1>4, OrderlyKept
<1>5. CASE s = r
  <2>1. Identity(s)' = Identity(s) /\ Live(s)' = Live(s) /\ Pending(s)' = Pending(s)
    BY <1>2 DEF Identity, Live, Pending
  <2>2. Flow(s)'
    <3>1. \A t \in ssh : ~(t.s = s /\ t.id = Identity(s) /\ Live(s))
      BY <1>2, <1>5 DEF Orderly, Flow
    <3>2. \A t \in ssh' : t.s = s /\ t.id = Identity(s) /\ Live(s) => at'[s] = "running" /\ t.ports = prov[s].cmd
      BY <1>2, <1>5, <3>1
    <3> QED
      BY <1>2, <1>5, <2>1, <3>2 DEF Orderly, Flow, Outside
  <2>3. Clean(s) => Clean(s)'
    BY <1>2, <1>5, <2>1 DEF Clean, Outside
  <2>4. Agreed(s) => Agreed(s)'
    BY <1>2, <1>5, <2>1 DEF Agreed
  <2>5. Known(s) => Known(s)'
    BY <1>2, <1>3, KnownKept
  <2> QED
    BY <1>2, <2>2, <2>3, <2>4, <2>5 DEF Orderly
<1> QED
  BY <1>4, <1>5

\* What the withdrawal of a session's connection leaves (the except clauses, cleanup).
LEMMA WithdrawFields ==
  ASSUME Sound, NEW s \in Sessions, Fail(s) \/ Cleanup(s)
  PROVE  /\ UNCHANGED <<files, task, inc, up, rt, stuck, lost>> /\ spoiled \subseteq spoiled'
         /\ at[s] \in {"fail", "running"} /\ ssh' \subseteq ssh
         /\ \A r \in Sessions \ {s} : at'[r] = at[r] /\ prov'[r] = prov[r] /\ conn'[r] = conn[r]
         /\ at'[s] = IF prov[s].res = {} THEN "destroy" ELSE "release"
         /\ prov'[s].res = {} /\ prov'[s].orig = {} /\ prov'[s].mine = Nobody /\ ~prov'[s].prepared
         /\ prov'[s].rel = prov[s].res /\ prov'[s].created = prov[s].created
         /\ conn'[s] = (IF prov[s].orig = {} THEN conn[s] ELSE UNION prov[s].orig) \/ s \in spoiled'
         /\ at[s] = "fail" \/ \A t \in ssh' : ~(t.s = s /\ t.id = Identity(s))
         /\ \A p \in Ports, r \in Sessions : bound'[p] = <<"pool", r>> =>
              bound[p] = <<"pool", r>> /\ (r = s => p \notin prov[s].res)
<1>1. /\ at \in [Sessions -> Stages] /\ prov \in [Sessions -> ProvType] /\ conn \in [Sessions -> SUBSET Ports]
  BY TypeParts DEF Sound, RestType
<1>2. UNCHANGED <<files, task, inc, up, rt, stuck, lost>> /\ ssh' \subseteq ssh /\ at[s] \in {"fail", "running"}
  BY DEF Fail, Cleanup, Withdraw, procs, daemon
<1>3. /\ spoiled \subseteq spoiled'
      /\ \A r \in Sessions \ {s} : conn'[r] = conn[r]
      /\ conn'[s] = (IF prov[s].orig = {} THEN conn[s] ELSE UNION prov[s].orig) \/ s \in spoiled'
  BY <1>1 DEF Fail, Cleanup, Withdraw, Restore, Spoil
<1>4. /\ \A r \in Sessions \ {s} : at'[r] = at[r] /\ prov'[r] = prov[r]
      /\ at'[s] = IF prov[s].res = {} THEN "destroy" ELSE "release"
  BY <1>1 DEF Fail, Cleanup, Withdraw, Goto
<1>5. /\ prov'[s].res = {} /\ prov'[s].orig = {} /\ prov'[s].mine = Nobody /\ ~prov'[s].prepared
      /\ prov'[s].rel = prov[s].res /\ prov'[s].created = prov[s].created
  BY <1>1 DEF Fail, Cleanup, Withdraw, NoProv
<1>6. at[s] = "fail" \/ \A t \in ssh' : ~(t.s = s /\ t.id = Identity(s))
  BY DEF Fail, Cleanup
<1>7. ASSUME NEW p \in Ports, NEW r \in Sessions, bound'[p] = <<"pool", r>>
      PROVE  bound[p] = <<"pool", r>> /\ (r = s => p \notin prov[s].res)
  <2>1. <<"pool", r>> # Free
    <3>1. <<"pool", r>> \in {"pool", "ssh"} \X Sessions
      OBVIOUS
    <3> QED
      BY <3>1, PortAssumption
  <2>2. PICK b : bound' = Closed(b, prov[s].res, s) /\ b[p] \in {bound[p], Free}
    BY <1>7 DEF Fail, Cleanup, Withdraw, Ended
  <2> QED
    BY <1>7, <2>1, <2>2 DEF Closed
<1> QED
  BY <1>2, <1>3, <1>4, <1>5, <1>6, <1>7

\* The connection is restored, the ports are given up, and the runtime is still known.
LEMMA OrderlyWithdraw ==
  ASSUME Sound, NEW r \in Sessions, Fail(r) \/ Cleanup(r), NEW s \in Sessions, Orderly(s)
  PROVE  Orderly(s)'
<1>1. CASE s # r
  <2>1. /\ UNCHANGED <<files, task, inc, up, rt, stuck, lost>> /\ spoiled \subseteq spoiled' /\ ssh' \subseteq ssh
        /\ at'[s] = at[s] /\ prov'[s] = prov[s] /\ conn'[s] = conn[s]
        /\ \A p \in Ports : bound'[p] = <<"pool", s>> => bound[p] = <<"pool", s>>
    BY <1>1, WithdrawFields
  <2> QED
    BY <2>1, OrderlyKept
<1>2. CASE s = r
  <2>1. /\ UNCHANGED <<files, task, inc, up, rt, stuck, lost>> /\ spoiled \subseteq spoiled'
        /\ at[s] \in {"fail", "running"} /\ ssh' \subseteq ssh
        /\ at'[s] = IF prov[s].res = {} THEN "destroy" ELSE "release"
        /\ prov'[s].res = {} /\ prov'[s].orig = {} /\ prov'[s].mine = Nobody /\ ~prov'[s].prepared
        /\ prov'[s].rel = prov[s].res /\ prov'[s].created = prov[s].created
        /\ conn'[s] = (IF prov[s].orig = {} THEN conn[s] ELSE UNION prov[s].orig) \/ s \in spoiled'
        /\ at[s] = "fail" \/ \A t \in ssh' : ~(t.s = s /\ t.id = Identity(s))
        /\ \A p \in Ports : bound'[p] = <<"pool", s>> => bound[p] = <<"pool", s>> /\ p \notin prov[s].res
    BY <1>2, WithdrawFields
  <2>2. Identity(s)' = Identity(s) /\ Live(s)' = Live(s)
    BY <2>1 DEF Identity, Live
  <2>3. prov[s].rel = {}
    BY <2>1 DEF Orderly, Flow
  <2>4. Flow(s)'
    <3>1. \A t \in ssh' : ~(t.s = s /\ t.id = Identity(s) /\ Live(s))
      BY <2>1 DEF Orderly, Flow
    <3> QED
      BY <2>1, <2>2, <3>1 DEF Orderly, Flow
  <2>5. ASSUME s \notin spoiled'
        PROVE  Clean(s)' /\ Agreed(s)' /\ Known(s)'
    <3>1. Clean(s) /\ Agreed(s) /\ Known(s)
      BY <2>1, <2>5 DEF Orderly
    <3>2. conn'[s] = {}
      <4>1. CASE prov[s].orig = {}
        BY <2>1, <2>5, <3>1, <4>1 DEF Clean
      <4>2. CASE prov[s].orig # {}
        <5>1. prov[s].orig = {{}}
          BY <3>1, <4>2 DEF Clean
        <5> QED
          BY <2>1, <2>5, <5>1
      <4> QED
        BY <4>1, <4>2
    <3>3. Clean(s)'
      BY <2>1, <3>2 DEF Clean
    <3>4. Agreed(s)'
      BY <2>1, <2>2, <3>1 DEF Agreed
    <3>5. Known(s)'
      <4>1. \A p : p \in Held(s) => p \in Held(s)'
        BY <2>1, <2>3, HeldBy
      <4>2. /\ \A i : Alive(i)' = Alive(i)
            /\ \A k \in Tasks : Candidate(k)' = Candidate(k)
        BY <2>1 DEF Alive, Candidate
      <4>3. \A p : Taken(s, p) /\ p \notin prov[s].res => Taken(s, p)'
        BY <2>1, <4>2 DEF Taken
      <4> QED
        BY <2>1, <3>1, <4>1, <4>2, <4>3 DEF Known
    <3> QED
      BY <3>3, <3>4, <3>5
  <2> QED
    BY <2>4, <2>5 DEF Orderly
<1> QED
  BY <1>1, <1>2

\* The leases go, or an exception skips the rest: a known gap.
LEMMA OrderlyRelease ==
  ASSUME Sound, LeaseInv, NEW r \in Sessions, Release(r), NEW s \in Sessions, Orderly(s)
  PROVE  Orderly(s)'
<1>1. at \in [Sessions -> Stages] /\ prov \in [Sessions -> ProvType]
  BY TypeParts DEF Sound
<1>2. /\ UNCHANGED <<bound, task, inc, up, conn, ssh, rt, stuck, lost>> /\ spoiled \subseteq spoiled'
      /\ files' \subseteq files /\ at[r] = "release"
      /\ \A x \in Sessions \ {r} : at'[x] = at[x] /\ prov'[x] = prov[x]
      /\ at'[r] = "destroy" \/ (at'[r] = "idle" /\ r \in spoiled')
      /\ r \in spoiled' \/ files' = Unlinked(prov[r].rel, r)
  BY <1>1 DEF Release, Goto, Spoil, Unlinked, procs, daemon
<1>3. /\ prov'[r].res = prov[r].res /\ prov'[r].rel = {} /\ prov'[r].orig = prov[r].orig
      /\ prov'[r].mine = prov[r].mine /\ prov'[r].prepared = prov[r].prepared
      /\ prov'[r].cmd = prov[r].cmd /\ prov'[r].created = prov[r].created
  BY <1>1 DEF Release, ProvType
<1>4. CASE s # r
  BY <1>2, <1>4, OrderlyKept
<1>5. CASE s = r
  <2>1. Identity(s)' = Identity(s) /\ Live(s)' = Live(s) /\ Pending(s)' = Pending(s)
    BY <1>2, <1>3, <1>5 DEF Identity, Live, Pending
  <2>2. Flow(s)'
    BY <1>2, <1>3, <1>5, <2>1 DEF Orderly, Flow, Outside
  <2>3. ASSUME s \notin spoiled'
        PROVE  Clean(s)' /\ Agreed(s)' /\ Known(s)'
    <3>1. Clean(s) /\ Agreed(s) /\ Known(s) /\ at'[s] = "destroy"
      BY <1>2, <1>5, <2>3 DEF Orderly
    <3>2. Clean(s)'
      BY <1>2, <1>3, <1>5, <3>1 DEF Clean, Outside
    <3>3. Agreed(s)'
      BY <1>2, <1>3, <1>5, <2>1, <3>1 DEF Agreed
    <3>4. ASSUME NEW f \in files', f.s = s, Alive(f.id)'
          PROVE  f.port \in Held(s)'
      <4>1. f \in files /\ Alive(f.id) /\ f = Lease(f.port, s)
        BY <1>2, <3>4, LiveLease DEF Alive
      <4>2. f.port \notin prov[s].rel
        BY <1>2, <1>5, <2>3, <3>4, <4>1 DEF Unlinked
      <4>3. f.port \in Held(s)
        BY <3>1, <3>4, <4>1 DEF Known
      <4> QED
        BY <1>2, <1>3, <1>5, <4>2, <4>3, HeldBy
    <3>5. \A p : Taken(s, p) => Taken(s, p)'
      <4>1. \A k \in Tasks : Candidate(k)' = Candidate(k)
        BY <1>2 DEF Candidate
      <4> QED
        BY <1>2, <1>3, <1>5, <4>1 DEF Taken
    <3> QED
      BY <1>2, <3>1, <3>2, <3>3, <3>4, <3>5 DEF Known
  <2> QED
    BY <2>2, <2>3 DEF Orderly
<1> QED
  BY <1>4, <1>5

-----------------------------------------------------------------------------
(* Processes, and the theorems *)

\* A process dies with what its sessions have; its ssh children and its runtimes are not
\* those of the process that is given its pid.
LEMMA OrderlyProcess ==
  ASSUME Sound, LeaseInv, IdInv, NEW q \in Procs, Die(q) \/ StartAgain(q), NEW s \in Sessions, Orderly(s)
  PROVE  Orderly(s)'
<1>1. /\ at \in [Sessions -> Stages] /\ prov \in [Sessions -> ProvType] /\ task \in [Tasks -> TaskType]
      /\ inc \in [Procs -> 1..MaxInc] /\ MaxInc \in Nat /\ ProcOf \in [Sessions -> Procs]
      /\ files \subseteq [port : Ports, id : Identities, s : Sessions]
      /\ ssh \subseteq [s : Sessions, id : Identities, ports : SUBSET Ports, up : BOOLEAN]
  BY TypeParts, PortAssumption DEF Sound, PortsTypeOK, TaskType, RestType
<1>2. /\ UNCHANGED <<files, ssh, rt, stuck, lost, spoiled>>
      /\ inc'[ProcOf[s]] = inc[ProcOf[s]] \/ ProcOf[s] = q
      /\ \A p \in Ports : bound'[p] = <<"pool", s>> => bound[p] = <<"pool", s>>
  <2>1. <<"pool", s>> # Free
    <3>1. <<"pool", s>> \in {"pool", "ssh"} \X Sessions
      OBVIOUS
    <3> QED
      BY <3>1, PortAssumption
  <2> QED
    BY <1>1, <2>1 DEF Die, ProcessDies, StartAgain, ProcessStarts, pool, history, session, daemon
<1>3. \A f \in files : Alive(f.id)' => Alive(f.id)
  <2>1. \A f \in files : f.id[1] \in Procs /\ f.id[2] \in Nat /\ f.id[2] <= inc[f.id[1]]
    BY <1>1 DEF LeaseInv, FilesDated, Identities
  <2>2. CASE Die(q)
    BY <2>2 DEF Die, ProcessDies, Alive
  <2>3. CASE StartAgain(q)
    <3>1. /\ up' = up \cup {q} /\ inc'[q] = inc[q] + 1 /\ inc[q] \in Nat
          /\ \A r \in Procs \ {q} : inc'[r] = inc[r]
      BY <1>1, <2>3 DEF StartAgain, ProcessStarts
    <3>2. \A f \in files : f.id[1] = q => f.id[2] # inc'[q]
      BY <2>1, <3>1
    <3> QED
      BY <2>1, <3>1, <3>2 DEF Alive
  <2> QED
    BY <2>2, <2>3
<1>4. CASE ProcOf[s] # q
  <2>1. Identity(s)' = Identity(s) /\ Live(s)' = Live(s)
    BY <1>2, <1>4 DEF Identity, Live, Die, ProcessDies, StartAgain, ProcessStarts
  <2>2. at'[s] = at[s] /\ prov'[s] = prov[s] /\ conn'[s] = conn[s]
    BY <1>4 DEF Die, StartAgain, Of, session
  <2>3. \A k \in Tasks : task'[k] = task[k] \/ (task[k].s # s /\ task'[k].s # s)
    BY <1>4, PortAssumption DEF Die, ProcessDies, StartAgain, ProcessStarts, Of, pool, NoTask
  <2> QED
    BY <1>2, <1>3, <2>1, <2>2, <2>3, OrderlyFrame
<1>5. CASE ProcOf[s] = q /\ Die(q)
  <2>1. at'[s] = "idle" /\ prov'[s] = NoProv /\ conn'[s] = {} /\ ~Live(s)'
    BY <1>5 DEF Die, ProcessDies, Of, Live
  <2>2. /\ prov'[s].mine = Nobody /\ prov'[s].rel = {} /\ ~prov'[s].prepared
        /\ prov'[s].res = {} /\ prov'[s].orig = {} /\ ~prov'[s].dir /\ ~prov'[s].created
    BY <2>1 DEF NoProv
  <2>3. Flow(s)' /\ Clean(s)' /\ Agreed(s)'
    BY <1>2, <2>1, <2>2 DEF Orderly, Flow, Clean, Agreed
  <2>4. \A f \in files : f.s = s => ~Alive(f.id)'
    BY <1>5 DEF LeaseInv, FilesDated, Alive, Die, ProcessDies
  <2>5. \A p \in Ports : bound'[p] # <<"pool", s>>
    <3>1. <<"pool", s>> # Free
      <4>1. <<"pool", s>> \in {"pool", "ssh"} \X Sessions
        OBVIOUS
      <4> QED
        BY <4>1, PortAssumption
    <3> QED
      BY <1>5, <3>1 DEF Die, ProcessDies, Of
  <2> QED
    BY <1>2, <2>3, <2>4, <2>5 DEF Orderly, Known
<1>6. CASE ProcOf[s] = q /\ StartAgain(q)
  <2>1. /\ UNCHANGED <<at, prov, conn, task, bound>> /\ inc'[q] = inc[q] + 1 /\ inc[q] \in Nat
        /\ inc'[q] \in 1..MaxInc /\ ~Live(s)
    BY <1>1, <1>6 DEF StartAgain, ProcessStarts, pool, session, Live
  <2>2. Identity(s)' = <<q, inc[q] + 1>> /\ Identity(s)' \in Identities
    BY <1>6, <2>1 DEF Identity, Identities
  <2>3. \A t \in ssh : t.s = s => t.id # Identity(s)'
    <3>1. ASSUME NEW t \in ssh, t.s = s, t.id = <<q, inc[q] + 1>>
          PROVE  FALSE
      <4>1. t.id[1] = q /\ t.id[2] = inc[q] + 1
        BY <3>1
      <4> QED
        BY <2>1, <3>1, <4>1 DEF IdInv
    <3> QED
      BY <2>2, <3>1
  <2>4. rt[s] # Identity(s)'
    <3>1. ASSUME rt[s] = <<q, inc[q] + 1>>
          PROVE  FALSE
      <4>1. rt[s] # NoRuntime /\ rt[s][1] = q /\ rt[s][2] = inc[q] + 1
        BY <2>2, <3>1, ProvisionerAssumption
      <4> QED
        BY <2>1, <4>1 DEF IdInv
    <3> QED
      BY <2>2, <3>1
  <2>5. at[s] = "idle" /\ Pending(s)' = Pending(s)
    BY <2>1 DEF Sound, LiveInv, Pending
  <2>6. Flow(s)' /\ (Clean(s) => Clean(s)')
    BY <1>2, <2>1, <2>3, <2>5 DEF Orderly, Flow, Clean
  <2>7. Agreed(s)'
    BY <1>2, <2>1, <2>4, <2>5 DEF Agreed
  <2>8. Known(s) => Known(s)'
    <3>1. \A p : p \in Held(s) => p \in Held(s)'
      BY <2>1, HeldBy
    <3>2. \A p : Taken(s, p) => Taken(s, p)'
      <4>1. \A k \in Tasks : Candidate(k)' = Candidate(k)
        BY <2>1 DEF Candidate
      <4> QED
        BY <2>1, <4>1 DEF Taken
    <3> QED
      BY <1>2, <1>3, <2>1, <3>1, <3>2 DEF Known
  <2> QED
    BY <1>2, <2>6, <2>7, <2>8 DEF Orderly
<1> QED
  BY <1>4, <1>5, <1>6

\* Any step keeps every session in order.
LEMMA CleanupStep ==
  ASSUME Sound, LeaseInv, CleanupInv, [Next]_vars
  PROVE  CleanupInv'
<1>1. GotInv' /\ IdInv'
  BY GotStep, IdStep DEF CleanupInv
<1>2. ASSUME NEW s \in Sessions
      PROVE  Orderly(s)'
  <2>1. Orderly(s)
    BY <1>2 DEF CleanupInv
  <2>2. ASSUME NEW r \in Sessions, Moves(r)
        PROVE  Orderly(s)'
    <3>1. CASE s = r
      BY <2>1, <2>2, <3>1, OrderlyMoves
    <3>2. CASE s # r
      <4>1. /\ UNCHANGED <<files, bound, task, inc, up, conn, ssh>>
            /\ spoiled \subseteq spoiled' /\ stuck \subseteq stuck'
            /\ at'[s] = at[s] /\ prov'[s] = prov[s] /\ rt'[s] = rt[s] /\ lost'[s] = lost[s]
        BY <2>2, <3>2, MovesKeep
      <4> QED
        BY <2>1, <4>1, OrderlyKept
    <3> QED
      BY <3>1, <3>2
  <2>3. ASSUME UNCHANGED vars
        PROVE  Orderly(s)'
    BY <2>1, <2>3, OrderlyKept DEF vars
  <2>4. ASSUME NEW k \in Tasks, TaskStep(k)
        PROVE  Orderly(s)'
    BY <2>1, <2>4, OrderlyAllocate, OrderlyPrepared, OrderlyNotReserved DEF TaskStep, CleanupInv
  <2>5. ASSUME NEW q \in Procs, Die(q) \/ StartAgain(q)
        PROVE  Orderly(s)'
    BY <2>1, <2>5, OrderlyProcess DEF CleanupInv
  <2>6. ASSUME NEW r \in Sessions, CreateAnswered(r) \/ Launch(r) \/ Fail(r) \/ Cleanup(r) \/ Release(r)
        PROVE  Orderly(s)'
    BY <2>1, <2>6, OrderlyAnswered, OrderlyLaunch, OrderlyWithdraw, OrderlyRelease
  <2>7. ASSUME (\E t \in ssh : SshBinds(t) \/ SshEnds(t)) \/ (\E p \in Ports : StrangerActs(p))
        PROVE  Orderly(s)'
    BY <2>1, <2>7, OrderlySsh, OrderlyStranger
  <2> QED
    BY <2>2, <2>3, <2>4, <2>5, <2>6, <2>7 DEF Next, SessionStep, Moves
<1> QED
  BY <1>1, <1>2 DEF CleanupInv

\* No session has been launched: all are in order.
LEMMA CleanupInit ==
  ASSUME Init
  PROVE  CleanupInv
<1>1. /\ files = {} /\ ssh = {} /\ \A p \in Ports : bound[p] = Free
      /\ \A k \in Tasks : task[k].at = "idle" /\ task[k].s = Nobody /\ task[k].got = {}
  BY DEF Init, PortsInit, NoTask
<1>2. ASSUME NEW s \in Sessions
      PROVE  /\ at[s] = "idle" /\ conn[s] = {} /\ rt[s] = NoRuntime /\ lost[s].create = 0 /\ lost[s].destroy = 0
             /\ prov[s].mine = Nobody /\ prov[s].rel = {} /\ ~prov[s].prepared
             /\ prov[s].res = {} /\ prov[s].orig = {} /\ ~prov[s].dir /\ ~prov[s].created
  BY DEF Init, NoProv
<1>3. ASSUME NEW s \in Sessions
      PROVE  <<"pool", s>> # Free /\ Identity(s) # NoRuntime
  <2>1. <<"pool", s>> \in {"pool", "ssh"} \X Sessions
    OBVIOUS
  <2>2. Identity(s) \in Identities
    BY PortAssumption DEF Init, PortsInit, Identity, Identities
  <2> QED
    BY <2>1, <2>2, PortAssumption, ProvisionerAssumption
<1>4. ASSUME NEW s \in Sessions
      PROVE  Orderly(s)
  <2>1. ~(lost[s].create > 0) /\ ~(lost[s].destroy > 0)
    BY <1>2
  <2>2. Flow(s)
    BY <1>1, <1>2, <2>1 DEF Flow
  <2>3. Clean(s) /\ Agreed(s)
    BY <1>2, <1>3 DEF Clean, Agreed
  <2>4. Known(s)
    BY <1>1, <1>3 DEF Known
  <2> QED
    BY <2>2, <2>3, <2>4 DEF Orderly
<1> QED
  BY <1>1, <1>2, <1>4 DEF CleanupInv, GotInv, IdInv

\* Every session is in order as long as it has met none of the known gaps.
LEMMA CleanupInvariant == Spec => []CleanupInv
<1>1. Init => CleanupInv
  BY CleanupInit
<1>2. Sound /\ LeaseInv /\ CleanupInv /\ [Next]_vars => CleanupInv'
  BY CleanupStep
<1> QED
  BY <1>1, <1>2, SoundInvariant, LeaseInvariant, PTL DEF Spec

\* After a failed launch or cleanup nothing is left of a session: no lease, no socket, no
\* ssh process, no rewritten connection file, no key directory and no runtime, wherever
\* the launch failed and whatever other sessions and processes did meanwhile (the except
\* clauses of pre_launch and launch_kernel, cleanup, _destroy_runtime, allocate).
THEOREM NothingIsLeft == Spec => []NothingLeft
<1>1. CleanupInv => NothingLeft
  <2> SUFFICES ASSUME CleanupInv, NEW s \in Sessions \ spoiled, at[s] = "idle", Live(s),
                      \A k \in Tasks : task[k].s # s
               PROVE  /\ \A f \in files : f.s # s \/ ~Alive(f.id)
                      /\ \A p \in Ports : bound[p] # <<"pool", s>>
                      /\ \A t \in ssh : t.s # s \/ t.id # Identity(s)
                      /\ conn[s] = {} /\ ~prov[s].dir /\ rt[s] # Identity(s)
    BY DEF NothingLeft
  <2>1. Flow(s) /\ Clean(s) /\ Agreed(s) /\ Known(s)
    BY DEF CleanupInv, Orderly
  <2>2. prov[s].res = {} /\ prov[s].rel = {} /\ conn[s] = {} /\ ~prov[s].dir /\ ~prov[s].created
    BY <2>1 DEF Flow, Clean, Outside
  <2>3. \A p : p \notin Held(s) /\ ~Taken(s, p)
    BY <2>2, HeldBy DEF Taken
  <2> QED
    BY <2>1, <2>2, <2>3 DEF Known, Flow, Agreed
<1> QED
  BY <1>1, CleanupInvariant, PTL

\* The tunnel of a running kernel forwards the ports that the client reads in its
\* connection file and the kernel was told to listen on, to the session's own runtime
\* (rewrite_connection_file, stage, launch_kernel).
THEOREM KernelsAreWired == Spec => []Wired
<1>1. Sound /\ CleanupInv => Wired
  <2> SUFFICES ASSUME Sound, CleanupInv, NEW t \in ssh, t.up, t.id = Identity(t.s), at[t.s] = "running",
                      t.s \notin spoiled
               PROVE  /\ t.ports = conn[t.s] /\ t.ports = prov[t.s].staged /\ t.ports # {}
                      /\ rt[t.s] = t.id
    BY DEF Wired
  <2>1. PICK s \in Sessions : s = t.s
    BY DEF Sound, TypeOK
  <2>2. Flow(s) /\ Agreed(s) /\ Live(s)
    BY <2>1, NotIdle DEF CleanupInv, Orderly, Sound
  <2> QED
    BY <2>1, <2>2 DEF Flow, Agreed
<1> QED
  BY <1>1, SoundInvariant, CleanupInvariant, PTL
=============================================================================
