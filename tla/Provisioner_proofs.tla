-------------------------- MODULE Provisioner_proofs --------------------------
(***************************************************************************)
(* For every number of sessions, processes, allocate calls, ports and      *)
(* faults: the types of the provisioner and its pool, what every other     *)
(* proof about them rests on, and that no two sessions have the same port. *)
(***************************************************************************)
EXTENDS Provisioner, TLAPS

Busy == {"look", "bind", "claim", "undo"}

\* An allocate call belongs to a session, its search has a port left where it uses one,
\* and it has the lock file while it searches.
TaskInv ==
  \A k \in Tasks :
    /\ task[k].at = "idle" => task[k] = NoTask
    /\ task[k].at # "idle" => task[k].s \in Sessions
    /\ task[k].at \in {"bind", "claim"} => task[k].i < Capacity
    /\ task[k].at \in Busy => flock = k

\* A process that is gone has left nothing in memory.
LiveInv ==
  \A s \in Sessions :
    Live(s) \/ (at[s] = "idle" /\ prov[s] = NoProv /\ \A k \in Tasks : task[k].s # s)

\* Every request that the client has given up on was a fault.
CountInv == \A s \in Sessions : lost[s].create <= faults /\ lost[s].destroy <= faults

TaskType ==
  [at : {"idle", "wait", "look", "bind", "claim", "undo", "done", "failed"},
   s : Sessions \cup {Nobody}, i : 0..Capacity, got : SUBSET Ports]

ProvType ==
  [created : BOOLEAN, dir : BOOLEAN, res : SUBSET Ports, orig : SUBSET (SUBSET Ports),
   rel : SUBSET Ports, mine : Tasks \cup {Nobody}, ready : BOOLEAN, prepared : BOOLEAN,
   cmd : SUBSET Ports, staged : SUBSET Ports]

Stages == {"idle", "creating", "gather", "ready", "running", "fail", "release", "destroy"}

\* The i-th port of a search is a port of the pool (_candidate_ports).
LEMMA CandidateInRange ==
  ASSUME PortsTypeOK, NEW k \in Tasks, task[k].s \in Sessions
  PROVE  Candidate(k) \in Ports
<1>1. Offset[task[k].s] + task[k].i \in Nat /\ Capacity \in Nat /\ Capacity > 0 /\ Start \in Nat
  BY PortAssumption DEF PortsTypeOK
<1>2. \A x \in Nat : x % Capacity \in 0..(Capacity - 1)
  BY <1>1
<1>3. \A y \in 0..(Capacity - 1) : Start + y \in Start..(Start + Capacity - 1)
  BY <1>1
<1> QED
  BY <1>1, <1>2, <1>3 DEF Candidate, Ports

\* A task changes its label, or goes on to the next port.
LEMMA TaskFields ==
  ASSUME PortsTypeOK, NEW k \in Tasks
  PROVE  /\ \A label : Step(k, label) =>
              task' = [task EXCEPT ![k] = [at |-> label, s |-> task[k].s, i |-> task[k].i, got |-> task[k].got]]
         /\ NextPort(k) =>
              task' = [task EXCEPT ![k] = [at |-> "look", s |-> task[k].s, i |-> task[k].i + 1, got |-> task[k].got]]
<1>1. task \in [Tasks -> TaskType] /\ task[k] \in TaskType
  BY DEF PortsTypeOK, TaskType
<1>2. \A label : [task[k] EXCEPT !.at = label] =
                   [at |-> label, s |-> task[k].s, i |-> task[k].i, got |-> task[k].got]
  BY <1>1 DEF TaskType
<1>3. [task[k] EXCEPT !.at = "look", !.i = @ + 1] =
        [at |-> "look", s |-> task[k].s, i |-> task[k].i + 1, got |-> task[k].got]
  <2>1. [[at |-> "look", s |-> task[k].s, i |-> task[k].i, got |-> task[k].got] EXCEPT !.i = task[k].i + 1] =
          [at |-> "look", s |-> task[k].s, i |-> task[k].i + 1, got |-> task[k].got]
    OBVIOUS
  <2> QED
    BY <1>2, <2>1
<1>4. \A label : Step(k, label) => task' = [task EXCEPT ![k] = [task[k] EXCEPT !.at = label]]
  BY <1>1 DEF Step
<1>5. NextPort(k) => task' = [task EXCEPT ![k] = [task[k] EXCEPT !.at = "look", !.i = @ + 1]]
  BY <1>1 DEF NextPort
<1> QED
  BY <1>2, <1>3, <1>4, <1>5

\* One task changes.
LEMMA TaskSet ==
  ASSUME PortsTypeOK, NEW k \in Tasks, NEW new \in TaskType, task' = [task EXCEPT ![k] = new]
  PROVE  /\ task' \in [Tasks -> TaskType] /\ task'[k] = new
         /\ \A j \in Tasks \ {k} : task'[j] = task[j]
BY DEF PortsTypeOK, TaskType

\* Faults are counted up to their bound.
LEMMA FaultCount ==
  ASSUME faults \in 0..MaxFaults, Fault \/ NoFault
  PROVE  faults' \in 0..MaxFaults /\ faults <= faults'
BY PortAssumption DEF Fault, NoFault

\* The lease of a session has its type.
LEMMA LeaseType ==
  ASSUME PortsTypeOK, NEW p \in Ports, NEW s \in Sessions
  PROVE  /\ Identity(s) \in Identities
         /\ Lease(p, s) \in [port : Ports, id : Identities, s : Sessions]
<1>1. ProcOf[s] \in Procs /\ inc[ProcOf[s]] \in 1..MaxInc
  BY PortAssumption DEF PortsTypeOK
<1>2. Identity(s) \in Identities
  BY <1>1 DEF Identity, Identities
<1> QED
  BY <1>2 DEF Lease

\* Sockets that are closed.
LEMMA ClosedType ==
  ASSUME PortsTypeOK, NEW ports, NEW s
  PROVE  Closed(bound, ports, s) \in [Ports -> {Free, Host} \cup ({"pool", "ssh"} \X Sessions)]
BY DEF PortsTypeOK, Closed

\* What a step of an allocate call does to its task, to the lock and to the rest.
LEMMA AllocateTask ==
  ASSUME PortsTypeOK, TaskInv, NEW k \in Tasks, AllocateStep(k)
  PROVE  \E new \in TaskType :
           /\ task' = [task EXCEPT ![k] = new]
           /\ new.s = task[k].s /\ task[k].s \in Sessions /\ new.at # "idle"
           /\ new.at \in {"bind", "claim"} => new.i < Capacity
           /\ new.at \in Busy => flock' = k
           /\ flock' # flock => flock \in {k, Nobody}
<1> DEFINE t == task[k]
<1>1. task \in [Tasks -> TaskType] /\ t \in TaskType /\ Capacity \in Nat
  BY PortAssumption DEF PortsTypeOK, TaskType
<1>2. t.at # "idle" => t.s \in Sessions
  BY DEF TaskInv
<1>3. /\ t.at \in {"bind", "claim"} => t.i < Capacity
      /\ t.at \in Busy => flock = k
  BY DEF TaskInv
<1>4. \A label \in {"wait", "look", "bind", "claim", "undo", "done", "failed"} :
        [at |-> label, s |-> t.s, i |-> t.i, got |-> t.got] \in TaskType
  BY <1>1 DEF TaskType
<1>5. t.i < Capacity => [at |-> "look", s |-> t.s, i |-> t.i + 1, got |-> t.got] \in TaskType
  BY <1>1 DEF TaskType
<1>6. CASE Enter(k)
  BY <1>2, <1>4, <1>6, TaskFields DEF Enter, Busy
<1>7. CASE Look(k)
  BY <1>2, <1>3, <1>4, <1>5, <1>7, TaskFields DEF Look, Busy
<1>8. CASE Bind(k)
  BY <1>2, <1>3, <1>4, <1>5, <1>8, TaskFields DEF Bind, Busy
<1>9. CASE Claim(k)
  <2> DEFINE got == t.got \cup {Candidate(k)}
             new == [at |-> IF Cardinality(got) = Need THEN "done" ELSE "look", s |-> t.s, i |-> t.i + 1, got |-> got]
  <2>1. t.s \in Sessions /\ t.i < Capacity /\ flock = k
    BY <1>2, <1>3, <1>9 DEF Claim, Busy
  <2>2. got \in SUBSET Ports
    BY <1>1, <2>1, CandidateInRange DEF TaskType
  <2>3. t.i + 1 \in 0..Capacity
    BY <1>1, <2>1 DEF TaskType
  <2>4. task' = [task EXCEPT ![k] = new]
    BY <1>1, <1>9 DEF Claim, TaskType
  <2>5. new.at = "look" => flock' = k
    BY <1>9 DEF Claim
  <2> HIDE DEF got
  <2>6. new \in TaskType
    BY <1>1, <2>1, <2>2, <2>3 DEF TaskType
  <2> QED
    BY <2>1, <2>4, <2>5, <2>6 DEF Busy
<1>10. CASE ClaimFails(k) \/ Exhausted(k)
  BY <1>2, <1>3, <1>4, <1>10, TaskFields DEF ClaimFails, Exhausted, Busy
<1>11. CASE Undo(k)
  <2> DEFINE new == [at |-> "failed", s |-> t.s, i |-> t.i, got |-> {}]
  <2>1. task' = [task EXCEPT ![k] = new]
    <3>1. [t EXCEPT !.at = "failed"] = [at |-> "failed", s |-> t.s, i |-> t.i, got |-> t.got]
      BY <1>1 DEF TaskType
    <3>2. [[at |-> "failed", s |-> t.s, i |-> t.i, got |-> t.got] EXCEPT !.got = {}] = new
      OBVIOUS
    <3>3. task' = [task EXCEPT ![k] = [t EXCEPT !.at = "failed", !.got = {}]]
      BY <1>1, <1>11 DEF Undo
    <3> QED
      BY <3>1, <3>2, <3>3
  <2>2. new \in TaskType
    BY <1>1 DEF TaskType
  <2> QED
    BY <1>2, <1>3, <1>11, <2>1, <2>2 DEF Undo, Busy
<1> QED
  BY <1>6, <1>7, <1>8, <1>9, <1>10, <1>11 DEF AllocateStep

\* One task changes and has what a task must have.
LEMMA TaskInvSet ==
  ASSUME PortsTypeOK, TaskInv, NEW k \in Tasks, NEW new \in TaskType, task' = [task EXCEPT ![k] = new],
         new.at = "idle" => new = NoTask,
         new.at # "idle" => new.s \in Sessions,
         new.at \in {"bind", "claim"} => new.i < Capacity,
         new.at \in Busy => flock' = k,
         flock' # flock => flock \in {k, Nobody}
  PROVE  TaskInv'
<1>1. task'[k] = new /\ \A j \in Tasks \ {k} : task'[j] = task[j]
  BY TaskSet
<1>2. ASSUME NEW j \in Tasks \ {k}, task[j].at \in Busy
      PROVE  flock' = j
  BY <1>2, PortAssumption DEF TaskInv
<1> QED
  BY <1>1, <1>2 DEF TaskInv

\* The files, the sockets and the lock that a step of an allocate call leaves.
LEMMA AllocatePool ==
  ASSUME PortsTypeOK, TaskInv, NEW k \in Tasks, AllocateStep(k)
  PROVE  /\ files' \subseteq [port : Ports, id : Identities, s : Sessions]
         /\ bound' \in [Ports -> {Free, Host} \cup ({"pool", "ssh"} \X Sessions)]
         /\ flock' \in Tasks \cup {Nobody} /\ UNCHANGED procs
         /\ faults' \in 0..MaxFaults /\ faults <= faults'
         /\ spoiled' \subseteq Sessions /\ overlooked' \subseteq Sessions
         /\ spoiled \subseteq spoiled' /\ overlooked \subseteq overlooked'
<1>1. /\ files \subseteq [port : Ports, id : Identities, s : Sessions]
      /\ bound \in [Ports -> {Free, Host} \cup ({"pool", "ssh"} \X Sessions)]
      /\ flock \in Tasks \cup {Nobody} /\ faults \in 0..MaxFaults
      /\ spoiled \subseteq Sessions /\ overlooked \subseteq Sessions
  BY DEF PortsTypeOK
<1>2. /\ faults \in 0..MaxFaults /\ (Fault \/ NoFault) =>
           faults' \in 0..MaxFaults /\ faults <= faults'
      /\ faults <= faults
  BY <1>1, FaultCount, PortAssumption
<1>3. task[k].at # "idle" => task[k].s \in Sessions
  BY DEF TaskInv
<1>4. task[k].at # "idle" => Candidate(k) \in Ports
  BY <1>3, CandidateInRange
<1>5. CASE Enter(k) \/ Exhausted(k)
  BY <1>1, <1>2, <1>5 DEF Enter, Exhausted, history
<1>6. CASE Look(k)
  <2>1. \A f \in Owners(Candidate(k)) : f.s \in Sessions
    BY <1>1 DEF Owners, Leases
  <2> QED
    BY <1>1, <1>2, <1>3, <1>6, <2>1 DEF Look
<1>7. CASE Bind(k)
  <2>1. task[k].s \in Sessions /\ Candidate(k) \in Ports
    BY <1>3, <1>4, <1>7 DEF Bind
  <2>2. <<"pool", task[k].s>> \in {"pool", "ssh"} \X Sessions
    BY <2>1
  <2> QED
    BY <1>1, <1>2, <1>7, <2>1, <2>2 DEF Bind, history
<1>8. CASE Claim(k) \/ ClaimFails(k)
  <2>1. task[k].s \in Sessions /\ Candidate(k) \in Ports
    BY <1>3, <1>4, <1>8 DEF Claim, ClaimFails
  <2>2. Lease(Candidate(k), task[k].s) \in [port : Ports, id : Identities, s : Sessions]
    BY <2>1, LeaseType
  <2>3. files' \subseteq [port : Ports, id : Identities, s : Sessions]
    BY <1>1, <1>8, <2>2 DEF Claim, ClaimFails
  <2>4. bound' \in [Ports -> {Free, Host} \cup ({"pool", "ssh"} \X Sessions)]
    BY <1>1, <1>8, <2>1 DEF Claim, ClaimFails
  <2> QED
    BY <1>1, <1>2, <1>8, <2>1, <2>3, <2>4 DEF Claim, ClaimFails, history, Spoil
<1>9. CASE Undo(k)
  <2>1. Closed(bound, task[k].got, task[k].s) \in [Ports -> {Free, Host} \cup ({"pool", "ssh"} \X Sessions)]
    BY ClosedType
  <2>2. files' \subseteq files
    BY <1>9 DEF Undo, Unlinked
  <2>3. Fault \/ NoFault
    BY <1>9 DEF Undo
  <2>4. spoiled' \in {spoiled, spoiled \cup {task[k].s}} /\ task[k].s \in Sessions
    BY <1>3, <1>9 DEF Undo, Spoil
  <2>5. UNCHANGED <<procs, overlooked>> /\ flock' = Nobody /\ bound' = Closed(bound, task[k].got, task[k].s)
    BY <1>9 DEF Undo
  <2> QED
    BY <1>1, <1>2, <2>1, <2>2, <2>3, <2>4, <2>5
<1> QED
  BY <1>5, <1>6, <1>7, <1>8, <1>9 DEF AllocateStep, procs

\* Types after a step of an allocate call.
LEMMA AllocateType ==
  ASSUME PortsTypeOK, TaskInv, NEW k \in Tasks, AllocateStep(k)
  PROVE  PortsTypeOK' /\ TaskInv'
<1>1. PICK new \in TaskType :
           /\ task' = [task EXCEPT ![k] = new]
           /\ new.s = task[k].s /\ task[k].s \in Sessions /\ new.at # "idle"
           /\ new.at \in {"bind", "claim"} => new.i < Capacity
           /\ new.at \in Busy => flock' = k
           /\ flock' # flock => flock \in {k, Nobody}
  BY AllocateTask
<1>2. task' \in [Tasks -> TaskType]
  BY <1>1, TaskSet
<1>3. PortsTypeOK'
  BY <1>2, AllocatePool DEF PortsTypeOK, procs, TaskType
<1>4. TaskInv'
  BY <1>1, TaskInvSet
<1> QED
  BY <1>3, <1>4

-----------------------------------------------------------------------------
(* Types of the provisioner *)

\* What every step relies on.
Sound == TypeOK /\ TaskInv /\ LiveInv /\ CountInv

\* The daemon and the connection files.
RestType ==
  /\ conn \in [Sessions -> SUBSET Ports]
  /\ ssh \subseteq [s : Sessions, id : Identities, ports : SUBSET Ports, up : BOOLEAN]
  /\ rt \in [Sessions -> Identities \cup {NoRuntime}] /\ stuck \subseteq Sessions
  /\ lost \in [Sessions -> [create : 0..MaxFaults, destroy : 0..MaxFaults]]
  /\ launches \in 0..MaxLaunches

\* The parts of the type invariant.
LEMMA TypeParts ==
  TypeOK <=> /\ PortsTypeOK /\ RestType
             /\ at \in [Sessions -> Stages] /\ prov \in [Sessions -> ProvType]
BY DEF TypeOK, RestType, Stages, ProvType

\* Attributes that are set, one or several, keep the types.
LEMMA ProvFields ==
  ASSUME NEW v \in ProvType, NEW b \in BOOLEAN, NEW ports \in SUBSET Ports, NEW k \in Tasks \cup {Nobody}
  PROVE  /\ NoProv \in ProvType
         /\ [v EXCEPT !.dir = b] \in ProvType /\ [v EXCEPT !.created = b] \in ProvType
         /\ [v EXCEPT !.created = b, !.mine = k] \in ProvType
         /\ [v EXCEPT !.created = b, !.dir = b] \in ProvType
         /\ [v EXCEPT !.ready = b] \in ProvType
         /\ [v EXCEPT !.staged = ports, !.mine = k] \in ProvType
         /\ [v EXCEPT !.res = ports] \in ProvType /\ [v EXCEPT !.rel = ports] \in ProvType
         /\ [NoProv EXCEPT !.created = v.created, !.dir = v.dir, !.rel = ports] \in ProvType
<1>1. NoProv \in ProvType
  BY DEF NoProv, ProvType
<1>2. /\ [v EXCEPT !.dir = b] \in ProvType /\ [v EXCEPT !.created = b] \in ProvType
      /\ [v EXCEPT !.ready = b] \in ProvType
      /\ [v EXCEPT !.res = ports] \in ProvType /\ [v EXCEPT !.rel = ports] \in ProvType
  BY DEF ProvType
<1>3. [v EXCEPT !.created = b, !.mine = k] \in ProvType /\ [v EXCEPT !.created = b, !.dir = b] \in ProvType
  BY DEF ProvType
<1>4. [v EXCEPT !.staged = ports, !.mine = k] \in ProvType
  BY DEF ProvType
<1>5. [NoProv EXCEPT !.created = v.created, !.dir = v.dir, !.rel = ports] \in ProvType
  BY <1>1 DEF ProvType
<1> QED
  BY <1>1, <1>2, <1>3, <1>4, <1>5

\* A session of a live process changes.
LEMMA SessionChanges ==
  ASSUME TypeOK, LiveInv, NEW s \in Sessions, Live(s), UNCHANGED procs,
         NEW label \in Stages, at' = [at EXCEPT ![s] = label],
         NEW new \in ProvType, prov' = [prov EXCEPT ![s] = new],
         \A k \in Tasks : task'[k].s \in {task[k].s, s, Nobody}
  PROVE  at' \in [Sessions -> Stages] /\ prov' \in [Sessions -> ProvType] /\ LiveInv'
<1>1. at \in [Sessions -> Stages] /\ prov \in [Sessions -> ProvType]
  BY TypeParts
<1>2. at' \in [Sessions -> Stages] /\ prov' \in [Sessions -> ProvType]
  BY <1>1
<1>3. ASSUME NEW r \in Sessions \ {s}
      PROVE  at'[r] = at[r] /\ prov'[r] = prov[r] /\ \A k \in Tasks : task[k].s # r => task'[k].s # r
  BY <1>1, PortAssumption
<1>4. \A r \in Sessions : Live(r)' = Live(r)
  BY DEF Live, procs
<1>5. ASSUME NEW r \in Sessions
      PROVE  Live(r)' \/ (at'[r] = "idle" /\ prov'[r] = NoProv /\ \A k \in Tasks : task'[k].s # r)
  BY <1>3, <1>4 DEF LiveInv
<1> QED
  BY <1>2, <1>5 DEF LiveInv

\* The pool is as it was.
LEMMA PoolUntouched ==
  ASSUME PortsTypeOK, TaskInv, UNCHANGED <<pool, procs>>, Fault \/ NoFault,
         spoiled' \subseteq Sessions, overlooked' \subseteq Sessions
  PROVE  PortsTypeOK' /\ TaskInv'
BY FaultCount DEF PortsTypeOK, TaskInv, pool, procs

\* As many requests are lost as before, or one more.
LEMMA CountKept ==
  ASSUME TypeOK, CountInv, UNCHANGED lost, Fault \/ NoFault
  PROVE  CountInv'
<1>1. faults \in 0..MaxFaults /\ faults' \in 0..MaxFaults /\ faults <= faults'
  BY FaultCount DEF TypeOK, PortsTypeOK
<1>2. \A s \in Sessions : lost[s].create \in 0..MaxFaults /\ lost[s].destroy \in 0..MaxFaults
  BY DEF TypeOK
<1> QED
  BY <1>1, <1>2, PortAssumption DEF CountInv

\* A session that is not idle is of a live process.
LEMMA NotIdle ==
  ASSUME LiveInv, NEW s \in Sessions, at[s] # "idle" \/ \E k \in Tasks : task[k].s = s
  PROVE  Live(s)
BY DEF LiveInv

\* A session changes and leaves the pool alone.
LEMMA SoundSession ==
  ASSUME Sound, NEW s \in Sessions, Live(s), UNCHANGED <<pool, procs>>,
         NEW label \in Stages, at' = [at EXCEPT ![s] = label],
         NEW new \in ProvType, prov' = [prov EXCEPT ![s] = new],
         Fault \/ NoFault, spoiled' \subseteq Sessions, overlooked' \subseteq Sessions,
         RestType', CountInv'
  PROVE  Sound'
<1>1. PortsTypeOK' /\ TaskInv'
  BY PoolUntouched, TypeParts DEF Sound
<1>2. \A k \in Tasks : task'[k].s \in {task[k].s, s, Nobody}
  BY DEF pool
<1>3. at' \in [Sessions -> Stages] /\ prov' \in [Sessions -> ProvType] /\ LiveInv'
  BY <1>2, SessionChanges DEF Sound
<1>4. TypeOK'
  BY <1>1, <1>3, TypeParts DEF TypeOK, RestType, Stages, ProvType
<1> QED
  BY <1>1, <1>3, <1>4 DEF Sound

\* Steps of a session that only move it, set attributes and count faults.
LEMMA SoundMoves ==
  ASSUME Sound, NEW s \in Sessions,
         PreLaunch(s) \/ CreateRefused(s) \/ SshReady(s) \/ Stage(s) \/ NoDestroy(s)
  PROVE  Sound'
<1>1. /\ at \in [Sessions -> Stages] /\ prov \in [Sessions -> ProvType] /\ prov[s] \in ProvType
      /\ conn[s] \in SUBSET Ports /\ RestType /\ spoiled \subseteq Sessions /\ overlooked \subseteq Sessions
  BY TypeParts DEF Sound, RestType, PortsTypeOK
<1>2. Live(s) /\ UNCHANGED <<pool, procs, history, conn, ssh, daemon>>
  BY NotIdle DEF Sound, PreLaunch, CreateRefused, SshReady, Stage, NoDestroy
<1>3. Fault \/ NoFault
  BY DEF PreLaunch, CreateKey, CreateRefused, SshReady, Stage, Copy, NoDestroy, NoFault
<1>4. launches' \in 0..MaxLaunches
  BY <1>1, ProvisionerAssumption DEF PreLaunch, CreateRefused, SshReady, Stage, NoDestroy, RestType
<1>5. RestType' /\ CountInv' /\ spoiled' \subseteq Sessions /\ overlooked' \subseteq Sessions
  BY <1>1, <1>2, <1>3, <1>4, CountKept DEF Sound, RestType, daemon, history
<1>6. \E label \in Stages : at' = [at EXCEPT ![s] = label]
  <2>1. at = [at EXCEPT ![s] = at[s]] /\ at[s] \in Stages
    BY <1>1
  <2> QED
    BY <2>1 DEF PreLaunch, CreateKey, CreateRefused, SshReady, Stage, Copy, NoDestroy, Goto, Stages
<1>7. \E new \in ProvType : prov' = [prov EXCEPT ![s] = new]
  <2>1. CASE PreLaunch(s)
    <3>1. prov' = [prov EXCEPT ![s] = [prov[s] EXCEPT !.dir = TRUE]]
      BY <2>1 DEF PreLaunch
    <3> QED
      BY <1>1, <3>1, ProvFields
  <2>2. CASE UNCHANGED prov
    <3>1. prov = [prov EXCEPT ![s] = prov[s]]
      BY <1>1
    <3> QED
      BY <1>1, <2>2, <3>1
  <2>3. CASE SshReady(s) /\ prov' # prov
    <3>1. prov' = [prov EXCEPT ![s] = [prov[s] EXCEPT !.ready = TRUE]]
      BY <2>3 DEF SshReady
    <3> QED
      BY <1>1, <3>1, ProvFields
  <2>4. CASE Stage(s) /\ prov' # prov
    <3>1. prov' = [prov EXCEPT ![s] = [prov[s] EXCEPT !.staged = conn[s], !.mine = Nobody]]
      BY <1>1, <2>4 DEF Stage, Copy
    <3>2. [prov[s] EXCEPT !.staged = conn[s], !.mine = Nobody] \in ProvType
      BY <1>1 DEF ProvType
    <3> QED
      BY <3>1, <3>2
  <2>5. CASE NoDestroy(s)
    <3>1. prov' = [prov EXCEPT ![s] = [prov[s] EXCEPT !.created = FALSE, !.dir = FALSE]]
      BY <1>1, <2>5 DEF NoDestroy, Finished
    <3> QED
      BY <1>1, <3>1, ProvFields
  <2> QED
    BY <2>1, <2>2, <2>3, <2>4, <2>5 DEF CreateRefused
<1> QED
  BY <1>2, <1>3, <1>5, <1>6, <1>7, SoundSession

\* Steps in which the daemon answers, hangs, or is given up on.
LEMMA SoundDaemon ==
  ASSUME Sound, NEW s \in Sessions,
         \/ NotUsable(s) \/ CreateHangs(s) \/ CreateGivenUp(s)
         \/ DestroyAnswered(s) \/ DestroyGivenUp(s)
  PROVE  Sound'
<1>1. /\ at \in [Sessions -> Stages] /\ prov \in [Sessions -> ProvType] /\ prov[s] \in ProvType
      /\ RestType /\ PortsTypeOK /\ spoiled \subseteq Sessions /\ overlooked \subseteq Sessions
      /\ faults \in 0..MaxFaults
  BY TypeParts DEF Sound, RestType, PortsTypeOK
<1>2. Live(s) /\ UNCHANGED <<pool, procs, overlooked, conn, ssh, launches>>
  BY NotIdle DEF Sound, NotUsable, Created, CreateHangs, CreateGivenUp, DestroyAnswered, DestroyGivenUp,
                 GiveUp, session, history
<1>3. Fault \/ NoFault
  BY DEF NotUsable, CreateHangs, CreateGivenUp, DestroyAnswered, DestroyGivenUp, GiveUp
<1>4. spoiled' \subseteq Sessions
  BY <1>1 DEF NotUsable, CreateHangs, CreateGivenUp, DestroyAnswered, DestroyGivenUp, GiveUp, Spoil, history
<1>5. rt' \in [Sessions -> Identities \cup {NoRuntime}] /\ stuck' \subseteq Sessions
  <2>1. Identity(s) \in Identities
    BY <1>1, PortAssumption DEF PortsTypeOK, Identity, Identities
  <2> QED
    BY <1>1, <2>1 DEF NotUsable, Created, CreateHangs, CreateGivenUp, DestroyAnswered, DestroyGivenUp, RestType
<1>6. /\ lost' \in [Sessions -> [create : 0..MaxFaults, destroy : 0..MaxFaults]]
      /\ CountInv'
  <2>1. CASE UNCHANGED lost
    BY <1>1, <1>3, <2>1, CountKept DEF Sound, RestType
  <2>2. ASSUME NEW kind \in {"create", "destroy"}, Fault,
               lost' = [lost EXCEPT ![s][kind] = @ + 1]
        PROVE  /\ lost' \in [Sessions -> [create : 0..MaxFaults, destroy : 0..MaxFaults]]
               /\ CountInv'
    <3> DEFINE one == [lost[s] EXCEPT ![kind] = lost[s][kind] + 1]
    <3>1. /\ lost \in [Sessions -> [create : 0..MaxFaults, destroy : 0..MaxFaults]]
          /\ \A r \in Sessions : lost[r].create <= faults /\ lost[r].destroy <= faults
      BY <1>1 DEF RestType, Sound, CountInv
    <3>2. faults' = faults + 1 /\ faults' \in 0..MaxFaults /\ faults \in Nat
      BY <1>1, <2>2, PortAssumption DEF Fault
    <3>3. /\ lost[s].create \in Nat /\ lost[s].destroy \in Nat
          /\ lost[s].create <= faults /\ lost[s].destroy <= faults
      BY <3>1, PortAssumption
    <3>4. one \in [create : 0..MaxFaults, destroy : 0..MaxFaults] /\ one.create <= faults' /\ one.destroy <= faults'
      <4>1. CASE kind = "create"
        <5>1. one = [create |-> lost[s].create + 1, destroy |-> lost[s].destroy]
          BY <3>1, <4>1
        <5> QED
          BY <3>2, <3>3, <5>1, PortAssumption
      <4>2. CASE kind = "destroy"
        <5>1. one = [create |-> lost[s].create, destroy |-> lost[s].destroy + 1]
          BY <3>1, <4>2
        <5> QED
          BY <3>2, <3>3, <5>1, PortAssumption
      <4> QED
        BY <4>1, <4>2
    <3>5. lost' = [lost EXCEPT ![s] = one]
      BY <2>2
    <3> HIDE DEF one
    <3>6. lost' \in [Sessions -> [create : 0..MaxFaults, destroy : 0..MaxFaults]]
      BY <3>1, <3>4, <3>5
    <3>7. ASSUME NEW r \in Sessions
          PROVE  lost'[r].create <= faults' /\ lost'[r].destroy <= faults'
      <4>1. CASE r = s
        BY <3>1, <3>4, <3>5, <4>1
      <4>2. CASE r # s
        <5>1. lost'[r] = lost[r] /\ lost[r].create \in Nat /\ lost[r].destroy \in Nat
          BY <3>1, <3>5, <4>2, PortAssumption
        <5> QED
          BY <3>1, <3>2, <5>1
      <4> QED
        BY <4>1, <4>2
    <3> QED
      BY <3>6, <3>7 DEF CountInv
  <2>3. CASE CreateGivenUp(s) \/ DestroyGivenUp(s)
    BY <2>1, <2>2, <2>3 DEF CreateGivenUp, DestroyGivenUp, GiveUp
  <2> QED
    BY <2>1, <2>3 DEF NotUsable, Created, CreateHangs, DestroyAnswered
<1>7. \E label \in Stages : at' = [at EXCEPT ![s] = label]
  <2>1. at = [at EXCEPT ![s] = at[s]] /\ at[s] \in Stages
    BY <1>1
  <2> QED
    BY <2>1 DEF NotUsable, CreateHangs, CreateGivenUp, DestroyAnswered, DestroyGivenUp, GiveUp, Goto, session, Stages
<1>8. \E new \in ProvType : prov' = [prov EXCEPT ![s] = new]
  <2>1. CASE UNCHANGED prov
    <3>1. prov = [prov EXCEPT ![s] = prov[s]]
      BY <1>1
    <3> QED
      BY <1>1, <2>1, <3>1
  <2>2. CASE NotUsable(s)
    <3>1. prov' = [prov EXCEPT ![s] = [prov[s] EXCEPT !.created = TRUE]]
      BY <2>2 DEF NotUsable
    <3> QED
      BY <1>1, <3>1, ProvFields
  <2>3. CASE DestroyAnswered(s) \/ DestroyGivenUp(s)
    <3>1. prov' = [prov EXCEPT ![s] = [prov[s] EXCEPT !.created = FALSE, !.dir = FALSE]]
      BY <1>1, <2>3 DEF DestroyAnswered, DestroyGivenUp, Finished
    <3> QED
      BY <1>1, <3>1, ProvFields
  <2> QED
    BY <2>1, <2>2, <2>3 DEF CreateHangs, CreateGivenUp, session
<1>9. RestType'
  BY <1>1, <1>2, <1>5, <1>6 DEF RestType
<1> QED
  BY <1>1, <1>2, <1>3, <1>4, <1>6, <1>7, <1>8, <1>9, SoundSession

\* A session and the pool change together.
LEMMA SoundBoth ==
  ASSUME Sound, NEW s \in Sessions, Live(s), UNCHANGED <<procs, lost>>, PortsTypeOK', TaskInv',
         NEW label \in Stages, at' = [at EXCEPT ![s] = label],
         NEW new \in ProvType, prov' = [prov EXCEPT ![s] = new],
         \A k \in Tasks : task'[k].s \in {task[k].s, s, Nobody},
         Fault \/ NoFault, RestType'
  PROVE  Sound'
<1>1. at' \in [Sessions -> Stages] /\ prov' \in [Sessions -> ProvType] /\ LiveInv'
  BY SessionChanges DEF Sound
<1>2. CountInv'
  BY CountKept DEF Sound
<1>3. TypeOK'
  BY <1>1 DEF TypeOK, RestType, Stages, ProvType
<1> QED
  BY <1>1, <1>2, <1>3 DEF Sound

\* allocate is called when the daemon has answered (pre_launch).
LEMMA SoundCreateAnswered ==
  ASSUME Sound, NEW s \in Sessions, CreateAnswered(s)
  PROVE  Sound'
<1>1. /\ at \in [Sessions -> Stages] /\ prov \in [Sessions -> ProvType] /\ prov[s] \in ProvType
      /\ RestType /\ PortsTypeOK /\ task \in [Tasks -> TaskType]
  BY TypeParts DEF Sound, PortsTypeOK, TaskType
<1>2. PICK k \in Tasks : Call(k, s) /\ prov' = [prov EXCEPT ![s].created = TRUE, ![s].mine = k]
  BY DEF CreateAnswered
<1>3. Live(s)
  BY NotIdle DEF CreateAnswered, Created, Sound
<1>4. ASSUME NEW label \in {"wait", "failed"}
      PROVE  [NoTask EXCEPT !.at = label, !.s = s] \in TaskType
  <2>1. [NoTask EXCEPT !.at = label] = [at |-> label, s |-> Nobody, i |-> 0, got |-> {}]
    BY DEF NoTask
  <2>2. [[at |-> label, s |-> Nobody, i |-> 0, got |-> {}] EXCEPT !.s = s] =
          [at |-> label, s |-> s, i |-> 0, got |-> {}]
    OBVIOUS
  <2>3. [at |-> label, s |-> s, i |-> 0, got |-> {}] \in TaskType
    BY PortAssumption DEF TaskType
  <2> QED
    BY <2>1, <2>2, <2>3
<1>5. PICK label \in {"wait", "failed"} : task' = [task EXCEPT ![k] = [NoTask EXCEPT !.at = label, !.s = s]]
  BY <1>2 DEF Call
<1>6. [NoTask EXCEPT !.at = label, !.s = s].at = label /\ [NoTask EXCEPT !.at = label, !.s = s].s = s
  BY DEF NoTask
<1>7. task' \in [Tasks -> TaskType] /\ \A j \in Tasks : task'[j].s \in {task[j].s, s, Nobody}
  BY <1>1, <1>4, <1>5, <1>6
<1>8. (Fault \/ NoFault) /\ UNCHANGED <<files, bound, flock, procs, history>>
  BY <1>2 DEF Call
<1>9. PortsTypeOK'
  BY <1>1, <1>7, <1>8, FaultCount DEF PortsTypeOK, TaskType, procs, history
<1>10. TaskInv'
  BY <1>1, <1>4, <1>5, <1>6, <1>8, TaskInvSet DEF Sound, Busy
<1>11. prov' = [prov EXCEPT ![s] = [prov[s] EXCEPT !.created = TRUE, !.mine = k]]
  BY <1>1, <1>2
<1>12. [prov[s] EXCEPT !.created = TRUE, !.mine = k] \in ProvType
  BY <1>1, ProvFields
<1>13. at' = [at EXCEPT ![s] = "gather"] /\ "gather" \in Stages
  BY DEF CreateAnswered, Goto, Stages
<1>14. Identity(s) \in Identities
  BY <1>1, PortAssumption DEF PortsTypeOK, Identity, Identities
<1>15. RestType' /\ UNCHANGED lost
  BY <1>1, <1>8, <1>14 DEF CreateAnswered, Created, RestType
<1> QED
  BY <1>3, <1>7, <1>8, <1>9, <1>10, <1>11, <1>12, <1>13, <1>15, SoundBoth

\* The task of an allocate call that is over goes.
LEMMA TaskCleared ==
  ASSUME PortsTypeOK, TaskInv, NEW k \in Tasks, task[k].at \in {"done", "failed"},
         task' = [task EXCEPT ![k] = NoTask], UNCHANGED flock
  PROVE  /\ task' \in [Tasks -> TaskType] /\ TaskInv' /\ task[k].s \in Sessions
         /\ task'[k] = NoTask /\ \A j \in Tasks \ {k} : task'[j] = task[j]
         /\ \A j \in Tasks : task'[j].s \in {task[j].s, Nobody}
<1>1. NoTask \in TaskType /\ NoTask.at = "idle" /\ NoTask.s = Nobody
  BY PortAssumption DEF NoTask, TaskType
<1>2. task[k].s \in Sessions
  BY DEF TaskInv
<1>3. task' \in [Tasks -> TaskType] /\ task'[k] = NoTask /\ \A j \in Tasks \ {k} : task'[j] = task[j]
  BY <1>1, TaskSet
<1>4. TaskInv'
  BY <1>1, TaskInvSet DEF Busy
<1> QED
  BY <1>1, <1>2, <1>3, <1>4

\* _prepare_connection after its await
LEMMA SoundPrepared ==
  ASSUME Sound, NEW k \in Tasks, Prepared(k) \/ NotReserved(k)
  PROVE  Sound'
<1> DEFINE s == task[k].s
           got == task[k].got
           current == prov[s].mine = k
<1>1. /\ at \in [Sessions -> Stages] /\ prov \in [Sessions -> ProvType] /\ RestType /\ PortsTypeOK
      /\ task \in [Tasks -> TaskType] /\ got \in SUBSET Ports
  BY TypeParts DEF Sound, PortsTypeOK, TaskType
<1>2. task[k].at \in {"done", "failed"} /\ task' = [task EXCEPT ![k] = NoTask] /\ UNCHANGED <<flock, procs, files>>
  BY DEF Prepared, NotReserved
<1>3. /\ task' \in [Tasks -> TaskType] /\ TaskInv' /\ s \in Sessions
      /\ \A j \in Tasks : task'[j].s \in {task[j].s, Nobody}
  BY <1>1, <1>2, TaskCleared DEF Sound
<1>4. Live(s) /\ prov[s] \in ProvType /\ at[s] \in Stages /\ conn[s] \in SUBSET Ports
  BY <1>1, <1>3, NotIdle DEF Sound, RestType
<1>5. (Fault \/ NoFault) /\ UNCHANGED <<lost, overlooked, ssh, rt, stuck, launches>>
  BY DEF Prepared, NotReserved, NoFault, daemon, history
<1>6. bound' \in [Ports -> {Free, Host} \cup ({"pool", "ssh"} \X Sessions)]
  <2>1. CASE Prepared(k)
    BY <1>1, <2>1, ClosedType DEF Prepared
  <2>2. CASE NotReserved(k)
    BY <1>1, <2>2 DEF NotReserved, PortsTypeOK
  <2> QED
    BY <2>1, <2>2
<1>7. spoiled' \subseteq Sessions
  BY <1>1, <1>3 DEF Prepared, NotReserved, Rewrite, RewriteRaises, Spoil, PortsTypeOK, history
<1>8. PortsTypeOK'
  BY <1>1, <1>2, <1>3, <1>5, <1>6, <1>7, FaultCount DEF PortsTypeOK, TaskType, procs
<1>9. conn' \in [Sessions -> SUBSET Ports]
  BY <1>1, <1>3 DEF Prepared, NotReserved, Rewrite, RewriteRaises, RestType
<1>10. RestType'
  BY <1>1, <1>5, <1>9 DEF RestType
<1>11. \E label \in Stages : at' = [at EXCEPT ![s] = label]
  <2>1. at = [at EXCEPT ![s] = at[s]] /\ at[s] \in Stages
    BY <1>1, <1>4
  <2> QED
    BY <2>1 DEF Prepared, NotReserved, RewriteRaises, Goto, Stages
<1>12. \E new \in ProvType : prov' = [prov EXCEPT ![s] = new]
  <2>1. CASE Prepared(k) /\ Rewrite(s, got, current)
    <3> DEFINE new == [prov[s] EXCEPT !.res = got, !.orig = {conn[s]}, !.prepared = current \/ @,
                                      !.cmd = IF current THEN got ELSE @]
    <3>1. prov' = [prov EXCEPT ![s] = new]
      BY <1>1, <1>3, <2>1 DEF Rewrite
    <3>2. (current \/ prov[s].prepared) \in BOOLEAN
      BY Zenon
    <3>3. (IF current THEN got ELSE prov[s].cmd) \in SUBSET Ports
      BY <1>1, <1>4 DEF ProvType
    <3>4. new \in ProvType
      BY <1>1, <1>4, <3>2, <3>3 DEF ProvType
    <3> QED
      BY <3>1, <3>4
  <2>2. CASE Prepared(k) /\ RewriteRaises(s, got, current)
    <3>1. prov' = [prov EXCEPT ![s] = [prov[s] EXCEPT !.res = got]]
      BY <2>2 DEF RewriteRaises
    <3> QED
      BY <1>1, <1>4, <3>1, ProvFields
  <2>3. CASE NotReserved(k)
    <3>1. prov = [prov EXCEPT ![s] = prov[s]]
      BY <1>1, <1>3
    <3> QED
      BY <1>4, <2>3, <3>1 DEF NotReserved
  <2> QED
    BY <2>1, <2>2, <2>3 DEF Prepared
<1> QED
  BY <1>2, <1>3, <1>4, <1>5, <1>8, <1>10, <1>11, <1>12, SoundBoth

\* The sockets and the lease files change, and no task does.
LEMMA SocketsChange ==
  ASSUME PortsTypeOK, TaskInv, UNCHANGED <<flock, task, procs>>, Fault \/ NoFault,
         bound' \in [Ports -> {Free, Host} \cup ({"pool", "ssh"} \X Sessions)],
         files' \subseteq files, spoiled' \subseteq Sessions, overlooked' \subseteq Sessions
  PROVE  PortsTypeOK' /\ TaskInv'
<1>1. faults' \in 0..MaxFaults
  BY FaultCount DEF PortsTypeOK
<1> QED
  BY <1>1 DEF PortsTypeOK, TaskInv, procs

\* The forwards that end.
LEMMA EndedType ==
  ASSUME PortsTypeOK, NEW S
  PROVE  Ended(S) \in [Ports -> {Free, Host} \cup ({"pool", "ssh"} \X Sessions)]
BY DEF PortsTypeOK, Ended

\* launch_kernel and the ssh processes
LEMMA SoundSsh ==
  ASSUME Sound, \/ \E s \in Sessions : Launch(s)
                \/ \E t \in ssh : SshBinds(t) \/ SshEnds(t)
  PROVE  Sound'
<1>1. /\ at \in [Sessions -> Stages] /\ prov \in [Sessions -> ProvType] /\ RestType /\ PortsTypeOK
      /\ spoiled \subseteq Sessions /\ overlooked \subseteq Sessions
  BY TypeParts DEF Sound, PortsTypeOK
<1>2. (Fault \/ NoFault) /\ UNCHANGED <<files, flock, task, procs, history, prov, conn, daemon, launches>>
  BY DEF Launch, SshBinds, SshEnds, NoFault, session
<1>3. ASSUME NEW s \in Sessions, Launch(s)
      PROVE  Sound'
  <2>1. Live(s)
    BY <1>3, NotIdle DEF Launch, Sound
  <2>2. bound' \in [Ports -> {Free, Host} \cup ({"pool", "ssh"} \X Sessions)]
    BY <1>1, <1>3, ClosedType DEF Launch
  <2>3. PortsTypeOK' /\ TaskInv'
    BY <1>1, <1>2, <2>2, SocketsChange DEF Sound, history
  <2>4. Identity(s) \in Identities
    BY <1>1, PortAssumption DEF PortsTypeOK, Identity, Identities
  <2>5. ssh' \subseteq [s : Sessions, id : Identities, ports : SUBSET Ports, up : BOOLEAN]
    <3>1. prov[s].cmd \in SUBSET Ports
      BY <1>1 DEF ProvType
    <3>2. [s |-> s, id |-> Identity(s), ports |-> prov[s].cmd, up |-> FALSE] \in
            [s : Sessions, id : Identities, ports : SUBSET Ports, up : BOOLEAN]
      BY <2>4, <3>1
    <3>3. \/ ssh' = ssh \cup {[s |-> s, id |-> Identity(s), ports |-> prov[s].cmd, up |-> FALSE]}
          \/ UNCHANGED ssh
      BY <1>3 DEF Launch
    <3> QED
      BY <1>1, <3>2, <3>3 DEF RestType
  <2>6. RestType'
    BY <1>1, <1>2, <2>5 DEF RestType, daemon
  <2>7. \E label \in Stages : at' = [at EXCEPT ![s] = label]
    BY <1>3 DEF Launch, Goto, Stages
  <2>8. prov' = [prov EXCEPT ![s] = prov[s]] /\ prov[s] \in ProvType
    BY <1>1, <1>2
  <2> QED
    BY <1>2, <2>1, <2>3, <2>6, <2>7, <2>8, SoundBoth DEF daemon
<1>4. ASSUME NEW t \in ssh, SshBinds(t) \/ SshEnds(t)
      PROVE  Sound'
  <2>1. t \in [s : Sessions, id : Identities, ports : SUBSET Ports, up : BOOLEAN]
    BY <1>1 DEF RestType
  <2>2. bound' \in [Ports -> {Free, Host} \cup ({"pool", "ssh"} \X Sessions)]
    <3>1. CASE SshEnds(t)
      BY <1>1, <3>1, EndedType DEF SshEnds
    <3>2. CASE SshBinds(t)
      <4>1. <<"ssh", t.s>> \in {"pool", "ssh"} \X Sessions
        BY <2>1
      <4> QED
        BY <1>1, <3>2, <4>1 DEF SshBinds, PortsTypeOK
    <3> QED
      BY <1>4, <3>1, <3>2
  <2>3. PortsTypeOK' /\ TaskInv'
    BY <1>1, <1>2, <2>2, SocketsChange DEF Sound, history
  <2>4. ssh' \subseteq [s : Sessions, id : Identities, ports : SUBSET Ports, up : BOOLEAN]
    <3>1. [t EXCEPT !.up = TRUE] \in [s : Sessions, id : Identities, ports : SUBSET Ports, up : BOOLEAN]
      BY <2>1
    <3> QED
      BY <1>1, <1>4, <3>1 DEF SshBinds, SshEnds, RestType
  <2>5. RestType'
    BY <1>1, <1>2, <2>4 DEF RestType, daemon
  <2>6. UNCHANGED at
    BY <1>4 DEF SshBinds, SshEnds, session
  <2>7. TypeOK'
    BY <1>1, <1>2, <2>3, <2>5, <2>6 DEF TypeOK, RestType, Stages, ProvType
  <2>8. LiveInv' /\ CountInv'
    BY <1>2, <2>6, CountKept DEF Sound, LiveInv, Live, procs, daemon
  <2> QED
    BY <2>3, <2>7, <2>8 DEF Sound
<1> QED
  BY <1>3, <1>4

\* The except clauses, cleanup, and the release of the leases
LEMMA SoundCleanup ==
  ASSUME Sound, NEW s \in Sessions, Fail(s) \/ Cleanup(s) \/ Release(s)
  PROVE  Sound'
<1>1. /\ at \in [Sessions -> Stages] /\ prov \in [Sessions -> ProvType] /\ RestType /\ PortsTypeOK
      /\ prov[s] \in ProvType /\ spoiled \subseteq Sessions /\ overlooked \subseteq Sessions
  BY TypeParts DEF Sound, PortsTypeOK
<1>2. Live(s)
  BY NotIdle DEF Fail, Cleanup, Release, Sound
<1>3. /\ UNCHANGED <<flock, task, procs, overlooked, daemon, launches>>
      /\ files' \subseteq files /\ ssh' \subseteq ssh
  BY DEF Fail, Cleanup, Release, Withdraw, Unlinked
<1>4. Fault \/ NoFault
  BY DEF Fail, Cleanup, Release, Withdraw, Restore
<1>5. spoiled' \subseteq Sessions
  BY <1>1 DEF Fail, Cleanup, Release, Withdraw, Restore, Spoil
<1>6. bound' \in [Ports -> {Free, Host} \cup ({"pool", "ssh"} \X Sessions)]
  <2>1. CASE Fail(s)
    BY <1>1, <2>1, ClosedType DEF Fail, Withdraw
  <2>2. CASE Cleanup(s)
    <3>1. \A S : Ended(S) \in [Ports -> {Free, Host} \cup ({"pool", "ssh"} \X Sessions)]
      BY <1>1, EndedType
    <3>2. \A ports : \A b \in [Ports -> {Free, Host} \cup ({"pool", "ssh"} \X Sessions)] :
            Closed(b, ports, s) \in [Ports -> {Free, Host} \cup ({"pool", "ssh"} \X Sessions)]
      BY DEF Closed
    <3> QED
      BY <2>2, <3>1, <3>2 DEF Cleanup, Withdraw
  <2>3. CASE Release(s)
    BY <1>1, <2>3 DEF Release, PortsTypeOK
  <2> QED
    BY <2>1, <2>2, <2>3
<1>7. PortsTypeOK' /\ TaskInv'
  BY <1>1, <1>3, <1>4, <1>5, <1>6, SocketsChange DEF Sound
<1>8. conn' \in [Sessions -> SUBSET Ports]
  <2>1. UNION prov[s].orig \in SUBSET Ports
    BY <1>1 DEF ProvType
  <2>2. conn[s] \in SUBSET Ports /\ conn \in [Sessions -> SUBSET Ports]
    BY <1>1 DEF RestType
  <2> QED
    BY <2>1, <2>2 DEF Fail, Cleanup, Release, Withdraw, Restore
<1>9. RestType' /\ UNCHANGED lost
  BY <1>1, <1>3, <1>8 DEF RestType, daemon
<1>10. \E label \in Stages : at' = [at EXCEPT ![s] = label]
  BY DEF Fail, Cleanup, Release, Withdraw, Goto, Stages
<1>11. \E new \in ProvType : prov' = [prov EXCEPT ![s] = new]
  <2>1. CASE Release(s)
    <3>1. prov' = [prov EXCEPT ![s] = [prov[s] EXCEPT !.rel = {}]]
      BY <2>1 DEF Release
    <3> QED
      BY <1>1, <3>1, ProvFields
  <2>2. CASE Fail(s) \/ Cleanup(s)
    <3>1. prov[s].res \in SUBSET Ports
      BY <1>1 DEF ProvType
    <3>2. [NoProv EXCEPT !.created = prov[s].created, !.dir = prov[s].dir, !.rel = prov[s].res] \in ProvType
      BY <1>1, <3>1, ProvFields
    <3> QED
      BY <2>2, <3>2 DEF Fail, Cleanup, Withdraw
  <2> QED
    BY <2>1, <2>2
<1>12. \A k \in Tasks : task'[k].s \in {task[k].s, s, Nobody}
  BY <1>3
<1> QED
  BY <1>2, <1>3, <1>4, <1>7, <1>9, <1>10, <1>11, <1>12, SoundBoth

\* Requests nobody waits for, and reconciliation
LEMMA SoundLate ==
  ASSUME Sound, NEW s \in Sessions, LateCreate(s) \/ LateDestroy(s) \/ StaleGc(s)
  PROVE  Sound'
<1>1. /\ at \in [Sessions -> Stages] /\ prov \in [Sessions -> ProvType] /\ RestType /\ PortsTypeOK
      /\ faults \in 0..MaxFaults
  BY TypeParts DEF Sound, PortsTypeOK
<1>2. UNCHANGED <<pool, procs, overlooked, session, ssh, launches>> /\ (Fault \/ NoFault)
  BY DEF LateCreate, LateDestroy, StaleGc, history, NoFault
<1>3. PortsTypeOK' /\ TaskInv' /\ spoiled' \subseteq Sessions
  <2>1. spoiled \subseteq Sessions /\ overlooked \subseteq Sessions
    BY <1>1 DEF PortsTypeOK
  <2>2. spoiled' \subseteq Sessions
    BY <2>1 DEF LateCreate, LateDestroy, StaleGc, Spoil, history
  <2> QED
    BY <1>1, <1>2, <2>1, <2>2, PoolUntouched DEF Sound
<1>4. Identity(s) \in Identities
  BY <1>1, PortAssumption DEF PortsTypeOK, Identity, Identities
<1>5. rt' \in [Sessions -> Identities \cup {NoRuntime}] /\ stuck' \subseteq Sessions
  BY <1>1, <1>4 DEF LateCreate, LateDestroy, StaleGc, RestType
<1>6. /\ lost \in [Sessions -> [create : 0..MaxFaults, destroy : 0..MaxFaults]]
      /\ lost[s].create \in 0..MaxFaults /\ lost[s].destroy \in 0..MaxFaults /\ MaxFaults \in Nat
      /\ \A r \in Sessions : lost[r].create <= faults /\ lost[r].destroy <= faults
  BY <1>1, PortAssumption DEF Sound, CountInv, RestType
<1>7. \/ UNCHANGED lost
      \/ lost[s].create > 0 /\ lost' = [lost EXCEPT ![s] = [create |-> lost[s].create - 1, destroy |-> lost[s].destroy]]
      \/ lost[s].destroy > 0 /\ lost' = [lost EXCEPT ![s] = [create |-> lost[s].create, destroy |-> lost[s].destroy - 1]]
  BY <1>6 DEF LateCreate, LateDestroy, StaleGc
<1>8. lost' \in [Sessions -> [create : 0..MaxFaults, destroy : 0..MaxFaults]]
  BY <1>6, <1>7
<1>9. CountInv'
  <2>1. ASSUME NEW r \in Sessions \ {s}
        PROVE  lost'[r] = lost[r]
    BY <1>6, <1>7
  <2>2. lost'[s].create <= faults /\ lost'[s].destroy <= faults
    BY <1>1, <1>6, <1>7
  <2>3. \A r \in Sessions : lost'[r].create \in 0..MaxFaults /\ lost'[r].destroy \in 0..MaxFaults
    BY <1>8
  <2>4. \A r \in Sessions : lost'[r].create <= faults /\ lost'[r].destroy <= faults
    BY <1>6, <2>1, <2>2
  <2>5. faults <= faults' /\ faults' \in 0..MaxFaults
    BY <1>1, <1>2, FaultCount
  <2> QED
    BY <1>1, <1>6, <2>3, <2>4, <2>5 DEF CountInv
<1>10. RestType'
  BY <1>1, <1>2, <1>5, <1>8 DEF RestType, session
<1>11. TypeOK' /\ LiveInv'
  BY <1>1, <1>2, <1>3, <1>10 DEF TypeOK, RestType, Stages, ProvType, session, Sound, LiveInv, Live, procs, pool
<1> QED
  BY <1>3, <1>9, <1>11 DEF Sound

\* A Jupyter process dies: its tasks go, and a lock that one of them held.
LEMMA TasksDie ==
  ASSUME PortsTypeOK, TaskInv, NEW q \in Procs, ProcessDies(q)
  PROVE  PortsTypeOK' /\ TaskInv'
<1>1. /\ task \in [Tasks -> TaskType] /\ flock \in Tasks \cup {Nobody}
      /\ task' = [k \in Tasks |-> IF task[k].s \in Of(q) THEN NoTask ELSE task[k]]
  BY DEF PortsTypeOK, TaskType, ProcessDies
<1>2. NoTask \in TaskType /\ NoTask.at = "idle"
  BY PortAssumption DEF NoTask, TaskType
<1>3. task' \in [Tasks -> TaskType]
  BY <1>1, <1>2
<1>4. bound' \in [Ports -> {Free, Host} \cup ({"pool", "ssh"} \X Sessions)]
  BY DEF PortsTypeOK, ProcessDies
<1>5. flock' \in Tasks \cup {Nobody}
  BY <1>1 DEF ProcessDies
<1>6. faults' \in 0..MaxFaults
  BY FaultCount DEF PortsTypeOK, ProcessDies
<1>7. UNCHANGED <<files, inc, spoiled, overlooked>> /\ up' \subseteq up
  BY DEF ProcessDies, history
<1>8. PortsTypeOK'
  BY <1>3, <1>4, <1>5, <1>6, <1>7 DEF PortsTypeOK, TaskType
<1>9. ASSUME NEW k \in Tasks, task[k].s \notin Of(q), task[k].at \in Busy
      PROVE  flock' = k
  <2>1. flock = k
    BY <1>9 DEF TaskInv
  <2> QED
    BY <1>9, <2>1 DEF ProcessDies
<1>10. TaskInv'
  BY <1>1, <1>2, <1>9 DEF TaskInv, Busy
<1> QED
  BY <1>8, <1>10

\* A process dies, or its pid is given to a new one.
LEMMA SoundProcess ==
  ASSUME Sound, NEW q \in Procs, Die(q) \/ StartAgain(q)
  PROVE  Sound'
<1>1. /\ at \in [Sessions -> Stages] /\ prov \in [Sessions -> ProvType] /\ RestType /\ PortsTypeOK
      /\ inc \in [Procs -> 1..MaxInc] /\ up \subseteq Procs /\ conn \in [Sessions -> SUBSET Ports]
  BY TypeParts DEF Sound, PortsTypeOK, RestType
<1>2. CASE Die(q)
  <2>1. PortsTypeOK' /\ TaskInv'
    BY <1>1, <1>2, TasksDie DEF Die, Sound
  <2>2. /\ at' = [s \in Sessions |-> IF s \in Of(q) THEN "idle" ELSE at[s]]
        /\ prov' = [s \in Sessions |-> IF s \in Of(q) THEN NoProv ELSE prov[s]]
        /\ conn' = [s \in Sessions |-> IF s \in Of(q) THEN {} ELSE conn[s]]
        /\ UNCHANGED <<ssh, daemon, launches>>
    BY <1>2 DEF Die
  <2>3. NoProv \in ProvType /\ "idle" \in Stages
    BY DEF NoProv, ProvType, Stages
  <2>4. TypeOK'
    BY <1>1, <2>1, <2>2, <2>3 DEF TypeOK, RestType, Stages, ProvType, daemon
  <2>5. CountInv'
    BY <1>2, CountKept DEF Die, ProcessDies, daemon, Sound
  <2>6. ASSUME NEW s \in Sessions
        PROVE  Live(s)' \/ (at'[s] = "idle" /\ prov'[s] = NoProv /\ \A k \in Tasks : task'[k].s # s)
    <3>1. CASE s \in Of(q)
      <4>1. \A k \in Tasks : task'[k].s # s
        BY <1>2, <3>1, PortAssumption DEF Die, ProcessDies, NoTask
      <4> QED
        BY <2>2, <3>1, <4>1
    <3>2. CASE s \notin Of(q)
      <4>1. Live(s)' = Live(s)
        BY <1>2, <3>2 DEF Die, ProcessDies, Live, Of
      <4>2. \A k \in Tasks : task[k].s # s => task'[k].s # s
        BY <1>2, PortAssumption DEF Die, ProcessDies, NoTask
      <4> QED
        BY <2>2, <3>2, <4>1, <4>2 DEF Sound, LiveInv
    <3> QED
      BY <3>1, <3>2
  <2> QED
    BY <2>1, <2>4, <2>5, <2>6 DEF Sound, LiveInv
<1>3. CASE StartAgain(q)
  <2>1. /\ UNCHANGED <<pool, faults, history, session, ssh, daemon, launches>>
        /\ inc[q] < MaxInc /\ inc' = [inc EXCEPT ![q] = @ + 1] /\ up' = up \cup {q}
    BY <1>3 DEF StartAgain, ProcessStarts
  <2>2. inc' \in [Procs -> 1..MaxInc]
    BY <1>1, <2>1, PortAssumption
  <2>3. PortsTypeOK'
    BY <1>1, <2>1, <2>2 DEF PortsTypeOK, pool, history
  <2>4. TypeOK'
    BY <1>1, <2>1, <2>3 DEF TypeOK, RestType, Stages, ProvType, session, daemon
  <2>5. TaskInv' /\ CountInv'
    BY <2>1 DEF Sound, TaskInv, CountInv, pool, daemon
  <2>6. LiveInv'
    BY <2>1 DEF Sound, LiveInv, Live, pool, session
  <2> QED
    BY <2>4, <2>5, <2>6 DEF Sound
<1> QED
  BY <1>2, <1>3

\* allocate, and strangers on the ports
LEMMA SoundPool ==
  ASSUME Sound, (\E k \in Tasks : Allocating(k)) \/ (\E p \in Ports : StrangerActs(p))
  PROVE  Sound'
<1>1. /\ at \in [Sessions -> Stages] /\ prov \in [Sessions -> ProvType] /\ RestType /\ PortsTypeOK
  BY TypeParts DEF Sound
<1>2. UNCHANGED <<session, ssh, daemon, launches>>
  BY DEF Allocating, StrangerActs
<1>3. /\ PortsTypeOK' /\ TaskInv' /\ UNCHANGED procs
      /\ \A k \in Tasks : task'[k].s = task[k].s
      /\ faults' \in 0..MaxFaults /\ faults <= faults'
  <2>1. ASSUME NEW k \in Tasks, AllocateStep(k)
        PROVE  /\ PortsTypeOK' /\ TaskInv' /\ UNCHANGED procs
               /\ \A j \in Tasks : task'[j].s = task[j].s
               /\ faults' \in 0..MaxFaults /\ faults <= faults'
    <3>1. PICK new \in TaskType : task' = [task EXCEPT ![k] = new] /\ new.s = task[k].s
      BY <1>1, <2>1, AllocateTask DEF Sound
    <3>2. \A j \in Tasks : task'[j].s = task[j].s
      BY <1>1, <3>1, TaskSet
    <3> QED
      BY <1>1, <2>1, <3>2, AllocateType, AllocatePool DEF Sound
  <2>2. ASSUME NEW p \in Ports, Stranger(p)
        PROVE  /\ PortsTypeOK' /\ TaskInv' /\ UNCHANGED procs
               /\ \A j \in Tasks : task'[j].s = task[j].s
               /\ faults' \in 0..MaxFaults /\ faults <= faults'
    <3>1. bound' \in [Ports -> {Free, Host} \cup ({"pool", "ssh"} \X Sessions)]
      BY <1>1, <2>2 DEF Stranger, PortsTypeOK
    <3>2. UNCHANGED <<files, flock, task, procs, history>> /\ (Fault \/ NoFault)
      BY <2>2 DEF Stranger
    <3>3. spoiled' \subseteq Sessions /\ overlooked' \subseteq Sessions /\ faults \in 0..MaxFaults
      BY <1>1, <3>2 DEF PortsTypeOK, history
    <3> QED
      BY <1>1, <3>1, <3>2, <3>3, SocketsChange, FaultCount DEF Sound
  <2> QED
    BY <2>1, <2>2 DEF Allocating, StrangerActs
<1>4. TypeOK'
  BY <1>1, <1>2, <1>3 DEF TypeOK, RestType, Stages, ProvType, session, daemon
<1>5. LiveInv'
  BY <1>2, <1>3 DEF Sound, LiveInv, Live, procs, session
<1>6. CountInv'
  <2>1. \A s \in Sessions : lost[s].create \in Int /\ lost[s].destroy \in Int /\ faults \in Int
    BY <1>1, PortAssumption DEF RestType, PortsTypeOK
  <2>2. UNCHANGED lost /\ faults' \in Int
    BY <1>2, <1>3, PortAssumption DEF daemon
  <2> QED
    BY <1>3, <2>1, <2>2 DEF Sound, CountInv
<1> QED
  BY <1>3, <1>4, <1>5, <1>6 DEF Sound

\* Any step.
LEMMA SoundStep ==
  ASSUME Sound, [Next]_vars
  PROVE  Sound'
<1>1. CASE UNCHANGED vars
  BY <1>1 DEF vars, Sound, TypeOK, PortsTypeOK, TaskInv, LiveInv, Live, CountInv
<1>2. CASE Next
  BY <1>2, SoundMoves, SoundDaemon, SoundCreateAnswered, SoundPrepared, SoundSsh, SoundCleanup,
     SoundLate, SoundProcess, SoundPool
     DEF Next, SessionStep, TaskStep
<1> QED
  BY <1>1, <1>2

\* No session has been launched.
LEMMA SoundInit ==
  ASSUME Init
  PROVE  Sound
<1>1. NoTask \in TaskType /\ NoTask.at = "idle" /\ NoProv \in ProvType /\ "idle" \in Stages
  BY PortAssumption DEF NoTask, TaskType, NoProv, ProvType, Stages
<1>2. PortsTypeOK
  BY <1>1, PortAssumption DEF Init, PortsInit, PortsTypeOK, TaskType
<1>3. RestType
  BY PortAssumption, ProvisionerAssumption DEF Init, RestType
<1>4. at \in [Sessions -> Stages] /\ prov \in [Sessions -> ProvType]
  BY <1>1 DEF Init
<1>5. TaskInv
  BY <1>1 DEF Init, PortsInit, TaskInv, Busy
<1>6. LiveInv /\ CountInv
  BY PortAssumption DEF Init, PortsInit, LiveInv, Live, CountInv
<1> QED
  BY <1>2, <1>3, <1>4, <1>5, <1>6, TypeParts DEF Sound

\* The invariant of the provisioner that everything else rests on.
LEMMA SoundInvariant == Spec => []Sound
<1>1. Init => Sound
  BY SoundInit
<1>2. Sound /\ [Next]_vars => Sound'
  BY SoundStep
<1> QED
  BY <1>1, <1>2, PTL DEF Spec

\* Every variable keeps its type, whatever fails and whoever dies: no search leaves the
\* range of ports and no count of lost requests its bound (allocate, pre_launch, cleanup).
THEOREM ProvisionerTypeCorrect == Spec => []TypeOK
<1>1. Sound => TypeOK
  BY DEF Sound
<1> QED
  BY <1>1, SoundInvariant, PTL

-----------------------------------------------------------------------------
(* No tunnel port is held by two sessions.  The inductive invariant says why: *)
(* what a session holds is leased to it by a file, a port has one file at     *)
(* most, and the file is dead when another session claims it.                 *)

\* A lease file names a process of its session, of an incarnation that has been.
FilesDated == \A f \in files : f.id[1] = ProcOf[f.s] /\ f.id[2] <= inc[f.id[1]]

\* A port has one lease file at most.
OneLease == \A f, g \in files : f.port = g.port => f = g

\* A port that a search has passed to the bind has no live owner that was seen.
Checked ==
  \A k \in Tasks :
    task[k].at \in {"bind", "claim"} => \A f \in Owners(Candidate(k)) : f.s \in overlooked

\* A session holds each of its ports once.
Apart(s) ==
  /\ prov[s].res \cap prov[s].rel = {}
  /\ \A k \in Tasks : task[k].s = s => task[k].got \cap (prov[s].res \cup prov[s].rel) = {}
  /\ \A j, k \in Tasks : j # k /\ task[j].s = s /\ task[k].s = s => task[j].got \cap task[k].got = {}

\* What a session holds is leased to its process.
Leased ==
  \A s \in Sessions \ overlooked : Apart(s) /\ \A p \in Held(s) : Lease(p, s) \in files

LeaseInv == FilesDated /\ OneLease /\ Checked /\ Leased

\* A port that a session holds is in its reservation, being released, or in one of its
\* allocate calls.
LEMMA HeldBy ==
  ASSUME NEW s, NEW p
  PROVE  /\ p \in Held(s) <=> \/ p \in prov[s].res \/ p \in prov[s].rel
                              \/ \E k \in Tasks : task[k].s = s /\ p \in task[k].got
         /\ p \in Held(s)' <=> \/ p \in prov'[s].res \/ p \in prov'[s].rel
                               \/ \E k \in Tasks : task'[k].s = s /\ p \in task'[k].got
BY DEF Held

\* Who holds a port lives, and its lease is alive.
LEMMA HolderAlive ==
  ASSUME Sound, LeaseInv, NEW s \in Sessions \ overlooked, NEW p \in Held(s)
  PROVE  Lease(p, s) \in Owners(p)
<1>1. Lease(p, s) \in files
  BY DEF LeaseInv, Leased
<1>2. Live(s)
  <2>1. ASSUME prov[s] = NoProv, \A k \in Tasks : task[k].s # s
        PROVE  FALSE
    BY <2>1, HeldBy DEF NoProv
  <2> QED
    BY <2>1 DEF Sound, LiveInv
<1> QED
  BY <1>1, <1>2 DEF Lease, Owners, Leases, Alive, Identity, Live

\* A port that is being claimed is held by nobody (allocate).
LEMMA ClaimedIsFree ==
  ASSUME Sound, LeaseInv, NEW k \in Tasks, task[k].at \in {"bind", "claim"},
         NEW s \in Sessions \ overlooked
  PROVE  Candidate(k) \notin Held(s)
<1>1. ASSUME Candidate(k) \in Held(s)
      PROVE  FALSE
  <2>1. Lease(Candidate(k), s) \in Owners(Candidate(k))
    BY <1>1, HolderAlive
  <2>2. Lease(Candidate(k), s).s \in overlooked
    BY <2>1 DEF LeaseInv, Checked
  <2> QED
    BY <2>2 DEF Lease
<1> QED
  BY <1>1

\* A step that neither touches the leases nor moves a port.
LEMMA HoldingsKept ==
  ASSUME LeaseInv, UNCHANGED <<files, inc, up>>, overlooked \subseteq overlooked',
         \A s \in Sessions : prov'[s].res = prov[s].res /\ prov'[s].rel = prov[s].rel,
         \A k \in Tasks :
           task'[k].got = task[k].got /\ (task'[k].s = task[k].s \/ task[k].got = {})
  PROVE  FilesDated' /\ OneLease' /\ Leased'
<1>1. FilesDated' /\ OneLease'
  BY DEF LeaseInv, FilesDated, OneLease
<1>2. ASSUME NEW s \in Sessions \ overlooked'
      PROVE  Apart(s)' /\ \A p \in Held(s)' : (Lease(p, s) \in files)'
  <2>1. Apart(s) /\ \A p \in Held(s) : Lease(p, s) \in files
    BY <1>2 DEF LeaseInv, Leased
  <2>2. Apart(s)'
    BY <1>2, <2>1 DEF Apart
  <2>3. \A p : p \in Held(s)' => p \in Held(s)
    BY <1>2, HeldBy
  <2>4. \A p : Lease(p, s)' = Lease(p, s)
    BY DEF Lease, Identity
  <2> QED
    BY <2>1, <2>2, <2>3, <2>4
<1> QED
  BY <1>1, <1>2 DEF Leased

\* The same, and no search has gone on to a bind.
LEMMA LeasesKept ==
  ASSUME LeaseInv, UNCHANGED <<files, inc, up>>, overlooked \subseteq overlooked',
         \A s \in Sessions : prov'[s].res = prov[s].res /\ prov'[s].rel = prov[s].rel,
         \A k \in Tasks :
           /\ task'[k].got = task[k].got /\ (task'[k].s = task[k].s \/ task[k].got = {})
           /\ task'[k].at \in {"bind", "claim"} =>
                /\ task[k].at \in {"bind", "claim"}
                /\ task'[k].i = task[k].i /\ task'[k].s = task[k].s
  PROVE  LeaseInv'
<1>1. ASSUME NEW k \in Tasks, task'[k].at \in {"bind", "claim"}
      PROVE  \A f \in Owners(Candidate(k))' : f.s \in overlooked'
  <2>1. task[k].at \in {"bind", "claim"} /\ Candidate(k)' = Candidate(k)
    BY <1>1 DEF Candidate
  <2>2. Owners(Candidate(k))' = Owners(Candidate(k))
    BY <2>1 DEF Owners, Leases, Alive
  <2> QED
    BY <2>1, <2>2 DEF LeaseInv, Checked
<1> QED
  BY <1>1, HoldingsKept DEF LeaseInv, Checked

\* A step that gives up ports of a session, or moves them from an allocate call to the
\* reservation or from there to the release, and drops no lease of what is still held.
LEMMA PortsMove ==
  ASSUME LeaseInv, UNCHANGED <<inc, up>>, files' \subseteq files, overlooked \subseteq overlooked',
         NEW s \in Sessions,
         \A r \in Sessions \ {s} : prov'[r].res = prov[r].res /\ prov'[r].rel = prov[r].rel,
         \A k \in Tasks :
           \/ task'[k] = task[k]
           \/ task[k].s = s /\ task'[k].s \in {s, Nobody} /\ task'[k].at \notin {"bind", "claim"},
         s \notin overlooked => Apart(s)' /\ Held(s)' \subseteq Held(s),
         \A f \in files \ files' : f.s = s /\ (s \notin overlooked => f.port \notin Held(s)')
  PROVE  LeaseInv'
<1>1. FilesDated' /\ OneLease'
  BY DEF LeaseInv, FilesDated, OneLease
<1>2. ASSUME NEW k \in Tasks, task'[k].at \in {"bind", "claim"}
      PROVE  \A f \in Owners(Candidate(k))' : f.s \in overlooked'
  <2>1. task[k].at \in {"bind", "claim"} /\ Candidate(k)' = Candidate(k)
    BY <1>2 DEF Candidate
  <2>2. \A p : Owners(p)' \subseteq Owners(p)
    BY DEF Owners, Leases, Alive
  <2>3. Owners(Candidate(k))' \subseteq Owners(Candidate(k))
    BY <2>1, <2>2
  <2> QED
    BY <2>1, <2>3 DEF LeaseInv, Checked
<1>3. ASSUME NEW r \in Sessions \ overlooked'
      PROVE  Apart(r)' /\ \A p \in Held(r)' : (Lease(p, r) \in files)'
  <2>1. r \notin overlooked /\ Apart(r) /\ \A p \in Held(r) : Lease(p, r) \in files
    BY <1>3 DEF LeaseInv, Leased
  <2>2. \A p : Lease(p, r)' = Lease(p, r)
    BY DEF Lease, Identity
  <2>3. CASE r = s
    <3>1. Apart(s)' /\ Held(s)' \subseteq Held(s)
      BY <2>1, <2>3
    <3>2. \A p \in Held(s)' : Lease(p, s) \in files /\ Lease(p, s).port = p
      BY <2>1, <2>3, <3>1 DEF Lease
    <3>3. \A p \in Held(s)' : Lease(p, s) \in files'
      BY <2>1, <2>3, <3>2
    <3> QED
      BY <2>2, <2>3, <3>1, <3>3
  <2>4. CASE r # s
    <3>1. \A k \in Tasks : task'[k].s = r => task[k].s = r /\ task'[k].got = task[k].got
      BY <1>3, <2>4, PortAssumption
    <3>2. Apart(r)'
      BY <1>3, <2>1, <2>4, <3>1 DEF Apart
    <3>3. \A p : p \in Held(r)' => p \in Held(r)
      BY <1>3, <2>4, <3>1, HeldBy
    <3>4. \A p \in Held(r) : Lease(p, r) \in files'
      BY <2>1, <2>4 DEF Lease
    <3> QED
      BY <2>2, <3>2, <3>3, <3>4
  <2> QED
    BY <2>3, <2>4
<1> QED
  BY <1>1, <1>2, <1>3 DEF LeaseInv, Checked, Leased

-----------------------------------------------------------------------------
(* allocate *)

\* What an allocate call does to the rest of its record when it changes its label or
\* goes on to the next port.
LEMMA OneTask ==
  ASSUME PortsTypeOK, NEW k \in Tasks, (\E label : Step(k, label)) \/ NextPort(k)
  PROVE  /\ \A j \in Tasks : task'[j].s = task[j].s /\ task'[j].got = task[j].got
         /\ \A j \in Tasks \ {k} : task'[j] = task[j]
         /\ \A label : Step(k, label) => task'[k].at = label /\ task'[k].i = task[k].i
         /\ NextPort(k) => task'[k].at = "look"
<1>1. task \in [Tasks -> TaskType]
  BY DEF PortsTypeOK, TaskType
<1> QED
  BY <1>1, TaskFields

\* The lease of a candidate is written or taken away, by the only call that may.
LEMMA LeaseWritten ==
  ASSUME Sound, LeaseInv, NEW k \in Tasks, task[k].at = "claim",
         UNCHANGED <<inc, up, overlooked, prov>>,
         NEW new, task' = [task EXCEPT ![k] = new],
         new.s = task[k].s, new.at \notin {"bind", "claim"},
         \/ /\ new.got = task[k].got
            /\ files' \in {files \ Leases(Candidate(k)),
                           (files \ Leases(Candidate(k))) \cup {Lease(Candidate(k), task[k].s)}}
         \/ /\ new.got = task[k].got \cup {Candidate(k)}
            /\ files' = (files \ Leases(Candidate(k))) \cup {Lease(Candidate(k), task[k].s)}
  PROVE  LeaseInv'
<1> DEFINE p == Candidate(k)
<1> DEFINE s == task[k].s
<1>1. /\ task \in [Tasks -> TaskType] /\ s \in Sessions
      /\ task'[k] = new /\ \A j \in Tasks \ {k} : task'[j] = task[j]
  BY DEF Sound, TypeOK, PortsTypeOK, TaskType, TaskInv
<1>2. /\ Lease(p, s).port = p /\ Lease(p, s).s = s
      /\ Lease(p, s).id = <<ProcOf[s], inc[ProcOf[s]]>> /\ ProcOf[s] \in Procs
  BY <1>1, PortAssumption DEF Lease, Identity
<1>3. files' \subseteq (files \ Leases(p)) \cup {Lease(p, s)}
  OBVIOUS
<1> HIDE DEF p, s
<1>4. FilesDated'
  <2>1. inc[ProcOf[s]] \in Int
    BY <1>2 DEF Sound, TypeOK, PortsTypeOK
  <2> QED
    BY <1>2, <1>3, <2>1 DEF LeaseInv, FilesDated
<1>5. OneLease'
  BY <1>2, <1>3 DEF LeaseInv, OneLease, Leases
<1>6. \A j \in Tasks : task'[j].at \notin {"bind", "claim"}
  <2>1. \A j \in Tasks \ {k} : task[j].at \notin {"bind", "claim"}
    BY DEF Sound, TaskInv, Busy
  <2> QED
    BY <1>1, <2>1
<1>7. Checked'
  BY <1>6 DEF Checked
<1>8. ASSUME NEW r \in Sessions \ overlooked
      PROVE  Apart(r)' /\ \A x \in Held(r)' : (Lease(x, r) \in files)'
  <2>1. Apart(r) /\ \A x \in Held(r) : Lease(x, r) \in files
    BY <1>8 DEF LeaseInv, Leased
  <2>2. p \notin Held(r)
    BY <1>8, ClaimedIsFree DEF p
  <2>3. p \notin prov[r].res \cup prov[r].rel /\ \A j \in Tasks : task[j].s = r => p \notin task[j].got
    BY <2>2, HeldBy
  <2>4. \A x : Lease(x, r)' = Lease(x, r)
    BY DEF Lease, Identity
  <2>5. \A x \in Held(r) : Lease(x, r) \in files'
    <3>1. \A x \in Held(r) : Lease(x, r) \in files /\ Lease(x, r).port # p
      BY <2>1, <2>2 DEF Lease
    <3>2. files \ Leases(p) \subseteq files'
      BY DEF p
    <3> QED
      BY <3>1, <3>2 DEF Leases
  <2>6. \A j \in Tasks : /\ task'[j].s = task[j].s
                         /\ j # k => task'[j].got = task[j].got
    BY <1>1 DEF s
  <2>7. CASE new.got = task[k].got
    <3>1. \A j \in Tasks : task'[j].got = task[j].got
      BY <1>1, <2>7
    <3>2. Apart(r)'
      BY <2>1, <2>6, <3>1 DEF Apart
    <3>3. \A x : x \in Held(r)' => x \in Held(r)
      BY <2>6, <3>1, HeldBy
    <3> QED
      BY <2>4, <2>5, <3>2, <3>3
  <2>8. CASE new.got = task[k].got \cup {p} /\ Lease(p, s) \in files'
    <3>1. Apart(r)'
      BY <1>1, <2>1, <2>3, <2>6, <2>8 DEF Apart
    <3>2. \A x : x \in Held(r)' => x \in Held(r) \/ (x = p /\ r = s)
      BY <1>1, <2>6, <2>8, HeldBy DEF s
    <3> QED
      BY <2>4, <2>5, <2>8, <3>1, <3>2
  <2> QED
    BY <2>7, <2>8 DEF p, s
<1> QED
  BY <1>4, <1>5, <1>7, <1>8 DEF LeaseInv, Leased

\* A step of an allocate call.
LEMMA LeasesAllocate ==
  ASSUME Sound, LeaseInv, NEW k \in Tasks, AllocateStep(k), UNCHANGED prov
  PROVE  LeaseInv'
<1>1. PortsTypeOK /\ UNCHANGED <<inc, up>> /\ overlooked \subseteq overlooked'
  BY AllocatePool DEF Sound, TypeOK, procs
<1>2. task \in [Tasks -> TaskType] /\ task[k] \in TaskType /\ (task[k].at # "idle" => task[k].s \in Sessions)
  BY <1>1 DEF PortsTypeOK, TaskType, Sound, TaskInv
<1>3. CASE Enter(k) \/ Exhausted(k)
  <2>1. UNCHANGED files /\ \E label \in {"look", "failed", "undo"} : Step(k, label)
    BY <1>3 DEF Enter, Exhausted
  <2>2. \A j \in Tasks : /\ task'[j].s = task[j].s /\ task'[j].got = task[j].got
                         /\ task'[j].at \in {"bind", "claim"} =>
                              task[j].at \in {"bind", "claim"} /\ task'[j].i = task[j].i
    BY <1>1, <2>1, OneTask
  <2> QED
    BY <1>1, <2>1, <2>2, LeasesKept
<1>4. CASE Look(k)
  <2>1. UNCHANGED files /\ (Step(k, "bind") \/ NextPort(k))
    BY <1>4 DEF Look
  <2>2. /\ \A j \in Tasks : task'[j].s = task[j].s /\ task'[j].got = task[j].got
        /\ \A j \in Tasks \ {k} : task'[j] = task[j]
    BY <1>1, <2>1, OneTask
  <2>3. CASE NextPort(k)
    <3>1. \A j \in Tasks : task'[j].at \in {"bind", "claim"} =>
                              task[j].at \in {"bind", "claim"} /\ task'[j].i = task[j].i
      BY <1>1, <2>2, <2>3, OneTask
    <3> QED
      BY <1>1, <2>1, <2>2, <3>1, LeasesKept
  <2>4. CASE Step(k, "bind")
    <3>1. task'[k].at = "bind" /\ task'[k].i = task[k].i
      BY <1>1, <2>4, OneTask
    <3>2. \A f \in Owners(Candidate(k)) : f.s \in overlooked'
      <4>1. ~NextPort(k)
        BY <1>1, <3>1, OneTask
      <4> QED
        BY <1>4, <4>1 DEF Look
    <3>3. \A j \in Tasks : task'[j].i = task[j].i
      BY <2>2, <3>1
    <3>4. \A j \in Tasks : Candidate(j)' = Candidate(j)
      BY <2>2, <3>3 DEF Candidate
    <3>5. \A x : Owners(x)' = Owners(x)
      BY <1>1, <2>1 DEF Owners, Leases, Alive
    <3>6. Checked'
      BY <1>1, <2>2, <3>2, <3>4, <3>5 DEF Checked, LeaseInv
    <3> QED
      BY <1>1, <2>1, <2>2, <3>6, HoldingsKept DEF LeaseInv
  <2> QED
    BY <2>1, <2>3, <2>4
<1>5. CASE Bind(k)
  <2>1. UNCHANGED files /\ (Step(k, "claim") \/ NextPort(k)) /\ task[k].at = "bind"
    BY <1>5 DEF Bind
  <2>2. \A j \in Tasks : /\ task'[j].s = task[j].s /\ task'[j].got = task[j].got
                         /\ task'[j].at \in {"bind", "claim"} =>
                              task[j].at \in {"bind", "claim"} /\ task'[j].i = task[j].i
    BY <1>1, <2>1, OneTask
  <2> QED
    BY <1>1, <2>1, <2>2, LeasesKept
<1>6. CASE Claim(k)
  <2> DEFINE got == task[k].got \cup {Candidate(k)}
  <2> DEFINE new == [task[k] EXCEPT !.got = got,
                       !.at = IF Cardinality(got) = Need THEN "done" ELSE "look", !.i = @ + 1]
  <2>1. task' = [task EXCEPT ![k] = new]
    BY <1>2, <1>6 DEF Claim
  <2>2. new.s = task[k].s /\ new.at \in {"done", "look"} /\ new.got = got
    BY <1>2 DEF TaskType
  <2>3. files' = (files \ Leases(Candidate(k))) \cup {Lease(Candidate(k), task[k].s)}
    BY <1>6 DEF Claim
  <2>4. task[k].at = "claim" /\ UNCHANGED overlooked
    BY <1>6 DEF Claim, history
  <2> HIDE DEF new
  <2> QED
    BY <1>1, <2>1, <2>2, <2>3, <2>4, LeaseWritten
<1>7. CASE ClaimFails(k)
  <2> DEFINE new == [at |-> "undo", s |-> task[k].s, i |-> task[k].i, got |-> task[k].got]
  <2>1. task' = [task EXCEPT ![k] = new]
    BY <1>1, <1>7, TaskFields DEF ClaimFails
  <2>2. new.s = task[k].s /\ new.at = "undo" /\ new.got = task[k].got
    OBVIOUS
  <2>3. files' \in {files \ Leases(Candidate(k)),
                    (files \ Leases(Candidate(k))) \cup {Lease(Candidate(k), task[k].s)}}
    BY <1>7 DEF ClaimFails
  <2>4. task[k].at = "claim" /\ UNCHANGED overlooked
    BY <1>7 DEF ClaimFails
  <2> HIDE DEF new
  <2> QED
    BY <1>1, <2>1, <2>2, <2>3, <2>4, LeaseWritten
<1>8. CASE Undo(k)
  <2>1. PICK s \in Sessions : s = task[k].s
    BY <1>2, <1>8 DEF Undo
  <2>2. /\ task'[k].at = "failed" /\ task'[k].s = s /\ task'[k].got = {}
        /\ \A j \in Tasks \ {k} : task'[j] = task[j]
    BY <1>2, <1>8, <2>1 DEF Undo, TaskType
  <2>3. \E some \in SUBSET task[k].got : files' = files \ {Lease(p, s) : p \in some}
    BY <1>8, <2>1 DEF Undo, Unlinked
  <2>4. \A f \in files \ files' : f.s = s /\ f.port \in task[k].got
    BY <2>3 DEF Lease
  <2>5. \A j \in Tasks : task'[j].s = task[j].s /\ task'[j].got \in {task[j].got, {}}
    BY <2>1, <2>2
  <2>6. \A p : p \in Held(s)' => p \in Held(s)
    BY <2>1, <2>2, <2>5, HeldBy
  <2>7. ASSUME s \notin overlooked
        PROVE  Apart(s)' /\ \A p \in task[k].got : p \notin Held(s)'
    <3>1. Apart(s)
      BY <2>1, <2>7 DEF LeaseInv, Leased
    <3>2. Apart(s)'
      BY <2>1, <2>2, <2>5, <3>1 DEF Apart
    <3>3. \A p \in task[k].got : p \notin prov[s].res \cup prov[s].rel
      BY <2>1, <3>1 DEF Apart
    <3>4. \A j \in Tasks \ {k} : task[j].s = s => task[k].got \cap task[j].got = {}
      BY <2>1, <3>1 DEF Apart
    <3>5. \A p \in task[k].got, j \in Tasks : task'[j].s = s => p \notin task'[j].got
      BY <2>2, <3>4
    <3>6. ASSUME NEW p \in task[k].got, p \in Held(s)'
          PROVE  FALSE
      <4>1. \E j \in Tasks : task'[j].s = s /\ p \in task'[j].got
        BY <3>3, <3>6, HeldBy
      <4> QED
        BY <3>5, <4>1
    <3> QED
      BY <3>2, <3>6
  <2>8. \A j \in Tasks :
          \/ task'[j] = task[j]
          \/ task[j].s = s /\ task'[j].s \in {s, Nobody} /\ task'[j].at \notin {"bind", "claim"}
    BY <2>1, <2>2
  <2>9. files' \subseteq files /\ UNCHANGED prov
    BY <2>3
  <2>10. \A r \in Sessions \ {s} : prov'[r].res = prov[r].res /\ prov'[r].rel = prov[r].rel
    BY <2>9
  <2>11. s \notin overlooked => Apart(s)' /\ Held(s)' \subseteq Held(s)
    BY <2>6, <2>7
  <2>12. \A f \in files \ files' : f.s = s /\ (s \notin overlooked => f.port \notin Held(s)')
    BY <2>4, <2>7
  <2> QED
    BY <1>1, <2>1, <2>8, <2>9, <2>10, <2>11, <2>12, PortsMove
<1> QED
  BY <1>3, <1>4, <1>5, <1>6, <1>7, <1>8 DEF AllocateStep

-----------------------------------------------------------------------------
(* The provisioner *)

\* The steps that take no port and give none up.
LEMMA LeasesSession ==
  ASSUME Sound, LeaseInv, NEW s \in Sessions,
         \/ PreLaunch(s) \/ CreateAnswered(s) \/ NotUsable(s) \/ CreateRefused(s) \/ CreateHangs(s)
         \/ CreateGivenUp(s) \/ SshReady(s) \/ Stage(s) \/ Launch(s)
         \/ NoDestroy(s) \/ DestroyAnswered(s) \/ DestroyGivenUp(s)
         \/ LateCreate(s) \/ LateDestroy(s) \/ StaleGc(s)
  PROVE  LeaseInv'
<1>1. prov \in [Sessions -> ProvType] /\ PortsTypeOK /\ task \in [Tasks -> TaskType]
  BY TypeParts DEF Sound, PortsTypeOK, TaskType
<1>2. UNCHANGED <<files, inc, up>> /\ UNCHANGED overlooked
  BY DEF PreLaunch, CreateAnswered, Call, NotUsable, CreateRefused, CreateHangs, CreateGivenUp, GiveUp,
     SshReady, Stage, Launch, NoDestroy, DestroyAnswered, DestroyGivenUp, LateCreate, LateDestroy, StaleGc,
     procs, pool, history, session
<1>3. \A r \in Sessions : prov'[r].res = prov[r].res /\ prov'[r].rel = prov[r].rel
  <2>1. \/ UNCHANGED prov
        \/ prov' = [prov EXCEPT ![s].dir = TRUE]
        \/ prov' = [prov EXCEPT ![s].created = TRUE]
        \/ prov' = [prov EXCEPT ![s].ready = TRUE]
        \/ \E k \in Tasks : prov' = [prov EXCEPT ![s].created = TRUE, ![s].mine = k]
        \/ prov' = [prov EXCEPT ![s].staged = conn[s], ![s].mine = Nobody]
        \/ prov' = [prov EXCEPT ![s].created = FALSE, ![s].dir = FALSE]
    BY DEF PreLaunch, CreateAnswered, NotUsable, CreateRefused, CreateHangs, CreateGivenUp,
       SshReady, Stage, Copy, Launch, NoDestroy, DestroyAnswered, DestroyGivenUp, Finished,
       LateCreate, LateDestroy, StaleGc, session
  <2> QED
    BY <1>1, <2>1 DEF ProvType
<1>4. ASSUME NEW k \in Tasks
      PROVE  /\ task'[k].got = task[k].got /\ (task'[k].s = task[k].s \/ task[k].got = {})
             /\ task'[k].at \in {"bind", "claim"} =>
                  /\ task[k].at \in {"bind", "claim"}
                  /\ task'[k].i = task[k].i /\ task'[k].s = task[k].s
  <2>1. CASE CreateAnswered(s)
    <3>1. PICK j \in Tasks : Call(j, s)
      BY <2>1 DEF CreateAnswered
    <3>2. task[j].got = {}
      BY <3>1 DEF Call, Sound, TaskInv, NoTask
    <3>3. \E label \in {"wait", "failed"} : task' = [task EXCEPT ![j] = [NoTask EXCEPT !.at = label, !.s = s]]
      BY <3>1 DEF Call
    <3>4. \A label \in {"wait", "failed"} :
            /\ [NoTask EXCEPT !.at = label, !.s = s].got = {}
            /\ [NoTask EXCEPT !.at = label, !.s = s].at = label
      BY DEF NoTask
    <3>5. k # j => task'[k] = task[k]
      BY <1>1, <3>3
    <3>6. k = j => task'[k].got = {} /\ task'[k].at \in {"wait", "failed"}
      BY <1>1, <3>3, <3>4
    <3> QED
      BY <3>2, <3>5, <3>6
  <2>2. CASE UNCHANGED task
    BY <2>2
  <2> QED
    BY <2>1, <2>2
     DEF PreLaunch, NotUsable, CreateRefused, CreateHangs, CreateGivenUp, SshReady, Stage, Launch, NoDestroy,
     DestroyAnswered, DestroyGivenUp, LateCreate, LateDestroy, StaleGc, pool
<1> QED
  BY <1>2, <1>3, <1>4, LeasesKept

\* The ssh processes and strangers have sockets, not leases.
LEMMA LeasesOthers ==
  ASSUME Sound, LeaseInv,
         (\E t \in ssh : SshBinds(t) \/ SshEnds(t)) \/ (\E p \in Ports : StrangerActs(p)) \/ UNCHANGED vars
  PROVE  LeaseInv'
<1>1. UNCHANGED <<files, inc, up, overlooked, task, prov>>
  BY DEF SshBinds, SshEnds, StrangerActs, Stranger, vars, procs, history, session
<1> QED
  BY <1>1, LeasesKept

\* The ports of an allocate call become the reservation, or the call is forgotten.
LEMMA LeasesPrepared ==
  ASSUME Sound, LeaseInv, NEW k \in Tasks, Prepared(k) \/ NotReserved(k)
  PROVE  LeaseInv'
<1>1. PICK s \in Sessions : s = task[k].s
  BY DEF Prepared, NotReserved, Sound, TaskInv
<1>2. prov \in [Sessions -> ProvType] /\ task \in [Tasks -> TaskType]
  BY TypeParts DEF Sound, PortsTypeOK, TaskType
<1>3. UNCHANGED <<files, inc, up, overlooked>>
  BY DEF Prepared, NotReserved, procs, history
<1>4. /\ task'[k] = NoTask /\ NoTask.s = Nobody /\ NoTask.at = "idle"
      /\ \A j \in Tasks \ {k} : task'[j] = task[j]
  BY <1>2 DEF Prepared, NotReserved, NoTask
<1>5. \A r \in Sessions \ {s} : prov'[r].res = prov[r].res /\ prov'[r].rel = prov[r].rel
  BY <1>1, <1>2 DEF Prepared, NotReserved, Rewrite, RewriteRaises
<1>6. prov'[s].res \in {prov[s].res, task[k].got} /\ prov'[s].rel = prov[s].rel
  <2>1. CASE NotReserved(k)
    BY <2>1 DEF NotReserved
  <2>2. CASE Prepared(k)
    BY <1>1, <1>2, <2>2 DEF Prepared, Rewrite, RewriteRaises, ProvType
  <2> QED
    BY <2>1, <2>2
<1>7. \A j \in Tasks : task'[j].s = s => j # k /\ task[j].s = s /\ task'[j].got = task[j].got
  BY <1>4, PortAssumption
<1>8. ASSUME s \notin overlooked
      PROVE  Apart(s)'
  <2>1. Apart(s)
    BY <1>8 DEF LeaseInv, Leased
  <2> QED
    BY <1>1, <1>6, <1>7, <2>1 DEF Apart
<1>9. \A p : p \in Held(s)' => p \in Held(s)
  BY <1>1, <1>6, <1>7, HeldBy
<1>10. \A j \in Tasks :
         \/ task'[j] = task[j]
         \/ task[j].s = s /\ task'[j].s \in {s, Nobody} /\ task'[j].at \notin {"bind", "claim"}
  BY <1>1, <1>4
<1>11. files' \subseteq files /\ files \ files' = {}
  BY <1>3
<1> QED
  BY <1>3, <1>5, <1>8, <1>9, <1>10, <1>11, PortsMove

\* The reservation is given up, and then its leases are.
LEMMA LeasesCleanup ==
  ASSUME Sound, LeaseInv, NEW s \in Sessions, Fail(s) \/ Cleanup(s) \/ Release(s)
  PROVE  LeaseInv'
<1>1. prov \in [Sessions -> ProvType]
  BY TypeParts DEF Sound
<1>2. UNCHANGED <<inc, up, overlooked, task>> /\ files' \subseteq files
  BY DEF Fail, Cleanup, Withdraw, Release, Unlinked, procs
<1>3. \A r \in Sessions \ {s} : prov'[r].res = prov[r].res /\ prov'[r].rel = prov[r].rel
  BY <1>1 DEF Fail, Cleanup, Withdraw, Release
<1>4. s \notin overlooked => Apart(s)
  BY DEF LeaseInv, Leased
<1>5. \A j \in Tasks : task'[j] = task[j]
  BY <1>2
<1>6. CASE Fail(s) \/ Cleanup(s)
  <2>1. prov'[s].res = {} /\ prov'[s].rel = prov[s].res /\ UNCHANGED files
    BY <1>1, <1>6 DEF Fail, Cleanup, Withdraw, NoProv
  <2>2. s \notin overlooked => Apart(s)'
    BY <1>2, <1>4, <2>1 DEF Apart
  <2>3. \A p : p \in Held(s)' => p \in Held(s)
    BY <1>2, <2>1, HeldBy
  <2>4. files \ files' = {}
    BY <2>1
  <2> QED
    BY <1>2, <1>3, <1>5, <2>2, <2>3, <2>4, PortsMove
<1>7. CASE Release(s)
  <2>1. prov'[s].res = prov[s].res /\ prov'[s].rel = {}
    BY <1>1, <1>7 DEF Release, ProvType
  <2>2. s \notin overlooked => Apart(s)'
    BY <1>2, <1>4, <2>1 DEF Apart
  <2>3. \A p : p \in Held(s)' => p \in Held(s)
    BY <1>2, <2>1, HeldBy
  <2>4. \A f \in files \ files' : f.s = s /\ f.port \in prov[s].rel
    BY <1>7 DEF Release, Unlinked, Lease
  <2>5. ASSUME s \notin overlooked, NEW p \in prov[s].rel, p \in Held(s)'
        PROVE  FALSE
    <3>1. p \in prov[s].res \/ \E j \in Tasks : task[j].s = s /\ p \in task[j].got
      BY <1>2, <2>1, <2>5, HeldBy
    <3> QED
      BY <1>4, <2>5, <3>1 DEF Apart
  <2> QED
    BY <1>2, <1>3, <1>5, <2>2, <2>3, <2>4, <2>5, PortsMove
<1> QED
  BY <1>6, <1>7

\* A process dies with what it holds; a new one under its pid is not the owner of the
\* leases that stayed (process_matches).
LEMMA LeasesProcess ==
  ASSUME Sound, LeaseInv, NEW q \in Procs, Die(q) \/ StartAgain(q)
  PROVE  LeaseInv'
<1>1. /\ prov \in [Sessions -> ProvType] /\ task \in [Tasks -> TaskType]
      /\ inc \in [Procs -> 1..MaxInc] /\ MaxInc \in Nat /\ ProcOf \in [Sessions -> Procs]
      /\ files \subseteq [port : Ports, id : Identities, s : Sessions]
  BY TypeParts, PortAssumption DEF Sound, PortsTypeOK, TaskType
<1>2. UNCHANGED <<files, overlooked>>
  BY DEF Die, ProcessDies, StartAgain, ProcessStarts, pool, history
<1>3. OneLease'
  BY <1>2 DEF LeaseInv, OneLease
<1>4. CASE Die(q)
  <2>1. UNCHANGED inc /\ up' \subseteq up
    BY <1>4 DEF Die, ProcessDies
  <2>2. FilesDated'
    BY <1>2, <2>1 DEF LeaseInv, FilesDated
  <2>3. /\ \A k \in Tasks : task'[k] = IF task[k].s \in Of(q) THEN NoTask ELSE task[k]
        /\ \A s \in Sessions : prov'[s] = IF s \in Of(q) THEN NoProv ELSE prov[s]
        /\ NoTask.s = Nobody /\ NoTask.at = "idle"
    BY <1>4 DEF Die, ProcessDies, NoTask
  <2>4. \A p : Owners(p)' \subseteq Owners(p)
    BY <1>2, <2>1 DEF Owners, Leases, Alive
  <2>5. ASSUME NEW k \in Tasks, task'[k].at \in {"bind", "claim"}
        PROVE  \A f \in Owners(Candidate(k))' : f.s \in overlooked'
    <3>1. task'[k] = task[k]
      BY <2>3, <2>5
    <3>2. Candidate(k)' = Candidate(k)
      BY <3>1 DEF Candidate
    <3>3. Owners(Candidate(k))' \subseteq Owners(Candidate(k))
      BY <2>4, <3>2
    <3> QED
      BY <1>2, <2>5, <3>1, <3>3 DEF LeaseInv, Checked
  <2>6. ASSUME NEW s \in Sessions \ overlooked'
        PROVE  Apart(s)' /\ \A p \in Held(s)' : (Lease(p, s) \in files)'
    <3>1. Apart(s) /\ \A p \in Held(s) : Lease(p, s) \in files
      BY <1>2, <2>6 DEF LeaseInv, Leased
    <3>2. CASE s \in Of(q)
      <4>1. \A k \in Tasks : task'[k].s # s
        BY <2>3, <3>2, PortAssumption
      <4>2. prov'[s].res = {} /\ prov'[s].rel = {}
        BY <2>3, <3>2 DEF NoProv
      <4>3. \A p : p \notin Held(s)'
        BY <4>1, <4>2, HeldBy
      <4> QED
        BY <4>1, <4>2, <4>3 DEF Apart
    <3>3. CASE s \notin Of(q)
      <4>1. \A k \in Tasks : task'[k].s = s => task[k].s = s /\ task'[k].got = task[k].got
        BY <2>3, PortAssumption
      <4>2. prov'[s] = prov[s]
        BY <2>3, <3>3
      <4>3. Apart(s)'
        BY <3>1, <4>1, <4>2 DEF Apart
      <4>4. \A p : p \in Held(s)' => p \in Held(s)
        BY <4>1, <4>2, HeldBy
      <4>5. \A p : Lease(p, s)' = Lease(p, s)
        BY <2>1 DEF Lease, Identity
      <4> QED
        BY <1>2, <3>1, <4>3, <4>4, <4>5
    <3> QED
      BY <3>2, <3>3
  <2> QED
    BY <1>3, <2>2, <2>5, <2>6 DEF LeaseInv, Checked, Leased
<1>5. CASE StartAgain(q)
  <2>1. /\ q \notin up /\ up' = up \cup {q} /\ inc' = [inc EXCEPT ![q] = inc[q] + 1]
        /\ UNCHANGED <<task, prov>>
    BY <1>5 DEF StartAgain, ProcessStarts, pool, session
  <2>2. inc'[q] = inc[q] + 1 /\ inc[q] \in Nat /\ \A r \in Procs \ {q} : inc'[r] = inc[r] /\ inc[r] \in Nat
    BY <1>1, <2>1
  <2>3. \A f \in files : f.id[1] \in Procs /\ f.id[2] \in Nat /\ f.id[2] <= inc[f.id[1]]
    BY <1>1 DEF LeaseInv, FilesDated, Identities
  <2>4. \A f \in files : f.id[2] <= inc'[f.id[1]]
    BY <2>2, <2>3
  <2>5. FilesDated'
    BY <1>2, <2>4 DEF LeaseInv, FilesDated
  <2>6. \A f \in files : Alive(f.id)' => Alive(f.id)
    <3>1. ASSUME NEW f \in files, f.id[1] = q, f.id[2] = inc'[q]
          PROVE  FALSE
      BY <2>2, <2>3, <3>1
    <3> QED
      BY <2>1, <2>2, <2>3, <3>1 DEF Alive
  <2>7. \A p : Owners(p)' \subseteq Owners(p)
    BY <1>2, <2>6 DEF Owners, Leases
  <2>8. \A k \in Tasks : Candidate(k)' = Candidate(k)
    BY <2>1 DEF Candidate
  <2>9. Checked'
    <3>1. \A k \in Tasks : Owners(Candidate(k))' \subseteq Owners(Candidate(k))
      BY <2>7, <2>8
    <3> QED
      BY <1>2, <2>1, <3>1 DEF LeaseInv, Checked
  <2>10. ASSUME NEW s \in Sessions \ overlooked'
         PROVE  Apart(s)' /\ \A p \in Held(s)' : (Lease(p, s) \in files)'
    <3>1. Apart(s) /\ \A p \in Held(s) : Lease(p, s) \in files /\ Lease(p, s) \in Owners(p)
      BY <1>2, <2>10, HolderAlive DEF LeaseInv, Leased
    <3>2. Apart(s)' /\ Held(s)' = Held(s)
      BY <2>1, <3>1 DEF Apart, Held
    <3>3. \A p \in Held(s) : ProcOf[s] \in up
      BY <3>1 DEF Owners, Alive, Lease, Identity
    <3>4. \A p \in Held(s) : Lease(p, s)' = Lease(p, s)
      BY <1>1, <2>1, <2>2, <3>3 DEF Lease, Identity
    <3> QED
      BY <1>2, <3>1, <3>2, <3>4
  <2> QED
    BY <1>3, <2>5, <2>9, <2>10 DEF LeaseInv, Leased
<1> QED
  BY <1>4, <1>5

\* Any step.
LEMMA LeasesStep ==
  ASSUME Sound, LeaseInv, [Next]_vars
  PROVE  LeaseInv'
<1>1. ASSUME NEW k \in Tasks, Allocating(k)
      PROVE  LeaseInv'
  BY <1>1, LeasesAllocate DEF Allocating, session
<1> QED
  BY <1>1, LeasesSession, LeasesOthers, LeasesPrepared, LeasesCleanup, LeasesProcess
   DEF Next, SessionStep, TaskStep

\* The leases name who holds the ports.
LEMMA LeaseInvariant == Spec => []LeaseInv
<1>1. Init => LeaseInv
  <2> SUFFICES ASSUME Init PROVE LeaseInv
    OBVIOUS
  <2>1. files = {} /\ \A k \in Tasks : task[k].at = "idle" /\ task[k].s = Nobody
    BY DEF Init, PortsInit, NoTask
  <2>2. \A s \in Sessions : prov[s].res = {} /\ prov[s].rel = {} /\ \A k \in Tasks : task[k].s # s
    BY <2>1, PortAssumption DEF Init, NoProv
  <2>3. \A s \in Sessions : \A p : p \notin Held(s)
    BY <2>2, HeldBy
  <2> QED
    BY <2>1, <2>2, <2>3 DEF LeaseInv, FilesDated, OneLease, Checked, Leased, Apart
<1>2. Sound /\ LeaseInv /\ [Next]_vars => LeaseInv'
  BY LeasesStep
<1> QED
  BY <1>1, <1>2, SoundInvariant, PTL DEF Spec

\* Two sessions never hold the same tunnel port, from its claim to the release of its
\* lease, for any number of sessions, processes, calls and ports and however often they
\* fail or die (LocalPortLeasePool.allocate, launch_kernel, _release_tunnel_ports).
THEOREM PortsAreExclusive == Spec => []PortsExclusive
<1>1. LeaseInv => PortsExclusive
  <2> SUFFICES ASSUME LeaseInv, NEW s \in Sessions \ overlooked, NEW t \in Sessions \ overlooked, s # t,
                      NEW p \in Held(s) \cap Held(t)
               PROVE  FALSE
    BY DEF PortsExclusive
  <2>1. Lease(p, s) \in files /\ Lease(p, t) \in files
    BY DEF LeaseInv, Leased
  <2>2. Lease(p, s) = Lease(p, t)
    BY <2>1 DEF LeaseInv, OneLease, Lease
  <2> QED
    BY <2>2 DEF Lease
<1> QED
  BY <1>1, LeaseInvariant, PTL
=============================================================================
