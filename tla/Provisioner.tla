---------------------------- MODULE Provisioner ----------------------------
(***************************************************************************)
(* RemoteRuntimeProvisioner (remote_provisioner.py) with the client of the *)
(* runtime daemon and the connection file: pre_launch with its two         *)
(* parallel branches, launch_kernel, cleanup and the cleanup after a       *)
(* failure, for several kernel sessions of several Jupyter processes that  *)
(* share the pool of tunnel ports.  The daemon is reduced to the owner of  *)
(* each runtime and to what RuntimeDaemon shows of its answers.            *)
(***************************************************************************)
EXTENDS PortLeases

CONSTANTS NoRuntime, MaxLaunches

ASSUME ProvisionerAssumption == NoRuntime \notin Identities /\ MaxLaunches \in Nat

VARIABLES
  at,         \* where the coroutine of each session is
  prov,       \* the attributes of each provisioner
  conn,       \* the ports in the connection file, {} for Jupyter's own
  ssh,        \* the ssh processes that carry kernels
  rt,         \* the daemon's registry: the process that owns the runtime
  stuck,      \* names whose lock the daemon never gives back
  lost,       \* requests the client gave up on and the daemon still has
  launches

daemon == <<rt, stuck, lost>>
session == <<at, prov, conn>>
vars == <<files, bound, flock, task, inc, up, faults, spoiled, overlooked,
          at, prov, conn, ssh, rt, stuck, lost, launches>>

\* _runtime_created; whether the directory with the keys exists; the ports of
\* _tunnel_reservation; the original connection, if it is remembered; the ports
\* being released; the allocate call that the gather waits for and whether its
\* branches are through; the ports of the command line and those of the
\* connection file that is copied into the runtime.
NoProv ==
  [created |-> FALSE, dir |-> FALSE, res |-> {}, orig |-> {}, rel |-> {}, mine |-> Nobody,
   ready |-> FALSE, prepared |-> FALSE, cmd |-> {}, staged |-> {}]

Init ==
  /\ PortsInit
  /\ at = [s \in Sessions |-> "idle"] /\ prov = [s \in Sessions |-> NoProv]
  /\ conn = [s \in Sessions |-> {}] /\ ssh = {}
  /\ rt = [s \in Sessions |-> NoRuntime] /\ stuck = {}
  /\ lost = [s \in Sessions |-> [create |-> 0, destroy |-> 0]]
  /\ launches = 0

Goto(s, label) == at' = [at EXCEPT ![s] = label]

Live(s) == ProcOf[s] \in up

-----------------------------------------------------------------------------
(* pre_launch: _create_runtime *)

\* _create_runtime_key: ssh-keygen makes the key pair or the launch fails.
CreateKey(s) ==
  \/ Goto(s, "creating") /\ NoFault
  \/ Goto(s, "fail") /\ Fault

\* The directory and the key are made afresh and the daemon is asked for the
\* runtime.
PreLaunch(s) ==
  /\ at[s] = "idle" /\ Live(s) /\ launches < MaxLaunches
  /\ launches' = launches + 1
  /\ prov' = [prov EXCEPT ![s].dir = TRUE]
  /\ CreateKey(s)
  /\ UNCHANGED <<pool, procs, history, conn, ssh, daemon>>

\* The daemon creates the runtime for the process that asks.
Created(s) ==
  /\ at[s] = "creating" /\ s \notin stuck /\ rt[s] = NoRuntime
  /\ rt' = [rt EXCEPT ![s] = Identity(s)]
  /\ UNCHANGED <<conn, ssh, stuck, lost, launches>>

\* The branches of asyncio.gather start when the daemon has answered.
CreateAnswered(s) ==
  /\ Created(s)
  /\ \E k \in Tasks :
       /\ Call(k, s)
       /\ prov' = [prov EXCEPT ![s].created = TRUE, ![s].mine = k]
  /\ Goto(s, "gather")

\* The answer has no address, or the ssh client is not usable (assert_available).
NotUsable(s) ==
  /\ Created(s)
  /\ prov' = [prov EXCEPT ![s].created = TRUE]
  /\ Goto(s, "fail") /\ Fault
  /\ UNCHANGED <<pool, procs, history>>

\* An error answer: the name belongs to another process, or the daemon fails and
\* leaves the registry as it was.
CreateRefused(s) ==
  /\ at[s] = "creating" /\ s \notin stuck
  /\ \/ rt[s] \notin {NoRuntime, Identity(s)} /\ NoFault
     \/ Fault
  /\ Goto(s, "fail")
  /\ UNCHANGED <<pool, procs, history, prov, conn, ssh, daemon, launches>>

\* The daemon's create calls its own destroy and waits for itself.
CreateHangs(s) ==
  /\ at[s] = "creating" /\ s \notin stuck
  /\ \/ rt[s] = Identity(s) /\ NoFault
     \/ rt[s] = NoRuntime /\ Fault
  /\ rt' = [rt EXCEPT ![s] = Identity(s)]
  /\ stuck' = stuck \cup {s}
  /\ UNCHANGED <<pool, procs, history, session, ssh, lost, launches>>

\* RuntimeClient.request times out; the daemon goes on with what it was asked.
GiveUp(s, from, kind, to) ==
  /\ at[s] = from
  /\ IF s \in stuck THEN NoFault /\ UNCHANGED lost
     ELSE Fault /\ lost' = [lost EXCEPT ![s][kind] = @ + 1]
  /\ Spoil({s}) /\ UNCHANGED overlooked
  /\ Goto(s, to)

CreateGivenUp(s) ==
  /\ GiveUp(s, "creating", "create", "fail")
  /\ UNCHANGED <<pool, procs, prov, conn, ssh, rt, stuck, launches>>

-----------------------------------------------------------------------------
(* pre_launch: the branches of the gather *)

\* wait_until_ready
SshReady(s) ==
  /\ at[s] = "gather" /\ ~prov[s].ready
  /\ \/ prov' = [prov EXCEPT ![s].ready = TRUE] /\ UNCHANGED at /\ NoFault
     \/ Goto(s, "fail") /\ UNCHANGED prov /\ Fault
  /\ UNCHANGED <<pool, procs, history, conn, ssh, daemon, launches>>

\* rewrite_connection_file and the attributes set after it.
Rewrite(s, ports, current) ==
  /\ conn' = [conn EXCEPT ![s] = ports]
  /\ prov' = [prov EXCEPT ![s].res = ports, ![s].orig = {conn[s]},
                ![s].prepared = current \/ @, ![s].cmd = IF current THEN ports ELSE @]

\* It raises before or after it changed the manager; the latter is a known gap.
RewriteRaises(s, ports, current) ==
  /\ \E c \in {conn[s], ports} :
       /\ conn' = [conn EXCEPT ![s] = c]
       /\ Spoil(IF current /\ c = conn[s] THEN {} ELSE {s})
  /\ prov' = [prov EXCEPT ![s].res = ports]
  /\ IF current THEN Goto(s, "fail") ELSE UNCHANGED at

\* _prepare_connection after its await.  gather does not stop it when the other
\* branch fails, so it may run after the cleanup of its own launch: a known gap.
\* The reservation that the attribute loses closes its sockets.
Prepared(k) ==
  LET s == task[k].s
      got == task[k].got
      current == prov[s].mine = k IN
  /\ task[k].at = "done"
  /\ task' = [task EXCEPT ![k] = NoTask]
  /\ bound' = Closed(bound, prov[s].res \ got, s)
  /\ \/ Rewrite(s, got, current) /\ NoFault /\ UNCHANGED at /\ Spoil(IF current THEN {} ELSE {s})
     \/ RewriteRaises(s, got, current) /\ Fault
  /\ UNCHANGED <<files, flock, procs, overlooked, ssh, daemon, launches>>

\* allocate raised
NotReserved(k) ==
  LET s == task[k].s IN
  /\ task[k].at = "failed"
  /\ task' = [task EXCEPT ![k] = NoTask]
  /\ IF prov[s].mine = k THEN Goto(s, "fail") ELSE UNCHANGED at
  /\ UNCHANGED <<files, bound, flock, procs, faults, history, prov, conn, ssh, daemon, launches>>

\* Mutant: only the wait for ssh is awaited.
Stage_NoWait(s) ==
  /\ at[s] = "gather" /\ prov[s].ready
  /\ Goto(s, "ready")
  /\ prov' = [prov EXCEPT ![s].staged = conn[s], ![s].mine = Nobody]
  /\ UNCHANGED <<pool, procs, faults, history, conn, ssh, daemon, launches>>

\* SSHTransport.stage: the connection file is copied into the runtime.
Copy(s) ==
  \/ /\ Goto(s, "ready") /\ NoFault
     /\ prov' = [prov EXCEPT ![s].staged = conn[s], ![s].mine = Nobody]
  \/ Goto(s, "fail") /\ UNCHANGED prov /\ Fault

\* Both branches are through.
Stage(s) ==
  /\ at[s] = "gather" /\ prov[s].ready /\ prov[s].prepared
  /\ Copy(s)
  /\ UNCHANGED <<pool, procs, history, conn, ssh, daemon, launches>>

-----------------------------------------------------------------------------
(* launch_kernel and the ssh process *)

\* The sockets are closed so that ssh can bind the ports.
Launch(s) ==
  /\ at[s] = "ready"
  /\ bound' = Closed(bound, prov[s].res, s)
  /\ \/ /\ Goto(s, "running") /\ NoFault
        /\ ssh' = ssh \cup {[s |-> s, id |-> Identity(s), ports |-> prov[s].cmd, up |-> FALSE]}
     \/ Goto(s, "fail") /\ UNCHANGED ssh /\ Fault
  /\ UNCHANGED <<files, flock, task, procs, history, prov, conn, daemon, launches>>

\* The ports without the forwards of some ssh processes.
Ended(S) ==
  [p \in Ports |-> IF \E t \in S : t.up /\ p \in t.ports THEN Free ELSE bound[p]]

\* ExitOnForwardFailure: all the ports or none.
SshBinds(t) ==
  /\ t \in ssh /\ ~t.up
  /\ IF \A p \in t.ports : bound[p] = Free
       THEN /\ bound' = [p \in Ports |-> IF p \in t.ports THEN <<"ssh", t.s>> ELSE bound[p]]
            /\ ssh' = (ssh \ {t}) \cup {[t EXCEPT !.up = TRUE]}
       ELSE ssh' = ssh \ {t} /\ UNCHANGED bound
  /\ UNCHANGED <<files, flock, task, procs, faults, history, session, daemon, launches>>

\* The other end goes, or the process is killed.
SshEnds(t) ==
  /\ t \in ssh
  /\ ssh' = ssh \ {t} /\ bound' = Ended({t})
  /\ UNCHANGED <<files, flock, task, procs, faults, history, session, daemon, launches>>

-----------------------------------------------------------------------------
(* The cleanup after a failure, and cleanup itself *)

\* restore_connection_file, which keeps its errors to itself: a known gap.
Restore(s) ==
  LET orig == prov[s].orig IN
  \/ /\ conn' = [conn EXCEPT ![s] = IF orig = {} THEN @ ELSE UNION orig]
     /\ NoFault /\ UNCHANGED spoiled
  \/ orig # {} /\ UNCHANGED conn /\ Fault /\ Spoil({s})

\* The connection is restored and the ports given up as far as the pool's lock.
Withdraw(s, b) ==
  LET ports == prov[s].res IN
  /\ Restore(s)
  /\ bound' = Closed(b, ports, s)
  /\ prov' = [prov EXCEPT ![s] =
       [NoProv EXCEPT !.created = prov[s].created, !.dir = prov[s].dir, !.rel = ports]]
  /\ Goto(s, IF ports = {} THEN "destroy" ELSE "release")
  /\ UNCHANGED <<files, flock, task, procs, overlooked, daemon, launches>>

\* The except clauses of pre_launch and launch_kernel.
Fail(s) == at[s] = "fail" /\ Withdraw(s, bound) /\ UNCHANGED ssh

\* Jupyter ends the kernel process and calls cleanup.
Cleanup(s) ==
  LET mine == {t \in ssh : t.s = s /\ t.id = Identity(s)} IN
  /\ at[s] = "running"
  /\ Withdraw(s, Ended(mine))
  /\ ssh' = ssh \ mine

\* LocalPortLeasePool.release; an exception there, at the lock or at an unlink,
\* skips everything after it: a known gap.
Release(s) ==
  /\ at[s] = "release"
  /\ prov' = [prov EXCEPT ![s].rel = {}]
  /\ \/ /\ flock = Nobody
        /\ files' = Unlinked(prov[s].rel, s)
        /\ Goto(s, "destroy") /\ NoFault /\ UNCHANGED spoiled
     \/ /\ \E some \in SUBSET prov[s].rel : files' = Unlinked(some, s)
        /\ Goto(s, "idle") /\ Fault /\ Spoil({s})
  /\ UNCHANGED <<bound, flock, task, procs, overlooked, conn, ssh, daemon, launches>>

Finished(s) == prov' = [prov EXCEPT ![s].created = FALSE, ![s].dir = FALSE]

\* The rest of _destroy_runtime when there is nothing to ask the daemon for.
NoDestroy(s) ==
  /\ at[s] = "destroy" /\ ~prov[s].created
  /\ Finished(s) /\ Goto(s, "idle")
  /\ UNCHANGED <<pool, procs, faults, history, conn, ssh, daemon, launches>>

\* The daemon destroys the runtime, or answers with an error that is logged and
\* leaves the runtime to reconciliation.
DestroyAnswered(s) ==
  /\ at[s] = "destroy" /\ prov[s].created /\ s \notin stuck
  /\ \/ rt' = [rt EXCEPT ![s] = NoRuntime] /\ NoFault /\ UNCHANGED spoiled
     \/ UNCHANGED rt /\ Fault /\ Spoil({s})
  /\ Finished(s) /\ Goto(s, "idle")
  /\ UNCHANGED <<pool, procs, overlooked, conn, ssh, stuck, lost, launches>>

DestroyGivenUp(s) ==
  /\ prov[s].created
  /\ GiveUp(s, "destroy", "destroy", "idle")
  /\ Finished(s)
  /\ UNCHANGED <<pool, procs, conn, ssh, rt, stuck, launches>>

-----------------------------------------------------------------------------
(* The daemon with requests nobody waits for, and processes *)

LateCreate(s) ==
  /\ lost[s].create > 0 /\ s \notin stuck
  /\ lost' = [lost EXCEPT ![s].create = @ - 1]
  /\ rt' = [rt EXCEPT ![s] = IF Live(s) /\ @ = NoRuntime THEN Identity(s) ELSE @]
  /\ stuck' = IF Live(s) /\ rt[s] = Identity(s) THEN stuck \cup {s} ELSE stuck
  /\ UNCHANGED <<pool, procs, faults, history, session, ssh, launches>>

LateDestroy(s) ==
  /\ lost[s].destroy > 0 /\ s \notin stuck
  /\ lost' = [lost EXCEPT ![s].destroy = @ - 1]
  /\ rt' = [rt EXCEPT ![s] = NoRuntime]
  /\ UNCHANGED <<pool, procs, faults, history, session, ssh, stuck, launches>>

\* Reconciliation of the runtime of a process that is gone; or of a live one, when
\* gc acts on an older list or a ps(1) that failed, and when root or another
\* program of the same user asks for it: a known gap.
StaleGc(s) ==
  /\ rt[s] # NoRuntime /\ s \notin stuck
  /\ \/ ~Alive(rt[s]) /\ NoFault /\ UNCHANGED spoiled
     \/ Alive(rt[s]) /\ Fault /\ Spoil({s})
  /\ rt' = [rt EXCEPT ![s] = NoRuntime]
  /\ UNCHANGED <<pool, procs, overlooked, session, ssh, stuck, lost, launches>>

\* A Jupyter process dies with all its sessions; its ssh children go on.
Die(q) ==
  /\ ProcessDies(q)
  /\ at' = [s \in Sessions |-> IF s \in Of(q) THEN "idle" ELSE at[s]]
  /\ prov' = [s \in Sessions |-> IF s \in Of(q) THEN NoProv ELSE prov[s]]
  /\ conn' = [s \in Sessions |-> IF s \in Of(q) THEN {} ELSE conn[s]]
  /\ UNCHANGED <<ssh, daemon, launches>>

StartAgain(q) == ProcessStarts(q) /\ UNCHANGED <<session, ssh, daemon, launches>>

Allocating(k) == AllocateStep(k) /\ UNCHANGED <<session, ssh, daemon, launches>>

StrangerActs(p) == Stranger(p) /\ UNCHANGED <<session, ssh, daemon, launches>>

-----------------------------------------------------------------------------
SessionStep(s) ==
  \/ CreateAnswered(s) \/ NotUsable(s) \/ CreateRefused(s) \/ CreateHangs(s) \/ CreateGivenUp(s)
  \/ SshReady(s) \/ Stage(s) \/ Launch(s) \/ Fail(s) \/ Release(s)
  \/ NoDestroy(s) \/ DestroyAnswered(s) \/ DestroyGivenUp(s)

TaskStep(k) == Allocating(k) \/ Prepared(k) \/ NotReserved(k)

Next ==
  \/ \E s \in Sessions :
       \/ PreLaunch(s) \/ SessionStep(s) \/ Cleanup(s)
       \/ LateCreate(s) \/ LateDestroy(s) \/ StaleGc(s)
  \/ \E k \in Tasks : TaskStep(k)
  \/ \E t \in ssh : SshBinds(t) \/ SshEnds(t)
  \/ \E q \in Procs : Die(q) \/ StartAgain(q)
  \/ \E p \in Ports : StrangerActs(p)

\* A coroutine that can go on does, the client's timeout included; so do the
\* threads of the allocate calls.
Fairness ==
  /\ \A s \in Sessions : WF_vars(SessionStep(s))
  /\ \A k \in Tasks : WF_vars(TaskStep(k))

Spec == Init /\ [][Next]_vars /\ Fairness

-----------------------------------------------------------------------------
(* Properties *)

\* Types of the variables.
TypeOK ==
  /\ PortsTypeOK
  /\ at \in [Sessions -> {"idle", "creating", "gather", "ready", "running", "fail",
                          "release", "destroy"}]
  /\ prov \in [Sessions ->
       [created : BOOLEAN, dir : BOOLEAN, res : SUBSET Ports, orig : SUBSET (SUBSET Ports),
        rel : SUBSET Ports, mine : Tasks \cup {Nobody}, ready : BOOLEAN, prepared : BOOLEAN,
        cmd : SUBSET Ports, staged : SUBSET Ports]]
  /\ conn \in [Sessions -> SUBSET Ports]
  /\ ssh \subseteq [s : Sessions, id : Identities, ports : SUBSET Ports, up : BOOLEAN]
  /\ rt \in [Sessions -> Identities \cup {NoRuntime}] /\ stuck \subseteq Sessions
  /\ lost \in [Sessions -> [create : 0..MaxFaults, destroy : 0..MaxFaults]]
  /\ launches \in 0..MaxLaunches

Held(s) ==
  prov[s].res \cup prov[s].rel \cup UNION {task[k].got : k \in {x \in Tasks : task[x].s = s}}

\* Two sessions never hold the same tunnel port, from the claim of the port to the
\* release of its lease: also while launch_kernel has closed the socket and ssh has
\* not bound it yet, and whatever dies, fails or is cut short around them
\* (LocalPortLeasePool.allocate, launch_kernel, _release_tunnel_ports).
PortsExclusive ==
  \A s, t \in Sessions \ overlooked : s # t => Held(s) \cap Held(t) = {}

\* When the tunnel of a running kernel is up, the ports it forwards are the ones
\* the client reads in its connection file and the ones the kernel was told to
\* listen on, and the runtime is the session's own (rewrite_connection_file, stage,
\* launch_kernel).
Wired ==
  \A t \in ssh :
    t.up /\ t.id = Identity(t.s) /\ at[t.s] = "running" /\ t.s \notin spoiled =>
      /\ t.ports = conn[t.s] /\ t.ports = prov[t.s].staged /\ t.ports # {}
      /\ rt[t.s] = t.id

\* After a launch that failed, or after cleanup, nothing of the session is left: no
\* lease, no socket, no ssh, no rewritten connection file, no key directory and no
\* runtime (the except clauses, cleanup, _destroy_runtime and the undo of
\* allocate).  Sessions that met a known gap, marked where it is, are excepted.
NothingLeft ==
  \A s \in Sessions \ spoiled :
    at[s] = "idle" /\ Live(s) /\ (\A k \in Tasks : task[k].s # s) =>
      /\ \A f \in files : f.s # s \/ ~Alive(f.id)
      /\ \A p \in Ports : bound[p] # <<"pool", s>>
      /\ \A t \in ssh : t.s # s \/ t.id # Identity(s)
      /\ conn[s] = {} /\ ~prov[s].dir /\ rt[s] # Identity(s)

\* A launch or a cleanup that has begun ends: the kernel runs, or the session is
\* idle, or its process has died, also when the daemon never answers, ports run
\* out or two processes contend for the lock.
LaunchEnds ==
  \A s \in Sessions :
    at[s] \notin {"idle", "running"} ~> (at[s] \in {"idle", "running"} \/ ~Live(s))
=============================================================================
