----------------------------- MODULE PortLeases -----------------------------
(***************************************************************************)
(* LocalPortLeasePool (port_leases.py): the host-wide pool of loopback     *)
(* ports for SSH tunnels.  A task is an allocate call that a thread of a   *)
(* Jupyter process runs for a kernel session.  A port is claimed under the *)
(* lock file, by a lease file that names the process and by a socket bound *)
(* to it; processes die anywhere and their pids are reused.                *)
(***************************************************************************)
EXTENDS Integers, FiniteSets

CONSTANTS
  Sessions, Procs, ProcOf,   \* kernel sessions and the Jupyter process of each
  Tasks,                     \* allocate calls that may run at once
  Start, Capacity,           \* the range of ports
  Offset,                    \* where each session's search begins
  Need,                      \* ports per session, len(CONNECTION_PORT_FIELDS)
  Free, Host, Nobody,        \* an unbound port; a stranger's socket; no holder
  MaxFaults, MaxInc          \* bounds of the model

Ports == Start .. (Start + Capacity - 1)

ASSUME PortAssumption ==
  /\ ProcOf \in [Sessions -> Procs] /\ Offset \in [Sessions -> Nat]
  /\ Start \in Nat /\ Capacity \in Nat \ {0} /\ Need \in 1..Capacity
  /\ Nobody \notin Tasks \cup Sessions /\ {Free, Host} \cap ({"pool", "ssh"} \X Sessions) = {}
  /\ MaxFaults \in Nat /\ MaxInc \in Nat \ {0}

VARIABLES
  files,      \* lease files: the port, the process and the session in the name
  bound,      \* who is bound to each port
  flock,      \* holder of the lock file and of the thread lock
  task,       \* the allocate calls
  inc, up,    \* incarnation of each pid; the pids alive
  faults,     \* failures so far
  spoiled,    \* history: sessions that met one of the known gaps
  overlooked  \* history: sessions on both sides of a lease that ps(1) hid

history == <<spoiled, overlooked>>

procs == <<inc, up>>
pool == <<files, bound, flock, task>>

Identity(s) == <<ProcOf[s], inc[ProcOf[s]]>>

\* process_matches: the pid lives and has the start time of the file name.
Alive(id) == id[1] \in up /\ id[2] = inc[id[1]]

\* _lease_path and _lease_paths
Lease(p, s) == [port |-> p, id |-> Identity(s), s |-> s]

Leases(p) == {f \in files : f.port = p}

NoTask == [at |-> "idle", s |-> Nobody, i |-> 0, got |-> {}]

PortsInit ==
  /\ files = {} /\ bound = [p \in Ports |-> Free] /\ flock = Nobody
  /\ task = [k \in Tasks |-> NoTask]
  /\ inc = [q \in Procs |-> 1] /\ up = Procs
  /\ faults = 0 /\ spoiled = {} /\ overlooked = {}

Fault == faults < MaxFaults /\ faults' = faults + 1

NoFault == UNCHANGED faults

\* The sessions of S have met a known gap.
Spoil(S) == spoiled' = spoiled \cup S

-----------------------------------------------------------------------------
(* allocate *)

\* _candidate_ports: the i-th port of the search, which wraps around.
Candidate(k) == Start + ((Offset[task[k].s] + task[k].i) % Capacity)

Step(k, label) == task' = [task EXCEPT ![k].at = label]

NextPort(k) == task' = [task EXCEPT ![k].at = "look", ![k].i = @ + 1]

\* allocate fingerprints its own process, which may fail.
Call(k, s) ==
  /\ task[k].at = "idle"
  /\ \/ task' = [task EXCEPT ![k] = [NoTask EXCEPT !.at = "wait", !.s = s]] /\ NoFault
     \/ task' = [task EXCEPT ![k] = [NoTask EXCEPT !.at = "failed", !.s = s]] /\ Fault
  /\ UNCHANGED <<files, bound, flock, procs, history>>

\* _locked, which fails without the directory or the lock file.
Enter(k) ==
  /\ task[k].at = "wait"
  /\ \/ flock = Nobody /\ flock' = k /\ Step(k, "look") /\ NoFault
     \/ UNCHANGED flock /\ Step(k, "failed") /\ Fault
  /\ UNCHANGED <<files, bound, procs, history>>

Owners(p) == {f \in Leases(p) : Alive(f.id)}

\* Mutant: the bind alone decides whether a port is free.
Look_NoLease(k) ==
  /\ task[k].at = "look" /\ task[k].i < Capacity
  /\ Step(k, "bind")
  /\ UNCHANGED <<files, bound, flock, procs, faults, history>>

\* Mutant: the search goes one port too far.
Look_OneMore(k) ==
  /\ task[k].at = "look" /\ task[k].i <= Capacity
  /\ IF Owners(Candidate(k)) # {} THEN NextPort(k) ELSE Step(k, "bind")
  /\ UNCHANGED <<files, bound, flock, procs, faults, history>>

\* A port with a live owner is skipped.  A ps(1) that fails hides the owner.
Look(k) ==
  LET owners == Owners(Candidate(k)) IN
  /\ task[k].at = "look" /\ task[k].i < Capacity
  /\ \/ /\ IF owners # {} THEN NextPort(k) ELSE Step(k, "bind")
        /\ NoFault /\ UNCHANGED overlooked
     \/ /\ owners # {} /\ Step(k, "bind") /\ Fault
        /\ overlooked' = overlooked \cup {task[k].s} \cup {f.s : f \in owners}
  /\ UNCHANGED <<files, bound, flock, procs, spoiled>>

\* _reserve_socket
Bind(k) ==
  LET p == Candidate(k) IN
  /\ task[k].at = "bind"
  /\ IF bound[p] = Free
       THEN bound' = [bound EXCEPT ![p] = <<"pool", task[k].s>>] /\ Step(k, "claim")
       ELSE NextPort(k) /\ UNCHANGED bound
  /\ UNCHANGED <<files, flock, procs, faults, history>>

\* The stale names of the port go, the new one is written; the last port ends
\* the call.
Claim(k) ==
  LET p == Candidate(k)
      got == task[k].got \cup {p}
      full == Cardinality(got) = Need IN
  /\ task[k].at = "claim"
  /\ files' = (files \ Leases(p)) \cup {Lease(p, task[k].s)}
  /\ task' = [task EXCEPT ![k].got = got, ![k].at = IF full THEN "done" ELSE "look", ![k].i = @ + 1]
  /\ flock' = IF full THEN Nobody ELSE k
  /\ UNCHANGED <<bound, procs, faults, history>>

\* The file cannot be created; or it is created and its mode cannot be set, and
\* then it stays: a known gap.
ClaimFails(k) ==
  LET p == Candidate(k) IN
  /\ task[k].at = "claim"
  /\ Fault
  /\ \/ files' = files \ Leases(p) /\ UNCHANGED spoiled
     \/ files' = (files \ Leases(p)) \cup {Lease(p, task[k].s)} /\ Spoil({task[k].s})
  /\ bound' = [bound EXCEPT ![p] = Free]
  /\ Step(k, "undo")
  /\ UNCHANGED <<flock, procs, overlooked>>

Exhausted(k) ==
  /\ task[k].at = "look" /\ task[k].i = Capacity
  /\ Step(k, "undo")
  /\ UNCHANGED <<files, bound, flock, procs, faults, history>>

\* The pool's sockets of a session on a set of ports are closed.
Closed(b, ports, s) ==
  [p \in Ports |-> IF p \in ports /\ b[p] = <<"pool", s>> THEN Free ELSE b[p]]

Unlinked(ports, s) == files \ {Lease(p, s) : p \in ports}

\* Mutant: a failed call keeps the names it wrote.
Undo_KeepFiles(k) ==
  /\ task[k].at = "undo"
  /\ bound' = Closed(bound, task[k].got, task[k].s)
  /\ task' = [task EXCEPT ![k].at = "failed", ![k].got = {}]
  /\ flock' = Nobody
  /\ UNCHANGED <<files, procs, faults, history>>

\* Mutant: a failed call keeps the lock.
Undo_KeepLock(k) ==
  /\ task[k].at = "undo"
  /\ bound' = Closed(bound, task[k].got, task[k].s)
  /\ files' = Unlinked(task[k].got, task[k].s)
  /\ task' = [task EXCEPT ![k].at = "failed", ![k].got = {}]
  /\ UNCHANGED <<flock, procs, faults, history>>

\* A call that fails or runs out of ports closes its sockets and unlinks its
\* leases.  An unlink that raises ends the call there, and the leases that are
\* left stay: a known gap.
Undo(k) ==
  /\ task[k].at = "undo"
  /\ bound' = Closed(bound, task[k].got, task[k].s)
  /\ \/ files' = Unlinked(task[k].got, task[k].s) /\ NoFault /\ UNCHANGED spoiled
     \/ /\ \E some \in SUBSET task[k].got : files' = Unlinked(some, task[k].s)
        /\ Fault /\ Spoil({task[k].s})
  /\ task' = [task EXCEPT ![k].at = "failed", ![k].got = {}]
  /\ flock' = Nobody
  /\ UNCHANGED <<procs, overlooked>>

AllocateStep(k) ==
  \/ Enter(k) \/ Look(k) \/ Bind(k) \/ Claim(k) \/ ClaimFails(k) \/ Exhausted(k) \/ Undo(k)

-----------------------------------------------------------------------------
(* Strangers and processes *)

\* Another program of the host binds a port, or stops.
Stranger(p) ==
  /\ \/ bound[p] = Free /\ bound' = [bound EXCEPT ![p] = Host] /\ Fault
     \/ bound[p] = Host /\ bound' = [bound EXCEPT ![p] = Free] /\ NoFault
  /\ UNCHANGED <<files, flock, task, procs, history>>

Of(q) == {s \in Sessions : ProcOf[s] = q}

\* A Jupyter process dies: its locks and its sockets go, its lease files stay.
ProcessDies(q) ==
  /\ q \in up
  /\ Fault
  /\ up' = up \ {q}
  /\ bound' = [p \in Ports |-> IF \E s \in Of(q) : bound[p] = <<"pool", s>> THEN Free ELSE bound[p]]
  /\ task' = [k \in Tasks |-> IF task[k].s \in Of(q) THEN NoTask ELSE task[k]]
  /\ flock' = IF flock # Nobody /\ task[flock].s \in Of(q) THEN Nobody ELSE flock
  /\ UNCHANGED <<files, inc, history>>

\* The pid is given to a new Jupyter process.
ProcessStarts(q) ==
  /\ q \notin up /\ inc[q] < MaxInc
  /\ up' = up \cup {q}
  /\ inc' = [inc EXCEPT ![q] = @ + 1]
  /\ UNCHANGED <<pool, faults, history>>

-----------------------------------------------------------------------------
Identities == Procs \X (1..MaxInc)

PortsTypeOK ==
  /\ files \subseteq [port : Ports, id : Identities, s : Sessions]
  /\ bound \in [Ports -> {Free, Host} \cup ({"pool", "ssh"} \X Sessions)]
  /\ flock \in Tasks \cup {Nobody}
  /\ task \in [Tasks -> [at : {"idle", "wait", "look", "bind", "claim", "undo", "done", "failed"},
                         s : Sessions \cup {Nobody}, i : 0..Capacity, got : SUBSET Ports]]
  /\ inc \in [Procs -> 1..MaxInc] /\ up \subseteq Procs
  /\ faults \in 0..MaxFaults /\ spoiled \subseteq Sessions /\ overlooked \subseteq Sessions
=============================================================================
