--------------------------- MODULE IPv4LeasePool ---------------------------
(***************************************************************************)
(* class IPv4LeasePool of network.py: one lease file per address, created  *)
(* with O_EXCL and filled in afterwards, under a process-wide mutex and a  *)
(* flock on the lease directory.  Every file operation is a step of its    *)
(* own, and a caller may die (or its write may fail) between any two.      *)
(* The two locks are always taken together and in the same order, so they  *)
(* are one lock here; the kernel drops it when the holder dies.            *)
(***************************************************************************)
EXTENDS Integers

CONSTANTS
  Names, Unleased, Blank, Start, End, Unusable,   \* as in AddressPool
  Callers,      \* threads (of any daemon process) calling the pool
  Nobody        \* nobody holds the lock

ASSUME LeasePoolAssumption ==
  /\ Start \in Int /\ End \in Int /\ Start <= End
  /\ Unleased \notin Names /\ Blank \notin Names /\ Unleased # Blank
  /\ Unusable \subseteq Start..End
  /\ Nobody \notin Callers

VARIABLES
  file,         \* contents of each address's lease file (Unleased: no file)
  lock,         \* holder of _IPV4_POOL_THREAD_LOCK and of the flock
  pc,           \* where each caller is
  arg,          \* the owner (or the set of active owners) of its call
  cur,          \* allocate: the address being tried; release: the argument
  todo          \* clear_orphans: the lease files still to visit

vars == <<file, lock, pc, arg, cur, todo>>

Addresses == Start..End

\* Every variable of the pool and its callers has its type; in particular the
\* scan of allocate stops right after the last address.
TypeOK ==
  /\ file \in [Addresses -> Names \cup {Unleased, Blank}]
  /\ lock \in Callers \cup {Nobody}
  /\ pc \in [Callers -> {"idle", "allocate", "release", "clear_orphans",
                         "scan", "write", "unlink", "sweep"}]
  /\ arg \in [Callers -> SUBSET Names]
  /\ cur \in [Callers -> Start..(End + 1)]
  /\ todo \in [Callers -> SUBSET Addresses]

Init ==
  /\ file = [a \in Addresses |-> Unleased]
  /\ lock = Nobody
  /\ pc = [c \in Callers |-> "idle"]
  /\ arg = [c \in Callers |-> {}]
  /\ cur = [c \in Callers |-> Start]
  /\ todo = [c \in Callers |-> {}]

-----------------------------------------------------------------------------
Call(c, op, owners, a) ==
  /\ pc[c] = "idle"
  /\ pc' = [pc EXCEPT ![c] = op]
  /\ arg' = [arg EXCEPT ![c] = owners]
  /\ cur' = [cur EXCEPT ![c] = a]
  /\ UNCHANGED <<file, lock, todo>>

\* Leaving the "with" blocks drops the locks; the call's locals are gone.
Return(c) ==
  /\ lock' = IF lock = c THEN Nobody ELSE lock
  /\ pc' = [pc EXCEPT ![c] = "idle"]
  /\ arg' = [arg EXCEPT ![c] = {}]
  /\ cur' = [cur EXCEPT ![c] = Start]
  /\ todo' = [todo EXCEPT ![c] = {}]

Enter(c, op, first) ==
  /\ pc[c] = op
  /\ lock = Nobody
  /\ lock' = c
  /\ pc' = [pc EXCEPT ![c] = first]
  /\ UNCHANGED <<file, arg, cur>>

EnterAllocate(c) == Enter(c, "allocate", "scan") /\ UNCHANGED todo

EnterRelease(c) == Enter(c, "release", "unlink") /\ UNCHANGED todo

\* Mutant: the directory is swept without taking the lock.
EnterClear_NoLock(c) ==
  /\ pc[c] = "clear_orphans"
  /\ pc' = [pc EXCEPT ![c] = "sweep"]
  /\ todo' = [todo EXCEPT ![c] = {a \in Addresses : file[a] # Unleased}]
  /\ UNCHANGED <<file, lock, arg, cur>>

\* The directory is listed under the lock.
EnterClear(c) ==
  /\ Enter(c, "clear_orphans", "sweep")
  /\ todo' = [todo EXCEPT ![c] = {a \in Addresses : file[a] # Unleased}]

\* Mutant: the scan skips two addresses.
SkipAddress_Two(c) ==
  /\ pc[c] = "scan"
  /\ cur[c] <= End
  /\ file[cur[c]] # Unleased \/ cur[c] \in Unusable
  /\ cur' = [cur EXCEPT ![c] = @ + 2]
  /\ UNCHANGED <<file, lock, pc, arg, todo>>

\* open(O_CREAT | O_EXCL) fails: try the next address.
SkipAddress(c) ==
  /\ pc[c] = "scan"
  /\ cur[c] <= End
  /\ file[cur[c]] # Unleased \/ cur[c] \in Unusable
  /\ cur' = [cur EXCEPT ![c] = @ + 1]
  /\ UNCHANGED <<file, lock, pc, arg, todo>>

CreateLease(c) ==
  /\ pc[c] = "scan"
  /\ cur[c] <= End
  /\ file[cur[c]] = Unleased /\ cur[c] \notin Unusable
  /\ file' = [file EXCEPT ![cur[c]] = Blank]
  /\ pc' = [pc EXCEPT ![c] = "write"]
  /\ UNCHANGED <<lock, arg, cur, todo>>

\* "No free IPv4 addresses remain in the laboratory pool"
Exhausted(c) ==
  /\ pc[c] = "scan"
  /\ cur[c] > End
  /\ Return(c)
  /\ UNCHANGED file

\* The owner is written into the file and the address returned.
WriteOwner(c) ==
  /\ pc[c] = "write"
  /\ \E o \in arg[c] : file' = [file EXCEPT ![cur[c]] = o]
  /\ Return(c)

\* os.write raises: the descriptor is closed, the empty file stays.
WriteFails(c) ==
  /\ pc[c] = "write"
  /\ Return(c)
  /\ UNCHANGED file

\* A file of another owner stays, and so does one that cannot be read.
UnlinkOwn(c) ==
  /\ pc[c] = "unlink"
  /\ \/ file[cur[c]] \in arg[c] /\ file' = [file EXCEPT ![cur[c]] = Unleased]
     \/ UNCHANGED file
  /\ Return(c)

\* A file of an active owner stays, and so does one that cannot be read.
SweepOne(c) ==
  /\ pc[c] = "sweep"
  /\ \E a \in todo[c] :
       /\ \/ file[a] \notin arg[c] /\ file' = [file EXCEPT ![a] = Unleased]
          \/ UNCHANGED file
       /\ todo' = [todo EXCEPT ![c] = @ \ {a}]
  /\ UNCHANGED <<lock, pc, arg, cur>>

SweepEnd(c) ==
  /\ pc[c] = "sweep"
  /\ todo[c] = {}
  /\ Return(c)
  /\ UNCHANGED file

\* The caller's process dies inside a call.
Die(c) ==
  /\ pc[c] # "idle"
  /\ Return(c)
  /\ UNCHANGED file

Next ==
  \E c \in Callers :
    \/ \E o \in Names : Call(c, "allocate", {o}, Start)
    \/ \E o \in Names, a \in Addresses : Call(c, "release", {o}, a)
    \/ \E active \in SUBSET Names : Call(c, "clear_orphans", active, Start)
    \/ EnterAllocate(c) \/ EnterRelease(c) \/ EnterClear(c)
    \/ SkipAddress(c) \/ CreateLease(c) \/ Exhausted(c)
    \/ WriteOwner(c) \/ WriteFails(c) \/ UnlinkOwn(c)
    \/ SweepOne(c) \/ SweepEnd(c) \/ Die(c)

Spec == Init /\ [][Next]_vars

-----------------------------------------------------------------------------
(* Refinement: a lease exists for the callers once its owner is written.    *)

InProgress(a) == lock # Nobody /\ pc[lock] = "write" /\ cur[lock] = a

Pool == INSTANCE AddressPool
          WITH leases <- [a \in Addresses |-> IF InProgress(a) THEN Unleased ELSE file[a]]

\* The file protocol of network.py behaves as an atomic table of leases: no
\* interleaving of allocate, release and clear_orphans, and no death of a
\* caller between creating a lease file and writing its owner, lets an address
\* be granted twice, out of order, or be freed by anyone but its owner or the
\* sweep of inactive owners.
ImplementsAddressPool == Pool!PoolSpec
=============================================================================
