---------------------------- MODULE AddressPool ----------------------------
(***************************************************************************)
(* What the address allocator of the laboratory promises to its callers:   *)
(* a table from the addresses of the pool to the runtime that holds each,  *)
(* changed by atomic operations.  network.py implements it with one file   *)
(* per address (module IPv4LeasePool shows that the file protocol          *)
(* implements this table); the runtime daemon uses it through this module. *)
(***************************************************************************)
EXTENDS Integers

CONSTANTS
  Names,        \* runtime names, the owners a lease file can hold
  Unleased,     \* no lease file for the address
  Blank,        \* a lease file whose owner was never written
  Start, End,   \* address_start and address_end, as integers
  Unusable      \* addresses whose lease path cannot be opened at all

ASSUME PoolAssumption ==
  /\ Start \in Int /\ End \in Int /\ Start <= End
  /\ Unleased \notin Names /\ Blank \notin Names /\ Unleased # Blank
  /\ Unusable \subseteq Start..End

VARIABLE leases

Addresses == Start..End

LeaseValues == Names \cup {Unleased, Blank}

PoolTypeOK == leases \in [Addresses -> LeaseValues]

PoolInit == leases = [a \in Addresses |-> Unleased]

\* The addresses whose lease file allocate can create.
FreeAddresses == {a \in Addresses \ Unusable : leases[a] = Unleased}

\* Mutant: lease files are opened without O_EXCL.
Allocate_NoExcl(owner, a) ==
  /\ a = Start
  /\ leases' = [leases EXCEPT ![a] = owner]

\* allocate: the first address, in order, whose lease file can be created.
Allocate(owner, a) ==
  /\ a \in FreeAddresses
  /\ \A b \in FreeAddresses : a <= b
  /\ leases' = [leases EXCEPT ![a] = owner]

\* The lease file was created and its owner was not written: the process died,
\* or write(2) failed.
AllocateTorn(a) ==
  /\ a \in FreeAddresses
  /\ \A b \in FreeAddresses : a <= b
  /\ leases' = [leases EXCEPT ![a] = Blank]

\* release: only the recorded owner frees the address, anything else is a no-op.
Release(a, owner) ==
  leases' = IF a \in Addresses /\ leases[a] = owner
              THEN [leases EXCEPT ![a] = Unleased]
              ELSE leases

Orphans(active) == {a \in Addresses : leases[a] \notin active \cup {Unleased}}

\* clear_orphans removes the leases of owners that are not active.  An
\* interrupted call has removed only some of them.
ClearOrphans(active, removed) ==
  /\ removed \subseteq Orphans(active)
  /\ leases' = [a \in Addresses |-> IF a \in removed THEN Unleased ELSE leases[a]]

PoolNext ==
  \/ \E o \in Names, a \in Addresses : Allocate(o, a)
  \/ \E a \in Addresses : AllocateTorn(a)
  \/ \E o \in Names, a \in Addresses : Release(a, o)
  \/ \E active \in SUBSET Names : \E removed \in SUBSET Orphans(active) :
       ClearOrphans(active, removed)

PoolSpec == PoolInit /\ [][PoolNext]_leases
=============================================================================
