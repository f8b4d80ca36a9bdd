------------------------ MODULE IPv4LeasePool_proofs ------------------------
(***************************************************************************)
(* The lease-file protocol of network.py implements the atomic table of    *)
(* leases, for every pool, every set of owners and every set of callers.   *)
(***************************************************************************)
EXTENDS IPv4LeasePool, TLAPS

Critical == {"scan", "write", "unlink", "sweep"}

\* The two locks protect every access to the lease directory.
MutualExclusion == \A c \in Callers : pc[c] \in Critical => lock = c

\* What allocate has passed over is leased or unusable.
Passed(c) == \A b \in Addresses : b < cur[c] => file[b] # Unleased \/ b \in Unusable

\* The locals of a call: the single owner that allocate and release were
\* given, and how far allocate has come.
CallInv(c) ==
  /\ pc[c] = "allocate" => cur[c] = Start
  /\ pc[c] \in {"release", "unlink"} => cur[c] \in Addresses /\ \E o \in Names : arg[c] = {o}
  /\ pc[c] = "scan" => Passed(c)
  /\ pc[c] = "write" => /\ cur[c] \in Addresses \ Unusable
                        /\ file[cur[c]] = Blank
                        /\ Passed(c)

\* The inductive invariant of the lease files.
IInv == TypeOK /\ MutualExclusion /\ \A c \in Callers : CallInv(c)

\* The lease files start in a state of the invariant.
LEMMA InitIInv == Init => IInv
  BY LeasePoolAssumption
  DEF Init, IInv, TypeOK, MutualExclusion, CallInv, Critical, Passed, Addresses

\* A call that ends leaves locals of their types.
LEMMA ReturnType ==
  ASSUME TypeOK, NEW c \in Callers, Return(c)
  PROVE  /\ lock' \in Callers \cup {Nobody}
         /\ pc' \in [Callers -> {"idle", "allocate", "release", "clear_orphans",
                                 "scan", "write", "unlink", "sweep"}]
         /\ arg' \in [Callers -> SUBSET Names]
         /\ cur' \in [Callers -> Start..(End + 1)]
         /\ todo' \in [Callers -> SUBSET Addresses]
<1>1. Start \in Start..(End + 1)
  BY LeasePoolAssumption
<1>2. lock' \in Callers \cup {Nobody}
  BY DEF TypeOK, Return
<1>3. cur' \in [Callers -> Start..(End + 1)]
  BY <1>1 DEF TypeOK, Return
<1> QED
  BY <1>2, <1>3 DEF TypeOK, Return

\* The variables keep their types in every step of a caller.
LEMMA TypeStep == IInv /\ [Next]_vars => TypeOK'
<1> USE LeasePoolAssumption DEF TypeOK, Addresses
<1> SUFFICES ASSUME IInv, [Next]_vars PROVE TypeOK'
  OBVIOUS
<1>0. TypeOK
  BY DEF IInv
<1>1. ASSUME NEW c \in Callers, NEW o \in Names, Call(c, "allocate", {o}, Start) PROVE TypeOK'
  BY <1>0, <1>1 DEF Call
<1>2. ASSUME NEW c \in Callers, NEW o \in Names, NEW a \in Addresses, Call(c, "release", {o}, a)
      PROVE TypeOK'
  BY <1>0, <1>2 DEF Call
<1>3. ASSUME NEW c \in Callers, NEW active \in SUBSET Names, Call(c, "clear_orphans", active, Start)
      PROVE TypeOK'
  BY <1>0, <1>3 DEF Call
<1>4. ASSUME NEW c \in Callers, EnterAllocate(c) \/ EnterRelease(c) PROVE TypeOK'
  BY <1>0, <1>4 DEF EnterAllocate, EnterRelease, Enter
<1>5. ASSUME NEW c \in Callers, EnterClear(c) PROVE TypeOK'
  BY <1>0, <1>5 DEF EnterClear, Enter
<1>6. ASSUME NEW c \in Callers, SkipAddress(c) PROVE TypeOK'
  BY <1>0, <1>6 DEF SkipAddress
<1>7. ASSUME NEW c \in Callers, CreateLease(c) PROVE TypeOK'
  BY <1>0, <1>7 DEF CreateLease
<1>8. ASSUME NEW c \in Callers, Exhausted(c) \/ WriteFails(c) \/ SweepEnd(c) \/ Die(c) PROVE TypeOK'
  BY <1>0, <1>8, ReturnType DEF Exhausted, WriteFails, SweepEnd, Die
<1>9. ASSUME NEW c \in Callers, WriteOwner(c) PROVE TypeOK'
  <2>1. PICK o \in arg[c] : file' = [file EXCEPT ![cur[c]] = o]
    BY <1>9 DEF WriteOwner
  <2>2. o \in Names
    BY <1>0
  <2>3. file' \in [Addresses -> Names \cup {Unleased, Blank}]
    BY <1>0, <2>1, <2>2
  <2> QED
    BY <1>0, <1>9, <2>3, ReturnType DEF WriteOwner
<1>10. ASSUME NEW c \in Callers, UnlinkOwn(c) PROVE TypeOK'
  BY <1>0, <1>10, ReturnType DEF UnlinkOwn
<1>11. ASSUME NEW c \in Callers, SweepOne(c) PROVE TypeOK'
  BY <1>0, <1>11 DEF SweepOne
<1>12. CASE UNCHANGED vars
  BY <1>0, <1>12 DEF vars
<1> QED
  BY <1>1, <1>2, <1>3, <1>4, <1>5, <1>6, <1>7, <1>8, <1>9, <1>10, <1>11, <1>12 DEF Next

\* At most one caller is in a critical section, and it holds the locks.
LEMMA MutexStep == IInv /\ [Next]_vars => MutualExclusion'
<1> SUFFICES ASSUME IInv, [Next]_vars, NEW d \in Callers, pc'[d] \in Critical PROVE lock' = d
  BY DEF MutualExclusion
<1>0. TypeOK /\ (pc[d] \in Critical => lock = d) /\ Nobody \notin Callers
      /\ \A c \in Callers : pc[c] \in Critical => lock = c
  BY LeasePoolAssumption DEF IInv, MutualExclusion
<1>1. ASSUME NEW c \in Callers, NEW op \in {"allocate", "release", "clear_orphans"},
             NEW owners, NEW a, Call(c, op, owners, a)
      PROVE lock' = d
  BY <1>0, <1>1 DEF Call, Critical, TypeOK
<1>2. ASSUME NEW c \in Callers, EnterAllocate(c) \/ EnterRelease(c) \/ EnterClear(c) PROVE lock' = d
  BY <1>0, <1>2 DEF EnterAllocate, EnterRelease, EnterClear, Enter, Critical, TypeOK
<1>3. ASSUME NEW c \in Callers, SkipAddress(c) \/ CreateLease(c) \/ SweepOne(c) PROVE lock' = d
  BY <1>0, <1>3 DEF SkipAddress, CreateLease, SweepOne, Critical, TypeOK
<1>4. ASSUME NEW c \in Callers, Return(c) PROVE lock' = d
  BY <1>0, <1>4 DEF Return, Critical, TypeOK
<1>5. CASE UNCHANGED vars
  BY <1>0, <1>5 DEF vars
<1> QED
  BY <1>1, <1>2, <1>3, <1>4, <1>5
  DEF Next, Exhausted, WriteOwner, WriteFails, UnlinkOwn, SweepEnd, Die

\* The locals of every call stay in step with the lease files: only the holder
\* of the locks changes a file, and nobody else is then in a critical section.
LEMMA CallStep == IInv /\ [Next]_vars => \A d \in Callers : CallInv(d)'
<1> SUFFICES ASSUME IInv, [Next]_vars, NEW d \in Callers PROVE CallInv(d)'
  OBVIOUS
<1> USE LeasePoolAssumption DEF CallInv
<1>0. TypeOK /\ CallInv(d) /\ \A c \in Callers : pc[c] \in Critical => lock = c
  BY DEF IInv, MutualExclusion
<1>1. ASSUME NEW c \in Callers, NEW o \in Names, Call(c, "allocate", {o}, Start) PROVE CallInv(d)'
  BY <1>0, <1>1 DEF Call, TypeOK, Passed
<1>2. ASSUME NEW c \in Callers, NEW o \in Names, NEW a \in Addresses, Call(c, "release", {o}, a)
      PROVE CallInv(d)'
  BY <1>0, <1>2 DEF Call, TypeOK, Passed
<1>3. ASSUME NEW c \in Callers, NEW active \in SUBSET Names, Call(c, "clear_orphans", active, Start)
      PROVE CallInv(d)'
  BY <1>0, <1>3 DEF Call, TypeOK, Passed
<1>4. ASSUME NEW c \in Callers, EnterAllocate(c) PROVE CallInv(d)'
  BY <1>0, <1>4 DEF EnterAllocate, Enter, TypeOK, Passed, Addresses
<1>5. ASSUME NEW c \in Callers, EnterRelease(c) \/ EnterClear(c) PROVE CallInv(d)'
  BY <1>0, <1>5 DEF EnterRelease, EnterClear, Enter, TypeOK, Passed
<1>6. ASSUME NEW c \in Callers, SkipAddress(c) PROVE CallInv(d)'
  BY <1>0, <1>6 DEF SkipAddress, TypeOK, Passed, Addresses
<1>7. ASSUME NEW c \in Callers, CreateLease(c) PROVE CallInv(d)'
  BY <1>0, <1>7 DEF CreateLease, TypeOK, Passed, Addresses, Critical
<1>8. ASSUME NEW c \in Callers, Exhausted(c) \/ WriteFails(c) \/ SweepEnd(c) \/ Die(c) PROVE CallInv(d)'
  BY <1>0, <1>8 DEF Exhausted, WriteFails, SweepEnd, Die, Return, TypeOK, Passed
<1>9. ASSUME NEW c \in Callers, WriteOwner(c) \/ UnlinkOwn(c) PROVE CallInv(d)'
  <2>1. Return(c) /\ lock = c
    BY <1>0, <1>9 DEF WriteOwner, UnlinkOwn, Critical
  <2>2. CASE d = c
    BY <1>0, <2>1, <2>2 DEF Return, TypeOK
  <2>3. CASE d # c
    <3>1. pc[d] \notin Critical
      BY <1>0, <2>1, <2>3
    <3> QED
      BY <1>0, <2>1, <2>3, <3>1 DEF Return, TypeOK, Critical
  <2> QED
    BY <2>2, <2>3
<1>10. ASSUME NEW c \in Callers, SweepOne(c) PROVE CallInv(d)'
  BY <1>0, <1>10 DEF SweepOne, TypeOK, Critical
<1>11. CASE UNCHANGED vars
  BY <1>0, <1>11 DEF vars, Passed
<1> QED
  BY <1>1, <1>2, <1>3, <1>4, <1>5, <1>6, <1>7, <1>8, <1>9, <1>10, <1>11 DEF Next

\* The inductive invariant holds in every reachable state.
LEMMA Invariance == Spec => []IInv
<1>1. IInv /\ [Next]_vars => IInv'
  BY TypeStep, MutexStep, CallStep DEF IInv
<1> QED
  BY <1>1, InitIInv, PTL DEF Spec

\* The lease files, the locks and the locals of every caller of network.py have
\* their types, for every pool and every number of callers.
THEOREM TypeCorrect == Spec => []TypeOK
<1>1. IInv => TypeOK
  BY DEF IInv
<1> QED
  BY <1>1, Invariance, PTL

\* No two callers of network.py are ever inside the lease directory together.
THEOREM Exclusion == Spec => []MutualExclusion
<1>1. IInv => MutualExclusion
  BY DEF IInv
<1> QED
  BY <1>1, Invariance, PTL

-----------------------------------------------------------------------------
(* Refinement *)

\* The leases as the callers see them.
Leases == [a \in Addresses |-> IF InProgress(a) THEN Unleased ELSE file[a]]

\* An empty directory is an empty table.
LEMMA InitRefines == Init => Pool!PoolInit
  BY DEF Init, Pool!PoolInit, Pool!Addresses, Addresses, InProgress

\* The lease file under construction belongs to the caller that holds the locks.
LEMMA WriterLocks ==
  ASSUME IInv, NEW c \in Callers, pc[c] = "write", NEW a \in Addresses
  PROVE  InProgress(a) <=> a = cur[c]
  BY LeasePoolAssumption DEF IInv, MutualExclusion, Critical, InProgress

\* While nobody writes, the callers see the files as they are.
LEMMA NobodyWrites ==
  ASSUME IInv, NEW c \in Callers, pc[c] \in Critical \ {"write"}, NEW a \in Addresses
  PROVE  ~InProgress(a)
  BY LeasePoolAssumption DEF IInv, MutualExclusion, Critical, InProgress

\* A call that returns leaves no file under construction.
LEMMA ReturnClears ==
  ASSUME IInv, NEW c \in Callers, lock = c, Return(c), NEW a \in Addresses
  PROVE  ~InProgress(a)'
  BY LeasePoolAssumption DEF Return, InProgress

\* Creating a lease file is invisible; the pool grants the address when the
\* owner is in it, or loses it to an empty file when the writer is gone.
LEMMA WriteRefines ==
  ASSUME IInv, NEW c \in Callers, pc[c] = "write", Return(c), NEW v,
         file' = [file EXCEPT ![cur[c]] = v]
  PROVE  /\ cur[c] \in Pool!FreeAddresses
         /\ \A b \in Pool!FreeAddresses : cur[c] <= b
         /\ Leases' = [Leases EXCEPT ![cur[c]] = v]
<1>0. lock = c /\ CallInv(c) /\ TypeOK
  BY DEF IInv, MutualExclusion, Critical
<1>1. cur[c] \in Addresses \ Unusable /\ Passed(c) /\ Addresses \subseteq Int
  BY <1>0, LeasePoolAssumption DEF CallInv, Addresses
<1>2. \A a \in Addresses : Leases[a] = IF a = cur[c] THEN Unleased ELSE file[a]
  BY WriterLocks DEF Leases
<1>3. Pool!FreeAddresses = {a \in Addresses \ Unusable : Leases[a] = Unleased}
  BY DEF Pool!FreeAddresses, Pool!Addresses, Addresses, Leases
<1>4. ASSUME NEW b \in Pool!FreeAddresses PROVE cur[c] <= b
  <2>1. b \in Addresses \ Unusable /\ Leases[b] = Unleased
    BY <1>3
  <2>2. b = cur[c] \/ file[b] = Unleased
    BY <1>2, <2>1
  <2>3. ~(b < cur[c])
    BY <1>1, <2>1, <2>2 DEF Passed
  <2>4. b \in Int /\ cur[c] \in Int
    BY <1>1, <2>1
  <2> QED
    BY <2>3, <2>4
<1>5. \A a \in Addresses : ~InProgress(a)'
  BY <1>0, ReturnClears
<1>6. Leases' = [a \in Addresses |-> file'[a]]
  BY <1>5 DEF Leases
<1>7. \A a \in Addresses : file'[a] = IF a = cur[c] THEN v ELSE file[a]
  BY <1>0 DEF TypeOK
<1>8. [Leases EXCEPT ![cur[c]] = v] = [a \in Addresses |-> IF a = cur[c] THEN v ELSE Leases[a]]
  BY DEF Leases
<1>9. Leases' = [Leases EXCEPT ![cur[c]] = v]
  BY <1>2, <1>6, <1>7, <1>8
<1>10. cur[c] \in Pool!FreeAddresses
  BY <1>1, <1>2, <1>3
<1> QED
  BY <1>4, <1>9, <1>10

\* Every step of a caller is a step of the table, or invisible.
LEMMA StepRefines == IInv /\ IInv' /\ [Next]_vars => [Pool!PoolNext]_Leases
<1> SUFFICES ASSUME IInv, IInv', [Next]_vars PROVE Pool!PoolNext \/ Leases' = Leases
  BY DEF Leases
<1> USE LeasePoolAssumption
<1>0. TypeOK /\ \A c \in Callers : CallInv(c) /\ (pc[c] \in Critical => lock = c)
  BY DEF IInv, MutualExclusion
<1>2. ASSUME NEW c \in Callers, NEW op \in {"allocate", "release", "clear_orphans"},
             NEW owners, NEW a, Call(c, op, owners, a)
      PROVE Leases' = Leases
  BY <1>0, <1>2 DEF Call, Leases, InProgress, TypeOK, Critical
<1>3. ASSUME NEW c \in Callers, EnterAllocate(c) \/ EnterRelease(c) \/ EnterClear(c)
      PROVE Leases' = Leases
  BY <1>0, <1>3 DEF EnterAllocate, EnterRelease, EnterClear, Enter, Leases, InProgress, TypeOK, Critical
<1>4. ASSUME NEW c \in Callers, SkipAddress(c) PROVE Leases' = Leases
  BY <1>0, <1>4 DEF SkipAddress, Leases, InProgress, TypeOK, Critical
<1>5. ASSUME NEW c \in Callers, CreateLease(c) PROVE Leases' = Leases
  <2>1. \A a \in Addresses : ~InProgress(a) /\ (InProgress(a)' <=> a = cur[c])
    BY <1>0, <1>5, NobodyWrites DEF CreateLease, InProgress, TypeOK, Critical
  <2> QED
    BY <1>0, <1>5, <2>1 DEF CreateLease, Leases, TypeOK
<1>6. ASSUME NEW c \in Callers, pc[c] # "write", Exhausted(c) \/ SweepEnd(c) \/ Die(c)
      PROVE Leases' = Leases
  BY <1>0, <1>6 DEF Exhausted, SweepEnd, Die, Return, Leases, InProgress, TypeOK, Critical
<1>7. ASSUME NEW c \in Callers, WriteOwner(c) PROVE Pool!PoolNext
  <2>1. PICK o \in arg[c] : file' = [file EXCEPT ![cur[c]] = o]
    BY <1>7 DEF WriteOwner
  <2>2. o \in Names
    BY <1>0 DEF TypeOK
  <2>3. PICK a \in Addresses : a = cur[c]
    BY <1>0, <1>7 DEF CallInv, WriteOwner
  <2>4. Pool!Allocate(o, a)
    BY <1>7, <2>1, <2>3, WriteRefines DEF WriteOwner, Pool!Allocate, Leases
  <2> QED
    BY <2>2, <2>4 DEF Pool!PoolNext, Pool!Addresses, Addresses
<1>8. ASSUME NEW c \in Callers, pc[c] = "write", WriteFails(c) \/ Die(c) PROVE Pool!PoolNext
  <2>1. file' = [file EXCEPT ![cur[c]] = Blank] /\ Return(c)
    BY <1>0, <1>8 DEF TypeOK, CallInv, WriteFails, Die
  <2>2. PICK a \in Addresses : a = cur[c]
    BY <1>0, <1>8 DEF CallInv
  <2>3. Pool!AllocateTorn(a)
    BY <1>8, <2>1, <2>2, WriteRefines DEF Pool!AllocateTorn, Leases
  <2> QED
    BY <2>3 DEF Pool!PoolNext, Pool!Addresses, Addresses
<1>9. ASSUME NEW c \in Callers, UnlinkOwn(c) PROVE Pool!PoolNext \/ Leases' = Leases
  <2>1. PICK o \in Names : arg[c] = {o}
    BY <1>0, <1>9 DEF UnlinkOwn, CallInv
  <2>2. cur[c] \in Addresses /\ lock = c /\ Return(c)
    BY <1>0, <1>9 DEF UnlinkOwn, CallInv, Critical
  <2>3. \A a \in Addresses : ~InProgress(a) /\ ~InProgress(a)'
    BY <1>9, <2>2, NobodyWrites, ReturnClears DEF UnlinkOwn, Critical
  <2>4. Leases = [a \in Addresses |-> file[a]] /\ Leases' = [a \in Addresses |-> file'[a]]
    BY <2>3 DEF Leases
  <2>5. Leases = file /\ Leases' = file'
    BY <1>0, <1>9, <2>4 DEF TypeOK, UnlinkOwn
  <2>6. CASE UNCHANGED file
    BY <2>5, <2>6
  <2>7. CASE file[cur[c]] \in arg[c] /\ file' = [file EXCEPT ![cur[c]] = Unleased]
    <3>1. Leases' = IF Leases[cur[c]] = o THEN [Leases EXCEPT ![cur[c]] = Unleased] ELSE Leases
      BY <2>1, <2>5, <2>7
    <3>2. Pool!Release(cur[c], o)
      BY <2>2, <3>1 DEF Pool!Release, Pool!Addresses, Addresses, Leases
    <3> QED
      BY <2>2, <3>2 DEF Pool!PoolNext, Pool!Addresses, Addresses
  <2> QED
    BY <1>9, <2>6, <2>7 DEF UnlinkOwn
<1>10. ASSUME NEW c \in Callers, SweepOne(c) PROVE Pool!PoolNext \/ Leases' = Leases
  <2>1. PICK a \in todo[c] :
          (file[a] \notin arg[c] /\ file' = [file EXCEPT ![a] = Unleased]) \/ UNCHANGED file
    BY <1>10 DEF SweepOne
  <2>2. a \in Addresses /\ arg[c] \in SUBSET Names
    BY <1>0 DEF TypeOK
  <2>3. \A b \in Addresses : ~InProgress(b)
    BY <1>10, NobodyWrites DEF SweepOne, Critical
  <2>4. \A b \in Addresses : ~InProgress(b)'
    BY <1>10, <2>3 DEF SweepOne, InProgress
  <2>5. Leases = [b \in Addresses |-> file[b]] /\ Leases' = [b \in Addresses |-> file'[b]]
    BY <2>3, <2>4 DEF Leases
  <2>6. CASE UNCHANGED file \/ file[a] = Unleased
    BY <1>0, <2>1, <2>5, <2>6 DEF TypeOK
  <2>7. CASE file' # file /\ file[a] # Unleased
    <3>0. file[a] \notin arg[c]
      BY <2>1, <2>7
    <3>1. Leases' = [b \in Addresses |-> IF b \in {a} THEN Unleased ELSE Leases[b]]
      BY <1>0, <2>1, <2>2, <2>5, <2>7 DEF TypeOK
    <3>2. {a} \subseteq {b \in Addresses : Leases[b] \notin arg[c] \cup {Unleased}}
      BY <2>2, <2>5, <2>7, <3>0
    <3>3. Pool!Orphans(arg[c]) = {b \in Addresses : Leases[b] \notin arg[c] \cup {Unleased}}
      BY DEF Pool!Orphans, Pool!Addresses, Addresses, Leases
    <3>4. Pool!ClearOrphans(arg[c], {a})
      BY <3>1, <3>2, <3>3 DEF Pool!ClearOrphans, Pool!Addresses, Addresses, Leases
    <3> QED
      BY <2>2, <3>2, <3>3, <3>4 DEF Pool!PoolNext
  <2> QED
    BY <2>6, <2>7
<1>11. CASE UNCHANGED vars
  BY <1>11 DEF vars, Leases, InProgress
<1>12. ASSUME NEW c \in Callers, Exhausted(c) \/ SweepEnd(c) \/ WriteFails(c) \/ Die(c)
       PROVE Pool!PoolNext \/ Leases' = Leases
  BY <1>6, <1>8, <1>12 DEF Exhausted, SweepEnd, WriteFails
<1> QED
  BY <1>2, <1>3, <1>4, <1>5, <1>7, <1>9, <1>10, <1>11, <1>12 DEF Next

\* The file protocol of network.py implements the atomic table of leases.
THEOREM Refinement == Spec => ImplementsAddressPool
<1>1. Init => Pool!PoolInit
  BY InitRefines
<1>2. IInv /\ IInv' /\ [Next]_vars => [Pool!PoolNext]_Leases
  BY StepRefines
<1> QED
  BY <1>1, <1>2, Invariance, PTL DEF Spec, ImplementsAddressPool, Pool!PoolSpec, Leases
=============================================================================
