-------------------------- MODULE RuntimeLifecycle --------------------------
(***************************************************************************)
(* What the runtime daemon promises about one runtime name: something of   *)
(* it exists on the host only between the moment it is registered for an   *)
(* owner and the moment it is unregistered, and the registration never     *)
(* passes from one owner to another without the runtime being gone in      *)
(* between.  Crashes and failed commands may leave it half built or half   *)
(* removed, but registered; only some parts may be left behind.            *)
(***************************************************************************)
CONSTANTS
  Names,        \* runtime names
  Processes,    \* identities a runtime can be registered for
  Absent,       \* not registered
  Parts,        \* what can exist of a runtime on the host
  Volatile,     \* the parts that do not survive a restart of the host
  Forgettable   \* the parts that may outlive the registration

VARIABLES
  owner,        \* whom each name is registered for
  parts         \* the parts of each runtime that exist

Init ==
  /\ owner = [n \in Names |-> Absent]
  /\ parts = [n \in Names |-> {}]

Register(n, p) ==
  /\ owner[n] = Absent
  /\ owner' = [owner EXCEPT ![n] = p]
  /\ UNCHANGED parts

\* Parts are made or removed, in any order, while the name is registered.
Change(n, new) ==
  /\ owner[n] # Absent
  /\ parts' = [parts EXCEPT ![n] = new]
  /\ UNCHANGED owner

Unregister(n) ==
  /\ parts[n] \subseteq Forgettable
  /\ owner' = [owner EXCEPT ![n] = Absent]
  /\ UNCHANGED parts

HostRestart ==
  /\ parts' = [n \in Names |-> parts[n] \ Volatile]
  /\ UNCHANGED owner

Next ==
  \/ \E n \in Names, p \in Processes : Register(n, p)
  \/ \E n \in Names, new \in SUBSET Parts : Change(n, new)
  \/ \E n \in Names : Unregister(n)
  \/ HostRestart

Spec == Init /\ [][Next]_<<owner, parts>>
=============================================================================
