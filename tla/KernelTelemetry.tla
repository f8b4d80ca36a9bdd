-------------------------- MODULE KernelTelemetry --------------------------
(***************************************************************************)
(* SentryKernelWebsocketConnection (kernel_telemetry.py): every websocket  *)
(* of a kernel sees the same error message on iopub, and the class keeps a *)
(* window of the last messages so that each is reported once.              *)
(***************************************************************************)
EXTENDS Integers, Sequences

CONSTANTS MessageIds, Window     \* maxlen of the deque

ASSUME TelemetryAssumption == Window \in Nat \ {0}

VARIABLES
  recent,     \* _recent_error_ids, oldest first
  recentSet,  \* _recent_error_id_set
  since       \* history: other messages first observed since this one, up to Window

telemetry == <<recent, recentSet, since>>

TelemetryInit ==
  /\ recent = <<>> /\ recentSet = {}
  /\ since = [m \in MessageIds |-> Window]

\* Mutant: the newest message makes room.
Expired_Newest == IF Len(recent) = Window THEN {recent[Window]} ELSE {}

\* popleft of a full deque
Expired == IF Len(recent) = Window THEN {Head(recent)} ELSE {}

\* _on_error and _first_observation of a message that is not in the window: it is
\* reported, and remembered in place of the oldest.
FirstObservation(m) ==
  /\ m \notin recentSet
  /\ recent' = Append(IF Len(recent) = Window THEN Tail(recent) ELSE recent, m)
  /\ recentSet' = (recentSet \ Expired) \cup {m}
  /\ since' = [k \in MessageIds |->
                 IF k = m THEN 0 ELSE IF since[k] < Window THEN since[k] + 1 ELSE Window]

\* Types of the window.
TelemetryTypeOK ==
  /\ recent \in Seq(MessageIds) /\ Len(recent) <= Window
  /\ recentSet \subseteq MessageIds /\ since \in [MessageIds -> 0..Window]

\* A message is suppressed exactly while fewer than Window other messages were
\* first observed after it: however often and on however many connections it is
\* seen, it is reported again only when Window others have pushed it out, and it
\* is not suppressed for ever (the deque and the set expire together).
SuppressedInWindow == \A m \in MessageIds : m \in recentSet <=> since[m] < Window
=============================================================================
