-------------------------- MODULE ProgressionPanel --------------------------
(***************************************************************************)
(* A browser with the laboratory extension (labextension/src/index.ts) and *)
(* the Jupyter server that it talks to: the evidence service behind its    *)
(* handlers and the telemetry of kernel errors, which share the server     *)
(* process.  Requests run side by side: the server may take them in any    *)
(* order, answers may arrive in any order or not at all, and each answer   *)
(* that arrives is shown.                                                  *)
(***************************************************************************)
EXTENDS EvidenceService, KernelTelemetry, FiniteSets

CONSTANTS Notebooks

ASSUME PanelAssumption ==
  \A b \in Notebooks :
    /\ [kind |-> "cell-executed", notebook |-> b, markdown |-> FALSE] \in Payloads
    /\ \A markdown \in BOOLEAN :
         [kind |-> "notebook-context", notebook |-> b, markdown |-> markdown] \in Payloads

VARIABLES
  shown,      \* the state the panel displays
  attached,   \* attachedNotebooks
  behind      \* history: the panel may be out of date, by one of the known gaps

panel == <<shown, attached, behind>>
vars == <<session, signing, key, events, dir, synced, shorted, srv, req, faults,
          shown, attached, behind, recent, recentSet, since>>

Refresh == [NoReq EXCEPT !.kind = "state", !.phase = "sent"]

\* The extension has just been activated and has asked for the state, or it has
\* got the answer.
Init ==
  /\ ServiceInit /\ TelemetryInit
  /\ \/ req = [r \in Requests |-> IF r = 1 THEN Refresh ELSE NoReq] /\ shown = NoState
     \/ req = [r \in Requests |-> NoReq] /\ shown = StateOf(events)
  /\ attached = {}
  /\ behind = FALSE

-----------------------------------------------------------------------------
(* The browser's requests *)

\* requestJson: the next request is made.  Where nobody listens it fails at once.
Send(kind, what) ==
  IF srv.at = "down" THEN UNCHANGED req
  ELSE \E r \in Requests :
    /\ req[r].phase = "new" /\ \A q \in Requests : q < r => req[q].phase # "new"
    /\ req' = [req EXCEPT ![r] = [NoReq EXCEPT !.kind = kind, !.what = what, !.phase = "sent"]]

\* NotebookActions.executed
Execute(b) ==
  /\ Send("event", [kind |-> "cell-executed", notebook |-> b, markdown |-> FALSE])
  /\ UNCHANGED <<evidence, faults, panel, telemetry>>

\* EXPORT_COMMAND
Export ==
  /\ Send("export", Absent)
  /\ UNCHANGED <<evidence, faults, panel, telemetry>>

\* attachNotebook, called by widgetAdded and for every restored notebook: the
\* first call notes the notebook and, once it is loaded, posts its context.  A
\* context that fails is not posted again.
Attach(b) ==
  /\ b \notin attached /\ attached' = attached \cup {b}
  /\ \E markdown \in BOOLEAN :
       Send("event", [kind |-> "notebook-context", notebook |-> b, markdown |-> markdown])
  /\ UNCHANGED <<evidence, faults, shown, behind, telemetry>>

-----------------------------------------------------------------------------
(* Answers *)

\* Mutant: the answer to an event is not shown.
SetState_OnlyRefresh(r) ==
  /\ shown' = IF req[r].kind = "state" THEN req[r].state ELSE shown
  /\ behind' = (behind /\ req[r].state # StateOf(events))

\* setState and refresh: whatever arrives is shown.  An answer that is older than
\* the one shown sets the panel back: a known gap.
SetState(r) ==
  LET st == req[r].state IN
  /\ shown' = st
  /\ behind' = /\ st # StateOf(events)
               /\ \/ behind \/ st.session # session
                  \/ shown # NoState /\ shown.session = session /\ st.n < shown.n

Gone(r) == req' = [req EXCEPT ![r] = [NoReq EXCEPT !.phase = "gone"]]

ReceiveState(r) ==
  /\ req[r].phase = "ok" /\ req[r].kind # "export"
  /\ SetState(r)
  /\ Gone(r)
  /\ UNCHANGED <<evidence, faults, attached, telemetry>>

\* The export command goes on with a refresh.
ReceiveExport(r) ==
  /\ req[r].phase = "ok" /\ req[r].kind = "export"
  /\ req' = [req EXCEPT ![r] = IF srv.at = "down" THEN [NoReq EXCEPT !.phase = "failed"] ELSE Refresh]
  /\ UNCHANGED <<evidence, faults, panel, telemetry>>

\* The connection breaks before the answer arrives.
Broken(r) ==
  /\ req[r].phase = "ok" /\ Fault
  /\ Failed(r)
  /\ UNCHANGED <<evidence, panel, telemetry>>

-----------------------------------------------------------------------------
(* The server process *)

Serve(r) == ServerStep(r) /\ UNCHANGED <<panel, telemetry>>

KeyFile == KeyChanges /\ UNCHANGED <<panel, telemetry>>

Die == (Killed \/ PowerLoss) /\ UNCHANGED <<panel, telemetry>>

\* A new process has a new session and an empty window.
StartAgain ==
  /\ ServerStart
  /\ recent' = <<>> /\ recentSet' = {} /\ since' = [m \in MessageIds |-> Window]
  /\ behind' = TRUE
  /\ UNCHANGED <<shown, attached>>

\* Messages of kernels are handled between two requests, on the same event loop.
KernelError(m) ==
  /\ srv.at = "idle"
  /\ FirstObservation(m)
  /\ UNCHANGED <<evidence, req, faults, panel>>

Browser(r) == ReceiveState(r) \/ ReceiveExport(r) \/ Broken(r)

Next ==
  \/ \E b \in Notebooks : Execute(b) \/ Attach(b)
  \/ Export
  \/ \E r \in Requests : Serve(r) \/ Browser(r)
  \/ KeyFile \/ Die \/ StartAgain
  \/ \E m \in MessageIds : KernelError(m)

Spec == Init /\ [][Next]_vars

-----------------------------------------------------------------------------
(* Properties *)

Events == [seq : 1..MaxEvents, id : Requests, what : Payloads]

States == [session : 1..MaxSessions, n : 0..MaxEvents, stages : SUBSET {"observed", "explained"}]

Lines == [event : Events, whole : BOOLEAN]

Files == {"log", "evidence", "environment", "manifest", "sig", "sums"}

\* What the files of a finished export hold.
Evidences == [at : Requests, events : Seq(Events)]

Manifests ==
  [at : Requests, count : 0..MaxEvents,
   artifacts : [{"evidence", "environment", "log"} -> Evidences \cup {"declared"} \cup Seq(Lines)]]

Signatures == [of : Manifests]

Contents == Evidences \cup {"declared"} \cup Seq(Lines) \cup Manifests \cup Signatures

\* The special values are not the contents of a file, and no state.
ASSUME ContentsAssumption ==
  /\ \A x \in {Absent, Torn} :
       x \notin Manifests /\ x \notin Signatures /\ x \notin [Files -> Contents \cup {Absent}]
  /\ NoState \notin States

\* Types of the variables: the log never holds an event beyond the limit, and the
\* server works on a request that waits for it.
TypeOK ==
  /\ TelemetryTypeOK
  /\ session \in 1..MaxSessions /\ {signing, key, shorted, behind} \subseteq BOOLEAN
  /\ events \in Seq(Events) /\ Len(events) <= MaxEvents
  /\ dir.log \in Seq(Lines) /\ synced \in 0..Len(dir.log)
  /\ srv.at \in {"down", "idle", "fsync", "evidence", "environment", "manifest", "sign", "sums"}
  /\ srv.r \in Requests => req[srv.r].phase = "served"
  /\ req \in [Requests ->
       [kind : {"none", "state", "event", "export"}, what : Payloads \cup {Absent},
        phase : {"new", "sent", "served", "ok", "failed", "gone"}, state : States \cup {NoState}]]
  /\ faults \in 0..MaxFaults
  /\ shown \in States \cup {NoState}
  /\ attached \subseteq Notebooks

\* With fsync_events, whatever write, fsync, process or host has failed, a reader of
\* events.jsonl who takes the last line of every number has every accepted event, in
\* order and from stable storage, followed by at most one that was not accepted:
\* lines of failed fsyncs come before the accepted line of the same number
\* (_record).  Sessions with a short write are excepted.
LastLineWins ==
  FsyncEvents /\ ~shorted =>
    /\ \A n \in DOMAIN events : \E i \in 1..synced :
         /\ dir.log[i].event = events[n]
         /\ \A j \in (i + 1)..Len(dir.log) : dir.log[j].event.seq > n
    /\ \A i \in DOMAIN dir.log : dir.log[i].event.seq <= Len(events) + 1

Stream == INSTANCE EvidenceStream
  WITH Limit <- MaxEvents, NoBundle <- Absent, stream <- events,
       bundle <- IF Verifies(dir) THEN dir.evidence.events ELSE Absent

\* The service implements EvidenceStream: events are only appended and never more
\* than max_events, and at every moment, in the middle of an export, after one that
\* failed and after a death, verify_bundle either refuses the directory or vouches
\* for exactly the events accepted so far.
ImplementsStream == Stream!Spec

\* An export that answers with success leaves a bundle that verifies, is signed by
\* a signature of its manifest exactly when signing is enabled, and whose
\* SHA256SUMS fits every file, whatever was left by earlier exports (export).
ExportVerifies ==
  [][\A r \in Requests :
       req[r].kind = "export" /\ req[r].phase # "ok" /\ req'[r].phase = "ok" =>
         /\ Verifies(dir') /\ SumsFit(dir') /\ dir'.manifest.count = Len(events')
         /\ signing <=> dir'.sig # Absent]_vars

Quiet == \A r \in Requests : req[r].phase \in {"new", "failed", "gone"}

\* An event was accepted and its request has failed.  The panel reports that and
\* does nothing else: a known gap.
Unanswered == \E i \in DOMAIN events : req[events[i].id].phase = "failed"

\* What the panel shows of the current session is a state the server really was in,
\* and when no request is under way it is the present one, unless an answer was
\* lost, overtaken, or the server was started again (setState, refresh).
PanelTruthful ==
  shown # NoState /\ shown.session = session =>
    /\ shown.n <= Len(events) /\ shown.stages = Stages(SubSeq(events, 1, shown.n))
    /\ Quiet /\ ~behind /\ ~Unanswered => shown = StateOf(events)
=============================================================================
