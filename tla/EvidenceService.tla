-------------------------- MODULE EvidenceService --------------------------
(***************************************************************************)
(* LabService (service.py) behind its handlers (handlers.py), with the     *)
(* signing and the verification of bundles (signing.py, verify.py).  The   *)
(* handlers run one after the other on the event loop of the Jupyter       *)
(* server; every write of theirs is a step that may fail, and the process  *)
(* or the whole host may die between any two.  A file is its contents and  *)
(* stands for its hash and size too.                                       *)
(***************************************************************************)
EXTENDS Integers, Sequences

CONSTANTS
  Requests,        \* numbers of the HTTP requests, in the order they are made
  Payloads,        \* the events a browser may report
  MaxEvents,       \* max_events
  FsyncEvents,     \* fsync_events
  SigningModes,    \* values of evidence.signing.enabled in lab.yaml
  Absent, Torn,    \* no file; a file cut short
  NoRequest, NoState,
  MaxSessions, MaxFaults     \* bounds of the model

ASSUME EvidenceAssumption ==
  /\ Requests \subseteq Nat /\ NoRequest \notin Requests
  /\ MaxEvents \in Nat \ {0} /\ MaxSessions \in Nat \ {0} /\ MaxFaults \in Nat
  /\ FsyncEvents \in BOOLEAN /\ SigningModes \subseteq BOOLEAN

VARIABLES
  session,    \* which LabService this is
  signing,    \* its evidence.signing.enabled
  key,        \* the private key can be read
  events,     \* _events; after a death, what the dead service had accepted
  dir,        \* session_dir
  synced,     \* lines of the log on stable storage
  shorted,    \* history: a write of the log was cut short without an error
  srv,        \* what the event loop is doing, and for which request
  req,        \* the HTTP requests
  faults

evidence == <<session, signing, key, events, dir, synced, shorted, srv>>

Fault == faults < MaxFaults /\ faults' = faults + 1

NoFault == UNCHANGED faults

-----------------------------------------------------------------------------
(* Data *)

NoDir == [log |-> <<>>, evidence |-> Absent, environment |-> Absent, manifest |-> Absent,
          sig |-> Absent, sums |-> Absent]

\* _completed_stages: the stages that client events can complete.
Stages(es) ==
  LET kinds == {es[i].what.kind : i \in DOMAIN es} IN
  {stage \in {"observed", "explained"} :
     IF stage = "observed" THEN "cell-executed" \in kinds
     ELSE \E i \in DOMAIN es : es[i].what.kind = "notebook-context" /\ es[i].what.markdown}

\* state()
StateOf(es) == [session |-> session, n |-> Len(es), stages |-> Stages(es)]

\* _signing_config raises unless this holds.
Configured == signing => key

\* verify_manifest_signature: the signature is of these bytes.
SignatureFits(d) == d.sig # Torn /\ d.sig.of = d.manifest

\* verify_bundle without a trusted key: every artifact of the manifest is as the
\* manifest says, and a signature, where there is one, is the manifest's.
Verifies(d) ==
  /\ d.manifest \notin {Absent, Torn}
  /\ \A file \in DOMAIN d.manifest.artifacts : d[file] = d.manifest.artifacts[file]
  /\ d.sig # Absent => SignatureFits(d)

\* SHA256SUMS lists every file of the bundle as it is.
SumsFit(d) ==
  d.sums \notin {Absent, Torn} /\ d.sums = [d EXCEPT !.sums = Absent]

NoReq == [kind |-> "none", what |-> Absent, phase |-> "new", state |-> NoState]

Idle == [at |-> "idle", r |-> NoRequest]

ServiceInit ==
  /\ session = 1 /\ signing \in SigningModes /\ key = TRUE
  /\ events = <<>> /\ dir = NoDir /\ synced = 0 /\ shorted = FALSE
  /\ srv = Idle
  /\ faults = 0

-----------------------------------------------------------------------------
(* Handlers *)

Serving(r, kind) == srv.at = "idle" /\ req[r].phase = "sent" /\ req[r].kind = kind

Goto(r, label) ==
  /\ srv' = [at |-> label, r |-> r]
  /\ req' = [req EXCEPT ![r].phase = "served"]

Answer(r, st) ==
  /\ srv' = Idle
  /\ req' = [req EXCEPT ![r].phase = "ok", ![r].state = st]

\* A failed request is reported by the browser and not repeated.
Failed(r) == req' = [req EXCEPT ![r] = [NoReq EXCEPT !.phase = "failed"]]

\* An HTTP error
Error(r) == srv' = Idle /\ Failed(r)

\* The answer carries state(), which raises when the key has become unreadable.
AnswerState(r, es) == IF Configured THEN Answer(r, StateOf(es)) ELSE Error(r)

\* StateHandler.get
ServeState(r) ==
  /\ Serving(r, "state")
  /\ AnswerState(r, events)
  /\ UNCHANGED <<session, signing, key, events, dir, synced, shorted, faults>>

\* Mutant: one event more than the limit.
Full_OffByOne == Len(events) > MaxEvents

Full == Len(events) >= MaxEvents

\* 429 for a session that is full, 413 for a payload that is too large: sizes are
\* not modelled, so any may be.
Reject(r) ==
  /\ Serving(r, "event")
  /\ Error(r)
  /\ UNCHANGED <<session, signing, key, events, dir, synced, shorted, faults>>

\* The event gets the next number of those in memory.
NewEvent(r) == [seq |-> Len(events) + 1, id |-> r, what |-> req[r].what]

Written(r, whole) == dir' = [dir EXCEPT !.log = Append(@, [event |-> NewEvent(r), whole |-> whole])]

\* _record up to stream.write.  A raw write may be short without an error, and
\* the code does not look: a known gap.
WriteEvent(r) ==
  /\ Serving(r, "event") /\ ~Full
  /\ \/ Written(r, TRUE) /\ Goto(r, "fsync") /\ NoFault /\ UNCHANGED shorted
     \/ Written(r, FALSE) /\ Goto(r, "fsync") /\ Fault /\ shorted' = TRUE
     \/ Error(r) /\ Fault /\ UNCHANGED <<dir, shorted>>
  /\ UNCHANGED <<session, signing, key, events, synced>>

\* Mutant: the event is accepted whether or not fsync succeeds.
AcceptEvent_IgnoreFsync(r) ==
  /\ srv = [at |-> "fsync", r |-> r]
  /\ LET es == Append(events, dir.log[Len(dir.log)].event) IN events' = es /\ AnswerState(r, es)
  /\ \/ synced' = Len(dir.log) /\ NoFault
     \/ UNCHANGED synced /\ Fault
  /\ UNCHANGED <<session, signing, key, dir, shorted>>

\* os.fsync, then _events.append and the answer of EventHandler.post.
AcceptEvent(r) ==
  /\ srv = [at |-> "fsync", r |-> r]
  /\ synced' = IF FsyncEvents THEN Len(dir.log) ELSE synced
  /\ LET es == Append(events, dir.log[Len(dir.log)].event) IN events' = es /\ AnswerState(r, es)
  /\ UNCHANGED <<session, signing, key, dir, shorted, faults>>

\* fsync raises: the line is in the file, the event is not in memory, and the
\* next event takes the same number.
FsyncFails(r) ==
  /\ srv = [at |-> "fsync", r |-> r] /\ FsyncEvents
  /\ Fault /\ Error(r)
  /\ UNCHANGED <<session, signing, key, events, dir, synced, shorted>>

-----------------------------------------------------------------------------
(* export *)

\* A file is written in place, or the write raises and may have truncated it.
Put(file, contents) ==
  \/ dir' = [dir EXCEPT ![file] = contents] /\ NoFault
  \/ dir' \in {dir, [dir EXCEPT ![file] = Torn]} /\ Fault

\* The next step of the export, or a 500 when this one has failed.
Proceed(r, label) == IF faults' = faults THEN Goto(r, label) ELSE Error(r)

ExportFrame == UNCHANGED <<session, signing, key, events, synced, shorted>>

\* The configuration is read before anything is written.
ExportBegin(r) ==
  /\ Serving(r, "export")
  /\ IF Configured THEN Goto(r, "evidence") ELSE Error(r)
  /\ ExportFrame /\ UNCHANGED <<dir, faults>>

ExportEvidence(r) ==
  /\ srv = [at |-> "evidence", r |-> r]
  /\ Put("evidence", [at |-> r, events |-> events])
  /\ Proceed(r, "environment")
  /\ ExportFrame

ExportEnvironment(r) ==
  /\ srv = [at |-> "environment", r |-> r]
  /\ Put("environment", "declared")
  /\ Proceed(r, "manifest")
  /\ ExportFrame

\* Mutant: the manifest does not cover the log.
Artifacts_NoLog == [file \in {"evidence", "environment"} |-> dir[file]]

\* The artifacts are hashed as they are on disk.
Artifacts == [file \in {"evidence", "environment", "log"} |-> dir[file]]

ExportManifest(r) ==
  /\ srv = [at |-> "manifest", r |-> r]
  /\ Put("manifest", [at |-> r, count |-> Len(events), artifacts |-> Artifacts])
  /\ Proceed(r, IF signing THEN "sign" ELSE "sums")
  /\ ExportFrame

\* sign_manifest: the signature is written aside and renamed over the old one.
\* Without a readable key, or when a write fails, the old one stays.
ExportSign(r) ==
  /\ srv = [at |-> "sign", r |-> r]
  /\ \/ key /\ dir' = [dir EXCEPT !.sig = [of |-> dir.manifest]] /\ Goto(r, "sums") /\ NoFault
     \/ UNCHANGED dir /\ Error(r) /\ (IF key THEN Fault ELSE NoFault)
  /\ ExportFrame

\* Mutant: the sums are of the bundle before it was signed.
Sums_Early == [dir EXCEPT !.sums = Absent, !.sig = Absent]

Sums == [dir EXCEPT !.sums = Absent]

\* SHA256SUMS, and the answer
ExportSums(r) ==
  /\ srv = [at |-> "sums", r |-> r]
  /\ Put("sums", Sums)
  /\ IF faults' = faults THEN Answer(r, NoState) ELSE Error(r)
  /\ ExportFrame

-----------------------------------------------------------------------------
(* The key, deaths and restarts *)

\* The key file goes and comes back.
KeyChanges ==
  /\ signing
  /\ key' = ~key
  /\ IF key THEN Fault ELSE NoFault
  /\ UNCHANGED <<session, signing, events, dir, synced, shorted, srv, req>>

\* Every open request fails when the server is gone; answers under way arrive.
Down ==
  /\ srv.at # "down" /\ session < MaxSessions
  /\ srv' = [at |-> "down", r |-> NoRequest]
  /\ req' = [r \in Requests |->
               IF req[r].phase \in {"sent", "served"} THEN [NoReq EXCEPT !.phase = "failed"] ELSE req[r]]

\* The process is killed, possibly in the middle of a file of an export.
Killed ==
  /\ Down
  /\ \/ UNCHANGED dir
     \/ srv.at \in {"evidence", "environment", "manifest", "sums"} /\ dir' = [dir EXCEPT ![srv.at] = Torn]
  /\ UNCHANGED <<session, signing, key, events, synced, shorted, faults>>

\* The host loses power: lines of the log that were not flushed may be lost, and
\* the files of exports, which are never flushed, are all there or all torn (one
\* that is torn is enough for verification to fail).
PowerLoss ==
  /\ Down
  /\ \E n \in synced..Len(dir.log), torn \in BOOLEAN :
       dir' = [file \in DOMAIN dir |->
                 IF file = "log" THEN SubSeq(dir.log, 1, n)
                 ELSE IF torn /\ dir[file] # Absent THEN Torn ELSE dir[file]]
  /\ UNCHANGED <<session, signing, key, events, synced, shorted, faults>>

\* A new LabService with a directory of its own; nothing reads the old one.
ServerStart ==
  /\ srv.at = "down"
  /\ session' = session + 1 /\ signing' \in SigningModes
  /\ events' = <<>> /\ dir' = NoDir /\ synced' = 0 /\ shorted' = FALSE
  /\ srv' = Idle
  /\ UNCHANGED <<key, req, faults>>

ServerStep(r) ==
  \/ ServeState(r) \/ Reject(r) \/ WriteEvent(r) \/ AcceptEvent(r) \/ FsyncFails(r)
  \/ ExportBegin(r) \/ ExportEvidence(r) \/ ExportEnvironment(r) \/ ExportManifest(r)
  \/ ExportSign(r) \/ ExportSums(r)
=============================================================================
