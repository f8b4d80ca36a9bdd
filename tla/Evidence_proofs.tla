--------------------------- MODULE Evidence_proofs ---------------------------
(***************************************************************************)
(* What an exported bundle attests: the evidence service implements        *)
(* EvidenceStream, and an export that succeeds leaves a complete bundle;   *)
(* and what the panel shows: in whichever order requests are served and    *)
(* answers arrive, a state that the server was in.                         *)
(***************************************************************************)
EXTENDS ProgressionPanel_proofs

\* A manifest on disk, of whichever export, attests the events accepted so far, or
\* the flushed part of the log has grown past the log that it covers.
ManifestInv ==
  dir["manifest"] \notin {Absent, Torn} =>
    /\ DOMAIN dir["manifest"].artifacts = {"evidence", "environment", "log"}
    /\ dir["manifest"].artifacts["log"] \in Seq(Lines)
    /\ \/ dir["manifest"].artifacts["evidence"].events = events
       \/ Len(dir["manifest"].artifacts["log"]) < synced
    /\ srv.at # "down" => Len(dir["manifest"].artifacts["log"]) <= Len(dir["log"])
    /\ srv.at = "fsync" => Len(dir["manifest"].artifacts["log"]) < Len(dir["log"])

\* What the steps of an export have already written, label by label.
ExportInv ==
  /\ srv.at = "fsync" => req[srv.r].kind = "event"
  /\ srv.at \in {"environment", "manifest", "sign", "sums"} =>
       dir["evidence"] = [at |-> srv.r, events |-> events]
  /\ srv.at \in {"manifest", "sign", "sums"} => dir["environment"] = "declared"
  /\ srv.at \in {"sign", "sums"} =>
       dir["manifest"] = [at |-> srv.r, count |-> Len(events), artifacts |-> Artifacts]
  /\ srv.at = "sign" => signing
  /\ srv.at = "sums" /\ signing => dir["sig"] = [of |-> dir["manifest"]]
  /\ ~signing => dir["sig"] = Absent

BundleInv == ManifestInv /\ ExportInv

\* While the events in memory stay and the manifest is not replaced, it attests what
\* it did.
LEMMA ManifestKept ==
  ASSUME ManifestInv, UNCHANGED <<events, synced>>,
         dir'["manifest"] \in {dir["manifest"], Torn}, srv'.at # "fsync",
         srv'.at = "down" \/ (srv.at # "down" /\ dir'["log"] = dir["log"])
  PROVE  ManifestInv'
<1>1. CASE dir'["manifest"] \in {Absent, Torn}
  BY <1>1 DEF ManifestInv
<1>2. CASE dir'["manifest"] \notin {Absent, Torn} /\ dir'["manifest"] = dir["manifest"]
  BY <1>2 DEF ManifestInv
<1> QED
  BY <1>1, <1>2

\* The loop is idle or down and no signature has appeared.
LEMMA ExportOver ==
  ASSUME srv'.at \in {"idle", "down"}, ~signing' => dir'["sig"] = Absent
  PROVE  ExportInv'
BY DEF ExportInv

\* A bundle that verifies attests the events accepted so far, and none verifies while
\* an event is being recorded (verify_bundle).
LEMMA VerifiedIsPresent ==
  Good /\ ManifestInv /\ Verifies(dir) => dir["evidence"].events = events /\ srv.at # "fsync"
<1> SUFFICES ASSUME Good, ManifestInv, Verifies(dir)
             PROVE  dir["evidence"].events = events /\ srv.at # "fsync"
  OBVIOUS
<1>1. /\ dir["manifest"] \notin {Absent, Torn}
      /\ \A file \in DOMAIN dir["manifest"].artifacts : dir[file] = dir["manifest"].artifacts[file]
  BY DEF Verifies
<1>2. DOMAIN dir["manifest"].artifacts = {"evidence", "environment", "log"}
  BY <1>1 DEF ManifestInv
<1>3. /\ dir["evidence"] = dir["manifest"].artifacts["evidence"]
      /\ dir["log"] = dir["manifest"].artifacts["log"]
  BY <1>1, <1>2
<1>4. dir["log"] \in Seq(Lines) /\ synced \in 0..Len(dir["log"]) /\ Len(dir["log"]) \in Nat
  BY DEF Good, ServiceInv, StoreOK
<1>5. ~(Len(dir["log"]) < synced) /\ ~(Len(dir["log"]) < Len(dir["log"]))
  BY <1>4
<1> QED
  BY <1>1, <1>3, <1>5 DEF ManifestInv
-----------------------------------------------------------------------------
(* The steps of an export *)

\* A file of an export is written as a whole, or it is as it was or torn, and a fault
\* has been counted; the other files are as they were.
LEMMA PutFile ==
  ASSUME Good, NEW file \in Files, NEW contents, Put(file, contents)
  PROVE  /\ \A f \in Files \ {file} : dir'[f] = dir[f]
         /\ \/ faults' = faults /\ dir'[file] = contents
            \/ faults' # faults /\ dir'[file] \in {dir[file], Torn}
<1>1. DOMAIN dir = Files /\ faults \in Int
  BY EvidenceAssumption DEF Good, ServiceInv, StoreOK
<1>2. \A c : /\ [dir EXCEPT ![file] = c][file] = c
             /\ \A f \in Files \ {file} : [dir EXCEPT ![file] = c][f] = dir[f]
  BY <1>1
<1> QED
  BY <1>1, <1>2 DEF Put, Fault, NoFault

\* What the browser does to a request that the server is not working on, and the
\* telemetry, are nothing to the service.
LEMMA ExportFromOutside ==
  ASSUME Good, ExportInv, UNCHANGED evidence,
         \A r \in Requests : req[r].phase = "served" => req'[r] = req[r]
  PROVE  ExportInv'
<1>1. srv.at = "fsync" => srv.r \in Requests /\ req[srv.r].phase = "served"
  BY DEF Good, ServiceInv
<1> QED
  BY <1>1 DEF ExportInv, evidence, Artifacts

\* Requests that are made, answers that arrive, and kernel errors.
LEMMA Outside ==
  ASSUME Good,
         \/ \E b \in Notebooks : Execute(b) \/ Attach(b)
         \/ Export
         \/ \E r \in Requests : Browser(r)
         \/ \E m \in MessageIds : KernelError(m)
         \/ UNCHANGED vars
  PROVE  /\ UNCHANGED evidence
         /\ \A r \in Requests : req[r].phase = "served" => req'[r] = req[r]
<1>1. ASSUME NEW kind, NEW what, Send(kind, what)
      PROVE  \A r \in Requests : req[r].phase = "served" => req'[r] = req[r]
  BY <1>1 DEF Send, Good, ServiceInv, ReqsOK
<1>2. ASSUME NEW b \in Notebooks, Execute(b) \/ Attach(b)
      PROVE  /\ UNCHANGED evidence
             /\ \A r \in Requests : req[r].phase = "served" => req'[r] = req[r]
  BY <1>1, <1>2 DEF Execute, Attach
<1>3. CASE Export
  BY <1>1, <1>3 DEF Export
<1>4. ASSUME NEW r \in Requests, Browser(r)
      PROVE  /\ UNCHANGED evidence
             /\ \A q \in Requests : req[q].phase = "served" => req'[q] = req[q]
  BY <1>4 DEF Browser, ReceiveState, ReceiveExport, Broken, Gone, Failed, Good, ServiceInv, ReqsOK
<1>5. CASE (\E m \in MessageIds : KernelError(m)) \/ UNCHANGED vars
  BY <1>5 DEF KernelError, vars, evidence
<1> QED
  BY <1>2, <1>3, <1>4, <1>5

\* A step of the export that writes its file has what the earlier steps have written.
LEMMA ExportPut ==
  ASSUME Good, ExportInv, NEW r \in Requests,
         ExportEvidence(r) \/ ExportEnvironment(r) \/ ExportManifest(r)
  PROVE  ExportInv'
<1>1. {"evidence", "environment", "manifest", "sig", "log"} \subseteq Files
  BY DEF Files
<1>2. ~signing' => dir'["sig"] = Absent
  BY <1>1, PutFile DEF ExportEvidence, ExportEnvironment, ExportManifest, ExportFrame, ExportInv, Files
<1>3. ASSUME Error(r)
      PROVE  ExportInv'
  BY <1>2, <1>3, ExportOver DEF Error, Idle
<1>4. CASE ExportEvidence(r)
  <2>1. ASSUME faults' = faults
        PROVE  ExportInv'
    <3>1. dir'["evidence"] = [at |-> r, events |-> events]
      BY <1>4, <2>1, PutFile DEF ExportEvidence, Files
    <3>2. srv'.at = "environment" /\ srv'.r = r /\ UNCHANGED <<events, signing>>
      BY <1>4, <2>1 DEF ExportEvidence, ExportFrame, Proceed, Goto
    <3> QED
      BY <1>2, <3>1, <3>2 DEF ExportInv
  <2> QED
    BY <1>3, <1>4, <2>1 DEF ExportEvidence, Proceed
<1>5. CASE ExportEnvironment(r)
  <2>1. ASSUME faults' = faults
        PROVE  ExportInv'
    <3>1. dir'["environment"] = "declared" /\ dir'["evidence"] = dir["evidence"]
      BY <1>5, <2>1, PutFile DEF ExportEnvironment, Files
    <3>2. srv'.at = "manifest" /\ srv'.r = r /\ UNCHANGED <<events, signing>>
      BY <1>5, <2>1 DEF ExportEnvironment, ExportFrame, Proceed, Goto
    <3>3. dir["evidence"] = [at |-> r, events |-> events]
      BY <1>5 DEF ExportEnvironment, ExportInv
    <3> QED
      BY <1>2, <3>1, <3>2, <3>3 DEF ExportInv
  <2> QED
    BY <1>3, <1>5, <2>1 DEF ExportEnvironment, Proceed
<1>6. CASE ExportManifest(r)
  <2>1. ASSUME faults' = faults
        PROVE  ExportInv'
    <3>1. /\ dir'["manifest"] = [at |-> r, count |-> Len(events), artifacts |-> Artifacts]
          /\ \A f \in Files \ {"manifest"} : dir'[f] = dir[f]
      BY <1>6, <2>1, PutFile DEF ExportManifest, Files
    <3>2. /\ srv'.at = IF signing THEN "sign" ELSE "sums"
          /\ srv'.r = r /\ UNCHANGED <<events, signing>>
      BY <1>6, <2>1 DEF ExportManifest, ExportFrame, Proceed, Goto
    <3>3. dir["evidence"] = [at |-> r, events |-> events] /\ dir["environment"] = "declared"
      BY <1>6 DEF ExportManifest, ExportInv
    <3>4. Artifacts' = Artifacts
      BY <3>1 DEF Artifacts, Files
    <3> QED
      BY <1>2, <3>1, <3>2, <3>3, <3>4 DEF ExportInv, Files
  <2> QED
    BY <1>3, <1>6, <2>1 DEF ExportManifest, Proceed
<1> QED
  BY <1>4, <1>5, <1>6

\* sign_manifest signs the manifest of this export.
LEMMA ExportSigned ==
  ASSUME Good, ExportInv, NEW r \in Requests, ExportSign(r)
  PROVE  ExportInv'
<1>1. /\ dir["evidence"] = [at |-> r, events |-> events] /\ dir["environment"] = "declared"
      /\ dir["manifest"] = [at |-> r, count |-> Len(events), artifacts |-> Artifacts]
      /\ signing
  BY DEF ExportSign, ExportInv
<1>2. CASE dir' = [dir EXCEPT !.sig = [of |-> dir.manifest]] /\ Goto(r, "sums")
  <2>1. /\ dir'["sig"] = [of |-> dir["manifest"]]
        /\ \A f \in Files \ {"sig"} : dir'[f] = dir[f]
    BY <1>2 DEF Good, ServiceInv, StoreOK, Files
  <2>2. srv'.at = "sums" /\ srv'.r = r /\ UNCHANGED <<events, signing>>
    BY <1>2 DEF ExportSign, ExportFrame, Goto
  <2>3. Artifacts' = Artifacts
    BY <2>1 DEF Artifacts, Files
  <2> QED
    BY <1>1, <2>1, <2>2, <2>3 DEF ExportInv, Files
<1>3. CASE UNCHANGED dir /\ Error(r)
  BY <1>1, <1>3, ExportOver DEF ExportSign, ExportFrame, Error, Idle
<1> QED
  BY <1>2, <1>3 DEF ExportSign

\* Any step of a handler.
LEMMA ExportServer ==
  ASSUME Good, ExportInv, NEW r \in Requests, ServerStep(r)
  PROVE  ExportInv'
<1>1. ASSUME Error(r), UNCHANGED <<signing, dir>>
      PROVE  ExportInv'
  BY <1>1, ExportOver DEF Error, Idle, ExportInv
<1>2. ASSUME NEW st, Answer(r, st), UNCHANGED <<signing, dir>>
      PROVE  ExportInv'
  BY <1>2, ExportOver DEF Answer, Idle, ExportInv
<1>3. CASE ServeState(r)
  BY <1>3, <1>1, <1>2 DEF ServeState, AnswerState
<1>4. CASE Reject(r) \/ FsyncFails(r)
  BY <1>4, <1>1 DEF Reject, FsyncFails
<1>5. CASE WriteEvent(r)
  <2>1. ASSUME NEW whole \in BOOLEAN, Written(r, whole), Goto(r, "fsync")
        PROVE  ExportInv'
    <3>1. dir'["sig"] = dir["sig"] /\ UNCHANGED signing
      BY <1>5, <2>1 DEF WriteEvent, Written, Good, ServiceInv, StoreOK, Files
    <3>2. srv'.at = "fsync" /\ srv'.r = r /\ req'[r].kind = req[r].kind
      BY <2>1 DEF Goto, Good, ServiceInv, ReqsOK, Reqs
    <3>3. req[r].kind = "event"
      BY <1>5 DEF WriteEvent, Serving
    <3> QED
      BY <3>1, <3>2, <3>3 DEF ExportInv
  <2> QED
    BY <1>5, <2>1, <1>1 DEF WriteEvent
<1>6. CASE AcceptEvent(r)
  BY <1>6, <1>1, <1>2 DEF AcceptEvent, AnswerState
<1>7. CASE ExportBegin(r)
  <2>1. ASSUME Goto(r, "evidence")
        PROVE  ExportInv'
    BY <1>7, <2>1 DEF ExportBegin, ExportFrame, Goto, ExportInv
  <2> QED
    BY <1>7, <1>1, <2>1 DEF ExportBegin, ExportFrame
<1>8. CASE ExportSums(r)
  <2>1. dir'["sig"] = dir["sig"] /\ UNCHANGED signing /\ srv'.at = "idle"
    BY <1>8, PutFile DEF ExportSums, ExportFrame, Files, Answer, Error, Idle
  <2> QED
    BY <2>1, ExportOver DEF ExportInv
<1> QED
  BY <1>3, <1>4, <1>5, <1>6, <1>7, <1>8, ExportPut, ExportSigned DEF ServerStep

\* The server or the host dies: the files may be torn, and none appears.
LEMMA DeathFiles ==
  ASSUME Good, Killed \/ PowerLoss
  PROVE  /\ \A file \in Files \ {"log"} : dir'[file] \in {dir[file], Torn}
         /\ dir["sig"] = Absent => dir'["sig"] = Absent
         /\ srv'.at = "down" /\ UNCHANGED <<signing, events, synced>>
<1>1. DOMAIN dir = Files
  BY DEF Good, ServiceInv, StoreOK
<1>2. CASE Killed
  <2>1. ASSUME srv.at \in {"evidence", "environment", "manifest", "sums"}, dir' = [dir EXCEPT ![srv.at] = Torn]
        PROVE  /\ \A file \in Files \ {"log"} : dir'[file] \in {dir[file], Torn}
               /\ dir["sig"] = Absent => dir'["sig"] = Absent
    BY <1>1, <2>1 DEF Files
  <2> QED
    BY <1>2, <2>1 DEF Killed, Down
<1>3. CASE PowerLoss
  <2>1. PICK n \in synced..Len(dir["log"]), torn \in BOOLEAN :
          dir' = [file \in DOMAIN dir |->
                    IF file = "log" THEN SubSeq(dir["log"], 1, n)
                    ELSE IF torn /\ dir[file] # Absent THEN Torn ELSE dir[file]]
    BY <1>3 DEF PowerLoss
  <2>2. \A file \in Files \ {"log"} : dir'[file] = IF torn /\ dir[file] # Absent THEN Torn ELSE dir[file]
    BY <1>1, <2>1
  <2> QED
    BY <1>3, <2>2 DEF PowerLoss, Down, Files
<1> QED
  BY <1>2, <1>3

\* Any step keeps what the export under way relies on.
LEMMA ExportStep ==
  ASSUME Good, ExportInv, [Next]_vars
  PROVE  ExportInv'
<1>1. CASE \/ \E b \in Notebooks : Execute(b) \/ Attach(b)
           \/ Export
           \/ \E r \in Requests : Browser(r)
           \/ \E m \in MessageIds : KernelError(m)
           \/ UNCHANGED vars
  BY <1>1, Outside, ExportFromOutside
<1>2. ASSUME NEW r \in Requests, Serve(r)
      PROVE  ExportInv'
  BY <1>2, ExportServer DEF Serve
<1>3. CASE KeyFile
  BY <1>3 DEF KeyFile, KeyChanges, ExportInv, Artifacts
<1>4. CASE Die
  BY <1>4, DeathFiles, ExportOver DEF Die, ExportInv
<1>5. CASE StartAgain
  BY <1>5, ExportOver DEF StartAgain, ServerStart, Idle, NoDir
<1> QED
  BY <1>1, <1>2, <1>3, <1>4, <1>5 DEF Next

\* No export has begun.
LEMMA ExportInit ==
  ASSUME Init
  PROVE  ExportInv
BY DEF Init, ServiceInit, Idle, NoDir, ExportInv

\* The invariant of an export under way.
LEMMA ExportInvariant == Spec => [](Good /\ ExportInv)
<1>1. Good /\ ExportInv /\ [Next]_vars => ExportInv'
  BY ExportStep
<1>2. Init => ExportInv
  BY ExportInit
<1> QED
  BY <1>1, <1>2, GoodInvariant, PTL DEF Spec

-----------------------------------------------------------------------------
(* An export that succeeds *)

\* The answer to an export is the end of ExportSums.
LEMMA OnlySumsAnswer ==
  ASSUME Good, ExportInv, [Next]_vars, NEW r \in Requests,
         req[r].kind = "export", req[r].phase # "ok", req'[r].phase = "ok"
  PROVE  ExportSums(r) /\ faults' = faults
<1>1. req \in [Requests -> Reqs]
  BY DEF Good, ServiceInv, ReqsOK
<1>2. ASSUME NEW q \in Requests, NEW label, Goto(q, label) \/ Failed(q)
      PROVE  FALSE
  BY <1>1, <1>2 DEF Goto, Failed, NoReq, Reqs
<1>3. ASSUME NEW q \in Requests, NEW st, Answer(q, st)
      PROVE  q = r
  BY <1>1, <1>3 DEF Answer
<1>4. CASE \/ \E b \in Notebooks : Execute(b) \/ Attach(b)
           \/ Export
  <2>1. PICK kind, what : Send(kind, what)
    BY <1>4 DEF Execute, Attach, Export
  <2> QED
    BY <1>1, <2>1 DEF Send, NoReq, Reqs
<1>5. ASSUME NEW q \in Requests, Browser(q)
      PROVE  FALSE
  BY <1>1, <1>2, <1>5 DEF Browser, ReceiveState, ReceiveExport, Broken, Gone, NoReq, Refresh, Reqs
<1>6. CASE UNCHANGED req
  BY <1>6
<1>7. CASE Die
  BY <1>1, <1>7 DEF Die, Killed, PowerLoss, Down, NoReq
<1>8. ASSUME NEW q \in Requests, ServerStep(q)
      PROVE  ExportSums(r) /\ faults' = faults
  <2>1. \A es : AnswerState(q, es) => q = r
    BY <1>2, <1>3 DEF AnswerState, Error
  <2>2. CASE ServeState(q)
    BY <2>1, <2>2 DEF ServeState, Serving
  <2>3. CASE AcceptEvent(q)
    BY <2>1, <2>3 DEF AcceptEvent, ExportInv
  <2>4. CASE Reject(q) \/ WriteEvent(q) \/ FsyncFails(q) \/ ExportBegin(q) \/ ExportSign(q)
    BY <1>2, <2>4 DEF Reject, WriteEvent, FsyncFails, ExportBegin, ExportSign, Error
  <2>5. CASE ExportEvidence(q) \/ ExportEnvironment(q) \/ ExportManifest(q)
    BY <1>2, <2>5 DEF ExportEvidence, ExportEnvironment, ExportManifest, Proceed, Error
  <2>6. CASE ExportSums(q)
    BY <1>2, <1>3, <2>6 DEF ExportSums, Error
  <2> QED
    BY <1>8, <2>2, <2>3, <2>4, <2>5, <2>6 DEF ServerStep
<1> QED
  BY <1>4, <1>5, <1>6, <1>7, <1>8
     DEF Next, Serve, KeyFile, KeyChanges, StartAgain, ServerStart, KernelError, vars

\* The files that the last step of an export finds.
LEMMA FilesOfExport ==
  ASSUME Good, ExportInv, NEW r \in Requests, srv = [at |-> "sums", r |-> r]
  PROVE  /\ dir["evidence"] \in Evidences /\ dir["environment"] = "declared"
         /\ dir["manifest"] \in Manifests /\ dir["manifest"].count = Len(events)
         /\ dir["manifest"].artifacts = Artifacts
         /\ signing => dir["sig"] \in Signatures /\ dir["sig"].of = dir["manifest"]
         /\ ~signing => dir["sig"] = Absent
<1>1. /\ dir["evidence"] = [at |-> r, events |-> events] /\ dir["environment"] = "declared"
      /\ dir["manifest"] = [at |-> r, count |-> Len(events), artifacts |-> Artifacts]
      /\ signing => dir["sig"] = [of |-> dir["manifest"]]
      /\ ~signing => dir["sig"] = Absent
  BY DEF ExportInv
<1>2. /\ events \in Seq(Events) /\ Len(events) \in 0..MaxEvents /\ dir["log"] \in Seq(Lines)
  BY EvidenceAssumption DEF Good, ServiceInv, StoreOK
<1>3. dir["evidence"] \in Evidences
  BY <1>1, <1>2 DEF Evidences
<1>4. Artifacts \in [{"evidence", "environment", "log"} -> Evidences \cup {"declared"} \cup Seq(Lines)]
  BY <1>1, <1>2, <1>3 DEF Artifacts
<1>5. dir["manifest"] \in Manifests
  BY <1>1, <1>2, <1>4 DEF Manifests
<1>6. signing => dir["sig"] \in Signatures
  BY <1>1, <1>5 DEF Signatures
<1> QED
  BY <1>1, <1>3, <1>5, <1>6

\* The sums are of all of them.
LEMMA SumsOfExport ==
  ASSUME Good, ExportInv, NEW r \in Requests, ExportSums(r), faults' = faults
  PROVE  /\ Verifies(dir') /\ SumsFit(dir') /\ dir'.manifest.count = Len(events')
         /\ signing <=> dir'.sig # Absent
<1>1. srv = [at |-> "sums", r |-> r] /\ UNCHANGED events
  BY DEF ExportSums, ExportFrame
<1>2. dir = [file \in Files |-> dir[file]] /\ dir["log"] \in Seq(Lines)
  BY DEF Good, ServiceInv, StoreOK
<1>3. dir' = [dir EXCEPT !["sums"] = Sums]
  BY EvidenceAssumption DEF ExportSums, Put, Fault, Good, ServiceInv, StoreOK
<1>4. dir'["sums"] = Sums /\ \A file \in Files \ {"sums"} : dir'[file] = dir[file]
  BY <1>2, <1>3 DEF Files
<1>5. [dir' EXCEPT !.sums = Absent] = Sums
  BY <1>2, <1>3 DEF Sums
<1>6. /\ dir["evidence"] \in Evidences /\ dir["environment"] = "declared"
      /\ dir["manifest"] \in Manifests /\ dir["manifest"].count = Len(events)
      /\ dir["manifest"].artifacts = Artifacts
      /\ signing => dir["sig"] \in Signatures /\ dir["sig"].of = dir["manifest"]
      /\ ~signing => dir["sig"] = Absent
  BY <1>1, FilesOfExport
<1>7. Sums \in [Files -> Contents \cup {Absent}]
  <2>1. \A file \in Files \ {"sums"} : dir[file] \in Contents \cup {Absent}
    BY <1>2, <1>6 DEF Contents, Files
  <2>2. Sums = [file \in Files |-> IF file = "sums" THEN Absent ELSE dir[file]]
    BY <1>2 DEF Sums
  <2> QED
    BY <2>1, <2>2
<1>8. SumsFit(dir')
  BY <1>4, <1>5, <1>7, ContentsAssumption DEF SumsFit
<1>9. dir'["manifest"] \notin {Absent, Torn}
  BY <1>4, <1>6, ContentsAssumption DEF Files
<1>10. \A file \in DOMAIN dir'["manifest"].artifacts : dir'[file] = dir'["manifest"].artifacts[file]
  BY <1>4, <1>6 DEF Artifacts, Files
<1>11. dir'["sig"] = dir["sig"] /\ dir'["manifest"] = dir["manifest"]
  BY <1>4 DEF Files
<1>12. signing <=> dir'["sig"] # Absent
  BY <1>6, <1>11, ContentsAssumption
<1>13. dir'["sig"] # Absent => SignatureFits(dir')
  BY <1>6, <1>11, <1>12, ContentsAssumption DEF SignatureFits
<1> QED
  BY <1>1, <1>6, <1>8, <1>9, <1>10, <1>11, <1>12, <1>13 DEF Verifies

\* An export that answers with success has left a bundle that verifies, that is signed
\* exactly when signing is enabled, and whose SHA256SUMS fits every file, whatever
\* earlier exports, failures and changes of the key have left behind (export).
THEOREM ExportsAreComplete == Spec => ExportVerifies
<1>1. ASSUME Good, ExportInv, [Next]_vars
      PROVE  [\A r \in Requests :
                req[r].kind = "export" /\ req[r].phase # "ok" /\ req'[r].phase = "ok" =>
                  /\ Verifies(dir') /\ SumsFit(dir') /\ dir'.manifest.count = Len(events')
                  /\ signing <=> dir'.sig # Absent]_vars
  BY <1>1, OnlySumsAnswer, SumsOfExport
<1> QED
  BY <1>1, ExportInvariant, PTL DEF Spec, ExportVerifies

-----------------------------------------------------------------------------
(* What a bundle attests *)

\* A step that leaves the loop idle or in the export, and writes neither the log nor
\* the manifest, or tears the manifest.
LEMMA ManifestServer ==
  ASSUME FsyncEvents, Good, BundleInv, NEW r \in Requests, ServerStep(r)
  PROVE  ManifestInv'
<1>1. \A label : Goto(r, label) => srv'.at = label
  BY DEF Goto
<1>2. /\ Error(r) => srv'.at = "idle"
      /\ \A st : Answer(r, st) => srv'.at = "idle"
      /\ \A es : AnswerState(r, es) => srv'.at = "idle"
  BY DEF Error, Answer, AnswerState, Idle
<1>3. /\ dir["log"] \in Seq(Lines) /\ Len(dir["log"]) \in Nat /\ synced \in 0..Len(dir["log"])
      /\ DOMAIN dir = Files
  BY DEF Good, ServiceInv, StoreOK
<1>4. CASE ServeState(r) \/ Reject(r) \/ FsyncFails(r) \/ ExportBegin(r)
  BY <1>1, <1>2, <1>4, ManifestKept
     DEF BundleInv, ServeState, Reject, FsyncFails, ExportBegin, ExportFrame, Serving
<1>5. CASE WriteEvent(r)
  <2>1. ASSUME NEW whole \in BOOLEAN, Written(r, whole), Goto(r, "fsync"), UNCHANGED <<events, synced>>
        PROVE  ManifestInv'
    <3>1. dir'["manifest"] = dir["manifest"] /\ Len(dir'["log"]) = Len(dir["log"]) + 1
      <4>1. dir'["log"] = Append(dir["log"], [event |-> NewEvent(r), whole |-> whole])
        BY <1>3, <2>1 DEF Written, Files
      <4>2. dir'["manifest"] = dir["manifest"]
        BY <1>3, <2>1 DEF Written, Files
      <4> QED
        BY <1>3, <4>1, <4>2
    <3>2. srv'.at = "fsync" /\ srv.at = "idle"
      BY <1>1, <1>5, <2>1 DEF WriteEvent, Serving
    <3>3. ASSUME dir["manifest"] \notin {Absent, Torn}
          PROVE  Len(dir["manifest"].artifacts["log"]) < Len(dir'["log"])
      <4>1. /\ dir["manifest"].artifacts["log"] \in Seq(Lines)
            /\ Len(dir["manifest"].artifacts["log"]) <= Len(dir["log"])
        BY <3>2, <3>3 DEF BundleInv, ManifestInv
      <4>2. Len(dir["manifest"].artifacts["log"]) \in Nat
        BY <4>1
      <4> QED
        BY <1>3, <3>1, <4>1, <4>2
    <3>4. ASSUME dir["manifest"] \notin {Absent, Torn}
          PROVE  Len(dir["manifest"].artifacts["log"]) <= Len(dir'["log"])
      <4>1. Len(dir["manifest"].artifacts["log"]) \in Nat
        BY <3>4 DEF BundleInv, ManifestInv
      <4> QED
        BY <1>3, <3>1, <3>3, <3>4, <4>1
    <3> QED
      BY <2>1, <3>1, <3>2, <3>3, <3>4 DEF BundleInv, ManifestInv
  <2>2. CASE Error(r) /\ UNCHANGED dir
    BY <1>2, <1>5, <2>2, ManifestKept DEF BundleInv, WriteEvent, Serving
  <2> QED
    BY <1>5, <2>1, <2>2 DEF WriteEvent
<1>6. CASE AcceptEvent(r)
  <2>1. srv.at = "fsync" /\ srv'.at = "idle" /\ UNCHANGED dir /\ synced' = Len(dir["log"])
    BY <1>2, <1>6 DEF AcceptEvent
  <2> QED
    BY <2>1 DEF BundleInv, ManifestInv
<1>7. CASE ExportEvidence(r) \/ ExportEnvironment(r) \/ ExportSums(r)
  <2>1. PICK contents : \E file \in {"evidence", "environment", "sums"} : Put(file, contents)
    BY <1>7 DEF ExportEvidence, ExportEnvironment, ExportSums
  <2>2. dir'["manifest"] = dir["manifest"] /\ dir'["log"] = dir["log"]
    BY <2>1, PutFile DEF Files
  <2>3. srv'.at # "fsync" /\ srv.at # "down" /\ UNCHANGED <<events, synced>>
    BY <1>1, <1>2, <1>7 DEF ExportEvidence, ExportEnvironment, ExportSums, ExportFrame, Proceed
  <2> QED
    BY <2>2, <2>3, ManifestKept DEF BundleInv
<1>8. CASE ExportSign(r)
  <2>1. dir'["manifest"] = dir["manifest"] /\ dir'["log"] = dir["log"]
    BY <1>3, <1>8 DEF ExportSign, Files
  <2>2. srv'.at # "fsync" /\ srv.at # "down" /\ UNCHANGED <<events, synced>>
    BY <1>1, <1>2, <1>8 DEF ExportSign, ExportFrame
  <2> QED
    BY <2>1, <2>2, ManifestKept DEF BundleInv
<1>9. CASE ExportManifest(r)
  <2>1. dir'["log"] = dir["log"]
    BY <1>9, PutFile DEF ExportManifest, Files
  <2>2. srv'.at # "fsync" /\ srv.at # "down" /\ UNCHANGED <<events, synced>>
    BY <1>1, <1>2, <1>9 DEF ExportManifest, ExportFrame, Proceed
  <2>3. CASE dir'["manifest"] \in {dir["manifest"], Torn}
    BY <2>1, <2>2, <2>3, ManifestKept DEF BundleInv
  <2>4. CASE dir'["manifest"] = [at |-> r, count |-> Len(events), artifacts |-> Artifacts]
    <3>1. dir["evidence"].events = events
      BY <1>9 DEF ExportManifest, BundleInv, ExportInv
    <3>2. /\ DOMAIN dir'["manifest"].artifacts = {"evidence", "environment", "log"}
          /\ dir'["manifest"].artifacts["log"] = dir["log"]
          /\ dir'["manifest"].artifacts["evidence"] = dir["evidence"]
      BY <2>4 DEF Artifacts
    <3> QED
      BY <1>3, <2>1, <2>2, <3>1, <3>2 DEF ManifestInv
  <2> QED
    BY <1>9, <2>3, <2>4, PutFile DEF ExportManifest, Files
<1> QED
  BY <1>4, <1>5, <1>6, <1>7, <1>8, <1>9 DEF ServerStep

\* Any step keeps what the manifest on disk attests.
LEMMA ManifestStep ==
  ASSUME FsyncEvents, Good, BundleInv, [Next]_vars
  PROVE  ManifestInv'
<1>1. CASE \/ \E b \in Notebooks : Execute(b) \/ Attach(b)
           \/ Export
           \/ \E r \in Requests : Browser(r)
           \/ \E m \in MessageIds : KernelError(m)
           \/ UNCHANGED vars
  <2>1. UNCHANGED evidence
    BY <1>1, Outside
  <2> QED
    BY <2>1 DEF evidence, BundleInv, ManifestInv
<1>2. ASSUME NEW r \in Requests, Serve(r)
      PROVE  ManifestInv'
  BY <1>2, ManifestServer DEF Serve
<1>3. CASE KeyFile
  BY <1>3 DEF KeyFile, KeyChanges, BundleInv, ManifestInv
<1>4. CASE Die
  BY <1>4, DeathFiles, ManifestKept DEF Die, BundleInv, Files
<1>5. CASE StartAgain
  BY <1>5 DEF StartAgain, ServerStart, NoDir, ManifestInv
<1> QED
  BY <1>1, <1>2, <1>3, <1>4, <1>5 DEF Next

\* The service starts without a manifest.
LEMMA BundleInit ==
  ASSUME Init
  PROVE  BundleInv
BY ExportInit DEF Init, ServiceInit, NoDir, BundleInv, ManifestInv

\* The stream of the abstract specification goes on only where no bundle verifies.
LEMMA StreamStep ==
  ASSUME FsyncEvents, Good, BundleInv, Good', BundleInv', [Next]_vars
  PROVE  Stream!Next
<1>1. (Good /\ ManifestInv /\ Verifies(dir) => dir["evidence"].events = events /\ srv.at # "fsync")'
  BY VerifiedIsPresent, PTL
<1>2. Verifies(dir') => dir'["evidence"].events = events'
  BY <1>1 DEF BundleInv
<1>3. CASE UNCHANGED events
  BY <1>2, <1>3 DEF Stream!Next, Stream!Publish, Stream!Withdraw
<1>4. ASSUME NEW r \in Requests, AcceptEvent(r)
      PROVE  Stream!Next
  <2> DEFINE last == dir["log"][Len(dir["log"])].event
  <2>1. srv.at = "fsync" /\ UNCHANGED dir /\ events' = Append(events, last)
    BY <1>4 DEF AcceptEvent
  <2>2. ~Verifies(dir) /\ ~Verifies(dir')
    BY <2>1, VerifiedIsPresent DEF BundleInv
  <2>3. events \in Seq(Events) /\ events' \in Seq(Events) /\ Len(events) < MaxEvents
    BY <2>1 DEF Good, ServiceInv, StoreOK
  <2>4. Len(events') = Len(events) + 1 /\ SubSeq(events', 1, Len(events)) = events
    <3>1. Len(events') = Len(events) + 1 /\ \A i \in 1..Len(events) : events'[i] = events[i]
      BY <2>1, <2>3
    <3>2. Len(SubSeq(events', 1, Len(events))) = Len(events) /\ SubSeq(events', 1, Len(events)) \in Seq(Events)
      BY <3>1, <2>3
    <3>3. \A i \in 1..Len(events) : SubSeq(events', 1, Len(events))[i] = events[i]
      BY <3>1, <2>3
    <3> QED
      BY <3>1, <3>2, <3>3, <2>3
  <2> QED
    BY <2>2, <2>3, <2>4 DEF Stream!Next, Stream!Accept
<1>5. CASE ServerStart
  <2>1. ~Verifies(dir')
    BY <1>5 DEF ServerStart, Verifies, NoDir
  <2> QED
    BY <1>5, <2>1 DEF ServerStart, Stream!Next, Stream!Renew
<1>6. UNCHANGED events \/ ServerStart \/ \E r \in Requests : AcceptEvent(r)
  <2>1. ASSUME NEW r \in Requests, ServerStep(r), ~AcceptEvent(r)
        PROVE  UNCHANGED events
    BY <2>1 DEF ServerStep, ServeState, Reject, WriteEvent, FsyncFails, ExportBegin, ExportEvidence,
                ExportEnvironment, ExportManifest, ExportSign, ExportSums, ExportFrame
  <2>2. CASE KeyFile \/ Die \/ StartAgain
    BY <2>2 DEF KeyFile, KeyChanges, Die, Killed, PowerLoss, StartAgain
  <2>3. CASE \/ \E b \in Notebooks : Execute(b) \/ Attach(b)
             \/ Export
             \/ \E r \in Requests : Browser(r)
             \/ \E m \in MessageIds : KernelError(m)
             \/ UNCHANGED vars
    BY <2>3, Outside DEF evidence
  <2> QED
    BY <2>1, <2>2, <2>3 DEF Next, Serve
<1> QED
  BY <1>3, <1>4, <1>5, <1>6

\* With fsync_events, and whatever fails, dies or loses power in the middle of it, the
\* service implements EvidenceStream: the events are only appended to, never past the
\* limit, and the bundle on disk either does not verify or attests exactly the events
\* accepted so far (_record, export, verify_bundle).  Without fsync_events it does not:
\* a loss of power may take an accepted line, and an older bundle fits the log again.
THEOREM BundleAttestsStream ==
  ASSUME FsyncEvents
  PROVE  Spec => ImplementsStream
<1>1. Good /\ BundleInv /\ [Next]_vars => BundleInv'
  BY ExportStep, ManifestStep DEF BundleInv
<1>2. Spec => [](Good /\ BundleInv)
  <2>1. Init => BundleInv
    BY BundleInit
  <2> QED
    BY <1>1, <2>1, GoodInvariant, PTL DEF Spec
<1>3. Init => Stream!Init
  BY DEF Init, ServiceInit, NoDir, Verifies, Stream!Init
<1>4. Good /\ BundleInv /\ (Good /\ BundleInv)' /\ [Next]_vars => Stream!Next
  BY StreamStep
<1> QED
  BY <1>2, <1>3, <1>4, PTL DEF Spec, ImplementsStream, Stream!Spec

-----------------------------------------------------------------------------
(* The panel shows what was, and what is when all is quiet *)

\* A state of this session is the state after some of the accepted events.
Known(st) ==
  st # NoState =>
    /\ st.session <= session
    /\ st.session = session => st.n <= Len(events) /\ st.stages = Stages(SubSeq(events, 1, st.n))

\* So is what the panel shows, and what is on its way to it.
AnswersInv ==
  /\ Known(shown)
  /\ \A r \in Requests :
       /\ Known(req[r].state)
       /\ req[r].phase = "ok" /\ req[r].kind # "export" => req[r].state # NoState

Settled == {"ok", "failed", "gone"}

\* The server is done with the request of every accepted event; an answer that is
\* under way carries the state with that event the last.
EventsInv ==
  \A i \in DOMAIN events :
    /\ req[events[i].id].phase \in Settled
    /\ req[events[i].id].phase = "ok" =>
         /\ req[events[i].id].kind = "event"
         /\ req[events[i].id].state.n = i /\ req[events[i].id].state.session = session

\* The line being flushed is the event of the request that is served; the steps of an
\* export serve an export.
ServedInv ==
  /\ srv.at = "fsync" => dir["log"][Len(dir["log"])].event.id = srv.r
  /\ srv.at \in {"evidence", "environment", "manifest", "sign", "sums"} => req[srv.r].kind = "export"

ShownN == IF shown = NoState THEN 0 ELSE shown.n

\* A panel that is not known to be behind shows this session, and has not received the
\* answer to any event beyond those it shows.
DisplayInv ==
  ~behind =>
    /\ shown # NoState => shown.session = session
    /\ \A i \in DOMAIN events : i > ShownN => req[events[i].id].phase \in {"ok", "failed"}

TruthInv == AnswersInv /\ EventsInv /\ ServedInv /\ DisplayInv

\* The request is untouched, or the server works on it, or its answer is lost, or was
\* the end of an export and is followed by a refresh.
Moved(r) ==
  \/ req'[r] = req[r]
  \/ /\ req[r].phase \notin Settled /\ Known(req[r].state)'
     /\ req'[r].phase = "ok" /\ req'[r].kind # "export" => req'[r].state # NoState
  \/ req[r].phase = "ok" /\ req'[r].phase = "failed" /\ req'[r].state = NoState
  \/ req[r].phase = "ok" /\ req[r].kind = "export" /\ req'[r].phase = "sent" /\ req'[r].state = NoState

\* A request of an accepted event is one of the requests.
LEMMA EventIds ==
  ASSUME Good, NEW i \in DOMAIN events
  PROVE  events[i].id \in Requests
<1>1. events[i] \in Events
  BY DEF Good, ServiceInv, StoreOK
<1> QED
  BY <1>1 DEF Events

\* While the events and the panel stay, such moves keep the truth of what is shown.
LEMMA RequestsMoved ==
  ASSUME Good, AnswersInv, EventsInv, DisplayInv,
         UNCHANGED <<session, events, shown, behind>>, \A r \in Requests : Moved(r)
  PROVE  AnswersInv' /\ EventsInv' /\ DisplayInv'
<1>1. Known(shown)'
  BY DEF AnswersInv, Known
<1>2. ASSUME NEW r \in Requests
      PROVE  /\ Known(req[r].state)'
             /\ req'[r].phase = "ok" /\ req'[r].kind # "export" => req'[r].state # NoState
  BY DEF AnswersInv, Known, Moved, Settled
<1>3. ASSUME NEW i \in DOMAIN events
      PROVE  /\ req'[events[i].id] = req[events[i].id] \/ req'[events[i].id].phase = "failed"
  BY EventIds DEF EventsInv, Moved
<1>4. EventsInv'
  BY <1>3 DEF EventsInv, Settled
<1>5. DisplayInv'
  BY <1>3 DEF DisplayInv, ShownN
<1> QED
  BY <1>1, <1>2, <1>4, <1>5 DEF AnswersInv

\* A state that is older than this session's stays so, and one of this session stays a
\* state that the server was in when an event follows.
LEMMA KnownAppend ==
  ASSUME Good, NEW e \in Events, events' = Append(events, e), UNCHANGED session,
         NEW st \in States \cup {NoState}, Known(st)
  PROVE  Known(st)'
<1>1. events \in Seq(Events) /\ Len(events) \in Nat
  BY DEF Good, ServiceInv, StoreOK
<1>2. CASE st \in States /\ st.session = session
  <2>1. st.n \in Nat /\ (st # NoState => st.n <= Len(events))
    BY <1>2, EvidenceAssumption DEF States, Known
  <2>2. st # NoState => SubSeq(events', 1, st.n) = SubSeq(events, 1, st.n)
    <3> SUFFICES ASSUME st # NoState
                 PROVE  SubSeq(events', 1, st.n) = SubSeq(events, 1, st.n)
      OBVIOUS
    <3>1. \A i \in 1..st.n : events'[i] = events[i]
      BY <1>1, <2>1
    <3>2. Len(events') = Len(events) + 1 /\ events' \in Seq(Events)
      BY <1>1
    <3> QED
      BY <1>1, <2>1, <3>1, <3>2
  <2>3. st # NoState => st.n <= Len(events')
    <3>1. Len(events') = Len(events) + 1
      BY <1>1
    <3> QED
      BY <1>1, <2>1, <3>1
  <2>4. st # NoState => st.session <= session' /\ st.stages = Stages(SubSeq(events', 1, st.n))
    BY <1>2, <2>2, Zenon DEF Known
  <2> QED
    BY <2>3, <2>4, Zenon DEF Known
<1>3. CASE st = NoState \/ st.session # session
  BY <1>3 DEF Known
<1> QED
  BY <1>2, <1>3

\* state() is known.
LEMMA KnownState ==
  StoreOK =>
    /\ Known(StateOf(events)) /\ StateOf(events) # NoState
    /\ StateOf(events).n = Len(events) /\ StateOf(events).session = session
<1> SUFFICES ASSUME StoreOK
             PROVE  /\ Known(StateOf(events)) /\ StateOf(events) # NoState
                    /\ StateOf(events).n = Len(events) /\ StateOf(events).session = session
  OBVIOUS
<1>1. session \in 1..MaxSessions /\ events \in Seq(Events) /\ Len(events) <= MaxEvents
  BY DEF StoreOK
<1>2. SubSeq(events, 1, Len(events)) = events
  BY <1>1
<1>3. StateOf(events) \in States
  BY <1>1, StateType
<1>4. StateOf(events) # NoState
  BY <1>3, ContentsAssumption
<1>5. /\ StateOf(events).n = Len(events) /\ StateOf(events).session = session
      /\ StateOf(events).stages = Stages(events)
  BY DEF StateOf
<1>6. session <= session /\ Len(events) <= Len(events)
  BY <1>1, EvidenceAssumption
<1>7. Known(StateOf(events))
  BY <1>2, <1>5, <1>6, Zenon DEF Known
<1> QED
  BY <1>4, <1>5, <1>7

\* A handler that has its request goes on, fails, or answers.
LEMMA HandlerMoves ==
  ASSUME Good, AnswersInv, NEW r \in Requests, req[r].phase \notin Settled,
         UNCHANGED <<session, events>>, NEW label,
         \/ Goto(r, label)
         \/ Failed(r)
         \/ Answer(r, StateOf(events))
         \/ Answer(r, NoState) /\ req[r].kind = "export"
  PROVE  \A q \in Requests : Moved(q)
<1>1. req \in [Requests -> Reqs]
  BY DEF Good, ServiceInv, ReqsOK
<1>2. Known(NoState)'
  BY DEF Known
<1>3. ASSUME NEW q \in Requests, q # r
      PROVE  Moved(q)
  BY <1>1, <1>3 DEF Goto, Failed, Answer, Moved
<1>4. CASE Goto(r, label)
  <2>1. req'[r].phase = "served" /\ req'[r].state = req[r].state
    BY <1>1, <1>4 DEF Goto, Reqs
  <2>2. Known(req[r].state)'
    BY <2>1 DEF AnswersInv, Known
  <2>3. Moved(r)
    BY <2>1, <2>2 DEF Moved
  <2> QED
    BY <1>3, <2>3
<1>5. CASE Failed(r)
  <2>1. req'[r].phase = "failed" /\ req'[r].state = NoState
    BY <1>1, <1>5 DEF Failed, NoReq
  <2>2. Known(req[r].state)'
    BY <2>1 DEF Known
  <2>3. Moved(r)
    BY <2>1, <2>2 DEF Moved
  <2> QED
    BY <1>3, <2>3
<1>6. CASE Answer(r, StateOf(events))
  <2>1. req'[r].phase = "ok" /\ req'[r].state = StateOf(events)
    BY <1>1, <1>6 DEF Answer, Reqs
  <2>2. Known(StateOf(events)) /\ StateOf(events) # NoState
    BY KnownState DEF Good, ServiceInv
  <2>3. Known(req[r].state)'
    BY <2>1, <2>2 DEF Known
  <2>4. Moved(r)
    BY <2>1, <2>2, <2>3 DEF Moved
  <2> QED
    BY <1>3, <2>4
<1>7. CASE Answer(r, NoState) /\ req[r].kind = "export"
  <2>1. req'[r].phase = "ok" /\ req'[r].state = NoState /\ req'[r].kind = "export"
    BY <1>1, <1>7 DEF Answer, Reqs
  <2>2. Known(req[r].state)'
    BY <2>1 DEF Known
  <2>3. Moved(r)
    BY <2>1, <2>2 DEF Moved
  <2> QED
    BY <1>3, <2>3
<1> QED
  BY <1>4, <1>5, <1>6, <1>7

\* The request of a handler's step waits for the server.
LEMMA HandledRequest ==
  ASSUME Good, NEW r \in Requests, ServerStep(r)
  PROVE  /\ req[r].phase \notin Settled
         /\ srv.at # "idle" => srv.r = r
<1>1. srv.r \in Requests => req[srv.r].phase = "served"
  BY DEF Good, ServiceInv
<1>2. CASE srv.r = r
  BY <1>1, <1>2 DEF Settled
<1>3. CASE srv.at = "idle" /\ req[r].phase = "sent"
  BY <1>3 DEF Settled
<1>4. (srv.at = "idle" /\ req[r].phase = "sent") \/ srv.r = r
  <2>1. CASE ServeState(r) \/ Reject(r) \/ WriteEvent(r) \/ ExportBegin(r)
    BY <2>1, Zenon DEF ServeState, Reject, WriteEvent, ExportBegin, Serving
  <2>2. CASE AcceptEvent(r) \/ FsyncFails(r) \/ ExportSign(r) \/ ExportSums(r)
    BY <2>2 DEF AcceptEvent, FsyncFails, ExportSign, ExportSums
  <2>3. CASE ExportEvidence(r) \/ ExportEnvironment(r) \/ ExportManifest(r)
    BY <2>3 DEF ExportEvidence, ExportEnvironment, ExportManifest
  <2> QED
    BY <2>1, <2>2, <2>3 DEF ServerStep
<1> QED
  BY <1>2, <1>3, <1>4

\* What a handler's step does to its request, unless it accepts an event.
LEMMA ServerMoves ==
  ASSUME Good, AnswersInv, ServedInv, NEW r \in Requests, ServerStep(r), ~AcceptEvent(r)
  PROVE  (\A q \in Requests : Moved(q)) /\ UNCHANGED <<session, events>>
<1>1. req[r].phase \notin Settled
  BY HandledRequest
<1>2. UNCHANGED <<session, events>>
  BY DEF ServerStep, ServeState, Reject, WriteEvent, FsyncFails, ExportBegin, ExportEvidence,
         ExportEnvironment, ExportManifest, ExportSign, ExportSums, ExportFrame
<1>3. \E label :
        \/ Goto(r, label)
        \/ Failed(r)
        \/ Answer(r, StateOf(events))
        \/ Answer(r, NoState) /\ req[r].kind = "export"
  <2>1. CASE ServeState(r)
    BY <2>1 DEF ServeState, AnswerState, Error
  <2>2. CASE Reject(r) \/ WriteEvent(r) \/ FsyncFails(r) \/ ExportBegin(r)
    BY <2>2, Zenon DEF Reject, WriteEvent, FsyncFails, ExportBegin, Error
  <2>3. CASE ExportEvidence(r) \/ ExportEnvironment(r)
    BY <2>3 DEF ExportEvidence, ExportEnvironment, Proceed, Error
  <2>4. CASE ExportManifest(r)
    BY <2>4 DEF ExportManifest, Proceed, Error
  <2>5. CASE ExportSign(r)
    BY <2>5 DEF ExportSign, Error
  <2>6. CASE ExportSums(r)
    <3>1. req[r].kind = "export"
      BY <2>6 DEF ExportSums, ServedInv
    <3> QED
      BY <2>6, <3>1 DEF ExportSums, Error
  <2> QED
    BY <2>1, <2>2, <2>3, <2>4, <2>5, <2>6 DEF ServerStep
<1> QED
  BY <1>1, <1>2, <1>3, HandlerMoves

\* What the browser does to its requests, but for showing an answer.
LEMMA BrowserMoves ==
  ASSUME Good, AnswersInv,
         \/ \E b \in Notebooks : Execute(b) \/ Attach(b)
         \/ Export
         \/ \E r \in Requests : ReceiveExport(r) \/ Broken(r)
  PROVE  (\A q \in Requests : Moved(q)) /\ UNCHANGED <<session, events, shown, behind>>
<1>1. req \in [Requests -> Reqs]
  BY DEF Good, ServiceInv, ReqsOK
<1>2. UNCHANGED <<session, events, shown, behind>>
  BY DEF Execute, Attach, Export, ReceiveExport, Broken, evidence, panel
<1>3. ASSUME NEW kind, NEW what, Send(kind, what)
      PROVE  \A q \in Requests : Moved(q)
  <2>1. CASE UNCHANGED req
    BY <2>1 DEF Moved
  <2>2. ASSUME NEW r \in Requests, req[r].phase = "new",
               req' = [req EXCEPT ![r] = [NoReq EXCEPT !.kind = kind, !.what = what, !.phase = "sent"]]
        PROVE  \A q \in Requests : Moved(q)
    <3>1. req'[r].phase = "sent" /\ req'[r].state = NoState
      BY <1>1, <2>2 DEF NoReq
    <3>2. Moved(r)
      BY <2>2, <3>1 DEF Moved, Settled, Known
    <3> QED
      BY <1>1, <2>2, <3>2 DEF Moved
  <2> QED
    BY <1>3, <2>1, <2>2 DEF Send
<1>4. ASSUME NEW r \in Requests, ReceiveExport(r) \/ Broken(r)
      PROVE  \A q \in Requests : Moved(q)
  <2>1. /\ req[r].phase = "ok" /\ req'[r].state = NoState
        /\ req'[r].phase = "failed" \/ (req'[r].phase = "sent" /\ req[r].kind = "export")
    <3>1. CASE Broken(r)
      BY <1>1, <3>1 DEF Broken, Failed, NoReq
    <3>2. CASE ReceiveExport(r) /\ srv.at = "down"
      BY <1>1, <3>2 DEF ReceiveExport, NoReq
    <3>3. CASE ReceiveExport(r) /\ srv.at # "down"
      BY <1>1, <3>3 DEF ReceiveExport, NoReq, Refresh
    <3> QED
      BY <1>4, <3>1, <3>2, <3>3
  <2>2. \A q \in Requests \ {r} : req'[q] = req[q]
    BY <1>1, <1>4 DEF ReceiveExport, Broken, Failed
  <2> QED
    BY <2>1, <2>2 DEF Moved
<1>5. CASE (\E b \in Notebooks : Execute(b) \/ Attach(b)) \/ Export
  <2>1. PICK kind, what : Send(kind, what)
    BY <1>5 DEF Execute, Attach, Export
  <2> QED
    BY <1>2, <1>3, <2>1
<1> QED
  BY <1>2, <1>4, <1>5

\* What a death does to the requests.
LEMMA DeathMoves ==
  ASSUME Good, AnswersInv, Die
  PROVE  (\A q \in Requests : Moved(q)) /\ UNCHANGED <<session, events, shown, behind>>
<1>1. UNCHANGED <<session, events, shown, behind>>
  BY DEF Die, Killed, PowerLoss, panel
<1>2. ASSUME NEW q \in Requests
      PROVE  Moved(q)
  <2>1. CASE req[q].phase \in {"sent", "served"}
    <3>1. req'[q].phase = "failed" /\ req'[q].state = NoState
      BY <2>1 DEF Die, Killed, PowerLoss, Down, NoReq
    <3> QED
      BY <2>1, <3>1 DEF Moved, Settled, Known
  <2>2. CASE req[q].phase \notin {"sent", "served"}
    BY <2>2 DEF Die, Killed, PowerLoss, Down, Moved
  <2> QED
    BY <2>1, <2>2
<1> QED
  BY <1>1, <1>2

-----------------------------------------------------------------------------
(* The event loop *)

\* A handler's step leaves the loop idle, or at the label it went to.
LEMMA ServedServer ==
  ASSUME Good, ServedInv, NEW r \in Requests, ServerStep(r)
  PROVE  ServedInv'
<1>1. req \in [Requests -> Reqs] /\ DOMAIN dir = Files /\ dir["log"] \in Seq(Lines)
  BY DEF Good, ServiceInv, ReqsOK, StoreOK
<1>2. ASSUME srv'.at = "idle"
      PROVE  ServedInv'
  BY <1>2 DEF ServedInv
<1>3. /\ Error(r) => srv'.at = "idle"
      /\ \A st : Answer(r, st) => srv'.at = "idle"
      /\ \A es : AnswerState(r, es) => srv'.at = "idle"
  BY DEF Error, Answer, AnswerState, Idle
<1>4. ASSUME NEW label \in {"evidence", "environment", "manifest", "sign", "sums"}, Goto(r, label),
             req[r].kind = "export"
      PROVE  ServedInv'
  BY <1>1, <1>4 DEF Goto, ServedInv, Reqs
<1>5. CASE ServeState(r) \/ Reject(r) \/ AcceptEvent(r) \/ FsyncFails(r)
  BY <1>2, <1>3, <1>5 DEF ServeState, Reject, AcceptEvent, FsyncFails
<1>6. CASE WriteEvent(r)
  <2>1. ASSUME NEW whole \in BOOLEAN, Written(r, whole), Goto(r, "fsync")
        PROVE  ServedInv'
    <3> DEFINE line == [event |-> NewEvent(r), whole |-> whole]
    <3>1. dir'["log"] = Append(dir["log"], line)
      BY <1>1, <2>1 DEF Written, Files
    <3>2. line.event.id = r
      BY DEF NewEvent
    <3> HIDE DEF line
    <3>3. dir'["log"][Len(dir'["log"])] = line
      BY <1>1, <3>1
    <3>4. srv'.at = "fsync" /\ srv'.r = r
      BY <2>1 DEF Goto
    <3> QED
      BY <3>2, <3>3, <3>4 DEF ServedInv
  <2> QED
    BY <1>2, <1>3, <1>6, <2>1 DEF WriteEvent
<1>7. CASE ExportBegin(r)
  BY <1>2, <1>3, <1>4, <1>7 DEF ExportBegin, Serving
<1>8. CASE ExportEvidence(r) \/ ExportEnvironment(r) \/ ExportManifest(r)
  <2>1. req[r].kind = "export"
    BY <1>8 DEF ExportEvidence, ExportEnvironment, ExportManifest, ServedInv
  <2> QED
    BY <1>2, <1>3, <1>4, <1>8, <2>1 DEF ExportEvidence, ExportEnvironment, ExportManifest, Proceed
<1>9. CASE ExportSign(r) \/ ExportSums(r)
  <2>1. req[r].kind = "export"
    BY <1>9 DEF ExportSign, ExportSums, ServedInv
  <2> QED
    BY <1>2, <1>3, <1>4, <1>9, <2>1 DEF ExportSign, ExportSums
<1> QED
  BY <1>5, <1>6, <1>7, <1>8, <1>9 DEF ServerStep

\* Any step.
LEMMA ServedStep ==
  ASSUME Good, ServedInv, [Next]_vars
  PROVE  ServedInv'
<1>1. CASE \/ \E b \in Notebooks : Execute(b) \/ Attach(b)
           \/ Export
           \/ \E r \in Requests : Browser(r)
           \/ \E m \in MessageIds : KernelError(m)
           \/ UNCHANGED vars
  <2>1. UNCHANGED evidence /\ \A r \in Requests : req[r].phase = "served" => req'[r] = req[r]
    BY <1>1, Outside
  <2>2. srv.at \notin {"idle", "down"} => srv.r \in Requests /\ req[srv.r].phase = "served"
    BY DEF Good, ServiceInv
  <2> QED
    BY <2>1, <2>2 DEF ServedInv, evidence
<1>2. ASSUME NEW r \in Requests, Serve(r)
      PROVE  ServedInv'
  BY <1>2, ServedServer DEF Serve
<1>3. CASE KeyFile
  BY <1>3 DEF KeyFile, KeyChanges, ServedInv
<1>4. CASE Die \/ StartAgain
  <2>1. srv'.at \in {"idle", "down"}
    BY <1>4 DEF Die, Killed, PowerLoss, Down, StartAgain, ServerStart, Idle
  <2> QED
    BY <2>1 DEF ServedInv
<1> QED
  BY <1>1, <1>2, <1>3, <1>4 DEF Next

-----------------------------------------------------------------------------
(* Events that are accepted, answers that are shown, and restarts *)

\* The answer carries the state with the new event the last, or has failed; every other
\* accepted event has another request.
LEMMA TruthAccept ==
  ASSUME Good, Good', ExportInv, TruthInv, shown \in States \cup {NoState}, UNCHANGED <<shown, behind>>,
         NEW r \in Requests, AcceptEvent(r)
  PROVE  AnswersInv' /\ EventsInv' /\ DisplayInv'
<1> DEFINE e == dir["log"][Len(dir["log"])].event
<1>1. /\ req \in [Requests -> Reqs] /\ dir["log"] \in Seq(Lines) /\ dir["log"] # <<>>
      /\ events \in Seq(Events) /\ Len(events) \in Nat
  BY DEF Good, ServiceInv, ReqsOK, StoreOK, AcceptEvent
<1>2. e \in Events /\ e.id = r
  <2>1. dir["log"][Len(dir["log"])] \in Lines
    BY <1>1
  <2>2. e \in Events
    BY <2>1 DEF Lines
  <2> QED
    BY <2>2 DEF AcceptEvent, TruthInv, ServedInv
<1>3. events' = Append(events, e) /\ UNCHANGED session /\ AnswerState(r, events')
  BY DEF AcceptEvent
<1> HIDE DEF e
<1>4. /\ Len(events') = Len(events) + 1 /\ DOMAIN events' = 1..(Len(events) + 1)
      /\ events'[Len(events) + 1] = e /\ \A i \in 1..Len(events) : events'[i] = events[i]
  BY <1>1, <1>2, <1>3
<1>5. req[r].kind = "event" /\ req[r].phase \notin Settled
  BY HandledRequest DEF AcceptEvent, ExportInv, ServerStep
<1>6. (StoreOK => /\ Known(StateOf(events)) /\ StateOf(events) # NoState
                  /\ StateOf(events).n = Len(events) /\ StateOf(events).session = session)'
  BY KnownState, PTL
<1>7. StateOf(events)' = StateOf(events')
  BY <1>3 DEF StateOf
<1>8. /\ \A q \in Requests \ {r} : req'[q] = req[q]
      /\ Known(req[r].state)'
      /\ \/ req'[r].phase = "failed"
         \/ /\ req'[r].phase = "ok" /\ req'[r].kind = "event" /\ req'[r].state # NoState
            /\ req'[r].state.n = Len(events) + 1 /\ req'[r].state.session = session'
  <2>1. CASE Answer(r, StateOf(events'))
    <3>1. /\ \A q \in Requests \ {r} : req'[q] = req[q]
          /\ req'[r].phase = "ok" /\ req'[r].kind = "event" /\ req'[r].state = StateOf(events)'
      BY <1>1, <1>5, <1>7, <2>1 DEF Answer, Reqs
    <3>2. /\ Known(StateOf(events))' /\ StateOf(events)' # NoState
          /\ StateOf(events)'.n = Len(events') /\ StateOf(events)'.session = session'
      BY <1>6 DEF Good, ServiceInv
    <3>3. Known(req[r].state)'
      BY <3>1, <3>2 DEF Known
    <3> QED
      BY <1>4, <3>1, <3>2, <3>3
  <2>2. CASE Error(r)
    <3>1. req'[r].phase = "failed" /\ req'[r].state = NoState /\ \A q \in Requests \ {r} : req'[q] = req[q]
      BY <1>1, <2>2 DEF Error, Failed, NoReq
    <3> QED
      BY <3>1 DEF Known
  <2> QED
    BY <1>3, <2>1, <2>2 DEF AnswerState
<1>9. \A i \in 1..Len(events) : events[i].id \in Requests \ {r}
  BY <1>1, <1>5, EventIds DEF TruthInv, EventsInv
<1>10. \A st \in States \cup {NoState} : Known(st) => (st # NoState =>
           /\ st.session <= session'
           /\ st.session = session' => st.n <= Len(events') /\ st.stages = Stages(SubSeq(events', 1, st.n)))
  BY <1>2, <1>3, KnownAppend DEF Known
<1>11. AnswersInv'
  <2>1. Known(shown)'
    BY <1>10 DEF TruthInv, AnswersInv, Known
  <2>2. ASSUME NEW q \in Requests \ {r}
        PROVE  Known(req[q].state)'
    <3>1. req[q].state \in States \cup {NoState} /\ Known(req[q].state)
      BY <1>1 DEF Reqs, TruthInv, AnswersInv
    <3>2. req'[q].state = req[q].state
      BY <1>8
    <3> QED
      BY <1>10, <3>1, <3>2 DEF Known
  <2> QED
    BY <1>8, <2>1, <2>2 DEF TruthInv, AnswersInv
<1>12. EventsInv'
  <2>1. ASSUME NEW i \in 1..Len(events)
        PROVE  events'[i] = events[i] /\ req'[events[i].id] = req[events[i].id] /\ i \in DOMAIN events
    BY <1>1, <1>4, <1>8, <1>9
  <2> QED
    BY <1>1, <1>2, <1>3, <1>4, <1>8, <2>1 DEF TruthInv, EventsInv, Settled
<1>13. DisplayInv'
  <2>1. ASSUME NEW i \in 1..Len(events)
        PROVE  events'[i] = events[i] /\ req'[events[i].id] = req[events[i].id] /\ i \in DOMAIN events
    BY <1>1, <1>4, <1>8, <1>9
  <2> QED
    BY <1>1, <1>2, <1>3, <1>4, <1>8, <2>1 DEF TruthInv, DisplayInv, ShownN
<1> QED
  BY <1>11, <1>12, <1>13

\* An answer is shown.  It has every event that the panel had shown, unless the panel
\* is then known to be behind, and it has the event whose answer it is.
LEMMA TruthReceive ==
  ASSUME Good, TruthInv, shown \in States \cup {NoState}, NEW r \in Requests, ReceiveState(r)
  PROVE  AnswersInv' /\ EventsInv' /\ DisplayInv'
<1> DEFINE st == req[r].state
<1>1. req \in [Requests -> Reqs] /\ UNCHANGED <<session, events>>
  BY DEF Good, ServiceInv, ReqsOK, ReceiveState, evidence
<1>2. /\ req[r].phase = "ok" /\ st # NoState /\ st \in States /\ Known(st)
  <2>1. req[r].phase = "ok" /\ st # NoState /\ Known(st)
    BY DEF ReceiveState, TruthInv, AnswersInv
  <2>2. st \in States \cup {NoState}
    BY <1>1 DEF Reqs
  <2> QED
    BY <2>1, <2>2
<1>3. /\ req'[r].phase = "gone" /\ req'[r].state = NoState
      /\ \A q \in Requests \ {r} : req'[q] = req[q]
  BY <1>1 DEF ReceiveState, Gone, NoReq
<1>4. shown' = st
  BY DEF ReceiveState, SetState
<1>5. AnswersInv'
  <2>1. Known(shown)'
    BY <1>1, <1>2, <1>4 DEF Known
  <2>2. ASSUME NEW q \in Requests
        PROVE  /\ Known(req[q].state)'
               /\ req'[q].phase = "ok" /\ req'[q].kind # "export" => req'[q].state # NoState
    BY <1>1, <1>3 DEF TruthInv, AnswersInv, Known
  <2> QED
    BY <2>1, <2>2 DEF AnswersInv
<1>6. EventsInv'
  <2>1. ASSUME NEW i \in DOMAIN events
        PROVE  req'[events[i].id] = req[events[i].id] \/ req'[events[i].id].phase = "gone"
    BY <1>3, EventIds
  <2> QED
    BY <1>1, <2>1 DEF TruthInv, EventsInv, Settled
<1>7. DisplayInv'
  <2> SUFFICES ASSUME ~behind'
               PROVE  /\ shown' # NoState => shown'.session = session'
                      /\ \A i \in DOMAIN events' : i > ShownN' => req'[events'[i].id].phase \in {"ok", "failed"}
    BY DEF DisplayInv
  <2>1. /\ events \in Seq(Events) /\ Len(events) \in Nat /\ session \in Int
        /\ ShownN' = st.n /\ st.n \in Nat
    BY <1>2, <1>4, EvidenceAssumption DEF Good, ServiceInv, StoreOK, ShownN, States
  <2>2. CASE st = StateOf(events)
    <3>1. st.n = Len(events) /\ st.session = session
      BY <2>2 DEF StateOf
    <3> QED
      BY <1>1, <1>4, <2>1, <3>1
  <2>3. CASE /\ ~behind /\ st.session = session
             /\ ~(shown # NoState /\ shown.session = session /\ st.n < shown.n)
    <3>1. ShownN <= st.n
      <4>1. CASE shown = NoState
        BY <2>1, <4>1 DEF ShownN
      <4>2. CASE shown # NoState
        <5>1. shown.session = session
          BY <2>3, <4>2 DEF TruthInv, DisplayInv
        <5>2. shown.n \in Nat
          BY <4>2, EvidenceAssumption DEF States
        <5> QED
          BY <2>1, <2>3, <4>2, <5>1, <5>2 DEF ShownN
      <4> QED
        BY <4>1, <4>2
    <3>2. ShownN \in Nat
      BY EvidenceAssumption DEF ShownN, States
    <3>3. ASSUME NEW i \in DOMAIN events, i > st.n
          PROVE  req'[events[i].id].phase \in {"ok", "failed"}
      <4>1. req[events[i].id].phase \in {"ok", "failed"}
        <5>1. i > ShownN
          BY <2>1, <3>1, <3>2, <3>3
        <5> QED
          BY <2>3, <5>1 DEF TruthInv, DisplayInv
      <4>2. events[i].id # r
        <5>1. i # st.n
          BY <2>1, <3>3
        <5> QED
          BY <1>2, <5>1 DEF TruthInv, EventsInv
      <4> QED
        BY <1>3, <4>1, <4>2, EventIds
    <3> QED
      BY <1>1, <1>4, <2>1, <2>3, <3>3
  <2>4. \/ st = StateOf(events)
        \/ /\ ~behind /\ st.session = session
           /\ ~(shown # NoState /\ shown.session = session /\ st.n < shown.n)
    BY Zenon DEF ReceiveState, SetState
  <2> QED
    BY <2>2, <2>3, <2>4
<1> QED
  BY <1>5, <1>6, <1>7

\* A new service: no state is its own yet, and the panel is behind.
LEMMA TruthStart ==
  ASSUME Good, TruthInv, shown \in States \cup {NoState}, StartAgain
  PROVE  AnswersInv' /\ EventsInv' /\ DisplayInv'
<1>1. /\ session \in Int /\ session' = session + 1 /\ events' = <<>> /\ behind'
      /\ UNCHANGED <<shown, req>> /\ req \in [Requests -> Reqs]
  BY EvidenceAssumption DEF Good, ServiceInv, StoreOK, ReqsOK, StartAgain, ServerStart
<1>2. \A st \in States \cup {NoState} : Known(st) /\ st # NoState => st.session < session'
  BY <1>1, EvidenceAssumption DEF Known, States
<1>3. \A st \in States \cup {NoState} : Known(st) /\ st # NoState =>
         st.session <= session' /\ st.session # session'
  BY <1>1, <1>2, EvidenceAssumption DEF States
<1>4. Known(shown)'
  BY <1>1, <1>3 DEF TruthInv, AnswersInv, Known
<1>5. ASSUME NEW q \in Requests
      PROVE  Known(req[q].state)'
  <2>1. req[q].state \in States \cup {NoState} /\ Known(req[q].state)
    BY <1>1 DEF Reqs, TruthInv, AnswersInv
  <2> QED
    BY <1>1, <1>3, <2>1 DEF Known
<1>6. EventsInv' /\ DisplayInv'
  BY <1>1 DEF EventsInv, DisplayInv
<1> QED
  BY <1>1, <1>4, <1>5, <1>6 DEF TruthInv, AnswersInv

\* Any step.
LEMMA TruthStep ==
  ASSUME Good, Good', ExportInv, PanelInv, TruthInv, [Next]_vars
  PROVE  TruthInv'
<1>1. ServedInv'
  BY ServedStep DEF TruthInv
<1>2. AnswersInv' /\ EventsInv' /\ DisplayInv'
  <2>1. CASE \/ \E b \in Notebooks : Execute(b) \/ Attach(b)
             \/ Export
             \/ \E r \in Requests : ReceiveExport(r) \/ Broken(r)
    BY <2>1, BrowserMoves, RequestsMoved DEF TruthInv
  <2>2. ASSUME NEW r \in Requests, ReceiveState(r)
        PROVE  AnswersInv' /\ EventsInv' /\ DisplayInv'
    BY <2>2, TruthReceive DEF PanelInv
  <2>3. ASSUME NEW r \in Requests, Serve(r), AcceptEvent(r)
        PROVE  AnswersInv' /\ EventsInv' /\ DisplayInv'
    BY <2>3, TruthAccept DEF Serve, panel, PanelInv
  <2>4. ASSUME NEW r \in Requests, Serve(r), ~AcceptEvent(r)
        PROVE  AnswersInv' /\ EventsInv' /\ DisplayInv'
    BY <2>4, ServerMoves, RequestsMoved DEF Serve, panel, TruthInv
  <2>5. CASE Die
    BY <2>5, DeathMoves, RequestsMoved DEF TruthInv
  <2>6. CASE StartAgain
    BY <2>6, TruthStart DEF PanelInv
  <2>7. CASE UNCHANGED <<session, events, shown, behind, req>>
    BY <2>7, RequestsMoved DEF TruthInv, Moved
  <2>8. KeyFile \/ (\E m \in MessageIds : KernelError(m)) \/ UNCHANGED vars
          => UNCHANGED <<session, events, shown, behind, req>>
    BY DEF KeyFile, KeyChanges, KernelError, evidence, panel, vars
  <2> QED
    BY <2>1, <2>2, <2>3, <2>4, <2>5, <2>6, <2>7, <2>8 DEF Next, Browser
<1> QED
  BY <1>1, <1>2 DEF TruthInv

\* Nothing is accepted; the panel shows nothing, or the state of the empty session.
LEMMA TruthInit ==
  ASSUME Init
  PROVE  TruthInv
<1>1. events = <<>> /\ srv.at = "idle" /\ Good
  BY GoodInit DEF Init, ServiceInit, Idle
<1>2. \A r \in Requests : req[r].state = NoState /\ req[r].phase # "ok"
  <2>1. NoReq.state = NoState /\ NoReq.phase # "ok" /\ Refresh.state = NoState /\ Refresh.phase # "ok"
    BY DEF NoReq, Refresh
  <2> QED
    BY <2>1 DEF Init
<1>3. Known(NoState)
  BY DEF Known
<1>4. Known(StateOf(events)) /\ StateOf(events).session = session
  BY <1>1, KnownState DEF Good, ServiceInv
<1>5. shown \in {NoState, StateOf(events)}
  BY DEF Init
<1> QED
  BY <1>1, <1>2, <1>3, <1>4, <1>5 DEF TruthInv, AnswersInv, EventsInv, ServedInv, DisplayInv

\* What the invariant says of a panel with no request under way.
LEMMA TruthSuffices ==
  ASSUME Good, PanelInv, TruthInv
  PROVE  PanelTruthful
<1> SUFFICES ASSUME shown # NoState, shown.session = session
             PROVE  /\ shown.n <= Len(events) /\ shown.stages = Stages(SubSeq(events, 1, shown.n))
                    /\ Quiet /\ ~behind /\ ~Unanswered => shown = StateOf(events)
  BY DEF PanelTruthful
<1>1. shown.n <= Len(events) /\ shown.stages = Stages(SubSeq(events, 1, shown.n))
  BY DEF TruthInv, AnswersInv, Known
<1>2. ASSUME Quiet, ~behind, ~Unanswered
      PROVE  shown = StateOf(events)
  <2>1. events \in Seq(Events) /\ Len(events) \in Nat /\ shown \in States /\ shown.n \in Nat
    BY EvidenceAssumption DEF Good, ServiceInv, StoreOK, PanelInv, States
  <2>2. \A i \in DOMAIN events : ~(i > shown.n)
    <3> SUFFICES ASSUME NEW i \in DOMAIN events, i > shown.n
                 PROVE  FALSE
      OBVIOUS
    <3>1. req[events[i].id].phase \in {"ok", "failed"}
      BY <1>2 DEF TruthInv, DisplayInv, ShownN
    <3> QED
      BY <1>2, <3>1, EventIds DEF Quiet, Unanswered
  <2>3. shown.n = Len(events)
    <3>1. CASE shown.n < Len(events)
      <4>1. Len(events) \in DOMAIN events /\ Len(events) > shown.n
        BY <2>1, <3>1
      <4> QED
        BY <2>2, <4>1
    <3> QED
      BY <1>1, <2>1, <3>1
  <2>4. shown.stages = Stages(events)
    <3>1. SubSeq(events, 1, Len(events)) = events
      BY <2>1
    <3> QED
      BY <1>1, <2>3, <3>1
  <2>5. shown = [session |-> shown.session, n |-> shown.n, stages |-> shown.stages]
    BY <2>1 DEF States
  <2> QED
    BY <2>3, <2>4, <2>5 DEF StateOf
<1> QED
  BY <1>1, <1>2

\* For every number of requests in flight, in whatever order they are served and their
\* answers arrive, the panel shows a state of the current session that the server was
\* in, and the present one once no request is under way, unless an answer was lost or
\* overtaken or the server was started again (setState, refresh).
THEOREM PanelIsTruthful == Spec => []PanelTruthful
<1>1. Init => TruthInv
  BY TruthInit
<1>2. Good /\ Good' /\ ExportInv /\ PanelInv /\ TruthInv /\ [Next]_vars => TruthInv'
  BY TruthStep
<1>3. Good /\ PanelInv /\ TruthInv => PanelTruthful
  BY TruthSuffices
<1> QED
  BY <1>1, <1>2, <1>3, GoodInvariant, ExportInvariant, PTL DEF Spec
=============================================================================
