----------------------- MODULE ProgressionPanel_proofs -----------------------
(***************************************************************************)
(* For every number of requests, notebooks, events, sessions and faults:   *)
(* the types, the durability of the accepted events, and, for every size   *)
(* of the window of kernel errors, when one is suppressed.                 *)
(***************************************************************************)
EXTENDS ProgressionPanel, TLAPS

\* The set has what the deque has, a message's place in the deque is the number of
\* messages observed after it, and one that is in neither has been pushed out.
WindowInv ==
  /\ TelemetryTypeOK
  /\ \A m \in MessageIds : m \in recentSet <=> \E i \in 1..Len(recent) : recent[i] = m
  /\ \A i \in 1..Len(recent) : since[recent[i]] = Len(recent) - i
  /\ \A m \in MessageIds \ recentSet : since[m] = Window

\* An empty window is consistent (the attributes of the class).
LEMMA EmptyWindow ==
  ASSUME recent = <<>>, recentSet = {}, since = [m \in MessageIds |-> Window]
  PROVE  WindowInv
BY TelemetryAssumption DEF WindowInv, TelemetryTypeOK

\* A first observation while the deque has room (_first_observation).
LEMMA ObservedWithRoom ==
  ASSUME WindowInv, NEW m \in MessageIds, FirstObservation(m), Len(recent) # Window
  PROVE  WindowInv'
<1> USE TelemetryAssumption DEF TelemetryTypeOK
<1>1. recent \in Seq(MessageIds) /\ Len(recent) \in Nat /\ Len(recent) < Window
  BY DEF WindowInv
<1>2. recent' = Append(recent, m) /\ recentSet' = recentSet \cup {m} /\ m \notin recentSet
  BY DEF FirstObservation, Expired
<1>3. /\ Len(recent') = Len(recent) + 1 /\ recent'[Len(recent) + 1] = m
      /\ \A i \in 1..Len(recent) : recent'[i] = recent[i] /\ recent[i] \in MessageIds
  BY <1>1, <1>2
<1>4. TelemetryTypeOK'
  BY <1>1, <1>2, <1>3 DEF WindowInv, FirstObservation
<1>5. \A k \in MessageIds : k \in recentSet' <=> \E i \in 1..Len(recent') : recent'[i] = k
  BY <1>1, <1>2, <1>3 DEF WindowInv
<1>6. \A i \in 1..Len(recent) : recent[i] # m
  BY <1>1, <1>2 DEF WindowInv
<1>7. ASSUME NEW i \in 1..Len(recent')
      PROVE  since'[recent'[i]] = Len(recent') - i
  <2>1. CASE i = Len(recent) + 1
    BY <2>1, <1>1, <1>3 DEF FirstObservation
  <2>2. CASE i \in 1..Len(recent)
    <3>1. since[recent[i]] = Len(recent) - i /\ Len(recent) - i < Window
      BY <2>2, <1>1 DEF WindowInv
    <3> QED
      BY <3>1, <2>2, <1>1, <1>3, <1>6 DEF FirstObservation
  <2> QED
    BY <2>1, <2>2, <1>1, <1>3
<1>8. \A k \in MessageIds \ recentSet' : since'[k] = Window
  BY <1>2 DEF WindowInv, FirstObservation
<1> QED
  BY <1>4, <1>5, <1>7, <1>8 DEF WindowInv

\* A first observation when the deque is full: the oldest message leaves the deque
\* and the set together (_first_observation).
LEMMA ObservedWhenFull ==
  ASSUME WindowInv, NEW m \in MessageIds, FirstObservation(m), Len(recent) = Window
  PROVE  WindowInv'
<1> USE TelemetryAssumption DEF TelemetryTypeOK
<1>1. recent \in Seq(MessageIds) /\ recent # <<>> /\ Head(recent) = recent[1]
  BY DEF WindowInv
<1>2. /\ recent' = Append(Tail(recent), m) /\ m \notin recentSet
      /\ recentSet' = (recentSet \ {recent[1]}) \cup {m}
  BY <1>1 DEF FirstObservation, Expired
<1>3. /\ Len(recent') = Window /\ recent'[Window] = m /\ recent' \in Seq(MessageIds)
      /\ \A i \in 1..(Window - 1) : recent'[i] = recent[i + 1]
      /\ \A i \in 1..Window : recent[i] \in MessageIds
  BY <1>1, <1>2
<1>4. \A i \in 1..Window : since[recent[i]] = Window - i /\ recent[i] \in recentSet
  BY <1>3 DEF WindowInv
<1>5. \A i \in 2..Window : recent[i] # recent[1]
  BY <1>4
<1>6. \A i \in 1..Window : recent[i] # m
  BY <1>2, <1>4
<1>7. TelemetryTypeOK'
  BY <1>2, <1>3 DEF WindowInv, FirstObservation
<1>8. ASSUME NEW k \in MessageIds
      PROVE  k \in recentSet' <=> \E i \in 1..Len(recent') : recent'[i] = k
  <2>1. CASE k = m
    BY <2>1, <1>2, <1>3
  <2>2. ASSUME k # m, k \in recentSet'
        PROVE  \E i \in 1..Len(recent') : recent'[i] = k
    <3>1. PICK i \in 1..Window : recent[i] = k /\ i # 1
      BY <2>2, <1>2 DEF WindowInv
    <3>2. i - 1 \in 1..(Window - 1) /\ recent'[i - 1] = k
      BY <3>1, <1>3
    <3> QED
      BY <3>2, <1>3
  <2>3. ASSUME k # m, NEW i \in 1..Len(recent'), recent'[i] = k
        PROVE  k \in recentSet'
    <3>1. i \in 1..(Window - 1) /\ k = recent[i + 1] /\ i + 1 \in 2..Window
      BY <2>3, <1>3
    <3> QED
      BY <3>1, <1>2, <1>4, <1>5
  <2> QED
    BY <2>1, <2>2, <2>3
<1>9. ASSUME NEW i \in 1..Len(recent')
      PROVE  since'[recent'[i]] = Len(recent') - i
  <2>1. CASE i = Window
    BY <2>1, <1>3 DEF FirstObservation
  <2>2. CASE i \in 1..(Window - 1)
    <3>1. i + 1 \in 1..Window /\ recent'[i] = recent[i + 1] /\ recent[i + 1] # m
      BY <2>2, <1>3, <1>6
    <3>2. since[recent[i + 1]] = Window - (i + 1)
      BY <3>1, <1>4
    <3>3. since'[recent[i + 1]] = since[recent[i + 1]] + 1
      BY <3>1, <3>2, <1>3, <2>2 DEF FirstObservation
    <3> QED
      BY <3>1, <3>2, <3>3, <1>3, <2>2
  <2> QED
    BY <2>1, <2>2, <1>3
<1>10. ASSUME NEW k \in MessageIds \ recentSet'
       PROVE  since'[k] = Window
  <2>1. CASE k = recent[1]
    <3>1. since[k] = Window - 1
      BY <2>1, <1>4
    <3> QED
      BY <3>1, <1>2 DEF FirstObservation
  <2>2. CASE k # recent[1]
    <3>1. k # m /\ k \notin recentSet
      BY <2>2, <1>2
    <3>2. since[k] = Window
      BY <3>1 DEF WindowInv
    <3> QED
      BY <3>1, <3>2 DEF FirstObservation
  <2> QED
    BY <2>1, <2>2
<1> QED
  BY <1>7, <1>8, <1>9, <1>10 DEF WindowInv

\* What leaves the telemetry alone keeps it consistent.
LEMMA WindowUntouched ==
  ASSUME WindowInv, UNCHANGED telemetry
  PROVE  WindowInv'
BY DEF WindowInv, TelemetryTypeOK, telemetry

\* A place in the window is worth less than Window observations.
LEMMA WindowSuffices ==
  ASSUME WindowInv
  PROVE  SuppressedInWindow
<1> USE TelemetryAssumption
<1> SUFFICES ASSUME NEW m \in MessageIds
             PROVE  m \in recentSet <=> since[m] < Window
  BY DEF SuppressedInWindow
<1>1. CASE m \notin recentSet
  BY <1>1 DEF WindowInv
<1>2. CASE m \in recentSet
  <2>1. PICK i \in 1..Len(recent) : recent[i] = m
    BY <1>2 DEF WindowInv
  <2>2. since[m] = Len(recent) - i /\ Len(recent) <= Window /\ Len(recent) \in Nat
    BY <2>1 DEF WindowInv, TelemetryTypeOK
  <2> QED
    BY <2>2, <2>1, <1>2
<1> QED
  BY <1>1, <1>2

\* The window is consistent in the whole server.
LEMMA WindowInvariant == Spec => []WindowInv
<1>1. Init => WindowInv
  BY EmptyWindow DEF Init, TelemetryInit
<1>2. WindowInv /\ [Next]_vars => WindowInv'
  <2> SUFFICES ASSUME WindowInv, [Next]_vars
               PROVE  WindowInv'
    OBVIOUS
  <2>1. ASSUME NEW b \in Notebooks, Execute(b) \/ Attach(b)
        PROVE  WindowInv'
    BY <2>1, WindowUntouched DEF Execute, Attach
  <2>2. CASE Export
    BY <2>2, WindowUntouched DEF Export
  <2>3. ASSUME NEW r \in Requests, Serve(r) \/ Browser(r)
        PROVE  WindowInv'
    BY <2>3, WindowUntouched DEF Serve, Browser, ReceiveState, ReceiveExport, Broken
  <2>4. CASE KeyFile \/ Die
    BY <2>4, WindowUntouched DEF KeyFile, Die
  <2>5. CASE StartAgain
    BY <2>5, TelemetryAssumption DEF StartAgain, WindowInv, TelemetryTypeOK
  <2>6. ASSUME NEW m \in MessageIds, KernelError(m)
        PROVE  WindowInv'
    BY <2>6, ObservedWithRoom, ObservedWhenFull DEF KernelError
  <2>7. CASE UNCHANGED vars
    BY <2>7, WindowUntouched DEF vars, telemetry
  <2> QED
    BY <2>1, <2>2, <2>3, <2>4, <2>5, <2>6, <2>7 DEF Next
<1> QED
  BY <1>1, <1>2, PTL DEF Spec

\* In the whole server, however its requests, deaths and restarts interleave with
\* the messages of kernels, a kernel error is suppressed exactly while fewer than
\* Window others were first observed after it (_first_observation).
THEOREM WindowExact == Spec => []SuppressedInWindow
BY WindowInvariant, WindowSuffices, PTL

-----------------------------------------------------------------------------
(* Types *)

Labels == {"down", "idle", "fsync", "evidence", "environment", "manifest", "sign", "sums"}

Reqs == [kind : {"none", "state", "event", "export"}, what : Payloads \cup {Absent},
         phase : {"new", "sent", "served", "ok", "failed", "gone"}, state : States \cup {NoState}]

\* Memory and disk of the service.
StoreOK ==
  /\ session \in 1..MaxSessions
  /\ signing \in BOOLEAN /\ key \in BOOLEAN /\ shorted \in BOOLEAN
  /\ events \in Seq(Events) /\ Len(events) <= MaxEvents
  /\ dir = [file \in Files |-> dir[file]]
  /\ dir["log"] \in Seq(Lines) /\ synced \in 0..Len(dir["log"])
  /\ faults \in 0..MaxFaults

ReqsOK ==
  /\ req \in [Requests -> Reqs]
  /\ \A r \in Requests : req[r].kind = "event" => req[r].what \in Payloads

\* What a step of the service relies on: an event is being recorded only while there
\* is room for it and its line is in the log, the event loop works on a request that
\* waits for it, and a dead server is not the last one.
ServiceInv ==
  /\ StoreOK /\ ReqsOK
  /\ srv \in [at : Labels, r : Requests \cup {NoRequest}]
  /\ srv.at \in {"idle", "down"} <=> srv.r = NoRequest
  /\ srv.at = "fsync" => dir["log"] # <<>> /\ Len(events) < MaxEvents
  /\ srv.at = "down" => session < MaxSessions
  /\ srv.r \in Requests => req[srv.r].phase = "served"

PanelInv ==
  /\ shown \in States \cup {NoState} /\ behind \in BOOLEAN
  /\ attached \subseteq Notebooks

\* state() has the type of a state.
LEMMA StateType ==
  ASSUME session \in 1..MaxSessions, NEW es \in Seq(Events), Len(es) <= MaxEvents
  PROVE  StateOf(es) \in States
BY EvidenceAssumption DEF StateOf, States, Stages

\* The service starts with these types.
LEMMA ServiceInitType ==
  ASSUME Init
  PROVE  ServiceInv /\ PanelInv
<1>1. session \in 1..MaxSessions /\ events = <<>> /\ events \in Seq(Events) /\ Len(events) = 0
  BY EvidenceAssumption DEF Init, ServiceInit
<1>2. NoReq \in Reqs /\ Refresh \in Reqs /\ NoReq.kind = "none" /\ Refresh.kind = "state"
  BY DEF NoReq, Reqs, Refresh
<1>3. req \in [Requests -> Reqs] /\ \A r \in Requests : req[r].kind # "event"
  BY <1>2 DEF Init
<1>4. Len(events) <= MaxEvents
  BY <1>1, EvidenceAssumption
<1>5. StateOf(events) \in States
  BY <1>1, <1>4, StateType
<1>6. dir = [file \in Files |-> dir[file]]
  BY DEF Init, ServiceInit, NoDir, Files
<1>7. srv \in [at : Labels, r : Requests \cup {NoRequest}] /\ srv.at = "idle" /\ srv.r = NoRequest
  BY DEF Init, ServiceInit, Idle, Labels
<1>8. signing \in BOOLEAN /\ key \in BOOLEAN /\ shorted \in BOOLEAN
  BY EvidenceAssumption, Zenon DEF Init, ServiceInit
<1>9. synced = 0 /\ faults \in 0..MaxFaults
  BY EvidenceAssumption DEF Init, ServiceInit
<1>10. dir["log"] = <<>>
  BY DEF Init, ServiceInit, NoDir
<1>11. dir["log"] \in Seq(Lines) /\ synced \in 0..Len(dir["log"])
  BY <1>9, <1>10
<1>12. PanelInv
  BY <1>5 DEF Init, PanelInv
<1> QED
  BY <1>1, <1>3, <1>4, <1>6, <1>7, <1>8, <1>9, <1>11, <1>12, EvidenceAssumption
     DEF ServiceInv, StoreOK, ReqsOK

\* Answers and errors leave the loop idle.
LEMMA Replied ==
  ASSUME ServiceInv, StoreOK', NEW r \in Requests, NEW st \in States \cup {NoState},
         Answer(r, st) \/ Error(r)
  PROVE  ServiceInv'
<1>1. [NoReq EXCEPT !.phase = "failed"] \in Reqs /\ [NoReq EXCEPT !.phase = "failed"].kind = "none"
  BY DEF NoReq, Reqs
<1>2. srv' \in [at : Labels, r : Requests \cup {NoRequest}] /\ srv'.at = "idle" /\ srv'.r = NoRequest
  BY DEF Answer, Error, Idle, Labels
<1>3. ASSUME Answer(r, st)
      PROVE  ReqsOK'
  <2>1. req \in [Requests -> Reqs] /\ req' = [req EXCEPT ![r] = [req[r] EXCEPT !.phase = "ok", !.state = st]]
    BY <1>3 DEF Answer, ServiceInv, ReqsOK
  <2>2. /\ [req[r] EXCEPT !.phase = "ok", !.state = st] \in Reqs
        /\ [req[r] EXCEPT !.phase = "ok", !.state = st].kind = req[r].kind
        /\ [req[r] EXCEPT !.phase = "ok", !.state = st].what = req[r].what
    BY <2>1 DEF Reqs
  <2> QED
    BY <2>1, <2>2 DEF ServiceInv, ReqsOK
<1>4. ASSUME Error(r)
      PROVE  ReqsOK'
  <2>1. req \in [Requests -> Reqs] /\ req' = [req EXCEPT ![r] = [NoReq EXCEPT !.phase = "failed"]]
    BY <1>4 DEF Error, Failed, ServiceInv, ReqsOK
  <2> QED
    BY <2>1, <1>1 DEF ServiceInv, ReqsOK
<1> QED
  BY <1>2, <1>3, <1>4, EvidenceAssumption DEF ServiceInv

\* A handler goes on with its request.
LEMMA WentOn ==
  ASSUME ServiceInv, StoreOK', NEW r \in Requests, NEW label \in Labels \ {"idle", "down"},
         Goto(r, label), label = "fsync" => dir'["log"] # <<>> /\ Len(events') < MaxEvents
  PROVE  ServiceInv'
<1>1. srv' \in [at : Labels, r : Requests \cup {NoRequest}] /\ srv'.at = label /\ srv'.r = r
  BY DEF Goto
<1>2. req \in [Requests -> Reqs] /\ req' = [req EXCEPT ![r] = [req[r] EXCEPT !.phase = "served"]]
  BY DEF Goto, ServiceInv, ReqsOK
<1>3. /\ [req[r] EXCEPT !.phase = "served"] \in Reqs
      /\ [req[r] EXCEPT !.phase = "served"].kind = req[r].kind
      /\ [req[r] EXCEPT !.phase = "served"].what = req[r].what
      /\ [req[r] EXCEPT !.phase = "served"].phase = "served"
  BY <1>2 DEF Reqs
<1>4. ReqsOK' /\ req'[r].phase = "served"
  BY <1>2, <1>3 DEF ServiceInv, ReqsOK
<1> QED
  BY <1>1, <1>4, EvidenceAssumption DEF ServiceInv

\* The log and the events in memory are as before.
LEMMA LogUntouched ==
  ASSUME LastLineWins, UNCHANGED <<events, synced, shorted>>, dir'["log"] = dir["log"]
  PROVE  LastLineWins'
BY DEF LastLineWins

\* Faults are counted up to their bound.
LEMMA FaultCount ==
  ASSUME faults \in 0..MaxFaults, Fault \/ NoFault
  PROVE  faults' \in 0..MaxFaults
BY EvidenceAssumption DEF Fault, NoFault

\* A file of an export is not the log.
LEMMA PutStore ==
  ASSUME StoreOK, NEW file \in Files \ {"log"}, NEW contents,
         Put(file, contents), ExportFrame
  PROVE  StoreOK' /\ dir'["log"] = dir["log"]
<1>1. \A c : [dir EXCEPT ![file] = c]["log"] = dir["log"]
  BY DEF StoreOK, Files
<1>2. \A c : [dir EXCEPT ![file] = c] = [f \in Files |-> [dir EXCEPT ![file] = c][f]]
  BY DEF StoreOK
<1>3. dir'["log"] = dir["log"] /\ dir' = [f \in Files |-> dir'[f]]
  BY <1>1, <1>2 DEF Put, StoreOK
<1>4. faults' \in 0..MaxFaults
  BY FaultCount DEF Put, StoreOK
<1> QED
  BY <1>3, <1>4 DEF StoreOK, ExportFrame

-----------------------------------------------------------------------------
(* Steps of the service.  Each keeps the types and the promise about the log. *)

Good == ServiceInv /\ LastLineWins

\* An answer that carries state(), or the error when it raises.
LEMMA AnsweredState ==
  ASSUME ServiceInv, StoreOK', NEW r \in Requests, NEW es \in Seq(Events), Len(es) <= MaxEvents,
         AnswerState(r, es)
  PROVE  ServiceInv'
<1>1. StateOf(es) \in States
  BY StateType DEF ServiceInv, StoreOK
<1>2. Answer(r, StateOf(es)) \/ Error(r)
  BY DEF AnswerState
<1> QED
  BY <1>1, <1>2, Replied

\* StateHandler.get, and what EventHandler.post refuses.
LEMMA GoodState ==
  ASSUME Good, NEW r \in Requests, ServeState(r) \/ Reject(r)
  PROVE  Good'
<1>1. StoreOK' /\ events \in Seq(Events) /\ Len(events) <= MaxEvents
  BY DEF Good, ServiceInv, StoreOK, ServeState, Reject
<1>2. ServiceInv'
  <2>1. CASE ServeState(r)
    BY <2>1, <1>1, AnsweredState DEF Good, ServeState
  <2>2. CASE Reject(r)
    BY <2>2, <1>1, Replied DEF Good, Reject
  <2> QED
    BY <2>1, <2>2
<1>3. LastLineWins'
  BY LogUntouched DEF Good, ServeState, Reject
<1> QED
  BY <1>2, <1>3 DEF Good

\* A line is appended to the log: it has the number after the accepted ones.
LEMMA LineAppended ==
  ASSUME Good, NEW r \in Requests, NEW whole \in BOOLEAN, req[r].kind = "event", ~Full,
         Written(r, whole), UNCHANGED <<events, synced>>
  PROVE  /\ dir' = [f \in Files |-> dir'[f]]
         /\ dir'["log"] \in Seq(Lines) /\ synced' \in 0..Len(dir'["log"]) /\ dir'["log"] # <<>>
         /\ Len(events) < MaxEvents
         /\ UNCHANGED shorted => LastLineWins'
<1> DEFINE line == [event |-> NewEvent(r), whole |-> whole]
<1>1. /\ events \in Seq(Events) /\ Len(events) \in Nat /\ Len(events) < MaxEvents
      /\ dir["log"] \in Seq(Lines) /\ synced \in 0..Len(dir["log"])
  BY EvidenceAssumption DEF Good, ServiceInv, StoreOK, Full
<1>2. NewEvent(r) \in Events
  BY <1>1, EvidenceAssumption DEF NewEvent, Events, Good, ServiceInv, ReqsOK
<1>3. line \in Lines /\ line.event = NewEvent(r) /\ NewEvent(r).seq = Len(events) + 1
  BY <1>2 DEF Lines, NewEvent
<1>4. dir'["log"] = Append(dir["log"], line) /\ dir' = [f \in Files |-> dir'[f]]
  BY DEF Written, Good, ServiceInv, StoreOK, Files
<1> HIDE DEF line
<1>5. /\ dir'["log"] \in Seq(Lines) /\ Len(dir'["log"]) = Len(dir["log"]) + 1
      /\ dir'["log"][Len(dir["log"]) + 1] = line
      /\ \A i \in 1..Len(dir["log"]) : dir'["log"][i] = dir["log"][i]
  BY <1>1, <1>3, <1>4
<1>6. ASSUME UNCHANGED shorted, FsyncEvents, ~shorted
      PROVE  /\ \A n \in DOMAIN events : \E i \in 1..synced :
                  /\ dir'["log"][i].event = events[n]
                  /\ \A j \in (i + 1)..Len(dir'["log"]) : dir'["log"][j].event.seq > n
             /\ \A i \in DOMAIN dir'["log"] : dir'["log"][i].event.seq <= Len(events) + 1
  <2>1. ASSUME NEW n \in DOMAIN events
        PROVE  \E i \in 1..synced :
                  /\ dir'["log"][i].event = events[n]
                  /\ \A j \in (i + 1)..Len(dir'["log"]) : dir'["log"][j].event.seq > n
    <3>1. PICK i \in 1..synced : /\ dir["log"][i].event = events[n]
                                 /\ \A j \in (i + 1)..Len(dir["log"]) : dir["log"][j].event.seq > n
      BY <1>6 DEF Good, LastLineWins
    <3>2. n \in Nat /\ n < Len(events) + 1
      BY <1>1
    <3>3. i \in 1..Len(dir["log"]) /\ i \in Nat /\ Len(dir["log"]) \in Nat
      BY <1>1
    <3>4. ASSUME NEW j \in (i + 1)..Len(dir'["log"])
          PROVE  dir'["log"][j].event.seq > n
      <4>1. CASE j = Len(dir["log"]) + 1
        <5>1. dir'["log"][j].event.seq = Len(events) + 1
          BY <4>1, <1>3, <1>5
        <5> QED
          BY <5>1, <3>2, <1>1
      <4>2. CASE j \in (i + 1)..Len(dir["log"])
        <5>1. dir'["log"][j] = dir["log"][j]
          BY <4>2, <3>3, <1>5
        <5> QED
          BY <5>1, <4>2, <3>1
      <4>3. j = Len(dir["log"]) + 1 \/ j \in (i + 1)..Len(dir["log"])
        BY <3>3, <1>5
      <4> QED
        BY <4>1, <4>2, <4>3
    <3>5. dir'["log"][i].event = events[n]
      BY <3>1, <3>3, <1>5
    <3> QED
      BY <3>4, <3>5
  <2>2. ASSUME NEW i \in DOMAIN dir'["log"]
        PROVE  dir'["log"][i].event.seq <= Len(events) + 1
    <3>1. CASE i = Len(dir["log"]) + 1
      BY <3>1, <1>1, <1>3, <1>5
    <3>2. CASE i \in 1..Len(dir["log"])
      <4>1. dir["log"][i].event.seq <= Len(events) + 1
        <5>1. i \in DOMAIN dir["log"]
          BY <3>2, <1>1
        <5> QED
          BY <5>1, <1>6 DEF Good, LastLineWins
      <4> QED
        BY <4>1, <3>2, <1>5
    <3> QED
      BY <3>1, <3>2, <1>1, <1>5
  <2> QED
    BY <2>1, <2>2
<1>7. UNCHANGED shorted => LastLineWins'
  BY <1>6 DEF LastLineWins
<1>8. synced' \in 0..Len(dir'["log"]) /\ dir'["log"] # <<>>
  BY <1>1, <1>5
<1> QED
  BY <1>1, <1>4, <1>5, <1>7, <1>8

\* _record up to the write.
LEMMA GoodWrite ==
  ASSUME Good, NEW r \in Requests, WriteEvent(r)
  PROVE  Good'
<1>1. req[r].kind = "event" /\ ~Full /\ UNCHANGED <<session, signing, key, events, synced>>
  BY DEF WriteEvent, Serving
<1>2. faults' \in 0..MaxFaults
  BY FaultCount DEF WriteEvent, Good, ServiceInv, StoreOK
<1>3. ASSUME NEW whole \in BOOLEAN, Written(r, whole), Goto(r, "fsync"), shorted' \in BOOLEAN,
             UNCHANGED shorted \/ shorted'
      PROVE  Good'
  <2>1. /\ dir' = [f \in Files |-> dir'[f]]
        /\ dir'["log"] \in Seq(Lines) /\ synced' \in 0..Len(dir'["log"]) /\ dir'["log"] # <<>>
        /\ Len(events) < MaxEvents
        /\ UNCHANGED shorted => LastLineWins'
    BY <1>1, <1>3, LineAppended
  <2>2. StoreOK'
    BY <1>1, <1>2, <1>3, <2>1 DEF Good, ServiceInv, StoreOK
  <2>3. "fsync" \in Labels \ {"idle", "down"}
    BY DEF Labels
  <2>4. ServiceInv'
    BY <1>1, <1>3, <2>1, <2>2, <2>3, WentOn DEF Good
  <2>5. LastLineWins'
    BY <1>3, <2>1 DEF LastLineWins
  <2> QED
    BY <2>4, <2>5 DEF Good
<1>4. ASSUME Error(r), UNCHANGED <<dir, shorted>>
      PROVE  Good'
  <2>1. StoreOK'
    BY <1>1, <1>2, <1>4 DEF Good, ServiceInv, StoreOK
  <2> QED
    BY <1>1, <1>4, <2>1, Replied, LogUntouched DEF Good
<1> QED
  BY <1>3, <1>4 DEF WriteEvent, Good, ServiceInv, StoreOK

\* The last line of the log becomes an accepted event: with fsync it is on stable
\* storage, and nothing follows it.
LEMMA GoodAccept ==
  ASSUME Good, NEW r \in Requests, AcceptEvent(r)
  PROVE  Good'
<1> DEFINE last == dir["log"][Len(dir["log"])]
<1>1. /\ events \in Seq(Events) /\ Len(events) \in Nat /\ Len(events) < MaxEvents
      /\ dir["log"] \in Seq(Lines) /\ dir["log"] # <<>> /\ synced \in 0..Len(dir["log"])
  BY DEF Good, ServiceInv, StoreOK, AcceptEvent
<1>2. Len(dir["log"]) \in Nat \ {0} /\ last \in Lines /\ last.event \in Events
  <2>1. Len(dir["log"]) \in Nat \ {0} /\ last \in Lines
    BY <1>1
  <2>2. last.event \in Events
    BY <2>1 DEF Lines
  <2> QED
    BY <2>1, <2>2
<1>3. /\ events' = Append(events, last.event) /\ AnswerState(r, Append(events, last.event))
      /\ UNCHANGED <<session, signing, key, dir, shorted, faults>>
      /\ synced' = IF FsyncEvents THEN Len(dir["log"]) ELSE synced
  BY DEF AcceptEvent
<1> HIDE DEF last
<1>4. /\ events' \in Seq(Events) /\ Len(events') = Len(events) + 1 /\ Len(events') <= MaxEvents
      /\ events'[Len(events) + 1] = last.event
      /\ \A n \in 1..Len(events) : events'[n] = events[n]
  BY <1>1, <1>2, <1>3, EvidenceAssumption
<1>5. synced' \in 0..Len(dir["log"])
  BY <1>1, <1>2, <1>3
<1>6. StoreOK'
  BY <1>3, <1>4, <1>5 DEF Good, ServiceInv, StoreOK
<1>7. ServiceInv'
  BY <1>3, <1>4, <1>6, AnsweredState DEF Good
<1>8. ASSUME FsyncEvents, ~shorted
      PROVE  /\ \A n \in DOMAIN events' : \E i \in 1..synced' :
                  /\ dir["log"][i].event = events'[n]
                  /\ \A j \in (i + 1)..Len(dir["log"]) : dir["log"][j].event.seq > n
             /\ \A i \in DOMAIN dir["log"] : dir["log"][i].event.seq <= Len(events') + 1
  <2>1. synced' = Len(dir["log"])
    BY <1>3, <1>8
  <2>2. ASSUME NEW n \in DOMAIN events'
        PROVE  \E i \in 1..synced' :
                  /\ dir["log"][i].event = events'[n]
                  /\ \A j \in (i + 1)..Len(dir["log"]) : dir["log"][j].event.seq > n
    <3>1. CASE n = Len(events) + 1
      <4>1. Len(dir["log"]) \in 1..synced'
        BY <2>1, <1>2
      <4>2. dir["log"][Len(dir["log"])].event = events'[n]
        BY <3>1, <1>4 DEF last
      <4>3. (Len(dir["log"]) + 1)..Len(dir["log"]) = {}
        BY <1>2
      <4> QED
        BY <4>1, <4>2, <4>3
    <3>2. CASE n \in 1..Len(events)
      <4>1. PICK i \in 1..synced : /\ dir["log"][i].event = events[n]
                                   /\ \A j \in (i + 1)..Len(dir["log"]) : dir["log"][j].event.seq > n
        <5>1. n \in DOMAIN events
          BY <3>2, <1>1
        <5> QED
          BY <5>1, <1>8 DEF Good, LastLineWins
      <4>2. i \in 1..synced' /\ events'[n] = events[n]
        BY <3>2, <2>1, <1>1, <1>4
      <4> QED
        BY <4>1, <4>2
    <3> QED
      BY <3>1, <3>2, <1>1, <1>4
  <2>3. ASSUME NEW i \in DOMAIN dir["log"]
        PROVE  dir["log"][i].event.seq <= Len(events') + 1
    <3>1. dir["log"][i].event.seq <= Len(events) + 1
      BY <1>8 DEF Good, LastLineWins
    <3>2. dir["log"][i] \in Lines
      BY <1>1
    <3>3. dir["log"][i].event.seq \in Int
      BY <3>2, EvidenceAssumption DEF Lines, Events
    <3> QED
      BY <3>1, <3>3, <1>1, <1>4
  <2> QED
    BY <2>2, <2>3
<1>9. LastLineWins'
  BY <1>3, <1>8 DEF LastLineWins
<1> QED
  BY <1>7, <1>9 DEF Good

\* fsync raises.
LEMMA GoodFsyncFails ==
  ASSUME Good, NEW r \in Requests, FsyncFails(r)
  PROVE  Good'
<1>1. faults' \in 0..MaxFaults
  BY FaultCount DEF FsyncFails, Good, ServiceInv, StoreOK
<1>2. StoreOK'
  BY <1>1 DEF FsyncFails, Good, ServiceInv, StoreOK
<1> QED
  BY <1>2, Replied, LogUntouched DEF FsyncFails, Good

\* A step of export that writes a file and goes on, or fails.
LEMMA GoodPut ==
  ASSUME Good, NEW r \in Requests, NEW file \in Files \ {"log"}, NEW contents,
         Put(file, contents), ExportFrame,
         \/ Error(r) \/ Answer(r, NoState)
         \/ \E label \in {"environment", "manifest", "sign", "sums"} : Goto(r, label)
  PROVE  Good'
<1>1. StoreOK' /\ dir'["log"] = dir["log"]
  BY PutStore DEF Good, ServiceInv
<1>2. LastLineWins'
  BY <1>1, LogUntouched DEF Good, ExportFrame
<1>3. CASE Error(r) \/ Answer(r, NoState)
  BY <1>1, <1>2, <1>3, Replied DEF Good
<1>4. ASSUME NEW label \in {"environment", "manifest", "sign", "sums"}, Goto(r, label)
      PROVE  Good'
  <2>1. label \in Labels \ {"idle", "down"} /\ label # "fsync"
    BY DEF Labels
  <2> QED
    BY <1>1, <1>2, <1>4, <2>1, WentOn DEF Good
<1> QED
  BY <1>3, <1>4

\* export
LEMMA GoodExport ==
  ASSUME Good, NEW r \in Requests,
         \/ ExportBegin(r) \/ ExportEvidence(r) \/ ExportEnvironment(r) \/ ExportManifest(r)
         \/ ExportSign(r) \/ ExportSums(r)
  PROVE  Good'
<1>1. CASE ExportBegin(r)
  <2>1. StoreOK'
    BY <1>1 DEF ExportBegin, ExportFrame, Good, ServiceInv, StoreOK
  <2>2. "evidence" \in Labels \ {"idle", "down"}
    BY DEF Labels
  <2>3. LastLineWins'
    BY <1>1, LogUntouched DEF ExportBegin, ExportFrame, Good
  <2>4. Goto(r, "evidence") \/ Error(r)
    BY <1>1 DEF ExportBegin
  <2> QED
    BY <2>1, <2>2, <2>3, <2>4, WentOn, Replied DEF Good
<1>2. CASE ExportEvidence(r)
  BY <1>2, GoodPut DEF ExportEvidence, Proceed, Files
<1>3. CASE ExportEnvironment(r)
  BY <1>3, GoodPut DEF ExportEnvironment, Proceed, Files
<1>4. CASE ExportManifest(r)
  BY <1>4, GoodPut DEF ExportManifest, Proceed, Files
<1>5. CASE ExportSign(r)
  <2>1. dir'["log"] = dir["log"] /\ dir' = [f \in Files |-> dir'[f]]
    BY <1>5 DEF ExportSign, Good, ServiceInv, StoreOK, Files
  <2>2. faults' \in 0..MaxFaults
    BY <1>5, FaultCount DEF ExportSign, Good, ServiceInv, StoreOK
  <2>3. StoreOK'
    BY <1>5, <2>1, <2>2 DEF ExportSign, ExportFrame, Good, ServiceInv, StoreOK
  <2>4. LastLineWins'
    BY <1>5, <2>1, LogUntouched DEF ExportSign, ExportFrame, Good
  <2>5. "sums" \in Labels \ {"idle", "down"} /\ (Goto(r, "sums") \/ Error(r))
    BY <1>5 DEF ExportSign, Labels
  <2> QED
    BY <2>3, <2>4, <2>5, WentOn, Replied DEF Good
<1>6. CASE ExportSums(r)
  BY <1>6, GoodPut DEF ExportSums, Files
<1> QED
  BY <1>1, <1>2, <1>3, <1>4, <1>5, <1>6

\* Any step of a handler.
LEMMA GoodServer ==
  ASSUME Good, NEW r \in Requests, ServerStep(r)
  PROVE  Good'
BY GoodState, GoodWrite, GoodAccept, GoodFsyncFails, GoodExport DEF ServerStep

\* The key file goes and comes back.
LEMMA GoodKey ==
  ASSUME Good, KeyChanges
  PROVE  Good'
<1>1. faults' \in 0..MaxFaults
  BY FaultCount DEF KeyChanges, Good, ServiceInv, StoreOK
<1>2. key' \in BOOLEAN
  BY DEF KeyChanges
<1>3. StoreOK'
  BY <1>1, <1>2 DEF KeyChanges, Good, ServiceInv, StoreOK
<1>4. ServiceInv'
  BY <1>3 DEF KeyChanges, Good, ServiceInv, ReqsOK
<1> QED
  BY <1>4, LogUntouched DEF KeyChanges, Good

\* A server that is gone has failed its requests.
LEMMA WentDown ==
  ASSUME ServiceInv, Down, StoreOK', UNCHANGED session
  PROVE  ServiceInv'
<1>1. [NoReq EXCEPT !.phase = "failed"] \in Reqs /\ [NoReq EXCEPT !.phase = "failed"].kind = "none"
  BY DEF NoReq, Reqs
<1>2. ReqsOK'
  BY <1>1 DEF Down, ServiceInv, ReqsOK
<1>3. srv' \in [at : Labels, r : Requests \cup {NoRequest}] /\ srv'.at = "down" /\ srv'.r = NoRequest
  BY DEF Down, Labels
<1>4. session' < MaxSessions
  BY DEF Down
<1> QED
  BY <1>2, <1>3, <1>4, EvidenceAssumption DEF ServiceInv

\* The process is killed.
LEMMA GoodKilled ==
  ASSUME Good, Killed
  PROVE  Good'
<1>1. \A file \in Files \ {"log"} : /\ [dir EXCEPT ![file] = Torn]["log"] = dir["log"]
                                  /\ [dir EXCEPT ![file] = Torn] = [f \in Files |-> [dir EXCEPT ![file] = Torn][f]]
  BY DEF Good, ServiceInv, StoreOK, Files
<1>2. dir'["log"] = dir["log"] /\ dir' = [f \in Files |-> dir'[f]]
  <2>1. CASE UNCHANGED dir
    BY <2>1 DEF Good, ServiceInv, StoreOK
  <2>2. CASE srv.at \in {"evidence", "environment", "manifest", "sums"} /\ dir' = [dir EXCEPT ![srv.at] = Torn]
    <3>1. srv.at \in Files \ {"log"}
      BY <2>2 DEF Files
    <3> QED
      BY <2>2, <3>1, <1>1
  <2> QED
    BY <2>1, <2>2 DEF Killed
<1>3. StoreOK'
  BY <1>2 DEF Killed, Good, ServiceInv, StoreOK
<1> QED
  BY <1>2, <1>3, WentDown, LogUntouched DEF Killed, Good

\* The host loses power: what was flushed is still there, and what is lost was the
\* end of the log.
LEMMA GoodPowerLoss ==
  ASSUME Good, PowerLoss
  PROVE  Good'
<1>1. PICK n \in synced..Len(dir["log"]), torn \in BOOLEAN :
        dir' = [file \in DOMAIN dir |->
                  IF file = "log" THEN SubSeq(dir["log"], 1, n)
                  ELSE IF torn /\ dir[file] # Absent THEN Torn ELSE dir[file]]
  BY DEF PowerLoss
<1>2. DOMAIN dir = Files /\ "log" \in Files
  BY DEF Good, ServiceInv, StoreOK, Files
<1>3. dir'["log"] = SubSeq(dir["log"], 1, n) /\ dir' = [f \in Files |-> dir'[f]]
  BY <1>1, <1>2
<1>4. dir["log"] \in Seq(Lines) /\ synced \in 0..Len(dir["log"]) /\ n \in 0..Len(dir["log"]) /\ synced <= n
  BY DEF Good, ServiceInv, StoreOK
<1>5. /\ dir'["log"] \in Seq(Lines) /\ Len(dir'["log"]) = n
      /\ \A i \in 1..n : dir'["log"][i] = dir["log"][i]
  BY <1>3, <1>4
<1>6. UNCHANGED <<session, signing, key, events, synced, shorted, faults>>
  BY DEF PowerLoss
<1>7. StoreOK'
  BY <1>3, <1>4, <1>5, <1>6 DEF Good, ServiceInv, StoreOK
<1>8. ASSUME FsyncEvents, ~shorted
      PROVE  /\ \A k \in DOMAIN events : \E i \in 1..synced :
                  /\ dir'["log"][i].event = events[k]
                  /\ \A j \in (i + 1)..Len(dir'["log"]) : dir'["log"][j].event.seq > k
             /\ \A i \in DOMAIN dir'["log"] : dir'["log"][i].event.seq <= Len(events) + 1
  <2>1. ASSUME NEW k \in DOMAIN events
        PROVE  \E i \in 1..synced :
                  /\ dir'["log"][i].event = events[k]
                  /\ \A j \in (i + 1)..Len(dir'["log"]) : dir'["log"][j].event.seq > k
    <3>1. PICK i \in 1..synced : /\ dir["log"][i].event = events[k]
                                 /\ \A j \in (i + 1)..Len(dir["log"]) : dir["log"][j].event.seq > k
      BY <1>8 DEF Good, LastLineWins
    <3>2. i \in 1..n /\ dir'["log"][i].event = events[k]
      BY <3>1, <1>4, <1>5
    <3>3. ASSUME NEW j \in (i + 1)..Len(dir'["log"])
          PROVE  dir'["log"][j].event.seq > k
      <4>1. j \in (i + 1)..Len(dir["log"]) /\ dir'["log"][j] = dir["log"][j]
        BY <1>4, <1>5
      <4> QED
        BY <4>1, <3>1
    <3> QED
      BY <3>2, <3>3
  <2>2. ASSUME NEW i \in DOMAIN dir'["log"]
        PROVE  dir'["log"][i].event.seq <= Len(events) + 1
    <3>1. i \in DOMAIN dir["log"] /\ dir'["log"][i] = dir["log"][i]
      BY <1>4, <1>5
    <3> QED
      BY <3>1, <1>8 DEF Good, LastLineWins
  <2> QED
    BY <2>1, <2>2
<1>9. LastLineWins'
  BY <1>6, <1>8 DEF LastLineWins
<1> QED
  BY <1>6, <1>7, <1>9, WentDown DEF PowerLoss, Good

\* A new service has an empty log.
LEMMA GoodStart ==
  ASSUME Good, ServerStart
  PROVE  Good'
<1>1. session' \in 1..MaxSessions
  BY EvidenceAssumption DEF ServerStart, Good, ServiceInv, StoreOK
<1>2. signing' \in BOOLEAN /\ shorted' \in BOOLEAN
  BY EvidenceAssumption, Zenon DEF ServerStart
<1>3. events' = <<>> /\ events' \in Seq(Events) /\ Len(events') = 0 /\ Len(events') <= MaxEvents
  BY EvidenceAssumption DEF ServerStart
<1>4. dir' = [f \in Files |-> dir'[f]]
  BY DEF ServerStart, NoDir, Files
<1>5. dir'["log"] = <<>> /\ synced' = 0
  BY DEF ServerStart, NoDir
<1>6. dir'["log"] \in Seq(Lines) /\ synced' \in 0..Len(dir'["log"])
  BY <1>5
<1>7. UNCHANGED <<key, req, faults>>
  BY DEF ServerStart
<1>8. StoreOK'
  BY <1>1, <1>2, <1>3, <1>4, <1>6, <1>7 DEF Good, ServiceInv, StoreOK
<1>9. srv' \in [at : Labels, r : Requests \cup {NoRequest}] /\ srv'.at = "idle" /\ srv'.r = NoRequest
  BY DEF ServerStart, Idle, Labels
<1>10. ServiceInv'
  BY <1>7, <1>8, <1>9, EvidenceAssumption DEF Good, ServiceInv, ReqsOK
<1>11. LastLineWins'
  BY <1>3, <1>5 DEF LastLineWins
<1> QED
  BY <1>10, <1>11 DEF Good

-----------------------------------------------------------------------------
(* Steps of the browser *)

\* A request that the server is not working on changes.
LEMMA GoodRequest ==
  ASSUME Good, NEW r \in Requests, req[r].phase # "served", NEW new \in Reqs,
         new.kind = "event" => new.what \in Payloads,
         req' = [req EXCEPT ![r] = new], Fault \/ NoFault, UNCHANGED evidence
  PROVE  Good'
<1>1. faults' \in 0..MaxFaults
  BY FaultCount DEF Good, ServiceInv, StoreOK
<1>2. StoreOK'
  BY <1>1 DEF Good, ServiceInv, StoreOK, evidence
<1>3. ReqsOK'
  BY DEF Good, ServiceInv, ReqsOK
<1>4. srv.r \in Requests => req'[srv.r].phase = "served"
  BY DEF Good, ServiceInv, ReqsOK
<1>5. ServiceInv'
  BY <1>2, <1>3, <1>4 DEF Good, ServiceInv, evidence
<1> QED
  BY <1>5, LogUntouched DEF Good, evidence

\* requestJson
LEMMA GoodSend ==
  ASSUME Good, NEW kind \in {"event", "export"}, NEW what \in Payloads \cup {Absent},
         kind = "event" => what \in Payloads, Send(kind, what), UNCHANGED <<evidence, faults>>
  PROVE  Good'
<1>1. CASE UNCHANGED req
  BY <1>1, LogUntouched DEF Good, ServiceInv, StoreOK, ReqsOK, evidence
<1>2. CASE \E r \in Requests :
             /\ req[r].phase = "new"
             /\ req' = [req EXCEPT ![r] = [NoReq EXCEPT !.kind = kind, !.what = what, !.phase = "sent"]]
  <2> DEFINE new == [NoReq EXCEPT !.kind = kind, !.what = what, !.phase = "sent"]
  <2>1. PICK r \in Requests : req[r].phase = "new" /\ req' = [req EXCEPT ![r] = new]
    BY <1>2
  <2>2. new \in Reqs /\ new.kind = kind /\ new.what = what
    BY DEF NoReq, Reqs
  <2> HIDE DEF new
  <2> QED
    BY <2>1, <2>2, GoodRequest DEF NoFault
<1> QED
  BY <1>1, <1>2 DEF Send

\* What the user does.
LEMMA GoodUser ==
  ASSUME Good, NEW b \in Notebooks, Execute(b) \/ Attach(b) \/ Export
  PROVE  Good'
<1>1. CASE Execute(b)
  BY <1>1, GoodSend, PanelAssumption DEF Execute
<1>2. CASE Attach(b)
  BY <1>2, GoodSend, PanelAssumption DEF Attach
<1>3. CASE Export
  BY <1>3, GoodSend DEF Export
<1> QED
  BY <1>1, <1>2, <1>3

\* Answers that arrive, or do not.
LEMMA GoodBrowser ==
  ASSUME Good, NEW r \in Requests, Browser(r)
  PROVE  Good'
<1>1. \A phase \in {"gone", "failed"} :
        [NoReq EXCEPT !.phase = phase] \in Reqs /\ [NoReq EXCEPT !.phase = phase].kind = "none"
  BY DEF NoReq, Reqs
<1>2. Refresh \in Reqs /\ Refresh.kind = "state"
  BY DEF NoReq, Reqs, Refresh
<1>3. CASE ReceiveState(r)
  BY <1>1, <1>3, GoodRequest DEF ReceiveState, Gone, NoFault
<1>4. CASE ReceiveExport(r)
  BY <1>1, <1>2, <1>4, GoodRequest DEF ReceiveExport, NoFault
<1>5. CASE Broken(r)
  BY <1>1, <1>5, GoodRequest DEF Broken, Failed
<1> QED
  BY <1>3, <1>4, <1>5 DEF Browser

\* The panel keeps its types: what it shows comes from an answer.
LEMMA PanelStep ==
  ASSUME Good, PanelInv, [Next]_vars
  PROVE  PanelInv'
<1>1. ASSUME NEW b \in Notebooks, Execute(b) \/ Attach(b)
      PROVE  PanelInv'
  BY <1>1 DEF Execute, Attach, PanelInv, panel
<1>2. CASE Export
  BY <1>2 DEF Export, PanelInv, panel
<1>3. ASSUME NEW r \in Requests, ReceiveState(r)
      PROVE  PanelInv'
  <2>1. req[r].state \in States \cup {NoState}
    BY DEF Good, ServiceInv, ReqsOK, Reqs
  <2>2. shown' = req[r].state /\ UNCHANGED attached
    BY <1>3 DEF ReceiveState, SetState
  <2>3. behind' \in BOOLEAN
    BY <1>3, Zenon DEF ReceiveState, SetState
  <2> QED
    BY <2>1, <2>2, <2>3 DEF PanelInv
<1>4. ASSUME NEW r \in Requests, Serve(r) \/ ReceiveExport(r) \/ Broken(r)
      PROVE  PanelInv'
  BY <1>4 DEF Serve, ReceiveExport, Broken, PanelInv, panel
<1>5. CASE KeyFile \/ Die
  BY <1>5 DEF KeyFile, Die, PanelInv, panel
<1>6. CASE StartAgain
  BY <1>6 DEF StartAgain, PanelInv
<1>7. ASSUME NEW m \in MessageIds, KernelError(m)
      PROVE  PanelInv'
  BY <1>7 DEF KernelError, PanelInv, panel
<1>8. CASE UNCHANGED vars
  BY <1>8 DEF vars, PanelInv
<1> QED
  BY <1>1, <1>2, <1>3, <1>4, <1>5, <1>6, <1>7, <1>8 DEF Next, Browser

\* Any step keeps the types and the promise about the log.
LEMMA GoodStep ==
  ASSUME Good, [Next]_vars
  PROVE  Good'
<1>1. ASSUME NEW b \in Notebooks, Execute(b) \/ Attach(b)
      PROVE  Good'
  BY <1>1, GoodUser
<1>2. CASE Export
  BY <1>2, GoodSend DEF Export
<1>3. ASSUME NEW r \in Requests, Serve(r) \/ Browser(r)
      PROVE  Good'
  BY <1>3, GoodServer, GoodBrowser DEF Serve
<1>4. CASE KeyFile \/ Die \/ StartAgain
  BY <1>4, GoodKey, GoodKilled, GoodPowerLoss, GoodStart DEF KeyFile, Die, StartAgain
<1>5. CASE UNCHANGED <<evidence, req, faults>>
  BY <1>5, LogUntouched DEF Good, ServiceInv, StoreOK, ReqsOK, evidence
<1> QED
  BY <1>1, <1>2, <1>3, <1>4, <1>5 DEF Next, KernelError, vars, evidence

\* The log is empty at first.
LEMMA GoodInit ==
  ASSUME Init
  PROVE  Good /\ PanelInv
<1>1. events = <<>> /\ dir["log"] = <<>>
  BY DEF Init, ServiceInit, NoDir
<1>2. LastLineWins
  BY <1>1 DEF LastLineWins
<1> QED
  BY <1>2, ServiceInitType DEF Good

\* The invariant of the service and the panel.
LEMMA GoodInvariant == Spec => [](Good /\ PanelInv)
<1>1. Init => Good /\ PanelInv
  BY GoodInit
<1>2. Good /\ PanelInv /\ [Next]_vars => (Good /\ PanelInv)'
  BY GoodStep, PanelStep
<1> QED
  BY <1>1, <1>2, PTL DEF Spec

\* Every variable keeps its type and the log never has a number beyond the limit,
\* whatever fails and whoever dies (_record, export, setState).
THEOREM PanelTypeCorrect == Spec => []TypeOK
<1>1. Good /\ PanelInv /\ WindowInv => TypeOK
  BY DEF Good, ServiceInv, StoreOK, ReqsOK, PanelInv, WindowInv, TypeOK, Labels, Lines, Reqs
<1> QED
  BY <1>1, GoodInvariant, WindowInvariant, PTL

\* With fsync_events, no failure, death or loss of power takes an accepted event from
\* the log, and the last line of its number is the accepted one (_record).
THEOREM AcceptedIsDurable == Spec => []LastLineWins
<1>1. Good => LastLineWins
  BY DEF Good
<1> QED
  BY <1>1, GoodInvariant, PTL
=============================================================================
