--------------------------- MODULE EvidenceStream ---------------------------
(***************************************************************************)
(* What the evidence service promises: a bounded stream of accepted events *)
(* that is only appended to, and a bundle that attests either nothing or   *)
(* exactly that stream.  A bundle is withdrawn before the stream goes on,  *)
(* so no bundle that verifies is ever out of date.                         *)
(***************************************************************************)
EXTENDS Naturals, Sequences

CONSTANTS Limit, NoBundle

VARIABLES
  stream,   \* the accepted events of the session
  bundle    \* the events that a verified bundle attests, or NoBundle

Init == stream = <<>> /\ bundle = NoBundle

\* An event joins the stream; no bundle of the shorter stream verifies by then.
Accept ==
  /\ Len(stream) < Limit /\ bundle = NoBundle
  /\ Len(stream') = Len(stream) + 1 /\ SubSeq(stream', 1, Len(stream)) = stream
  /\ UNCHANGED bundle

Publish == bundle' = stream /\ UNCHANGED stream

Withdraw == bundle' = NoBundle /\ UNCHANGED stream

\* The server starts again with an empty session.
Renew == stream' = <<>> /\ bundle' = NoBundle

Next == Accept \/ Publish \/ Withdraw \/ Renew

Spec == Init /\ [][Next]_<<stream, bundle>>
=============================================================================
