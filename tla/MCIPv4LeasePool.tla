-------------------------- MODULE MCIPv4LeasePool --------------------------
(* Two callers, two runtime names and a pool of three addresses, one of      *)
(* which has an unusable lease path.                                         *)
EXTENDS IPv4LeasePool
=============================================================================
