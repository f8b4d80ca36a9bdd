-------------------------- MODULE MCRuntimeDaemon --------------------------
(* Instances of RuntimeDaemon for TLC.  Pids are numbers whose tens digit is  *)
(* the Unix user: 5 is root, 10 and 11 are user 1, 20 is user 2.              *)
EXTENDS RuntimeDaemon, TLC

MCUid == [p \in Pids |-> p \div 10]

JailSymmetry1 == Permutations(Workers) \cup Permutations(Epairs)

JailSymmetry == JailSymmetry1 \cup Permutations(Names)

Symmetry1 == JailSymmetry1 \cup Permutations(Mds)
=============================================================================
