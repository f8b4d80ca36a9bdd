---------------------------- MODULE MCProvisioner ----------------------------
(***************************************************************************)
(* Two kernel sessions of two Jupyter processes and three ports for tunnels *)
(* that need two each.                                                     *)
(***************************************************************************)
EXTENDS Provisioner, TLC

CONSTANTS s1, s2, q1, q2

OneEach == s1 :> q1 @@ s2 :> q2

Offsets == s1 :> 0 @@ s2 :> 1
=============================================================================
