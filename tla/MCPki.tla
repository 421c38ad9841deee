-------------------------------- MODULE MCPki --------------------------------
(***************************************************************************)
(* Instances of Pki for TLC.                                               *)
(***************************************************************************)
EXTENDS Pki, TLC

(* Clients, CAs and sessions are interchangeable, and the runs that use    *)
(* this check no liveness.                                                 *)
PkiSymmetry ==
  Permutations(Client) \cup Permutations(CA) \cup Permutations(Session)
=============================================================================
