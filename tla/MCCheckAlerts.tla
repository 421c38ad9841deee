---------------------------- MODULE MCCheckAlerts ----------------------------
(***************************************************************************)
(* Instances of CheckAlerts for TLC.                                       *)
(***************************************************************************)
EXTENDS CheckAlerts, TLC

CONSTANT a  \* the client

(* Notifications of two clients have nothing in common: one client is     *)
(* enough, with every licence and configuration its own.                   *)
LicencesOfOne == [l \in Licence |-> a]
ConfigsOfOne == [c \in Config |-> a]

AlertSymmetry == Permutations(Run) \cup Permutations(Licence)
                   \cup Permutations(User) \cup Permutations(Config)
=============================================================================
