------------------------- MODULE MCLicenceContent -------------------------
(***************************************************************************)
(* Instances of LicenceContent for TLC.                                    *)
(***************************************************************************)
EXTENDS LicenceContent, TLC

(* Two periods, and a status that changes alone.                           *)
MCTerm ==
  {[dates |-> "2026", status |-> "ACTIF"],
   [dates |-> "2027", status |-> "ACTIF"],
   [dates |-> "2027", status |-> "EXPIRE"]}

MCTwoTerms ==
  {[dates |-> "2026", status |-> "ACTIF"], [dates |-> "2027", status |-> "ACTIF"]}
(* Sessions are interchangeable, and no property of a run that uses this   *)
(* is about liveness.                                                      *)
SessionSymmetry == Permutations(Session)

(* The contract volume, either way, and the consumed one.                  *)
MCVolumeInput ==
  {[autorise |-> 1, consomme |-> Keep], [autorise |-> Null, consomme |-> Keep],
   [autorise |-> Keep, consomme |-> 1]}
=============================================================================
