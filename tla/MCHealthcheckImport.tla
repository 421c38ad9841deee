------------------------ MODULE MCHealthcheckImport ------------------------
(***************************************************************************)
(* Instances of HealthcheckImport for TLC.                                 *)
(***************************************************************************)
EXTENDS HealthcheckImport, TLC

MCTerm == {[dates |-> "2026", status |-> "ACTIF"]}

(* Two articles of two products share a code; the third has its own.       *)
MCSharedCode == 1 :> "HSM" @@ 2 :> "HSM"

MCCodeOf == 1 :> "HSM" @@ 2 :> "KERNEL"

(* An entry of each kind, and a file that holds two.                       *)
MCFile ==
  {<<[code |-> "HSM", volume |-> 1], [code |-> "KERNEL", volume |-> BadVolume]>>,
   <<[code |-> "KERNEL", volume |-> Null], [code |-> "OTHER", volume |-> 1]>>}

MCOneEntry == {<<[code |-> "HSM", volume |-> 1]>>}

(* The contract volume, either way, and the consumed one.                  *)
MCVolumeInput ==
  {[autorise |-> 1, consomme |-> Keep], [autorise |-> Null, consomme |-> Keep],
   [autorise |-> Keep, consomme |-> 1]}

MCOneCode == 1 :> "HSM"
=============================================================================
