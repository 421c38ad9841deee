--------------------------- MODULE AtomicLicence ---------------------------
(***************************************************************************)
(* What the licence table promises its users: every operation on a licence *)
(* happens at one instant, on the licence as it stands at that instant.    *)
(* There are no transactions, no versions to compare and no snapshots      *)
(* here: a request that touches two fields leaves the others as they are,  *)
(* and a status change obeys canTransition from the status of the moment.  *)
(* Each operation is stated as the relation it may establish between the   *)
(* row it finds and the row it leaves.                                     *)
(***************************************************************************)
EXTENDS LicenceDomain

CONSTANTS Licence, None

VARIABLES today, licences

avars == <<today, licences>>

Init ==
  /\ today = 0
  /\ licences = [l \in Licence |-> None]

Tick ==
  /\ today' = today + 1
  /\ UNCHANGED licences

(* The only row that changes is that of l, which is well formed after.     *)
Touches(l) ==
  /\ licences' = [licences EXCEPT ![l] = licences'[l]]
  /\ licences'[l] \in LicenceRow
  /\ ValidDates(licences'[l].debut, licences'[l].fin)
  /\ UNCHANGED today

Create(l) ==
  /\ licences[l] = None
  /\ Touches(l)
  /\ licences'[l].status = "ACTIF"
  /\ licences'[l].version = 0

(* A write to an existing row is counted once.                             *)
Writes(l) ==
  /\ licences[l] # None
  /\ Touches(l)
  /\ licences'[l].version = licences[l].version + 1

Update(l) ==
  /\ Writes(l)
  /\ licences'[l].status = licences[l].status

ChangeStatus(l) ==
  /\ Writes(l)
  /\ LicenceCanTransition(licences[l].status, licences'[l].status)
  /\ licences'[l] = [licences[l] EXCEPT !.status = licences'[l].status,
                                        !.version = @ + 1]

Renew(l) ==
  /\ Writes(l)
  /\ licences'[l].auto = licences[l].auto
  /\ licences'[l].status =
       IF licences[l].status = "EXPIRE" THEN "ACTIF" ELSE licences[l].status

(* The nightly job takes every licence that is active past its end.        *)
Expire ==
  /\ licences' = [l \in Licence |->
       IF /\ licences[l] # None
          /\ licences[l].status = "ACTIF"
          /\ licences[l].fin < today
       THEN Expired(licences[l])
       ELSE licences[l]]
  /\ UNCHANGED today

Next ==
  \/ Tick
  \/ \E l \in Licence : Create(l) \/ Update(l) \/ ChangeStatus(l) \/ Renew(l)
  \/ Expire

Spec == Init /\ [][Next]_avars
=============================================================================
