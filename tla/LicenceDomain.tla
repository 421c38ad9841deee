--------------------------- MODULE LicenceDomain ---------------------------
(***************************************************************************)
(* The pure rules of the licence and renouvellement entities: statuses,    *)
(* the transitions their canTransition guards allow, and the copies their  *)
(* with* methods return.  Dates are integers (days); a comment field is    *)
(* left out, no rule but its length depends on it.                         *)
(***************************************************************************)
EXTENDS Integers

CONSTANT Keep   \* an optional field the request leaves undefined

LicenceStatus == {"ACTIF", "INACTIF", "SUSPENDU", "EXPIRE"}

RenewStatus == {"EN_COURS", "VALIDE", "CREE", "ANNULE"}

(* A row of lic_licences, restricted to what the use cases read or write.  *)
LicenceRow ==
  [status : LicenceStatus, debut : Int, fin : Int, auto : BOOLEAN,
   version : Nat]

(* A row of lic_renouvellements; lic is the foreign key.                   *)
RenewRow(Lic) ==
  [licence : Lic, debut : Int, fin : Int, status : RenewStatus]

(* The optional fields of an UPDATE request.                               *)
ProfilePatch ==
  [debut : Int \cup {Keep}, fin : Int \cup {Keep}, auto : BOOLEAN \cup {Keep}]

ValidDates(debut, fin) == debut < fin

(* Mutant: EXPIRE is left like any other status.                           *)
TransitionFromAny(from, to) == from # to /\ to \in LicenceStatus

(* EXPIRE is terminal, and a status never goes to itself.                  *)
LicenceCanTransition(from, to) ==
  /\ from # to
  /\ from # "EXPIRE"
  /\ to \in LicenceStatus

(* EN_COURS is the only status that leads anywhere.                        *)
RenewCanTransition(from, to) ==
  /\ from = "EN_COURS"
  /\ to \in {"VALIDE", "ANNULE"}

(* Mutant: an undefined field is written over the old value.               *)
AlwaysGiven(field, old) == field

Given(field, old) == IF field = Keep THEN old ELSE field

WithProfile(row, patch) ==
  [row EXCEPT !.debut = Given(patch.debut, @),
              !.fin   = Given(patch.fin, @),
              !.auto  = Given(patch.auto, @)]

(* withProfile validates the dates only when the patch holds one.          *)
ProfileAccepted(row, patch) ==
  patch.debut # Keep \/ patch.fin # Keep =>
    ValidDates(WithProfile(row, patch).debut, WithProfile(row, patch).fin)

WithStatus(row, status) == [row EXCEPT !.status = status]

NewLicence(debut, fin, auto) ==
  [status |-> "ACTIF", debut |-> debut, fin |-> fin, auto |-> auto,
   version |-> 0]

(* Mutant: a renewal activates the licence whatever its status.            *)
RenewedActive(row, debut, fin) ==
  [row EXCEPT !.debut = debut, !.fin = fin, !.status = "ACTIF"]

(* The licence a validated renouvellement leaves: its new dates, and       *)
(* active again if it had expired.                                         *)
Renewed(row, debut, fin) ==
  [row EXCEPT !.debut = debut, !.fin = fin,
              !.status = IF @ = "EXPIRE" THEN "ACTIF" ELSE @]

(* What the expire job's UPDATE sets.                                      *)
Expired(row) == [row EXCEPT !.status = "EXPIRE", !.version = row.version + 1]

(* The audit verb of a manual status change.                               *)
StatusVerb(from, to) ==
  CASE to = "EXPIRE"                      -> "LICENCE_EXPIRED"
    [] to = "SUSPENDU"                    -> "LICENCE_SUSPENDED"
    [] from = "SUSPENDU" /\ to = "ACTIF"  -> "LICENCE_REACTIVATED"
    [] from # "SUSPENDU" /\ to = "ACTIF"  -> "LICENCE_ACTIVATED"
    [] OTHER                              -> "LICENCE_DEACTIVATED"
=============================================================================
