---------------------------- MODULE ClientDomain ----------------------------
(***************************************************************************)
(* The Client entity: its row, its statuts, and the with* methods that     *)
(* make the row to write from the row that was read.                       *)
(***************************************************************************)
EXTENDS Integers

CONSTANTS
  Code,   \* codeClient values
  Name,   \* raisonSociale values
  Field,  \* the nullable profile columns (contact, pays, dates, ...)
  Value,  \* what a profile column may hold
  Malformed, \* the strings the validators and the columns' widths refuse
  Null,   \* a column without a value
  Keep    \* a field the patch does not mention (undefined)

ASSUME ValueAssumption ==
  /\ Null \notin Value \cup Malformed
  /\ Keep \notin Name \cup Value \cup Malformed \cup {Null}

ClientStatut == {"PROSPECT", "ACTIF", "SUSPENDU", "RESILIE"}

Profile == [Field -> (Value \ Malformed) \cup {Null}]

(* lic_clients; certified stands for the three PKI columns.                *)
ClientRow ==
  [code : Code \ Malformed, raison : Name \ Malformed, profile : Profile,
   statut : ClientStatut, certified : BOOLEAN, version : Nat]

ClientInput ==
  [code : Code, raison : Name, profile : [Field -> Value \cup {Null}],
   statut : ClientStatut]

ClientPatch == [raison : Name \cup {Keep}, profile : [Field -> Value \cup {Null, Keep}]]

(* validateCodeClient, validateRaisonSociale, validateEmail and            *)
(* validateStatut: what they are given is well formed, or the use case     *)
(* throws before it reads anything.                                        *)
ValidClientInput(input) ==
  /\ {input.code, input.raison} \cap Malformed = {}
  /\ \A f \in Field : input.profile[f] \notin Malformed

ValidClientPatch(patch) ==
  /\ patch.raison \notin Malformed
  /\ \A f \in Field : patch.profile[f] \notin Malformed

(* Client.create and the two INSERTs' defaults, with the certificate that  *)
(* the same transaction attaches.                                          *)
NewClient(input) ==
  [code |-> input.code, raison |-> input.raison, profile |-> input.profile,
   statut |-> input.statut, certified |-> TRUE, version |-> 0]

(* withProfile: undefined keeps the value, null clears it; the statut, the *)
(* code and the version are those of the row.                              *)
WithClientProfile(row, patch) ==
  [row EXCEPT
     !.raison  = IF patch.raison = Keep THEN @ ELSE patch.raison,
     !.profile = [f \in Field |-> IF patch.profile[f] = Keep THEN row.profile[f]
                                  ELSE patch.profile[f]]]

WithStatut(row, statut) == [row EXCEPT !.statut = statut]

(* Mutant: the terminal statut is not tested.                              *)
AnyOtherStatut(from, to) == from # to /\ to \in ClientStatut

ClientCanTransition(from, to) ==
  from # to /\ from # "RESILIE" /\ to \in ClientStatut

(* pickAuditAction.                                                        *)
StatutVerb(from, to) ==
  CASE to = "RESILIE" -> "CLIENT_TERMINATED"
    [] from = "PROSPECT" /\ to = "ACTIF" -> "CLIENT_ACTIVATED"
    [] from = "ACTIF" /\ to = "SUSPENDU" -> "CLIENT_SUSPENDED"
    [] from = "SUSPENDU" /\ to = "ACTIF" -> "CLIENT_REACTIVATED"
    [] OTHER -> "CLIENT_STATUS_CHANGED"
=============================================================================
