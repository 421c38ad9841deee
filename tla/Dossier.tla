------------------------------ MODULE Dossier ------------------------------
(***************************************************************************)
(* The entites of a client and their contacts: lic_entites and             *)
(* lic_contacts_clients, as their use cases change them at READ COMMITTED. *)
(* Neither table has a version: an UPDATE writes the columns of the row    *)
(* that was read, whatever the table holds by then.  Entites are never     *)
(* deleted; contacts are.                                                  *)
(*                                                                         *)
(* The audit log is kept as what it tells of each row: the value of each   *)
(* column in the last audit row that reports it.                           *)
(***************************************************************************)
CONSTANTS
  Owner,          \* the clients
  Entite,         \* identities of lic_entites rows
  Contact,        \* identities of lic_contacts_clients rows
  Nom,            \* what a name may be
  Detail,         \* what a nullable column (pays, email, telephone) may hold
  Blank,          \* NULL, or a field the patch clears
  DossierSession, \* concurrent requests of the web application
  NoRow           \* no row

EntiteRow ==
  [owner : Owner, nom : Nom, detail : Detail \cup {Blank}, actif : BOOLEAN]

ContactRow == [entite : Entite, nom : Nom, detail : Detail \cup {Blank}]

ASSUME NoRowAssumption == NoRow \notin EntiteRow \cup ContactRow

VARIABLES
  entites,         \* lic_entites
  entitesTold,     \* what the log tells of each entite
  contacts,        \* lic_contacts_clients
  contactsTold,    \* what the log tells of each contact
  deletions,       \* the contacts with a CONTACT_DELETED audit row
  dossierRequests, \* the transaction each session has open
  overlapped       \* history: rows two open transactions worked on at once

entiteVars == <<entites, entitesTold>>
contactVars == <<contacts, contactsTold, deletions>>
dossierVars == <<entites, entitesTold, contacts, contactsTold, deletions,
                 dossierRequests, overlapped>>

(* withProfile: the fields given, the others as they are.                  *)
EntitePatches(row) == {p \in EntiteRow : p.owner = row.owner /\ p.actif = row.actif}

ContactPatches(row) == {p \in ContactRow : p.entite = row.entite}

DossierIdle == [op |-> "idle"]

DossierTx ==
  {DossierIdle}
    \cup [op : {"createEntite"}, row : EntiteRow]
    \cup [op : {"updateEntite", "toggleEntite"}, id : Entite, seen : EntiteRow,
          patched : EntiteRow]
    \cup [op : {"updateContact", "deleteContact"}, id : Contact,
          seen : ContactRow, patched : ContactRow]

NameTaken(owner, nom) ==
  \E e \in Entite : entites[e] # NoRow /\ entites[e].owner = owner /\ entites[e].nom = nom

(* The transaction opens on what it has read; rows another session has     *)
(* open too are remembered.                                                *)
OpenDossier(q, transaction, rows) ==
  /\ dossierRequests[q] = DossierIdle
  /\ dossierRequests' = [dossierRequests EXCEPT ![q] = transaction]
  /\ overlapped' = overlapped \cup
       {i \in rows : \E p \in DossierSession :
          /\ dossierRequests[p].op \notin {"idle", "createEntite"}
          /\ dossierRequests[p].id = i}
  /\ UNCHANGED <<entiteVars, contactVars>>

CloseDossier(q) == dossierRequests' = [dossierRequests EXCEPT ![q] = DossierIdle]

-----------------------------------------------------------------------------
DossierInit ==
  /\ entites = [e \in Entite |-> NoRow]
  /\ entitesTold = [e \in Entite |-> NoRow]
  /\ contacts = [k \in Contact |-> NoRow]
  /\ contactsTold = [k \in Contact |-> NoRow]
  /\ deletions = {}
  /\ dossierRequests = [q \in DossierSession |-> DossierIdle]
  /\ overlapped = {}

(* The rows create-client adds to this table: the siege entity of a new    *)
(* client, with a contact or none, and their audit rows.                   *)
CreateSiege(owner, e) ==
  /\ \A f \in Entite : entites[f] # NoRow => entites[f].owner # owner
  /\ entites[e] = NoRow
  /\ \E n \in Nom, d \in Detail \cup {Blank} :
       LET row == [owner |-> owner, nom |-> n, detail |-> d, actif |-> TRUE]
       IN  /\ entites' = [entites EXCEPT ![e] = row]
           /\ entitesTold' = [entitesTold EXCEPT ![e] = row]
  /\ \/ UNCHANGED contactVars
     \/ \E k \in Contact, n \in Nom :
          LET row == [entite |-> e, nom |-> n, detail |-> Blank]
          IN  /\ contactsTold[k] = NoRow
              /\ contacts' = [contacts EXCEPT ![k] = row]
              /\ contactsTold' = [contactsTold EXCEPT ![k] = row]
              /\ UNCHANGED deletions
  /\ UNCHANGED <<dossierRequests, overlapped>>

(* CreateEntiteUseCase, up to its INSERT.                                  *)
BeginCreateEntite(q) ==
  \E e \in Entite, n \in Nom, d \in Detail \cup {Blank} :
    /\ entites[e] # NoRow
    /\ ~NameTaken(entites[e].owner, n)
    /\ OpenDossier(q, [op |-> "createEntite",
                       row |-> [owner |-> entites[e].owner, nom |-> n,
                                detail |-> d, actif |-> TRUE]], {})

(* The unique index uq_entites_client_nom refuses the write.               *)
NameIndexRefuses(owner, nom, e) ==
  \E f \in Entite \ {e} :
    entites[f] # NoRow /\ entites[f].owner = owner /\ entites[f].nom = nom

CommitCreateEntite(q, e) ==
  LET row == dossierRequests[q].row
  IN  /\ dossierRequests[q].op = "createEntite"
      /\ entites[e] = NoRow
      /\ ~NameIndexRefuses(row.owner, row.nom, e)
      /\ entites' = [entites EXCEPT ![e] = row]
      /\ entitesTold' = [entitesTold EXCEPT ![e] = row]
      /\ CloseDossier(q)
      /\ UNCHANGED <<contactVars, overlapped>>

(* UpdateEntiteUseCase, up to its UPDATE: the collision is looked up only  *)
(* when the name changes, and a patch that changes nothing returns.        *)
BeginUpdateEntite(q, e) ==
  /\ entites[e] # NoRow
  /\ \E patched \in EntitePatches(entites[e]) \ {entites[e]} :
       /\ patched.nom # entites[e].nom => ~NameTaken(patched.owner, patched.nom)
       /\ OpenDossier(q, [op |-> "updateEntite", id |-> e, seen |-> entites[e],
                          patched |-> patched], {e})

(* ToggleEntiteActiveUseCase, up to its UPDATE.                            *)
BeginToggleEntite(q, e) ==
  /\ entites[e] # NoRow
  /\ OpenDossier(q, [op |-> "toggleEntite", id |-> e, seen |-> entites[e],
                     patched |-> [entites[e] EXCEPT !.actif = ~@]], {e})

(* EntiteRepositoryPg.update: every column, actif among them, as patched.  *)
(* The audit row reports the columns that differ from those read.          *)
CommitUpdateEntite(q) ==
  LET tx == dossierRequests[q]
  IN  /\ tx.op = "updateEntite"
      /\ ~NameIndexRefuses(tx.patched.owner, tx.patched.nom, tx.id)
      /\ entites' = [entites EXCEPT ![tx.id] = tx.patched]
      /\ entitesTold' = [entitesTold EXCEPT
           ![tx.id].nom = IF tx.patched.nom = tx.seen.nom THEN @ ELSE tx.patched.nom,
           ![tx.id].detail = IF tx.patched.detail = tx.seen.detail THEN @
                             ELSE tx.patched.detail]
      /\ CloseDossier(q)
      /\ UNCHANGED <<contactVars, overlapped>>

(* Mutant: the toggle writes the negation of what the table holds by then. *)
CommitToggleNegates(q) ==
  LET tx == dossierRequests[q]
  IN  /\ tx.op = "toggleEntite"
      /\ entites' = [entites EXCEPT ![tx.id].actif = ~@]
      /\ entitesTold' = [entitesTold EXCEPT ![tx.id].actif = tx.patched.actif]
      /\ CloseDossier(q)
      /\ UNCHANGED <<contactVars, overlapped>>

(* EntiteRepositoryPg.updateActif writes the one column.                   *)
CommitToggleEntite(q) ==
  LET tx == dossierRequests[q]
  IN  /\ tx.op = "toggleEntite"
      /\ entites' = [entites EXCEPT ![tx.id].actif = tx.patched.actif]
      /\ entitesTold' = [entitesTold EXCEPT ![tx.id].actif = tx.patched.actif]
      /\ CloseDossier(q)
      /\ UNCHANGED <<contactVars, overlapped>>

(* The name was taken meanwhile: the transaction rolls back.               *)
RejectEntite(q) ==
  LET tx == dossierRequests[q]
  IN  /\ \/ /\ tx.op = "createEntite"
            /\ NameTaken(tx.row.owner, tx.row.nom)
         \/ /\ tx.op = "updateEntite"
            /\ NameIndexRefuses(tx.patched.owner, tx.patched.nom, tx.id)
      /\ CloseDossier(q)
      /\ UNCHANGED <<entiteVars, contactVars, overlapped>>

-----------------------------------------------------------------------------
(* CreateContactUseCase reads nothing: INSERT and audit.                   *)
CreateContact(k) ==
  \E e \in Entite, n \in Nom, d \in Detail \cup {Blank} :
    LET row == [entite |-> e, nom |-> n, detail |-> d]
    IN  /\ entites[e] # NoRow
        /\ contactsTold[k] = NoRow
        /\ contacts' = [contacts EXCEPT ![k] = row]
        /\ contactsTold' = [contactsTold EXCEPT ![k] = row]
        /\ UNCHANGED <<entiteVars, deletions, dossierRequests, overlapped>>

BeginUpdateContact(q, k) ==
  /\ contacts[k] # NoRow
  /\ \E patched \in ContactPatches(contacts[k]) \ {contacts[k]} :
       OpenDossier(q, [op |-> "updateContact", id |-> k, seen |-> contacts[k],
                       patched |-> patched], {k})

BeginDeleteContact(q, k) ==
  /\ contacts[k] # NoRow
  /\ OpenDossier(q, [op |-> "deleteContact", id |-> k, seen |-> contacts[k],
                     patched |-> contacts[k]], {k})

(* Mutant: an upsert, which brings a deleted contact back.                 *)
UpsertContact(k, row) == [contacts EXCEPT ![k] = row]

(* ContactRepositoryPg.update: WHERE id = k, no row when it was deleted.   *)
UpdatedContacts(k, row) ==
  IF contacts[k] = NoRow THEN contacts ELSE [contacts EXCEPT ![k] = row]

(* The audit row is saved all the same.                                    *)
CommitUpdateContact(q) ==
  LET tx == dossierRequests[q]
  IN  /\ tx.op = "updateContact"
      /\ contacts' = UpdatedContacts(tx.id, tx.patched)
      /\ contactsTold' = [contactsTold EXCEPT
           ![tx.id].nom = IF tx.patched.nom = tx.seen.nom THEN @ ELSE tx.patched.nom,
           ![tx.id].detail = IF tx.patched.detail = tx.seen.detail THEN @
                             ELSE tx.patched.detail]
      /\ CloseDossier(q)
      /\ UNCHANGED <<entiteVars, deletions, overlapped>>

(* The audit row, then DELETE ... WHERE id = k, in one transaction.        *)
CommitDeleteContact(q) ==
  /\ dossierRequests[q].op = "deleteContact"
  /\ contacts' = [contacts EXCEPT ![dossierRequests[q].id] = NoRow]
  /\ deletions' = deletions \cup {dossierRequests[q].id}
  /\ CloseDossier(q)
  /\ UNCHANGED <<entiteVars, contactsTold, overlapped>>

(* The rows whose audit rows the history of a client shows.                *)
ClientScope(owner) ==
  LET own == {e \in Entite : entites[e] # NoRow /\ entites[e].owner = owner}
  IN  own \cup {k \in Contact : contacts[k] # NoRow /\ contacts[k].entite \in own}

NewSiege == \E o \in Owner, e \in Entite : CreateSiege(o, e)

EntiteUseCase(q) ==
  \/ BeginCreateEntite(q)
  \/ \E e \in Entite :
       \/ CommitCreateEntite(q, e)
       \/ BeginUpdateEntite(q, e)
       \/ BeginToggleEntite(q, e)
  \/ CommitUpdateEntite(q)
  \/ CommitToggleEntite(q)
  \/ RejectEntite(q)

ContactUseCase(q) ==
  \/ \E k \in Contact : BeginUpdateContact(q, k) \/ BeginDeleteContact(q, k)
  \/ CommitUpdateContact(q)
  \/ CommitDeleteContact(q)

EntiteNext == NewSiege \/ \E q \in DossierSession : EntiteUseCase(q)

ContactNext ==
  \/ NewSiege
  \/ \E k \in Contact : CreateContact(k)
  \/ \E q \in DossierSession : ContactUseCase(q)

DossierNext == EntiteNext \/ ContactNext

DossierSpec == DossierInit /\ [][DossierNext]_dossierVars

-----------------------------------------------------------------------------
(* The tables and the open transactions hold rows of their types.          *)
DossierTypeOK ==
  /\ entites \in [Entite -> EntiteRow \cup {NoRow}]
  /\ entitesTold \in [Entite -> EntiteRow \cup {NoRow}]
  /\ contacts \in [Contact -> ContactRow \cup {NoRow}]
  /\ contactsTold \in [Contact -> ContactRow \cup {NoRow}]
  /\ deletions \subseteq Contact
  /\ dossierRequests \in [DossierSession -> DossierTx]
  /\ overlapped \subseteq Entite \cup Contact

(* Two requests that both found a name free, one creating and one renaming,*)
(* never give it to two entites of a client.                               *)
EntiteNamesUnique ==
  \A e, f \in Entite :
    /\ entites[e] # NoRow /\ entites[f] # NoRow
    /\ entites[e].owner = entites[f].owner /\ entites[e].nom = entites[f].nom
    => e = f

(* As long as no two requests worked on a row at once, replaying its audit *)
(* rows, each a diff of what its transaction read, gives the row.          *)
QuietLogTellsRow ==
  /\ \A e \in Entite : e \notin overlapped => entitesTold[e] = entites[e]
  /\ \A k \in Contact :
       k \notin overlapped /\ contacts[k] # NoRow => contactsTold[k] = contacts[k]

(* Two toggles that overlap leave the entity as the last of them reports,  *)
(* even when both read the same value: the row and its log part ways on    *)
(* actif only when an edit that read an older value commits.               *)
OnlyEditsUndoToggles ==
  [][\A e \in Entite :
       /\ entites[e] # NoRow
       /\ entites[e].actif = entitesTold[e].actif
       /\ entites'[e].actif # entitesTold'[e].actif
       => \E q \in DossierSession :
            /\ dossierRequests[q].op = "updateEntite"
            /\ dossierRequests[q].id = e
            /\ dossierRequests[q].seen.actif # entites[e].actif]_dossierVars

(* A contact that was ever created is in the table or has a                *)
(* CONTACT_DELETED audit row, and never both: an edit that races the       *)
(* deletion does not bring the contact back.                               *)
ContactGoneIffAudited ==
  \A k \in Contact : contactsTold[k] # NoRow =>
    (contacts[k] = NoRow <=> k \in deletions)

(* The entites and contacts of a client and their log are exact as far as  *)
(* the code keeps them so: names are unique and deletions audited whatever *)
(* overlaps, the other columns are as the log tells if nothing overlapped. *)
DossierExact ==
  DossierTypeOK /\ EntiteNamesUnique /\ QuietLogTellsRow /\ ContactGoneIffAudited

-----------------------------------------------------------------------------
(* What the audit promises and the interleavings refute.                   *)

(* "before/after": the log tells the row.  An edit of the pays that read   *)
(* the entity before a toggle committed writes its old actif back, and     *)
(* reports the pays only.                                                  *)
LogTellsEntite == \A e \in Entite : entitesTold[e] = entites[e]

(* "journal d'audit scope client (direct + indirect entités/licences/      *)
(* contacts...)": what was deleted is told.  The contacts of the scope are *)
(* those of the table: the history of the client loses every audit row of  *)
(* a contact with the contact, its deletion too.                           *)
HistoryTellsDeletions ==
  \A k \in deletions : \E o \in Owner : k \in ClientScope(o)

(* The log tells of no edit after the deletion of a contact; an edit that  *)
(* updates zero rows logs CONTACT_UPDATED.                                 *)
NoEditAfterDeletion ==
  [][\A k \in deletions : contactsTold'[k] = contactsTold[k]]_dossierVars
=============================================================================
