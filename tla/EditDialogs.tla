---------------------------- MODULE EditDialogs ----------------------------
(***************************************************************************)
(* The dialogs that edit a client or a licence: the page of a licence      *)
(* (LicenceResumeTab), the page of a client (ClientInfoTab) and the table  *)
(* of the clients (ClientsTable), the last two with the same ClientDialog. *)
(*                                                                         *)
(* The lock of the server is a version: a request says which version it    *)
(* edits.  The two pages send the version of the row they were last        *)
(* rendered with, the table that of the row that was clicked.  The fields  *)
(* are uncontrolled: they keep what they were opened with, and the patch   *)
(* is what differs from the row at the moment of the submission.           *)
(***************************************************************************)
EXTENDS Browser

CONSTANTS
  Screen,      \* the screens to consider
  Champ,       \* the fields of the form of each screen
  Valeur,      \* what a field may hold
  Vide,        \* the empty field
  Statut,      \* the statuses offered; EXPIRE and RESILIE are final
  MaxMoved     \* bound: requests accepted, other users' included

Final == {"EXPIRE", "RESILIE"}

(* The reference codes and the dates of a client are refused when empty.   *)
Fixed == {"codePays"}

(* The fields with `required`.                                             *)
Obliged == {"raisonSociale", "dateFin"}

ASSUME EditAssumption ==
  /\ Screen \subseteq {"licence", "client", "clients"}
  /\ Vide \in Valeur
  /\ Champ \in [Screen -> SUBSET {"raisonSociale", "telContact", "codePays", "dateFin", "commentaire"}]

VARIABLES
  screen,     \* the page that is open
  fiche,      \* the row on the server
  shown,      \* the row the page was last rendered with
  dialog,     \* the dialog over it
  newStatus   \* the state of the status dialog, which is never unmounted

editVars == <<screen, fiche, shown, dialog, newStatus, sending, lost>>

Fields == Champ[screen]

NoDialog == [kind |-> "none"]

EditInit ==
  /\ screen \in Screen
  /\ fiche = [version |-> 0, statut |-> "ACTIF",
              valeurs |-> [f \in Fields |-> CHOOSE v \in Valeur : v # Vide]]
  /\ shown = fiche
  /\ dialog = NoDialog
  /\ newStatus = shown.statut

-----------------------------------------------------------------------------
(* What the user does.                                                     *)
Unserved == UNCHANGED <<screen, fiche, shown, lost>>

(* The form of a row, mounted when the dialog opens.  pinned are the       *)
(* fields React has set, or the user typed in: a field left empty still    *)
(* follows its default value.  History: what was typed, and the row.       *)
FormOf(row) ==
  [kind |-> "edit", row |-> row, form |-> row.valeurs, typed |-> {},
   pinned |-> {f \in Fields : row.valeurs[f] # Vide}]

OpenEdit ==
  /\ dialog = NoDialog
  /\ dialog' = FormOf(shown)
  /\ UNCHANGED <<newStatus, sending>> /\ Unserved

Type(f, v) ==
  /\ dialog.kind = "edit" /\ dialog.form[f] # v
  /\ dialog' = [dialog EXCEPT !.form[f] = v, !.typed = @ \cup {f}, !.pinned = @ \cup {f}]
  /\ UNCHANGED <<newStatus, sending>> /\ Unserved

Close ==
  /\ dialog # NoDialog
  /\ dialog' = NoDialog
  /\ UNCHANGED <<newStatus, sending>> /\ Unserved

(* The browser holds a form back while a required field is empty.          *)
Submittable == \A f \in Fields \cap Obliged : dialog.form[f] # Vide

(* What of the form differs from a row.                                    *)
PatchOf(row) ==
  [f \in {g \in Fields : dialog.form[g] # row.valeurs[g]} |-> dialog.form[f]]

EditRequest(row) ==
  [kind |-> "edit", expected |-> row.version, patch |-> PatchOf(row),
   typed |-> dialog.typed, opened |-> dialog.row]

Submits(request) ==
  /\ CanSend
  /\ sending' = Sent(request)
  /\ UNCHANGED <<dialog, newStatus>> /\ Unserved

(* EditDialog of the page of a licence.                                    *)
SubmitLicence ==
  /\ screen = "licence" /\ dialog.kind = "edit" /\ Submittable
  /\ Submits(EditRequest(shown))

(* ClientDialog: its client is that of the page, or the row clicked.       *)
EditedClient == IF screen = "clients" THEN dialog.row ELSE shown

SubmitClient ==
  /\ screen \in {"client", "clients"} /\ dialog.kind = "edit" /\ Submittable
  /\ Submits(EditRequest(EditedClient))

OpenStatus ==
  /\ screen # "clients" /\ dialog = NoDialog
  /\ dialog' = [kind |-> "status"]
  /\ UNCHANGED <<newStatus, sending>> /\ Unserved

ChooseStatus(s) ==
  /\ dialog.kind = "status"
  /\ newStatus' = s
  /\ UNCHANGED <<dialog, sending>> /\ Unserved

(* The status already shown only closes the dialog.                        *)
StatusRequest ==
  [kind |-> "status", expected |-> shown.version, statut |-> newStatus, seen |-> shown.statut]

SubmitStatusOf(s) ==
  /\ screen = s /\ dialog.kind = "status"
  /\ IF newStatus # shown.statut THEN Submits(StatusRequest)
     ELSE /\ dialog' = NoDialog
          /\ UNCHANGED <<newStatus, sending>> /\ Unserved

SubmitLicenceStatus == SubmitStatusOf("licence")

SubmitClientStatus == SubmitStatusOf("client")

(* "Generer .lic": its answer has the page rendered anew.                  *)
PressGenerate ==
  /\ screen = "licence" /\ dialog = NoDialog /\ CanSend
  /\ sending' = Sent([kind |-> "file"])
  /\ UNCHANGED <<dialog, newStatus>> /\ Unserved

-----------------------------------------------------------------------------
(* What the server does.                                                   *)
Unrendered == UNCHANGED <<screen, shown, dialog, newStatus>>

Moves(row) == fiche.version < MaxMoved /\ fiche' = [row EXCEPT !.version = @ + 1]

(* Other users, and the jobs on the licences.                              *)
OtherEdits(f, v) ==
  /\ v # fiche.valeurs[f] /\ ~(v = Vide /\ f \in Obliged \cup Fixed)
  /\ Moves([fiche EXCEPT !.valeurs[f] = v])
  /\ UNCHANGED <<sending, lost>> /\ Unrendered

OtherMoves(s) ==
  /\ s # fiche.statut /\ fiche.statut \notin Final
  /\ Moves([fiche EXCEPT !.statut = s])
  /\ UNCHANGED <<sending, lost>> /\ Unrendered

Patched(r) == [fiche EXCEPT !.valeurs = Over(r.patch, @)]

Accepts(r) == Becomes(Accepted(r, [page |-> fiche']))

Refuses(r) == Becomes(Refused(r)) /\ UNCHANGED fiche

(* Mutant: the version is not compared.                                    *)
ServeEditUnlocked ==
  /\ InFlight("edit", "sent")
  /\ LET r == sending[1] IN Moves(Patched(r)) /\ Accepts(r)
  /\ UNCHANGED lost /\ Unrendered

(* updateLicenceAction, updateClientAction: an empty reference code is     *)
(* refused by the schema, what changes nothing is not compared.            *)
ServeEdit ==
  /\ InFlight("edit", "sent")
  /\ LET r == sending[1] IN
     IF \E f \in DOMAIN r.patch \cap Fixed : r.patch[f] = Vide THEN Refuses(r)
     ELSE IF Patched(r) = fiche THEN UNCHANGED fiche /\ Accepts(r)
     ELSE IF r.expected # fiche.version THEN Refuses(r)
     ELSE Moves(Patched(r)) /\ Accepts(r)
  /\ UNCHANGED lost /\ Unrendered

(* changeLicenceStatusAction, changeClientStatusAction.                    *)
ServeStatus ==
  /\ InFlight("status", "sent")
  /\ LET r == sending[1] IN
     IF fiche.statut \in Final \cup {r.statut} \/ r.expected # fiche.version THEN Refuses(r)
     ELSE Moves([fiche EXCEPT !.statut = r.statut]) /\ Accepts(r)
  /\ UNCHANGED lost /\ Unrendered

(* generateLicenceFichierAction, as far as this page: it may be refused.   *)
ServeFile ==
  /\ InFlight("file", "sent")
  /\ UNCHANGED fiche
  /\ Accepts(sending[1]) \/ Refuses(sending[1])
  /\ UNCHANGED lost /\ Unrendered

-----------------------------------------------------------------------------
(* The answer reaches the browser.                                         *)

(* The page is rendered with another row: fields left empty follow it.     *)
Follows(d, row) ==
  IF d.kind # "edit" \/ screen = "clients" THEN d
  ELSE [d EXCEPT !.form = [f \in Fields |-> IF f \in d.pinned THEN @[f] ELSE row.valeurs[f]]]

(* An accepted answer closes the dialog that is open by then.              *)
Delivers(kind, after) ==
  /\ Answered(kind)
  /\ LET r == sending[1] IN
     IF r.ok THEN shown' = r.page /\ dialog' = after
             ELSE UNCHANGED <<shown, dialog>>
  /\ sending' = Tail(sending)
  /\ UNCHANGED <<screen, fiche, newStatus, lost>>

DeliverEdit == Delivers("edit", NoDialog)

DeliverStatus == Delivers("status", NoDialog)

DeliverFile == Delivers("file", Follows(dialog, sending[1].page))

EditNext ==
  \/ OpenEdit \/ Close \/ SubmitLicence \/ SubmitClient
  \/ \E f \in Fields, v \in Valeur : Type(f, v) \/ OtherEdits(f, v)
  \/ OpenStatus \/ SubmitLicenceStatus \/ SubmitClientStatus
  \/ \E s \in Statut : ChooseStatus(s) \/ OtherMoves(s)
  \/ PressGenerate
  \/ ServeEdit \/ ServeStatus \/ ServeFile
  \/ (FailRequest \/ LoseAnswer) /\ UNCHANGED fiche /\ Unrendered
  \/ DeliverEdit \/ DeliverStatus \/ DeliverFile

EditSpec == EditInit /\ BrowserInit /\ [][EditNext]_editVars

-----------------------------------------------------------------------------
(* The request of the page that is changing the row.                       *)
ChangedBy(kind) ==
  InFlight(kind, "sent") /\ sending' # sending /\ fiche' # fiche

Changed == {f \in Fields : fiche'.valeurs[f] # fiche.valeurs[f]}

(* An edit accepted from a dialog under which nothing was rendered changes *)
(* only what its user typed, in the very row the dialog was opened with:   *)
(* in the table of the clients, which keeps the row that was clicked,      *)
(* every edit.  A status is changed from the one the page showed.          *)
EditsExact ==
  [][LET r == sending[1] IN
     /\ ChangedBy("edit") =>
          /\ screen = "clients" => r.opened.version = r.expected
          /\ r.opened.version = r.expected =>
               Changed \subseteq r.typed /\ fiche.valeurs = r.opened.valeurs
     /\ ChangedBy("status") => fiche.statut = r.seen]_editVars

-----------------------------------------------------------------------------
(* What comments promise and the steps refute.                             *)

(* "Optimistic locking via expectedVersion (L4)": an accepted edit changes *)
(* only what its user typed.  An answer that is delivered under the dialog *)
(* renders the page: the old values of the form are sent with the new      *)
(* version.                                                                *)
EditKeepsOthers ==
  [][ChangedBy("edit") => Changed \subseteq sending[1].typed]_editVars

(* The status dialog opens on the status of the page: its state is the one *)
(* of the first rendering, or the last chosen.                             *)
StatusDialogOpensCurrent ==
  [][OpenStatus => newStatus = shown.statut]_editVars

(* An answer closes the dialog it was sent from: it closes the one that is *)
(* open by then, and what was typed there is gone.                         *)
AnswerClosesItsOwn ==
  [][dialog.kind = "edit" /\ dialog' = NoDialog /\ Len(sending') < Len(sending) =>
       sending[1].kind = "edit"]_editVars
=============================================================================
