---------------------------- MODULE TableScreens ----------------------------
(***************************************************************************)
(* The pages that show rows and change them: the reference tables, the     *)
(* catalogue, the accounts, the articles and the renewals of a licence,    *)
(* the entites and contacts of a client, the alert settings.               *)
(*                                                                         *)
(* A page is the set of its forms, each a record that says what its        *)
(* component does: which fields it sends, what becomes of an empty one,    *)
(* where its `open` state is kept, whether it looks at the answer.  The    *)
(* actions are what all of them have in common.  The rules by which the    *)
(* server refuses a request are those of the modules of each component;    *)
(* here any request may be refused.                                        *)
(***************************************************************************)
EXTENDS Browser

CONSTANTS
  TableScreen,    \* the pages to consider
  MainRow,        \* the rows of a page, the one in use among them
  PartRow,        \* what its rows have: the articles of the produits
  PartOf,         \* the main row of each
  FirstRows,      \* the rows there are at first
  SelfRow,        \* the account of the user
  Watched,        \* the fields considered, of each page
  FirstValue,     \* what they hold at first
  Typed,          \* what is typed; Blank for nothing, or spaces
  Blank, Gone,    \* an empty field; the absence of a row
  MaxMoves        \* bound: changes of the rows

Row == MainRow \cup PartRow

ASSUME TableAssumption ==
  /\ FirstRows \subseteq Row /\ SelfRow \in MainRow
  /\ PartOf \in [PartRow -> MainRow]
  /\ Blank \in Typed /\ FirstValue # Blank

VARIABLES
  table,     \* the page that is open
  rows,      \* the rows on the server
  seen,      \* the rows as the page shows them
  modal,     \* the dialog that is open
  secret,    \* the password of each account, 0 if this browser is not told it
  moves,     \* changes of the rows so far
  behind     \* history: others moved, or an answer was lost, since the last
             \* accepted request of this browser

tableVars == <<table, rows, seen, modal, secret, moves, behind, sending, lost>>

-----------------------------------------------------------------------------
(* The forms.                                                              *)
(*   op, of    what is asked, of a main row or of a part                   *)
(*   fields    the fields it has                                           *)
(*   needs     those refused when empty                                    *)
(*   omits     those never sent empty                                      *)
(*   holds     those without which it is not sent                          *)
(*   diff      only what differs from the row is sent                      *)
(*   follows   empty fields follow the page                                *)
(*   slot      the state that holds it open, "none" for a button           *)
(*   heeds     the bad answers that leave it open, shown as an error: a    *)
(*             refusal, a failure; another is taken for a good one         *)
(*   live      for active rows only, on the page and on the server         *)
(*   spares    not to deactivate oneself                                   *)
(*   alone     who bars it for a row with parts: the page or the server    *)
Plain ==
  [op |-> "edit", of |-> "main", fields |-> {}, needs |-> {}, omits |-> {},
   holds |-> {}, diff |-> FALSE, follows |-> FALSE, slot |-> "dialog",
   heeds |-> {"refusal", "failure"}, live |-> FALSE, spares |-> FALSE, alone |-> "nobody"]

Button(op) == [Plain EXCEPT !.op = op, !.slot = "none"]

OfPart(form) == [form EXCEPT !.of = "part"]

(* The dialog of a row keeps its own `open`.  It sends every field; an     *)
(* empty one that is required is left out, another is null.                *)
RefEditDialog(fields, required) ==
  [Plain EXCEPT !.fields = fields, !.omits = required, !.follows = TRUE, !.slot = "row"]

(* "Ajouter": the answer is awaited, never read.                           *)
AddDialog(fields, required) ==
  [Plain EXCEPT !.op = "create", !.fields = fields, !.needs = required,
                !.slot = "add", !.heeds = {"failure"}]

(* The button sends which row, not which state it showed.                  *)
ToggleButton == Button("toggle")

RegionsSection == {RefEditDialog({"nom", "dmResponsable"}, {"nom"}), ToggleButton}

AddRegionDialog == AddDialog({"nom", "dmResponsable"}, {"nom"})

PaysSection == {RefEditDialog({"nom", "regionCode"}, {"nom"}), ToggleButton}

AddPaysDialog == AddDialog({"nom", "regionCode"}, {"nom"})

DevisesSection == {RefEditDialog({"nom", "symbole"}, {"nom"}), ToggleButton}

AddDeviseDialog == AddDialog({"nom", "symbole"}, {"nom", "symbole"})

LanguesSection == {RefEditDialog({"nom"}, {"nom"}), ToggleButton}

AddLangueDialog == AddDialog({"nom"}, {"nom"})

TypesContactSection == {RefEditDialog({"libelle"}, {"libelle"}), ToggleButton}

AddTypeContactDialog == AddDialog({"libelle"}, {"libelle"})

(* The wrapper of the action drops its result: there is none to look at.   *)
TeamMembersSection ==
  {[RefEditDialog({"nom", "prenom", "email", "telephone", "roleTeam", "regionCode"},
                  {"nom", "roleTeam"}) EXCEPT !.heeds = {"failure"}], ToggleButton}

AddTeamMemberDialog ==
  AddDialog({"nom", "prenom", "email", "roleTeam", "regionCode"}, {"nom", "prenom", "email"})

(* The catalogue: one dialog at a time, of the row that was clicked.       *)
ProduitForm(op) ==
  [Plain EXCEPT !.op = op, !.fields = {"nom", "description"}, !.needs = {"nom"},
         !.heeds = {"failure"}]

ArticleForm(op) ==
  OfPart([Plain EXCEPT !.op = op, !.fields = {"nom", "description", "controleVolume"},
                       !.needs = {"nom"},
         !.heeds = {"failure"}])

ProduitButtons == {Button("toggle"), [Button("delete") EXCEPT !.alone = "server"]}

ArticleButtons == {OfPart(Button("toggle")), OfPart(Button("delete"))}

CataloguesPanel ==
  {ProduitForm("create"), ProduitForm("edit"), ArticleForm("create"), ArticleForm("edit")}
    \cup ProduitButtons \cup ArticleButtons

(* The accounts.                                                           *)
UserDialogCreate ==
  [Plain EXCEPT !.op = "create", !.fields = {"nom", "prenom", "email", "role", "telephone"},
                !.needs = {"nom", "prenom", "email"}]

UserDialogEdit ==
  [Plain EXCEPT !.fields = {"nom", "prenom", "role"}, !.needs = {"nom", "prenom"}, !.diff = TRUE]

(* Whatever the answer, it is closed.                                      *)
ConfirmReset == [Plain EXCEPT !.op = "reset", !.heeds = {}]

UserRow == [ToggleButton EXCEPT !.spares = TRUE]

SettingsUsersTable == {UserDialogCreate, UserDialogEdit, ConfirmReset, UserRow}

(* The produits and the articles of a licence.                             *)
AddProduitDialog == [Plain EXCEPT !.op = "create"]

AddArticleDialog == OfPart([Plain EXCEPT !.op = "create", !.fields = {"volumeAutorise"}])

EditVolumeDialog == OfPart([Plain EXCEPT !.fields = {"volumeAutorise", "volumeConsomme"}])

(* The button is disabled while the page shows articles; the server does   *)
(* not look.                                                               *)
RemoveProduit == [Button("delete") EXCEPT !.alone = "page"]

RemoveArticle == OfPart(Button("delete"))

ArticlesTab ==
  {AddProduitDialog, AddArticleDialog, EditVolumeDialog, RemoveProduit, RemoveArticle}

(* The renewals of a licence: active while EN_COURS.  The drawer and the   *)
(* confirmations are two states.                                           *)
DrawerFields == {"nouvelleDateDebut", "nouvelleDateFin", "commentaire"}

RenouvellementDrawer(op) ==
  [Plain EXCEPT !.op = op, !.fields = DrawerFields, !.slot = "drawer",
                !.needs = DrawerFields \ {"commentaire"}, !.live = op = "edit"]

ValiderConfirmDialog == [Plain EXCEPT !.op = "valider", !.live = TRUE]

AnnulerConfirmDialog == [Plain EXCEPT !.op = "annuler", !.live = TRUE]

RenouvellementsTab ==
  {RenouvellementDrawer("create"), RenouvellementDrawer("edit"),
   ValiderConfirmDialog, AnnulerConfirmDialog}

(* The entites of a client: the country is sent only if there is one.      *)
EntiteDialog(op) ==
  [Plain EXCEPT !.op = op, !.fields = {"nom", "codePays"}, !.needs = {"nom"},
                !.omits = {"codePays"}, !.diff = TRUE]

EntiteRow == ToggleButton

EntitesTab == {EntiteDialog("create"), EntiteDialog("edit"), EntiteRow}

(* The contacts of an entite.                                              *)
ContactDialog(op) ==
  [Plain EXCEPT !.op = op, !.fields = {"typeContactCode", "nom", "prenom", "email", "telephone"},
                !.needs = {"typeContactCode", "nom"}]

ContactRow == Button("delete")

ContactsTab == {ContactDialog("create"), ContactDialog("edit"), ContactRow}

(* The alert settings: whether one is active is a field of its form; the   *)
(* thresholds are one field here, of which there must be one.              *)
AlertForm(op) ==
  [Plain EXCEPT !.op = op, !.fields = {"libelle", "canaux", "seuil", "statut"},
                !.needs = {"libelle"}, !.holds = {"canaux", "seuil"}, !.slot = op]

DeleteAlertForm == [Plain EXCEPT !.op = "delete", !.slot = "delete"]

AlertsPanel == {AlertForm("create"), AlertForm("edit"), DeleteAlertForm}

Screens ==
  [regions |-> RegionsSection \cup {AddRegionDialog},
   pays |-> PaysSection \cup {AddPaysDialog},
   devises |-> DevisesSection \cup {AddDeviseDialog},
   langues |-> LanguesSection \cup {AddLangueDialog},
   typesContact |-> TypesContactSection \cup {AddTypeContactDialog},
   teamMembers |-> TeamMembersSection \cup {AddTeamMemberDialog},
   catalogues |-> CataloguesPanel, users |-> SettingsUsersTable,
   articles |-> ArticlesTab, renouvellements |-> RenouvellementsTab,
   entites |-> EntitesTab, contacts |-> ContactsTab, alerts |-> AlertsPanel]

ASSUME ScreensAssumption ==
  /\ TableScreen \subseteq DOMAIN Screens
  /\ Watched \in [TableScreen -> SUBSET UNION {f.fields : f \in UNION {Screens[s] : s \in TableScreen}}]

-----------------------------------------------------------------------------
Forms == Screens[table]

FormFor(op, of) == CHOOSE f \in Forms : f.op = op /\ f.of = of

Offered(op, of) == \E f \in Forms : f.op = op /\ f.of = of

Columns(form) == form.fields \cap Watched[table]

Here(row) == IF row \in MainRow THEN "main" ELSE "part"

Shown(r) == seen[r] # Gone

PartsIn(page, r) == {p \in PartRow : PartOf[p] = r /\ page[p] # Gone}

NewRow(values) == [values |-> values, actif |-> TRUE]

NoModal == [op |-> "none"]

(* What is sent and what there is of a row: the fields of its edit form.   *)
AllFields(r) ==
  UNION {Columns(f) : f \in {g \in Forms : g.of = Here(r) /\ g.op \in {"create", "edit"}}}

TableInit ==
  /\ table \in TableScreen
  /\ rows = [r \in Row |->
       IF r \notin FirstRows \/ ~\E f \in Forms : f.of = Here(r) THEN Gone
       ELSE NewRow([f \in AllFields(r) |-> FirstValue])]
  /\ seen = rows
  /\ modal = NoModal
  /\ secret = [r \in MainRow |-> 0]
  /\ moves = 0 /\ behind = FALSE

-----------------------------------------------------------------------------
(* What the user does.                                                     *)
Quietly == UNCHANGED <<table, rows, seen, secret, moves, behind, lost>>

(* A button of the page opens a dialog: none is open, it would cover them. *)
(* A new row is none of those the page shows, a part has its main row.     *)
CanOpen(form, r) ==
  /\ Here(r) = form.of
  /\ IF form.op = "create" THEN ~Shown(r) /\ (r \in PartRow => Shown(PartOf[r]))
     ELSE Shown(r) /\ (form.live => seen[r].actif)

OpenModal(form, r) ==
  /\ modal = NoModal /\ form.slot # "none" /\ CanOpen(form, r)
  /\ modal' = [op |-> form.op, row |-> r, opened |-> seen[r]]
  /\ UNCHANGED sending /\ Quietly

CloseModal ==
  /\ modal.op \notin {"none", "reveal"}
  /\ modal' = NoModal
  /\ UNCHANGED sending /\ Quietly

(* "J'ai note le mot de passe".                                            *)
NoteSecret ==
  /\ modal.op = "reveal"
  /\ modal' = NoModal
  /\ UNCHANGED sending /\ Quietly

Asks(form, r, details) ==
  /\ CanSend
  /\ sending' = Sent(Over([kind |-> form.op, row |-> r, shows |-> seen[r]], details))
  /\ UNCHANGED modal /\ Quietly

(* The form when it is sent: what was typed, and otherwise what the dialog *)
(* was opened with, or a new default for a field that was empty.           *)
Entered(form, input) ==
  [f \in Columns(form) |->
     IF f \in DOMAIN input THEN input[f]
     ELSE IF modal.op = "create" THEN Blank
     ELSE IF form.follows /\ modal.opened.values[f] = Blank /\ Shown(modal.row)
     THEN seen[modal.row].values[f]
     ELSE modal.opened.values[f]]

SentFields(form, entered) ==
  {f \in Columns(form) :
     /\ entered[f] = Blank => f \notin form.omits
     /\ form.diff /\ form.op = "edit" => entered[f] # modal.opened.values[f]}

(* A form is sent.                                                         *)
SubmitForm(form, input) ==
  /\ modal.op = form.op /\ modal.op \in {"create", "edit"} /\ Here(modal.row) = form.of
  /\ LET entered == Entered(form, input) IN
     /\ \A f \in Columns(form) \cap form.holds : entered[f] # Blank
     /\ Asks(form, modal.row,
             [patch |-> [f \in SentFields(form, entered) |-> entered[f]],
              typed |-> input, from |-> modal.opened])

(* The dialogs that only ask for confirmation.                             *)
ConfirmModal(form) ==
  /\ modal.op = form.op /\ modal.op \in {"reset", "delete", "valider", "annuler"}
  /\ Asks(form, modal.row, <<>>)

(* The buttons of a row that send at once, window.confirm included.        *)
PressButton(form, r) ==
  /\ modal = NoModal /\ form.slot = "none" /\ CanOpen(form, r)
  /\ form.spares => ~(r = SelfRow /\ seen[r].actif)
  /\ form.alone = "page" => PartsIn(seen, r) = {}
  /\ Asks(form, r, <<>>)

-----------------------------------------------------------------------------
(* What the server does with the request in flight.                        *)
Unseen == UNCHANGED <<table, seen, modal>>

Request == sending[1]

RequestForm == FormFor(Request.kind, Here(Request.row))

Target == rows[Request.row]

Writes(r, row) == moves < MaxMoves /\ moves' = moves + 1 /\ rows' = [rows EXCEPT ![r] = row]

(* A request that is accepted: revalidatePath, the page comes with the     *)
(* answer; and a password, when there is a new one.                        *)
Grants(row, password) ==
  /\ Writes(Request.row, row)
  /\ secret' = IF password = 0 THEN secret ELSE [secret EXCEPT ![Request.row] = password]
  /\ Becomes(Accepted(Request, [page |-> rows', secret |-> password]))
  /\ behind' = FALSE
  /\ UNCHANGED lost /\ Unseen

(* Any AppError, and what the schema refuses.                              *)
Declines ==
  /\ sending # <<>> /\ Request.at = "sent"
  /\ Becomes(Refused(Request))
  /\ UNCHANGED <<rows, secret, moves, behind, lost>> /\ Unseen

Incomplete(form) == \E f \in form.needs \cap DOMAIN Request.patch : Request.patch[f] = Blank

NewSecret == IF table = "users" THEN moves + 1 ELSE 0

ServeRowCreate ==
  /\ InFlight("create", "sent")
  /\ Target = Gone /\ ~Incomplete(RequestForm)
  /\ Grants(NewRow(Over(Request.patch, [f \in AllFields(Request.row) |-> Blank])), NewSecret)

ServeRowEdit ==
  /\ InFlight("edit", "sent")
  /\ Target # Gone /\ ~Incomplete(RequestForm) /\ (RequestForm.live => Target.actif)
  /\ Grants([Target EXCEPT !.values = Over(Request.patch, @)], 0)

(* The state there is becomes the other one.                               *)
ServeToggle ==
  /\ InFlight("toggle", "sent")
  /\ Target # Gone /\ ~(RequestForm.spares /\ Request.row = SelfRow /\ Target.actif)
  /\ Grants([Target EXCEPT !.actif = ~@], 0)

ServeDelete ==
  /\ InFlight("delete", "sent")
  /\ Target # Gone
  /\ RequestForm.alone = "server" => PartsIn(rows, Request.row) = {}
  /\ Grants(Gone, 0)

ServeReset ==
  /\ InFlight("reset", "sent")
  /\ Target # Gone
  /\ Grants(Target, NewSecret)

(* validerRenouvellementAction, annulerRenouvellementAction.               *)
ServeDecision ==
  /\ InFlight("valider", "sent") \/ InFlight("annuler", "sent")
  /\ Target # Gone /\ Target.actif
  /\ Grants([Target EXCEPT !.actif = FALSE], 0)

(* Other users, with the same forms.                                       *)
OtherUserEdits(r, f, v) ==
  LET form == FormFor("edit", Here(r)) IN
  /\ Offered("edit", Here(r)) /\ f \in Columns(form) /\ v # rows[r].values[f]
  /\ v = Blank => f \notin form.needs \cup form.omits \cup form.holds
  /\ Writes(r, [rows[r] EXCEPT !.values[f] = v])

OtherUserActs(r) ==
  /\ IF rows[r] = Gone
     THEN /\ Offered("create", Here(r)) /\ (r \in PartRow => rows[PartOf[r]] # Gone)
          /\ Writes(r, NewRow([f \in AllFields(r) |-> FirstValue]))
          /\ UNCHANGED secret
     ELSE \/ /\ \E f \in Watched[table], v \in Typed : OtherUserEdits(r, f, v)
             /\ UNCHANGED secret
          \/ /\ Offered("toggle", Here(r)) \/ (Offered("annuler", Here(r)) /\ rows[r].actif)
             /\ Writes(r, [rows[r] EXCEPT !.actif = ~@])
             /\ UNCHANGED secret
          \/ /\ Offered("delete", Here(r)) /\ PartsIn(rows, r) = {}
             /\ Writes(r, Gone)
             /\ UNCHANGED secret
          \/ /\ Offered("reset", Here(r))
             /\ Writes(r, rows[r])
             /\ secret' = [secret EXCEPT ![r] = 0]
  /\ behind' = TRUE
  /\ UNCHANGED <<sending, lost>> /\ Unseen

-----------------------------------------------------------------------------
(* The answer reaches the browser.                                         *)

(* The state that holds a dialog open.                                     *)
SlotOf(form, r) == IF form.slot = "row" THEN <<r>> ELSE <<form.slot>>

OpenSlot ==
  IF modal = NoModal THEN <<>>
  ELSE IF modal.op = "reveal" THEN <<"dialog">>
  ELSE SlotOf(FormFor(modal.op, Here(modal.row)), modal.row)

(* An answer closes whatever its state holds open.                         *)
Closes == IF OpenSlot = SlotOf(RequestForm, Request.row) THEN NoModal ELSE modal

Reveal == [op |-> "reveal", row |-> Request.row, secret |-> Request.secret]

(* Mutant: a password that is shown stays.                                 *)
DeliverAcceptedOnce ==
  /\ sending # <<>> /\ Request.at = "answered" /\ Request.ok
  /\ seen' = Request.page
  /\ modal' = IF Request.secret # 0 /\ modal.op # "reveal" THEN Reveal
              ELSE IF Request.secret # 0 THEN modal ELSE Closes
  /\ sending' = Tail(sending)
  /\ UNCHANGED <<table, rows, secret, moves, behind, lost>>

DeliverAccepted ==
  /\ sending # <<>> /\ Request.at = "answered" /\ Request.ok
  /\ seen' = Request.page
  /\ modal' = IF Request.secret # 0 THEN Reveal ELSE Closes
  /\ sending' = Tail(sending)
  /\ UNCHANGED <<table, rows, secret, moves, behind, lost>>

(* A bad answer, which some forms do not look at.                          *)
Badness == IF "thrown" \in DOMAIN Request THEN "failure" ELSE "refusal"

DeliverBad ==
  /\ sending # <<>> /\ Request.at = "answered" /\ ~Request.ok
  /\ modal' = IF Badness \in RequestForm.heeds THEN modal ELSE Closes
  /\ sending' = Tail(sending)
  /\ UNCHANGED <<table, rows, seen, secret, moves, behind, lost>>

(* The connection fails: what was done is done, and the page is not told.  *)
LoseTableAnswer ==
  /\ LoseAnswer
  /\ behind' = TRUE
  /\ secret' = IF Request.secret = 0 THEN secret ELSE [secret EXCEPT ![Request.row] = 0]
  /\ UNCHANGED <<table, rows, seen, modal, moves>>

TableNext ==
  \/ \E form \in Forms, r \in Row : OpenModal(form, r) \/ PressButton(form, r)
  \/ CloseModal \/ NoteSecret
  \/ \E form \in Forms, typed \in SUBSET Watched[table] :
       /\ typed \subseteq form.fields
       /\ \E input \in [typed -> Typed] : SubmitForm(form, input)
  \/ \E form \in Forms : ConfirmModal(form)
  \/ ServeRowCreate \/ ServeRowEdit \/ ServeToggle \/ ServeDelete \/ ServeReset \/ ServeDecision
  \/ Declines
  \/ \E r \in Row : OtherUserActs(r)
  \/ FailRequest /\ UNCHANGED <<rows, secret, moves, behind>> /\ Unseen
  \/ DeliverAccepted \/ DeliverBad \/ LoseTableAnswer

TableSpec == TableInit /\ BrowserInit /\ [][TableNext]_tableVars

-----------------------------------------------------------------------------
(* What an accepted edit writes, if the row is still what its dialog was   *)
(* opened with: each field typed holds what was typed, except one that is  *)
(* never sent empty, and the others keep what they held.  If someone else  *)
(* changed the row, a form that sends what differs changes nothing but     *)
(* what was typed, and one that sends all of it at least writes that.      *)
EditDone ==
  InFlight("edit", "sent") /\ moves' # moves /\ sending' # sending

Undisturbed ==
  /\ Target.values = Request.from.values
  /\ RequestForm.follows => Request.shows.values = Request.from.values

WrittenAs(f) ==
  rows'[Request.row].values[f] =
    IF Request.typed[f] = Blank /\ f \in RequestForm.omits THEN Target.values[f]
    ELSE Request.typed[f]

TypedIsWritten ==
  EditDone =>
    /\ ~RequestForm.diff \/ Undisturbed => \A f \in DOMAIN Request.typed : WrittenAs(f)
    /\ RequestForm.diff \/ Undisturbed =>
         \A f \in DOMAIN Target.values \ DOMAIN Request.typed :
            rows'[Request.row].values[f] = Target.values[f]

(* When nothing is in flight, a page shows the rows as its browser left    *)
(* them: no accepted action fails to render it.                            *)
PageCurrent == sending = <<>> /\ ~behind => seen = rows

(* The password a page shows is the one the account has once every answer  *)
(* arrived, unless someone else has reset it.                              *)
RevealedIsCurrent ==
  modal.op = "reveal" /\ sending = <<>> =>
    secret[modal.row] \in {0, modal.secret}

(* What the pages of rows do exactly, whichever of them is open.           *)
TablesExact ==
  /\ [](PageCurrent /\ RevealedIsCurrent)
  /\ [][TypedIsWritten]_tableVars

-----------------------------------------------------------------------------
(* What comments promise and the steps refute.                             *)
Delivered == sending # <<>> /\ Request.at = "answered" /\ Len(sending') < Len(sending)

(* "if (r.success) { setError(""); onClose(); } else { setError(r.error);  *)
(* }": a refused request leaves its dialog open.  The dialogs that add a   *)
(* reference, the catalogue, the members of the team and the reset of a    *)
(* password close as if it were done.                                      *)
RefusalShown ==
  [][Delivered /\ ~Request.ok => modal' = modal]_tableVars

(* "l'utilisateur DOIT cliquer le bouton de confirmation pour fermer": a   *)
(* password stays until its reader says it was noted.  The answer to a     *)
(* request sent before closes it, or replaces it.                          *)
RevealedUntilNoted ==
  [][modal.op = "reveal" /\ modal' # modal => NoteSecret]_tableVars

(* An answer closes the dialog it was sent from, not one opened since.     *)
AnswerClosesItsOwnDialog ==
  [][Delivered /\ modal.op # "none" /\ modal' = NoModal =>
       modal.op = Request.kind /\ modal.row = Request.row]_tableVars

(* "Desactiver" deactivates: pressed twice, or on a page that is late, it  *)
(* does the contrary.                                                      *)
ToggleDoesWhatItSays ==
  [][InFlight("toggle", "sent") /\ moves' # moves /\ sending' # sending =>
       rows'[Request.row].actif = ~Request.shows.actif]_tableVars

(* What was typed is what an accepted edit writes, an empty field as well: *)
(* the country of an entite stays, and the dialog closes.                  *)
EmptiedIsWritten ==
  [][EditDone => \A f \in DOMAIN Request.typed \ RequestForm.needs :
       rows'[Request.row].values[f] = Request.typed[f]]_tableVars

(* An edit leaves what its user did not touch: the forms that send all of  *)
(* a row undo what was written meanwhile, as the consumption that a        *)
(* healthcheck has imported.                                               *)
UntouchedKept ==
  [][EditDone => \A f \in DOMAIN Target.values \ DOMAIN Request.typed :
       rows'[Request.row].values[f] = Target.values[f]]_tableVars

(* "Retirer d'abord les articles attaches": a produit leaves a licence     *)
(* after its articles.  Only the page looks, and it may be late.           *)
ArticleHasItsProduit ==
  table = "articles" => \A p \in PartRow : rows[p] # Gone => rows[PartOf[p]] # Gone
=============================================================================
