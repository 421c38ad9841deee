----------------------------- MODULE MCScreens -----------------------------
(* The creation wizard, the dialogs that edit a client or a licence, that  *)
(* of an import and that of a new client, the pages of rows, the lists     *)
(* fetched bit by bit, the pages filtered by their URL and the reload of   *)
(* the demonstration data are a scene each.                                *)
EXTENDS DemoData, LicenceWizard, EditDialogs, ImportDialog, CreationDialog,
        TableScreens, AsyncLists, FilteredPages

CONSTANTS ca, cb, ea, eb, m1, m2, s1, ta, tb

VARIABLE scene

MCEntiteOwner == (ea :> ca) @@ (eb :> cb)

MCWizardPeriod == {[debut |-> 0, fin |-> 1], [debut |-> 1, fin |-> 0]}

MCWizardProduit == [a \in WizardArticle |-> "p"]

MCChamp ==
  [licence |-> {"dateFin", "commentaire"}, client |-> {"telContact", "codePays"},
   clients |-> {"telContact", "codePays"}]

MCPartOf == (s1 :> m1)

MCWatched ==
  [regions |-> {"nom", "dmResponsable"}, pays |-> {"regionCode"}, devises |-> {"symbole"},
   langues |-> {"nom"}, typesContact |-> {"libelle"}, teamMembers |-> {"email"},
   catalogues |-> {"nom"}, users |-> {"nom"}, articles |-> {"volumeAutorise", "volumeConsomme"},
   renouvellements |-> {"commentaire"}, entites |-> {"nom", "codePays"},
   contacts |-> {"email"}, alerts |-> {"seuil"}]

MCFileKey == [f1 |-> "k", f2 |-> "k", f3 |-> "k", f4 |-> "l"]

MCFileForm == [f1 |-> "json", f2 |-> "json", f3 |-> "csv", f4 |-> "csv"]

MCFileLine == [f1 |-> 1, f2 |-> Absent, f3 |-> Absent, f4 |-> 2]

MCKnownName == ("c1" :> "r1")

(* Of the notifications two have one millisecond, of the renewals none; of *)
(* those one has no microseconds.                                          *)
MCCreatedAt == [audit |-> <<2, 2, 2>>, renewals |-> <<1, 2, 4>>, notifications |-> <<3, 3, 4>>]

wizardOwn == <<wizard, made, removed>>
editOwn == <<screen, fiche, shown, dialog, newStatus>>
tableOwn == <<table, rows, seen, modal, secret, moves, behind>>
listOwn == <<place, entries, written, feeds, drill, resolved, late, mixed, outdated>>
dialogsOwn == <<editOwn, importOwn, creationOwn>>
screenVars == <<wizardOwn, dialogsOwn, tableOwn, listOwn>>

(* The clients among three rows at most, the other pages among two.        *)
FewTagged == walkPage # "clients" => Len(tagged) <= 2

(* The newest row comes last, or the second of three does.                 *)
Ranks == {1 .. n : n \in 0 .. MaxEntries} \cup {{1, 3}}

MCInit ==
  /\ scene \in {"demo", "wizard", "edit", "import", "creation", "table", "list", "walk"}
  /\ DemoInit /\ WizardInit /\ CreationInit
  /\ EditInit /\ (scene # "edit" => screen = "licence")
  /\ ImportInit /\ (scene # "import" => hcKey = "k")
  /\ TableInit /\ (scene # "table" => table = "langues")
  /\ ListInit /\ written \in Ranks
  /\ IF scene = "list" THEN ListStarts ELSE written = {} /\ place = "audit"
  /\ IF scene = "wizard" THEN WizardStarts ELSE scene # "list" => BrowserInit
  /\ WalkInit /\ offered = {ta} /\ FewTagged
  /\ scene # "walk" => walkPage = "files" /\ tagged = <<>> /\ choice = NoFilter /\ Current.filter = NoFilter

(* Two requests wait at most, and two only while no answer is lost.        *)
FewRequests == Len(sending') <= 2 /\ (Len(sending') = 2 => lost' = 0)

(* One form of a page of rows at a time is on its way.                     *)
OneForm ==
  /\ FewRequests
  /\ Cardinality({i \in DOMAIN sending' : sending'[i].kind \in {"create", "edit"}}) <= 1

(* Two creations are on their way of forms with one contact at most, and   *)
(* no answer is lost to a form with two contacts.                          *)
FewDrafts ==
  /\ FewRequests
  /\ Len(sending') = 2 => drafted' <= 1
  /\ drafted' = 2 => lost' = 0

(* Of three rows one request at a time, none lost and none of the bell;    *)
(* of fewer a second one may follow, which marks or is of a search.        *)
FewRows ==
  /\ written' \in Ranks
  /\ 3 \in written' =>
       lost' = 0 /\ (sending' = <<>> \/ (Len(sending') = 1 /\ sending'[1].list # "bell"))
  /\ FewRequests
  /\ Len(sending') = 2 => place # "notifications" \/ sending'[2].kind \in {"mark", "markAll"}

(* One row is new or has another tag.                                      *)
FewChanges == Cardinality(DOMAIN tagged' \ steady') <= 1 /\ FewTagged'

MCNext ==
  /\ UNCHANGED scene
  /\ \/ /\ scene = "demo" /\ DemoNext
        /\ UNCHANGED <<screenVars, browserVars, walkVars>>
     \/ /\ scene = "wizard" /\ WizardNext /\ FewRequests
        /\ UNCHANGED <<demoVars, dialogsOwn, tableOwn, listOwn, walkVars>>
     \/ /\ scene = "edit" /\ EditNext /\ FewRequests
        /\ UNCHANGED <<demoVars, wizardOwn, importOwn, creationOwn, tableOwn, listOwn, walkVars>>
     \/ /\ scene = "import" /\ ImportNext /\ Len(sending') <= 2
        /\ UNCHANGED <<demoVars, wizardOwn, editOwn, creationOwn, tableOwn, listOwn, walkVars>>
     \/ /\ scene = "creation" /\ CreationNext /\ FewDrafts
        /\ UNCHANGED <<demoVars, wizardOwn, editOwn, importOwn, tableOwn, listOwn, walkVars>>
     \/ /\ scene = "table" /\ TableNext /\ OneForm
        /\ UNCHANGED <<demoVars, wizardOwn, dialogsOwn, listOwn, walkVars>>
     \/ /\ scene = "list" /\ ListNext /\ FewRows
        /\ UNCHANGED <<demoVars, wizardOwn, dialogsOwn, tableOwn, walkVars>>
     \/ /\ scene = "walk" /\ WalkNext /\ FewChanges
        /\ UNCHANGED <<demoVars, screenVars, browserVars>>

MCSpec == MCInit /\ [][MCNext]_<<demoVars, screenVars, browserVars, walkVars, scene>>

-----------------------------------------------------------------------------
(* What a dialog submits is what its user saw and typed: the edits of a    *)
(* client or a licence (EditDialog, ClientDialog), the import of a         *)
(* healthcheck (ImportHealthcheckButton), the creation of a client and the *)
(* dialogs of the pages of rows.                                           *)
DialogsExact ==
  EditsExact /\ PreviewIsKept /\ PanelTellsImport /\ CreationExact /\ TablesExact
=============================================================================
