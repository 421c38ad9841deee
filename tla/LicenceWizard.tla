--------------------------- MODULE LicenceWizard ---------------------------
(***************************************************************************)
(* The three-step dialog that creates a licence (NewLicenceDialog), in one *)
(* browser, with the server actions it calls (licences/_actions.ts).       *)
(*                                                                         *)
(* The user goes on while requests wait or are in flight.  A React effect  *)
(* runs after the event that changes what it depends on; its cleanup marks *)
(* its pending request as cancelled.                                       *)
(***************************************************************************)
EXTENDS Browser

CONSTANTS
  Client, NoClient, Entite, NoEntite,
  EntiteOwner,     \* the client of each entite
  LockedClient,    \* the client of the page, or NoClient on /licences
  WizardArticle,   \* the articles the page was rendered with
  WizardProduit,   \* the produit of each
  Controlled,      \* the articles with controleVolume
  AskedVolume,     \* what is typed as a volume, BadVolume included
  BadVolume, Unchecked,
  WizardPeriod,    \* the periods that are typed, [debut, fin]
  MaxMade          \* bound: licences created

ASSUME WizardAssumption ==
  /\ NoClient \notin Client /\ LockedClient \in Client \cup {NoClient}
  /\ NoEntite \notin Entite /\ EntiteOwner \in [Entite -> Client]
  /\ Unchecked \notin AskedVolume /\ Controlled \subseteq WizardArticle
  /\ WizardPeriod \subseteq [debut : Nat, fin : Nat]

VARIABLES
  wizard,    \* the state of the dialog
  made,      \* the licences created, in order
  removed    \* the articles since deleted from the catalogue

wizardVars == <<wizard, sending, made, removed, lost>>

DefaultPeriod == CHOOSE p \in WizardPeriod : p.debut < p.fin

(* resetAll.                                                               *)
ResetWizard ==
  [open |-> FALSE, step |-> 1, client |-> LockedClient, entites |-> {},
   entite |-> NoEntite, period |-> DefaultPeriod,
   chosen |-> [a \in WizardArticle |-> Unchecked],
   doublons |-> {}, checking |-> FALSE, failures |-> {}, error |-> FALSE,
   known |-> 0]  \* history: licences there were at the last check, or -1

ListRequest(c) == [kind |-> "list", at |-> "sent", live |-> TRUE, client |-> c]

CheckRequest(w) ==
  [kind |-> "check", at |-> "sent", live |-> TRUE, client |-> w.client,
   entite |-> w.entite, period |-> w.period]

(* The cleanup of an effect.                                               *)
Cancel(requests, kind) ==
  [i \in DOMAIN requests |->
     IF requests[i].kind = kind THEN [requests[i] EXCEPT !.live = FALSE]
                                ELSE requests[i]]

(* useEffect on [clientId].                                                *)
AfterClient(old, w, requests) ==
  IF w.client = old.client THEN [wizard |-> w, sending |-> requests]
  ELSE IF w.client = NoClient
  THEN [wizard |-> [w EXCEPT !.entites = {}, !.entite = NoEntite],
        sending |-> Cancel(requests, "list")]
  ELSE [wizard |-> w,
        sending |-> Append(Cancel(requests, "list"), ListRequest(w.client))]

(* useEffect on [step, clientId, entiteId, dateDebut, dateFin].            *)
RecapKey(w) == <<w.step, w.client, w.entite, w.period>>

AfterRecap(old, s) ==
  IF RecapKey(s.wizard) = RecapKey(old) THEN s
  ELSE IF s.wizard.step # 3 \/ s.wizard.client = NoClient \/ s.wizard.entite = NoEntite
  THEN [s EXCEPT !.sending = Cancel(@, "check")]
  ELSE [wizard |-> [s.wizard EXCEPT !.checking = TRUE],
        sending |-> Append(Cancel(s.sending, "check"), CheckRequest(s.wizard))]

(* The dialog becomes w: it renders and its effects run.                   *)
Renders(w, requests) ==
  LET s == AfterRecap(wizard, AfterClient(wizard, w, requests))
  IN  wizard' = s.wizard /\ sending' = s.sending

-----------------------------------------------------------------------------
(* What the user does.                                                     *)
UserActs(w) ==
  /\ CanSend
  /\ Renders(w, sending)
  /\ UNCHANGED <<made, removed, lost>>

OpenWizard == ~wizard.open /\ UserActs([wizard EXCEPT !.open = TRUE])

CloseWizard == wizard.open /\ UserActs(ResetWizard)

AtStep(n) == wizard.open /\ wizard.step = n

SelectClient(c) ==
  /\ AtStep(1) /\ LockedClient = NoClient
  /\ UserActs([wizard EXCEPT !.client = c])

SelectEntite(e) ==
  AtStep(1) /\ e \in wizard.entites /\ UserActs([wizard EXCEPT !.entite = e])

SetPeriod(p) == AtStep(1) /\ UserActs([wizard EXCEPT !.period = p])

SelectArticle(a, v) ==
  /\ AtStep(2) /\ (v = BadVolume => a \in Controlled)
  /\ UserActs([wizard EXCEPT !.chosen[a] = v])

ValidStep1(w) ==
  w.client # NoClient /\ w.entite # NoEntite /\ w.period.debut < w.period.fin

Selected(w) == {a \in WizardArticle : w.chosen[a] # Unchecked}

ValidStep2(w) ==
  /\ Selected(w) # {}
  /\ \A a \in Selected(w) \cap Controlled : w.chosen[a] # BadVolume

NextStep ==
  \/ /\ AtStep(1)
     /\ UserActs(IF ValidStep1(wizard) THEN [wizard EXCEPT !.step = 2, !.error = FALSE]
                                       ELSE [wizard EXCEPT !.error = TRUE])
  \/ /\ AtStep(2)
     /\ UserActs(IF ValidStep2(wizard) THEN [wizard EXCEPT !.step = 3, !.error = FALSE]
                                       ELSE [wizard EXCEPT !.error = TRUE])

PreviousStep ==
  \/ AtStep(2) /\ UserActs([wizard EXCEPT !.step = 1, !.error = FALSE])
  \/ AtStep(3) /\ UserActs([wizard EXCEPT !.step = 2, !.error = FALSE])

(* The payload of createLicenceFullAction.  History: whether the entites   *)
(* of the client were there when the button was pressed.                   *)
CreateRequest(w) ==
  [kind |-> "create", at |-> "sent", live |-> TRUE,
   client |-> w.client, entite |-> w.entite, period |-> w.period,
   asked |-> [a \in Selected(w) |-> IF a \in Controlled THEN w.chosen[a] ELSE Unchecked],
   settled |-> \A i \in DOMAIN sending : sending[i].kind = "list" => ~sending[i].live]

CreationsAsked ==
  Len(made) + Cardinality({i \in DOMAIN sending :
                             sending[i].kind = "create" /\ sending[i].at = "sent"})

(* onCreate.                                                               *)
PressCreate ==
  /\ AtStep(3)
  /\ CanSend /\ CreationsAsked < MaxMade
  /\ IF ~ValidStep1(wizard)
     THEN Renders([wizard EXCEPT !.error = TRUE, !.step = 1], sending)
     ELSE Renders([wizard EXCEPT !.error = FALSE], Append(sending, CreateRequest(wizard)))
  /\ UNCHANGED <<made, removed, lost>>

-----------------------------------------------------------------------------
(* What the server does with the request in flight.                        *)
Serves(request) ==
  Becomes(request) /\ UNCHANGED <<wizard, removed>>

(* listEntitesForClientAction.                                             *)
ServeList ==
  /\ InFlight("list", "sent")
  /\ Serves(Accepted(sending[1],
            [entites |-> {e \in Entite : EntiteOwner[e] = sending[1].client}]))
  /\ UNCHANGED <<made, lost>>

(* checkLicenceDoublonAction: the licences of the client and entite whose  *)
(* period meets the one asked.                                             *)
Doublons(request, n) ==
  {i \in 1 .. n :
     /\ made[i].client = request.client /\ made[i].entite = request.entite
     /\ made[i].period.debut <= request.period.fin
     /\ made[i].period.fin >= request.period.debut}

ServeCheck ==
  /\ InFlight("check", "sent")
  /\ Serves(Accepted(sending[1],
            [doublons |-> Doublons(sending[1], Len(made)), known |-> Len(made)]))
  /\ UNCHANGED <<made, lost>>

(* createLicenceFullAction: the licence, which CreateLicenceUseCase gives  *)
(* the entite it is told, ...                                              *)
ServeCreate ==
  /\ InFlight("create", "sent")
  /\ made' = Append(made, [client |-> sending[1].client, entite |-> sending[1].entite,
                           period |-> sending[1].period, asked |-> sending[1].asked,
                           settled |-> sending[1].settled,
                           produits |-> {}, articles |-> <<>>, told |-> Unchecked])
  /\ Serves(Over([sending[1] EXCEPT !.at = "produits"],
            [produits |-> {WizardProduit[a] : a \in DOMAIN sending[1].asked},
             todo |-> DOMAIN sending[1].asked, missing |-> {}]))
  /\ UNCHANGED lost

Last == Len(made)

(* ... its produits, of which a failure is passed over in silence, ...     *)
AttachProduit(p) ==
  /\ InFlight("create", "produits") /\ p \in sending[1].produits
  /\ Serves([sending[1] EXCEPT !.produits = @ \ {p}])
  /\ \/ /\ made' = [made EXCEPT ![Last].produits = @ \cup {p}]
        /\ UNCHANGED lost
     \/ /\ Fails
        /\ UNCHANGED made

ProduitsAttached ==
  /\ InFlight("create", "produits") /\ sending[1].produits = {}
  /\ Serves([sending[1] EXCEPT !.at = "articles"])
  /\ UNCHANGED <<made, lost>>

(* ... and its articles, each a transaction of its own, of which a failure *)
(* is put on the list of the answer.                                       *)
Attached(a) == Over(made[Last].articles, [x \in {a} |-> sending[1].asked[a]])

AttachArticle(a) ==
  /\ InFlight("create", "articles") /\ a \in sending[1].todo
  /\ \/ /\ a \notin removed
        /\ made' = [made EXCEPT ![Last].articles = Attached(a)]
        /\ Serves([sending[1] EXCEPT !.todo = @ \ {a}])
        /\ UNCHANGED lost
     \/ /\ IF a \in removed THEN UNCHANGED lost
           ELSE Fails
        /\ Serves([sending[1] EXCEPT !.todo = @ \ {a}, !.missing = @ \cup {a}])
        /\ UNCHANGED made

AnswerCreate ==
  /\ InFlight("create", "articles") /\ sending[1].todo = {}
  /\ Serves(Accepted(sending[1], <<>>))
  /\ UNCHANGED <<made, lost>>

(* An administrator deletes an article that no licence holds.              *)
RemoveFromCatalogue(a) ==
  /\ \A i \in DOMAIN made : a \notin DOMAIN made[i].articles
  /\ removed' = removed \cup {a} /\ a \notin removed
  /\ UNCHANGED <<wizard, sending, made, lost>>

-----------------------------------------------------------------------------
(* The answer reaches the browser.                                         *)
(* Mutant: the entite already chosen is kept.                              *)
DeliverListKeeping ==
  /\ Answered("list")
  /\ LET r == sending[1] IN
     IF ~r.live THEN Renders(wizard, Tail(sending))
     ELSE IF ~r.ok
     THEN Renders([wizard EXCEPT !.error = TRUE, !.entites = {}, !.entite = NoEntite],
                  Tail(sending))
     ELSE \E e \in IF wizard.entite # NoEntite THEN {wizard.entite}
                   ELSE IF r.entites = {} THEN {NoEntite} ELSE r.entites :
            Renders([wizard EXCEPT !.entites = r.entites, !.entite = e], Tail(sending))
  /\ UNCHANGED <<made, removed, lost>>

(* The first entite of the list is chosen, whichever it is.                *)
DeliverList ==
  /\ Answered("list")
  /\ LET r == sending[1] IN
     IF ~r.live THEN Renders(wizard, Tail(sending))
     ELSE IF ~r.ok
     THEN Renders([wizard EXCEPT !.error = TRUE, !.entites = {}, !.entite = NoEntite],
                  Tail(sending))
     ELSE \E e \in IF r.entites = {} THEN {NoEntite} ELSE r.entites :
            Renders([wizard EXCEPT !.entites = r.entites, !.entite = e], Tail(sending))
  /\ UNCHANGED <<made, removed, lost>>

DeliverCheck ==
  /\ Answered("check")
  /\ LET r == sending[1]
         w == IF r.ok THEN [wizard EXCEPT !.doublons = r.doublons, !.known = r.known]
              ELSE [wizard EXCEPT !.error = TRUE, !.doublons = {}, !.known = -1]
     IN Renders(IF r.live THEN [w EXCEPT !.checking = FALSE] ELSE wizard, Tail(sending))
  /\ UNCHANGED <<made, removed, lost>>

(* The dialog is closed, whatever it shows by then, unless something is    *)
(* missing.                                                                *)
DeliverCreate ==
  /\ Answered("create")
  /\ LET r == sending[1] IN
     /\ Renders(CASE ~r.ok -> [wizard EXCEPT !.error = TRUE]
                  [] r.ok /\ r.missing # {} -> [wizard EXCEPT !.failures = r.missing]
                  [] OTHER -> ResetWizard, Tail(sending))
     /\ made' = IF r.ok THEN [made EXCEPT ![Last].told = r.missing] ELSE made
  /\ UNCHANGED <<removed, lost>>

WizardInit ==
  /\ wizard = ResetWizard
  /\ made = <<>> /\ removed = {}

(* The effect of a wizard that is given its client.                        *)
WizardStarts ==
  sending = (IF LockedClient = NoClient THEN <<>> ELSE <<ListRequest(LockedClient)>>) /\ lost = 0

WizardNext ==
  \/ OpenWizard \/ CloseWizard
  \/ \E c \in Client : SelectClient(c)
  \/ \E e \in Entite : SelectEntite(e)
  \/ \E p \in WizardPeriod : SetPeriod(p)
  \/ \E a \in WizardArticle, v \in AskedVolume \cup {Unchecked} : SelectArticle(a, v)
  \/ NextStep \/ PreviousStep \/ PressCreate
  \/ ServeList \/ ServeCheck \/ ServeCreate
  \/ (FailRequest \/ LoseAnswer) /\ UNCHANGED <<wizard, made, removed>>
  \/ \E a \in WizardArticle : AttachProduit(WizardProduit[a]) \/ AttachArticle(a)
  \/ ProduitsAttached \/ AnswerCreate
  \/ \E a \in WizardArticle : RemoveFromCatalogue(a)
  \/ DeliverList \/ DeliverCheck \/ DeliverCreate

WizardSpec == WizardInit /\ WizardStarts /\ [][WizardNext]_wizardVars

-----------------------------------------------------------------------------
(* A licence has the entite of another client only if its button was       *)
(* pressed while the entites of the client were still being fetched.       *)
SettledEntite ==
  \A i \in DOMAIN made : made[i].settled => EntiteOwner[made[i].entite] = made[i].client

(* Once the browser has the answer, each article that was ticked is        *)
(* attached with the volume typed, or on the list of what is missing, and  *)
(* nothing else is attached.                                               *)
NothingUntold ==
  \A i \in DOMAIN made : made[i].told # Unchecked =>
    /\ DOMAIN made[i].articles \cap made[i].told = {}
    /\ DOMAIN made[i].articles \cup made[i].told = DOMAIN made[i].asked
    /\ \A a \in DOMAIN made[i].articles : made[i].articles[a] = made[i].asked[a]

(* The last step warns of the licences that overlap the one it sums up, as *)
(* of its last check, whatever was changed on the way or arrived late.     *)
RecapWarns ==
  AtStep(3) /\ ValidStep1(wizard) /\ ~wizard.checking /\ wizard.known # -1 =>
    wizard.doublons = Doublons(wizard, wizard.known)

(* The wizard creates what its last step shows and tells what it could not *)
(* do, if its user waits for the entites.                                  *)
WizardExact == SettledEntite /\ NothingUntold /\ RecapWarns

-----------------------------------------------------------------------------
(* What comments promise and the steps refute.                             *)

(* "Une entite appartient a un seul client": the licence of a client is    *)
(* for one of its entites.  The client may be changed and the next steps   *)
(* reached while the entite is still that of the client before.            *)
EntiteOfClient == \A i \in DOMAIN made : EntiteOwner[made[i].entite] = made[i].client

(* "1 spinner, 1 resultat": no second licence while the first is being     *)
(* created.  The button is not disabled meanwhile.                         *)
OneCreationAtATime ==
  Cardinality({i \in DOMAIN sending : sending[i].kind = "create"}) <= 1

(* "l'erreur d'article suivant la capturera": an article is not attached   *)
(* without its produit unless the answer says so.                          *)
ProduitOfArticle ==
  \A i \in DOMAIN made : made[i].told = {} =>
    \A a \in DOMAIN made[i].articles : WizardProduit[a] \in made[i].produits

(* "pre-selectionne": an open wizard on the page of a client has its       *)
(* entites, or is fetching them.  Closing it once empties the list for     *)
(* good, since the client does not change.                                 *)
LockedClientUsable ==
  wizard.open /\ LockedClient # NoClient =>
    \/ wizard.entites # {} \/ wizard.error
    \/ \E i \in DOMAIN sending : sending[i].kind = "list" /\ sending[i].live
=============================================================================
