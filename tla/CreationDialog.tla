--------------------------- MODULE CreationDialog ---------------------------
(***************************************************************************)
(* "Nouveau client": ClientDialog in creation.  The fields are mounted     *)
(* with the dialog and go with it; the contacts of the Siege and the text  *)
(* of the refusal are states of a component that is never unmounted.  The  *)
(* code of a client of lic_clients_ref fills an empty raison sociale.      *)
(***************************************************************************)
EXTENDS Browser

LOCAL INSTANCE SequencesExt

CONSTANTS
  ClientCode,   \* the codes a user may give
  KnownName,    \* the raison sociale of lic_clients_ref, by code
  OtherName,    \* another one
  NoName,       \* the empty field
  MaxContacts,  \* MAX_CONTACTS_AT_CREATION
  MaxDrafted    \* bound: contacts added to the form

ASSUME CreationAssumption ==
  /\ DOMAIN KnownName \subseteq ClientCode
  /\ MaxContacts \in Nat

VARIABLES
  creating,   \* the dialog is open
  entry,      \* its fields; typed is the name its user gave, if any
  contacts,   \* the contacts of the form, in their order
  drafted,    \* contacts added so far
  refusal,    \* a refusal is on show, or will be when the dialog opens
  registered  \* the clients created, by code

creationOwn == <<creating, entry, contacts, drafted, refusal, registered>>

EmptyEntry == [code |-> NoName, name |-> NoName, typed |-> NoName]

CreationInit ==
  /\ creating = FALSE /\ entry = EmptyEntry
  /\ contacts = <<>> /\ drafted = 0
  /\ refusal = FALSE
  /\ registered = <<>>

-----------------------------------------------------------------------------
(* What the user does.                                                     *)
FormStays == UNCHANGED <<refusal, registered, sending, lost>>

OpenCreation ==
  /\ ~creating
  /\ creating' = TRUE
  /\ UNCHANGED <<entry, contacts, drafted>> /\ FormStays

CloseCreation ==
  /\ creating
  /\ creating' = FALSE /\ entry' = EmptyEntry
  /\ UNCHANGED <<contacts, drafted>> /\ FormStays

(* Mutant: the name of the code is taken whatever the field holds.         *)
TypeCodeFills(code) ==
  /\ creating /\ code # entry.code
  /\ entry' = [entry EXCEPT !.code = code,
                 !.name = IF code \in DOMAIN KnownName THEN KnownName[code] ELSE @]
  /\ UNCHANGED <<creating, contacts, drafted>> /\ FormStays

(* handleCodeClientChange.                                                 *)
TypeCode(code) ==
  /\ creating /\ code # entry.code
  /\ entry' = [entry EXCEPT !.code = code,
                 !.name = IF @ = NoName /\ code \in DOMAIN KnownName THEN KnownName[code] ELSE @]
  /\ UNCHANGED <<creating, contacts, drafted>> /\ FormStays

TypeName(name) ==
  /\ creating /\ name # entry.name
  /\ entry' = [entry EXCEPT !.name = name, !.typed = name]
  /\ UNCHANGED <<creating, contacts, drafted>> /\ FormStays

(* A contact is added without a nom, ...                                   *)
AddContact ==
  /\ creating /\ Len(contacts) < MaxContacts /\ drafted < MaxDrafted
  /\ contacts' = Append(contacts, [id |-> drafted + 1, named |-> FALSE])
  /\ drafted' = drafted + 1
  /\ UNCHANGED <<creating, entry>> /\ FormStays

(* ... which is typed, ...                                                 *)
NameContact(i) ==
  /\ creating /\ ~contacts[i].named
  /\ contacts' = [contacts EXCEPT ![i].named = TRUE]
  /\ UNCHANGED <<creating, entry, drafted>> /\ FormStays

(* ... or taken out of the form.                                           *)
RemoveContact(i) ==
  /\ creating
  /\ contacts' = RemoveAt(contacts, i)
  /\ UNCHANGED <<creating, entry, drafted>> /\ FormStays

Named(list) == {list[i].id : i \in {j \in DOMAIN list : list[j].named}}

(* onSubmit: the contacts without a nom are left out.                      *)
SubmitCreation ==
  /\ creating /\ entry.code # NoName /\ entry.name # NoName
  /\ CanSend
  /\ sending' = Sent([kind |-> "client", entry |-> entry, contacts |-> Named(contacts),
                      form |-> contacts])
  /\ UNCHANGED <<creating, entry, contacts, drafted, refusal, registered, lost>>

-----------------------------------------------------------------------------
(* createClientAction: one transaction, refused when the code is taken.    *)
ServeCreation ==
  /\ InFlight("client", "sent")
  /\ LET r == sending[1]
         code == r.entry.code
     IN  IF code \in DOMAIN registered
         THEN Becomes(Refused(r)) /\ UNCHANGED registered
         ELSE /\ registered' =
                   Over([c \in {code} |-> [name |-> r.entry.name, contacts |-> r.contacts]], registered)
              /\ Becomes(Accepted(r, <<>>))
  /\ UNCHANGED <<creating, entry, contacts, drafted, refusal, lost>>

(* Mutant: the form is emptied whatever the answer.                        *)
DeliverCreationEmpties ==
  /\ Answered("client")
  /\ refusal' = ~sending[1].ok
  /\ IF sending[1].ok THEN creating' = FALSE /\ entry' = EmptyEntry
     ELSE UNCHANGED <<creating, entry>>
  /\ contacts' = <<>>
  /\ sending' = Tail(sending)
  /\ UNCHANGED <<drafted, registered, lost>>

(* The text of a refusal goes with the next success; the contacts stay.    *)
DeliverCreation ==
  /\ Answered("client")
  /\ refusal' = ~sending[1].ok
  /\ IF sending[1].ok THEN creating' = FALSE /\ entry' = EmptyEntry
     ELSE UNCHANGED <<creating, entry>>
  /\ sending' = Tail(sending)
  /\ UNCHANGED <<contacts, drafted, registered, lost>>

CreationNext ==
  \/ OpenCreation \/ CloseCreation \/ AddContact \/ SubmitCreation
  \/ \E code \in ClientCode : TypeCode(code)
  \/ \E name \in {NoName, OtherName} : TypeName(name)
  \/ \E i \in DOMAIN contacts : NameContact(i) \/ RemoveContact(i)
  \/ ServeCreation
  \/ FailRequest /\ UNCHANGED creationOwn
  \/ LoseAnswer /\ UNCHANGED creationOwn
  \/ DeliverCreation

CreationSpec == CreationInit /\ BrowserInit /\ [][CreationNext]_<<creationOwn, browserVars>>

-----------------------------------------------------------------------------
Registers(code) == code \in DOMAIN registered' \ DOMAIN registered

(* A client is created with what its form held when it was submitted,      *)
(* whatever was typed, removed or opened since: the name its user gave,    *)
(* every contact with a nom, and none that had been taken out.  No answer  *)
(* and no closing takes a contact out of the form: a creation that is      *)
(* refused can be submitted again as it was.                               *)
CreationExact ==
  [][/\ \A code \in ClientCode : Registers(code) =>
          LET r == sending[1] IN
          /\ r.entry.code = code
          /\ r.entry.typed # NoName => registered'[code].name = r.entry.typed
          /\ registered'[code].contacts = Named(r.form)
     /\ Len(contacts') < Len(contacts) => UNCHANGED <<sending, creating>>]_<<creationOwn, browserVars>>

-----------------------------------------------------------------------------
(* What comments promise and the steps refute.                             *)

(* "Tous les contacts sont attaches a l'entite Siege": of one client.  The *)
(* contacts are in the form of the next one too, and created again.        *)
ContactOfOneClient ==
  \A a, b \in DOMAIN registered : a # b =>
    registered[a].contacts \cap registered[b].contacts = {}

(* "pre-remplir quand un code du referentiel est selectionne": a name that *)
(* was filled in is that of the code.  Another code leaves the first name. *)
NameOfCode ==
  \A code \in DOMAIN registered \cap DOMAIN KnownName :
    registered[code].name \in {KnownName[code], OtherName}

(* A creation that is refused has created nothing: that of a second click  *)
(* is refused because the first one was accepted.                          *)
RefusalMeansNotCreated ==
  refusal /\ creating /\ entry # EmptyEntry => entry.code \notin DOMAIN registered

(* A dialog that opens shows no refusal: it may show that of the last one. *)
OpensWithoutRefusal == [][creating' /\ ~creating => ~refusal]_creationOwn
=============================================================================
