---------------------------- MODULE Clients_proofs ----------------------------
(***************************************************************************)
(* Proofs about ClientLifecycle and Dossier: clients, their entites and    *)
(* their contacts, for any sets of rows, sessions, codes, names and        *)
(* profile columns, any inputs and any bounds.                             *)
(***************************************************************************)
EXTENDS ClientLifecycle, Dossier, TLAPS

-----------------------------------------------------------------------------
(***************************************************************************)
(* ClientLifecycle: types, lock, log and refinement.                       *)
(***************************************************************************)

(* A session that is not idle holds a transaction of its operation.        *)
LEMMA ClientTransactionOf ==
  ASSUME NEW t \in ClientTransaction
  PROVE  /\ t.op \in {"updateClient", "changeStatut"} => t \in WriteTx
         /\ t.op = "create" => t \in CreateTx
         /\ t.op = "idle" => t = ClientIdle
BY DEF ClientTransaction, ClientIdle, WriteTx, CreateTx

LEMMA ClientRowExt ==
  ASSUME NEW r \in ClientRow, NEW s \in ClientRow,
         r.code = s.code, r.raison = s.raison, r.profile = s.profile,
         r.statut = s.statut, r.certified = s.certified, r.version = s.version
  PROVE  r = s
BY DEF ClientRow

(* What the with* methods and the INSERT make of valid input is a row.     *)
LEMMA NewClientRow ==
  ASSUME NEW input \in ClientInput, ValidClientInput(input)
  PROVE  /\ NewClient(input) \in ClientRow
         /\ NewClient(input).version = 0
         /\ NewClient(input).certified
         /\ NewClient(input).code = input.code
         /\ NewClient(input).statut = input.statut
<1>1. input.profile \in Profile
  BY ValueAssumption DEF ClientInput, ValidClientInput, Profile
<1>2. input.code \in Code \ Malformed /\ input.raison \in Name \ Malformed
  BY DEF ClientInput, ValidClientInput
<1> QED
  BY <1>1, <1>2 DEF NewClient, ClientRow, ClientInput

LEMMA ProfileRow ==
  ASSUME NEW row \in ClientRow, NEW patch \in ClientPatch, ValidClientPatch(patch)
  PROVE  LET patched == WithClientProfile(row, patch)
         IN  /\ patched \in ClientRow
             /\ patched.version = row.version
             /\ patched.statut = row.statut
             /\ patched.code = row.code
             /\ patched.certified = row.certified
<1> DEFINE raison == IF patch.raison = Keep THEN row.raison ELSE patch.raison
           profile == [f \in Field |-> IF patch.profile[f] = Keep THEN row.profile[f]
                                       ELSE patch.profile[f]]
<1>1. raison \in Name \ Malformed
  BY DEF ClientRow, ClientPatch, ValidClientPatch
<1>2. profile \in Profile
  BY ValueAssumption DEF ClientRow, ClientPatch, ValidClientPatch, Profile
<1>3. WithClientProfile(row, patch)
        = [row EXCEPT !.raison = raison, !.profile = profile]
  BY DEF WithClientProfile
<1> HIDE DEF raison, profile
<1> QED
  BY <1>1, <1>2, <1>3 DEF ClientRow

LEMMA StatutRow ==
  ASSUME NEW row \in ClientRow, NEW statut \in ClientStatut
  PROVE  /\ WithStatut(row, statut) \in ClientRow
         /\ WithStatut(row, statut).version = row.version
         /\ WithStatut(row, statut).statut = statut
BY DEF WithStatut, ClientRow

-----------------------------------------------------------------------------
(* What each step that begins a write puts in its session.                 *)
LEMMA BeginUpdateTx ==
  ASSUME ClientTypeOK, NEW q \in ClientSession, NEW c \in Client,
         BeginUpdateClient(q, c)
  PROVE  \E tx \in WriteTx :
           OpenClient(q, tx) /\ WriteOpen(tx)
<1>1. PICK expected \in ClientPageVersion(c), patch \in PatchInput :
        /\ ValidClientPatch(patch)
        /\ OpenClient(q, [op |-> "updateClient", client |-> c,
                          expected |-> expected, seen |-> clients[c],
                          patched |-> WithClientProfile(clients[c], patch)])
  BY DEF BeginUpdateClient
<1> DEFINE patched == WithClientProfile(clients[c], patch)
           tx == [op |-> "updateClient", client |-> c, expected |-> expected,
                  seen |-> clients[c], patched |-> patched]
<1>2. Known(c) /\ clients[c] \in ClientRow
  BY DEF BeginUpdateClient, Known, ClientTypeOK
<1>3. /\ patched \in ClientRow
      /\ patched.code = clients[c].code /\ patched.statut = clients[c].statut
  BY <1>1, <1>2, ProfileRow, ClientInputAssumption
<1>4. expected \in Nat /\ expected <= clients[c].version
  BY <1>2 DEF ClientPageVersion, ClientRow
<1> HIDE DEF patched
<1>5. tx \in WriteTx
  BY <1>2, <1>3, <1>4 DEF WriteTx
<1>6. WriteOpen(tx)
  BY <1>2, <1>3, <1>4 DEF WriteOpen, ClientRow
<1> QED
  BY <1>1, <1>5, <1>6 DEF patched

LEMMA BeginChangeTx ==
  ASSUME ClientTypeOK, NEW q \in ClientSession, NEW c \in Client,
         BeginChangeStatut(q, c)
  PROVE  \E tx \in WriteTx :
           OpenClient(q, tx) /\ WriteOpen(tx)
<1>1. PICK expected \in ClientPageVersion(c), statut \in ClientStatut :
        /\ ClientCanTransition(clients[c].statut, statut)
        /\ OpenClient(q, [op |-> "changeStatut", client |-> c,
                          expected |-> expected, seen |-> clients[c],
                          patched |-> WithStatut(clients[c], statut)])
  BY DEF BeginChangeStatut
<1> DEFINE patched == WithStatut(clients[c], statut)
           tx == [op |-> "changeStatut", client |-> c, expected |-> expected,
                  seen |-> clients[c], patched |-> patched]
<1>2. Known(c) /\ clients[c] \in ClientRow
  BY DEF BeginChangeStatut, Known, ClientTypeOK
<1>3. patched \in ClientRow /\ patched.statut = statut
  BY <1>2, StatutRow
<1>4. expected \in Nat /\ expected <= clients[c].version
  BY <1>2 DEF ClientPageVersion, ClientRow
<1>5. patched = WithStatut(clients[c], patched.statut)
  BY <1>3
<1> HIDE DEF patched
<1>6. tx \in WriteTx
  BY <1>2, <1>3, <1>4 DEF WriteTx
<1>7. WriteOpen(tx)
  BY <1>1, <1>2, <1>3, <1>4, <1>5 DEF WriteOpen, ClientRow
<1> QED
  BY <1>1, <1>6, <1>7 DEF patched

(* The one thing an UPDATE that matches does: the row of the table, with   *)
(* the columns its use case may change, one version later.                 *)
LEMMA CommitEffect ==
  ASSUME ClientTypeOK, WritesOpen, NEW q \in ClientSession, CommitClient(q)
  PROVE  LET tx == clientRequests[q]
             c  == tx.client
         IN  /\ tx \in WriteTx /\ c \in Client /\ Known(c)
             /\ tx.expected = clients[c].version
             /\ clients' = [clients EXCEPT ![c] = clients'[c]]
             /\ clients'[c] \in ClientRow
             /\ clients'[c].code = clients[c].code
             /\ clients'[c].certified = clients[c].certified
             /\ clients'[c].version = clients[c].version + 1
             /\ clients'[c].statut = tx.patched.statut
             /\ tx.seen.statut = clients[c].statut
             /\ tx.op = "updateClient" => clients'[c].statut = clients[c].statut
             /\ tx.op = "changeStatut" =>
                  /\ ClientCanTransition(clients[c].statut, clients'[c].statut)
                  /\ clients'[c].raison = clients[c].raison
                  /\ clients'[c].profile = clients[c].profile
<1> DEFINE tx == clientRequests[q]
           c  == tx.client
<1>1. tx \in WriteTx /\ tx.op \in {"updateClient", "changeStatut"}
  BY ClientTransactionOf DEF CommitClient, ClientTypeOK
<1>2. c \in Client /\ tx.seen \in ClientRow /\ tx.patched \in ClientRow
      /\ tx.expected \in Nat
  BY <1>1 DEF WriteTx
<1>3. WriteOpen(tx) /\ Known(c)
  BY <1>1 DEF WritesOpen, InWriteTx, WriteOpen
<1>4. clients[c] \in ClientRow
  BY <1>2, <1>3 DEF Known, ClientTypeOK
<1>5. tx.expected = clients[c].version
  BY DEF CommitClient, ClientVersionMatches
<1>6. Locked(tx.seen) = Locked(clients[c])
  BY <1>2, <1>3, <1>4, <1>5 DEF WriteOpen, ClientRow
<1>7. /\ tx.seen.code = clients[c].code /\ tx.seen.raison = clients[c].raison
      /\ tx.seen.profile = clients[c].profile
      /\ tx.seen.statut = clients[c].statut
  BY <1>2, <1>4, <1>6 DEF Locked, ClientRow
<1> DEFINE version == clients[c].version + 1
           certified == clients[c].certified
           row == [tx.patched EXCEPT !.version = version, !.certified = certified]
<1>8. version \in Nat /\ certified \in BOOLEAN
  BY <1>4 DEF ClientRow
<1>9. clients' = [clients EXCEPT ![c] = row]
  BY DEF CommitClient, SaveClient
<1> HIDE DEF version, certified
<1>10. /\ row \in ClientRow
       /\ row.code = tx.patched.code /\ row.raison = tx.patched.raison
       /\ row.profile = tx.patched.profile /\ row.statut = tx.patched.statut
       /\ row.version = version /\ row.certified = certified
  BY <1>2, <1>8 DEF ClientRow
<1>11. clients'[c] = row
  BY <1>2, <1>9 DEF ClientTypeOK
<1> HIDE DEF row
<1>12. clients' = [clients EXCEPT ![c] = clients'[c]]
  BY <1>9, <1>11
<1>13. CASE tx.op = "updateClient"
  <2>1. tx.patched.code = tx.seen.code /\ tx.patched.statut = tx.seen.statut
    BY <1>3, <1>13 DEF WriteOpen
  <2> QED
    BY <1>1, <1>2, <1>3, <1>5, <1>7, <1>10, <1>11, <1>12, <1>13, <2>1 DEF version, certified
<1>14. CASE tx.op = "changeStatut"
  <2>1. /\ ClientCanTransition(tx.seen.statut, tx.patched.statut)
        /\ tx.patched = WithStatut(tx.seen, tx.patched.statut)
    BY <1>3, <1>14 DEF WriteOpen
  <2>2. /\ tx.patched.code = tx.seen.code /\ tx.patched.raison = tx.seen.raison
        /\ tx.patched.profile = tx.seen.profile
    BY <1>2, <2>1 DEF WithStatut, ClientRow
  <2> QED
    BY <1>1, <1>2, <1>3, <1>5, <1>7, <1>10, <1>11, <1>12, <1>14, <2>1, <2>2
       DEF version, certified
<1> QED
  BY <1>1, <1>13, <1>14

(* The INSERT, when no row has the code.                                   *)
LEMMA CreateEffect ==
  ASSUME ClientTypeOK, NEW q \in ClientSession, NEW c \in Client,
         CommitCreateClient(q, c)
  PROVE  /\ ~Known(c)
         /\ clients' = [clients EXCEPT ![c] = clients'[c]]
         /\ clients'[c] \in ClientRow
         /\ clients'[c].version = 0 /\ clients'[c].certified
         /\ clients'[c].code = clientRequests[q].input.code
         /\ clients'[c].statut = clientRequests[q].input.statut
         /\ clientRequests[q].input.statut \in ClientStatut
         /\ ~CodeTaken(clients'[c].code)
<1> DEFINE input == clientRequests[q].input
<1>1. clientRequests[q] \in CreateTx
  BY ClientTransactionOf DEF CommitCreateClient, ClientTypeOK
<1>2. input \in ClientInput /\ ValidClientInput(input)
  BY <1>1 DEF CreateTx
<1>3. clients' = [clients EXCEPT ![c] = NewClient(input)]
  BY DEF CommitCreateClient
<1>4. clients'[c] = NewClient(input)
  BY <1>3 DEF ClientTypeOK
<1> QED
  BY <1>2, <1>3, <1>4, NewClientRow
     DEF CommitCreateClient, UniqueIndexRefuses, ClientInput

(* The only steps that write lic_clients or the log.                       *)
LEMMA ClientWriters ==
  ASSUME [ClientNext]_clientVars
  PROVE  \/ UNCHANGED <<clients, clientAudit>>
         \/ \E q \in ClientSession : CommitClient(q)
         \/ \E q \in ClientSession, c \in Client : CommitCreateClient(q, c)
         \/ \E c \in Client : AttachCertificate(c)
         \/ NullifyAllCertificates
<1>1. ASSUME NEW q \in ClientSession, ClientUseCase(q)
      PROVE  \/ UNCHANGED <<clients, clientAudit>>
             \/ CommitClient(q)
             \/ \E c \in Client : CommitCreateClient(q, c)
  BY <1>1 DEF ClientUseCase, BeginCreateClient, BeginUpdateClient,
              BeginChangeStatut, RejectCreateClient, RejectClient, OpenClient
<1> QED
  BY <1>1 DEF ClientNext, clientVars

(* A step leaves a session's transaction, closes it, or opens one.         *)
LEMMA ClientRequestStep ==
  ASSUME ClientTypeOK, [ClientNext]_clientVars, NEW q \in ClientSession
  PROVE  \/ clientRequests'[q] = clientRequests[q]
         \/ clientRequests'[q] = ClientIdle
         \/ BeginCreateClient(q)
         \/ \E c \in Client : BeginUpdateClient(q, c) \/ BeginChangeStatut(q, c)
<1>1. CASE UNCHANGED clientRequests
  BY <1>1
<1>2. ASSUME NEW p \in ClientSession, ClientUseCase(p)
      PROVE  \/ clientRequests'[q] = clientRequests[q]
             \/ clientRequests'[q] = ClientIdle
             \/ BeginCreateClient(q)
             \/ \E c \in Client : BeginUpdateClient(q, c) \/ BeginChangeStatut(q, c)
  <2>1. CASE p = q
    BY <1>2, <2>1 DEF ClientUseCase, CommitCreateClient, RejectCreateClient,
                      CommitClient, RejectClient, CloseClient, ClientTypeOK
  <2>2. CASE p # q
    BY <1>2, <2>2 DEF ClientUseCase, BeginCreateClient, BeginUpdateClient,
                      BeginChangeStatut, CommitCreateClient, RejectCreateClient,
                      CommitClient, RejectClient, OpenClient, CloseClient,
                      ClientTypeOK
  <2> QED
    BY <2>1, <2>2
<1> QED
  BY <1>1, <1>2 DEF ClientNext, AttachCertificate, NullifyAllCertificates, clientVars

-----------------------------------------------------------------------------
LEMMA InitClientTypeOK == ClientInit => ClientTypeOK
BY DEF ClientInit, ClientTypeOK, ClientTransaction, ClientIdle

(* Each step leaves rows in the table.                                     *)
LEMMA ClientsTypeStep ==
  ASSUME ClientTypeOK, WritesOpen, [ClientNext]_clientVars
  PROVE  clients' \in [Client -> ClientRow \cup {NoClient}]
<1>1. CASE UNCHANGED clients
  BY <1>1 DEF ClientTypeOK
<1>2. ASSUME NEW q \in ClientSession, CommitClient(q)
      PROVE  clients' \in [Client -> ClientRow \cup {NoClient}]
  <2>1. \E c \in Client : /\ clients' = [clients EXCEPT ![c] = clients'[c]]
                          /\ clients'[c] \in ClientRow
    BY <1>2, CommitEffect
  <2> QED
    BY <2>1 DEF ClientTypeOK
<1>3. ASSUME NEW q \in ClientSession, NEW c \in Client, CommitCreateClient(q, c)
      PROVE  clients' \in [Client -> ClientRow \cup {NoClient}]
  BY <1>3, CreateEffect DEF ClientTypeOK
<1>4. ASSUME NEW c \in Client, AttachCertificate(c)
      PROVE  clients' \in [Client -> ClientRow \cup {NoClient}]
  BY <1>4 DEF AttachCertificate, Known, ClientTypeOK, ClientRow
<1>5. CASE NullifyAllCertificates
  <2>1. \A c \in Client : Known(c) => [clients[c] EXCEPT !.certified = FALSE] \in ClientRow
    BY DEF Known, ClientTypeOK, ClientRow
  <2> QED
    BY <1>5, <2>1 DEF NullifyAllCertificates
<1> QED
  BY <1>1, <1>2, <1>3, <1>4, <1>5, ClientWriters

LEMMA RequestsTypeStep ==
  ASSUME ClientTypeOK, [ClientNext]_clientVars
  PROVE  clientRequests' \in [ClientSession -> ClientTransaction]
<1>1. ASSUME NEW q \in ClientSession, NEW t \in ClientTransaction, OpenClient(q, t)
      PROVE  clientRequests' \in [ClientSession -> ClientTransaction]
  BY <1>1 DEF OpenClient, ClientTypeOK
<1>2. ASSUME NEW q \in ClientSession, CloseClient(q)
      PROVE  clientRequests' \in [ClientSession -> ClientTransaction]
  BY <1>2 DEF CloseClient, ClientTypeOK, ClientTransaction
<1>3. CASE UNCHANGED clientRequests
  BY <1>3 DEF ClientTypeOK
<1>4. ASSUME NEW q \in ClientSession, ClientUseCase(q)
      PROVE  clientRequests' \in [ClientSession -> ClientTransaction]
  <2>1. CASE BeginCreateClient(q)
    <3>1. PICK input \in NewInput :
            /\ ValidClientInput(input)
            /\ OpenClient(q, [op |-> "create", input |-> input])
      BY <2>1 DEF BeginCreateClient
    <3>2. [op |-> "create", input |-> input] \in ClientTransaction
      BY <3>1, ClientInputAssumption DEF CreateTx, ClientTransaction
    <3> QED
      BY <1>1, <3>1, <3>2
  <2>2. ASSUME NEW c \in Client, BeginUpdateClient(q, c) \/ BeginChangeStatut(q, c)
        PROVE  clientRequests' \in [ClientSession -> ClientTransaction]
    <3>1. PICK tx \in WriteTx : OpenClient(q, tx)
      BY <2>2, BeginUpdateTx, BeginChangeTx
    <3> QED
      BY <1>1, <3>1 DEF ClientTransaction
  <2> QED
    BY <1>2, <1>4, <2>1, <2>2 DEF ClientUseCase, CommitCreateClient,
       RejectCreateClient, CommitClient, RejectClient
<1> QED
  BY <1>3, <1>4 DEF ClientNext, AttachCertificate, NullifyAllCertificates, clientVars

(* The audit row of a write reports the statut it wrote.                   *)
LEMMA WriteEventType ==
  ASSUME NEW tx \in WriteTx
  PROVE  /\ WriteEvent(tx) \in StatutEvent \cup ProfileEvent
         /\ WriteEvent(tx).client = tx.client
         /\ WriteEvent(tx).version = tx.expected + 1
         /\ tx.op = "updateClient" => WriteEvent(tx) \notin StatutEvent
         /\ tx.op = "changeStatut" =>
              WriteEvent(tx) \in StatutEvent /\ WriteEvent(tx).statut = tx.patched.statut
<1>1. /\ tx.client \in Client /\ tx.expected + 1 \in Nat
      /\ tx.patched.statut \in ClientStatut
  BY DEF WriteTx, ClientRow
<1>2. StatutVerb(tx.seen.statut, tx.patched.statut) \in StatutAction
  BY DEF StatutVerb, StatutAction
<1>3. tx.op \in {"updateClient", "changeStatut"}
  BY DEF WriteTx
<1>4. CASE tx.op = "updateClient"
  BY <1>1, <1>4 DEF WriteEvent, ProfileEvent, StatutEvent, StatutAction
<1>5. CASE tx.op = "changeStatut"
  BY <1>1, <1>2, <1>5 DEF WriteEvent, ReportsStatut, StatutEvent
<1> QED
  BY <1>3, <1>4, <1>5

LEMMA CreatedEventType ==
  ASSUME NEW c \in Client, NEW statut \in ClientStatut
  PROVE  /\ ReportsStatut("CLIENT_CREATED", c, 0, statut) \in StatutEvent
         /\ ReportsStatut("CLIENT_CREATED", c, 0, statut).client = c
         /\ ReportsStatut("CLIENT_CREATED", c, 0, statut).version = 0
         /\ ReportsStatut("CLIENT_CREATED", c, 0, statut).statut = statut
         /\ [action |-> "CERTIFICATE_ISSUED", client |-> c] \in CertificateEvent
         /\ [action |-> "CERTIFICATE_ISSUED", client |-> c]
              \notin StatutEvent \cup ProfileEvent
BY DEF ReportsStatut, StatutEvent, StatutAction, CertificateEvent, ProfileEvent

LEMMA AuditTypeStep ==
  ASSUME ClientTypeOK, WritesOpen, [ClientNext]_clientVars
  PROVE  clientAudit' \subseteq StatutEvent \cup ProfileEvent \cup CertificateEvent
<1>1. CASE UNCHANGED clientAudit
  BY <1>1 DEF ClientTypeOK
<1>2. ASSUME NEW q \in ClientSession, CommitClient(q)
      PROVE  clientAudit' \subseteq StatutEvent \cup ProfileEvent \cup CertificateEvent
  <2>1. clientRequests[q] \in WriteTx
    BY <1>2, CommitEffect
  <2> QED
    BY <1>2, <2>1, WriteEventType DEF CommitClient, LogClient, ClientTypeOK
<1>3. ASSUME NEW q \in ClientSession, NEW c \in Client, CommitCreateClient(q, c)
      PROVE  clientAudit' \subseteq StatutEvent \cup ProfileEvent \cup CertificateEvent
  <2> DEFINE created == ReportsStatut("CLIENT_CREATED", c, 0, clientRequests[q].input.statut)
             issued  == [action |-> "CERTIFICATE_ISSUED", client |-> c]
  <2>1. created \in StatutEvent /\ issued \in CertificateEvent
    BY <1>3, CreateEffect, CreatedEventType
  <2>2. clientAudit' = clientAudit \cup {created, issued}
    BY <1>3 DEF CommitCreateClient, LogClient
  <2> HIDE DEF created, issued
  <2> QED
    BY <2>1, <2>2 DEF ClientTypeOK
<1>4. ASSUME NEW c \in Client, AttachCertificate(c)
      PROVE  clientAudit' \subseteq StatutEvent \cup ProfileEvent \cup CertificateEvent
  BY <1>4 DEF AttachCertificate, LogClient, ClientTypeOK, CertificateEvent
<1>5. CASE NullifyAllCertificates
  BY <1>5 DEF NullifyAllCertificates, ClientTypeOK
<1> QED
  BY <1>1, <1>2, <1>3, <1>4, <1>5, ClientWriters

LEMMA ClientTypeStep ==
  ASSUME ClientTypeOK, WritesOpen, [ClientNext]_clientVars
  PROVE  ClientTypeOK'
BY ClientsTypeStep, RequestsTypeStep, AuditTypeStep DEF ClientTypeOK

-----------------------------------------------------------------------------
(* A client stays; a step that does not raise its version leaves every     *)
(* column the lock protects.                                               *)
ClientGrows ==
  \A c \in Client : Known(c) =>
    /\ Known(c)'
    /\ clients[c].version <= clients'[c].version
    /\ clients'[c].version = clients[c].version =>
         Locked(clients'[c]) = Locked(clients[c])

LEMMA NextClientGrows ==
  ASSUME ClientTypeOK, WritesOpen, [ClientNext]_clientVars
  PROVE  ClientGrows
<1>0. \A c \in Client : Known(c) => clients[c] \in ClientRow /\ clients[c].version \in Nat
  BY DEF Known, ClientTypeOK, ClientRow
<1>1. CASE UNCHANGED clients
  BY <1>0, <1>1 DEF ClientGrows, Known
<1>2. ASSUME NEW q \in ClientSession, CommitClient(q)
      PROVE  ClientGrows
  <2> DEFINE d == clientRequests[q].client
  <2>1. /\ d \in Client
        /\ clients' = [clients EXCEPT ![d] = clients'[d]]
        /\ clients'[d] \in ClientRow
        /\ clients'[d].version = clients[d].version + 1
    BY <1>2, CommitEffect
  <2> HIDE DEF d
  <2>2. \A c \in Client \ {d} : clients'[c] = clients[c]
    BY <2>1 DEF ClientTypeOK
  <2>3. clients'[d] # NoClient
    BY <2>1, NoClientAssumption
  <2> QED
    BY <1>0, <2>1, <2>2, <2>3 DEF ClientGrows, Known
<1>3. ASSUME NEW q \in ClientSession, NEW d \in Client, CommitCreateClient(q, d)
      PROVE  ClientGrows
  <2>1. ~Known(d) /\ clients' = [clients EXCEPT ![d] = clients'[d]]
    BY <1>3, CreateEffect
  <2>2. \A c \in Client \ {d} : clients'[c] = clients[c]
    BY <2>1 DEF ClientTypeOK
  <2> QED
    BY <1>0, <2>1, <2>2 DEF ClientGrows, Known
<1>4. ASSUME NEW d \in Client, AttachCertificate(d)
      PROVE  ClientGrows
  <2>1. clients' = [clients EXCEPT ![d] = [clients[d] EXCEPT !.certified = TRUE]]
    BY <1>4 DEF AttachCertificate
  <2>2. \A c \in Client \ {d} : clients'[c] = clients[c]
    BY <2>1 DEF ClientTypeOK
  <2>3. clients[d] \in ClientRow
    BY <1>0, <1>4 DEF AttachCertificate
  <2>4. /\ clients'[d] \in ClientRow
        /\ clients'[d].version = clients[d].version
        /\ Locked(clients'[d]) = Locked(clients[d])
    BY <2>1, <2>3 DEF Locked, ClientRow, ClientTypeOK
  <2> QED
    BY <1>0, <2>2, <2>4, NoClientAssumption DEF ClientGrows, Known
<1>5. CASE NullifyAllCertificates
  <2> SUFFICES ASSUME NEW c \in Client, Known(c)
               PROVE  /\ Known(c)'
                      /\ clients[c].version <= clients'[c].version
                      /\ clients'[c].version = clients[c].version =>
                           Locked(clients'[c]) = Locked(clients[c])
    BY DEF ClientGrows
  <2>1. clients'[c] = [clients[c] EXCEPT !.certified = FALSE]
    BY <1>5 DEF NullifyAllCertificates
  <2>2. /\ clients'[c] \in ClientRow
        /\ clients'[c].version = clients[c].version
        /\ Locked(clients'[c]) = Locked(clients[c])
    BY <1>0, <2>1 DEF Locked, ClientRow
  <2> QED
    BY <1>0, <2>2, NoClientAssumption DEF Known
<1> QED
  BY <1>1, <1>2, <1>3, <1>4, <1>5, ClientWriters

-----------------------------------------------------------------------------
LEMMA OpenWriteStep ==
  ASSUME ClientTypeOK, WritesOpen, [ClientNext]_clientVars, NEW q \in ClientSession,
         InWriteTx(q)'
  PROVE  WriteOpen(clientRequests[q])'
<1> USE NextClientGrows DEF ClientGrows
<1>1. CASE clientRequests'[q] = clientRequests[q]
  <2> DEFINE tx == clientRequests[q]
             c  == tx.client
  <2>1. InWriteTx(q) /\ WriteOpen(tx)
    BY <1>1 DEF InWriteTx, WritesOpen
  <2>2. tx \in WriteTx
    BY <2>1, ClientTransactionOf DEF InWriteTx, ClientTypeOK
  <2>3. c \in Client /\ Known(c)
    BY <2>1, <2>2 DEF WriteTx, WriteOpen
  <2>4. /\ tx.seen.version \in Nat /\ tx.expected \in Nat
        /\ clients[c] \in ClientRow /\ clients[c].version \in Nat
    BY <2>2, <2>3 DEF WriteTx, ClientRow, Known, ClientTypeOK
  <2>5. /\ clients'[c] # NoClient /\ clients[c].version <= clients'[c].version
        /\ clients'[c].version = clients[c].version =>
             Locked(clients'[c]) = Locked(clients[c])
    BY <2>3 DEF Known
  <2>6. clients'[c] \in ClientRow /\ clients'[c].version \in Nat
    BY <2>3, <2>5, ClientsTypeStep DEF Known, ClientRow
  <2>7. tx.seen.version <= clients'[c].version
    BY <2>1, <2>4, <2>5, <2>6 DEF WriteOpen
  <2>8. ASSUME tx.seen.version = clients'[c].version
        PROVE  Locked(tx.seen) = Locked(clients'[c])
    <3>1. tx.seen.version = clients[c].version /\ clients'[c].version = clients[c].version
      BY <2>1, <2>4, <2>5, <2>6, <2>8 DEF WriteOpen
    <3> QED
      BY <2>1, <2>5, <3>1 DEF WriteOpen
  <2> QED
    BY <1>1, <2>1, <2>5, <2>7, <2>8 DEF WriteOpen, Known
<1>2. CASE clientRequests'[q] = ClientIdle
  BY <1>2 DEF InWriteTx, ClientIdle
<1>3. CASE BeginCreateClient(q)
  BY <1>3 DEF BeginCreateClient, OpenClient, InWriteTx, ClientTypeOK
<1>4. ASSUME NEW c \in Client, BeginUpdateClient(q, c) \/ BeginChangeStatut(q, c)
      PROVE  WriteOpen(clientRequests[q])'
  <2>1. PICK tx \in WriteTx : OpenClient(q, tx) /\ WriteOpen(tx)
    BY <1>4, BeginUpdateTx, BeginChangeTx
  <2>2. clientRequests'[q] = tx /\ clients' = clients
    BY <2>1 DEF OpenClient, ClientTypeOK
  <2> QED
    BY <2>1, <2>2 DEF WriteOpen, Known
<1> QED
  BY <1>1, <1>2, <1>3, <1>4, ClientRequestStep

LEMMA WritesOpenStep ==
  ASSUME ClientTypeOK, WritesOpen, [ClientNext]_clientVars
  PROVE  WritesOpen'
BY OpenWriteStep DEF WritesOpen

(* The type invariant and the open writes are inductive together.          *)
THEOREM ClientTypeCorrect == ClientSpec => [](ClientTypeOK /\ WritesOpen)
<1>1. ClientInit => ClientTypeOK /\ WritesOpen
  BY InitClientTypeOK DEF ClientInit, WritesOpen, InWriteTx, ClientIdle
<1>2. ClientTypeOK /\ WritesOpen /\ [ClientNext]_clientVars => (ClientTypeOK /\ WritesOpen)'
  BY ClientTypeStep, WritesOpenStep
<1> QED
  BY <1>1, <1>2, PTL DEF ClientSpec

(* Rule L4: an UPDATE that matches sets columns that are those of the row. *)
THEOREM ClientLock == ClientSpec => []StaleClientWriteRefused
<1>1. ClientTypeOK /\ WritesOpen => StaleClientWriteRefused
  <2> SUFFICES ASSUME ClientTypeOK, WritesOpen, NEW q \in ClientSession, InWriteTx(q),
                      ClientVersionMatches(clientRequests[q].client,
                                           clientRequests[q].expected)
               PROVE  Locked(clientRequests[q].seen)
                        = Locked(clients[clientRequests[q].client])
    BY DEF StaleClientWriteRefused
  <2>1. clientRequests[q] \in WriteTx /\ WriteOpen(clientRequests[q])
    BY ClientTransactionOf DEF InWriteTx, ClientTypeOK, WritesOpen
  <2>2. clients[clientRequests[q].client] \in ClientRow
    BY <2>1 DEF WriteTx, WriteOpen, Known, ClientTypeOK
  <2> QED
    BY <2>1, <2>2 DEF WriteTx, WriteOpen, ClientRow, ClientVersionMatches
<1> QED
  BY <1>1, ClientTypeCorrect, PTL

-----------------------------------------------------------------------------
(* A step of the table is a step of the abstract table, or leaves it.      *)
(* Both modules take rows and transitions from the domain module.          *)
LEMMA SameDomain ==
  /\ ClientAbstract!ClientRow = ClientRow
  /\ \A from, to : ClientAbstract!ClientCanTransition(from, to)
                    <=> ClientCanTransition(from, to)
BY DEF ClientAbstract!ClientRow, ClientRow, ClientAbstract!Profile, Profile,
       ClientAbstract!ClientStatut, ClientStatut,
       ClientAbstract!ClientCanTransition, ClientCanTransition

LEMMA AttachStep ==
  ASSUME ClientTypeOK, NEW c \in Client, AttachCertificate(c)
  PROVE  ClientAbstract!Certify(c)
BY DEF AttachCertificate, Known, ClientAbstract!Certify

LEMMA CommitStep ==
  ASSUME ClientTypeOK, WritesOpen, NEW q \in ClientSession, CommitClient(q)
  PROVE  \E c \in Client : ClientAbstract!Edit(c) \/ ClientAbstract!ChangeStatut(c)
<1> DEFINE tx == clientRequests[q]
           c  == tx.client
<1>1. /\ tx \in WriteTx /\ c \in Client /\ Known(c)
      /\ clients' = [clients EXCEPT ![c] = clients'[c]]
      /\ clients'[c] \in ClientRow
      /\ clients'[c].code = clients[c].code
      /\ clients'[c].certified = clients[c].certified
      /\ clients'[c].version = clients[c].version + 1
  BY CommitEffect
<1>2. clients[c] \in ClientRow /\ clients[c].version + 1 \in Nat
  BY <1>1 DEF Known, ClientTypeOK, ClientRow
<1>3. CASE tx.op = "updateClient"
  <2>1. clients'[c].statut = clients[c].statut
    BY <1>3, CommitEffect
  <2> DEFINE edited == [clients[c] EXCEPT !.raison = clients'[c].raison,
                                          !.profile = clients'[c].profile,
                                          !.version = @ + 1]
  <2>2. /\ edited \in ClientRow
        /\ edited.code = clients[c].code /\ edited.statut = clients[c].statut
        /\ edited.certified = clients[c].certified
        /\ edited.raison = clients'[c].raison /\ edited.profile = clients'[c].profile
        /\ edited.version = clients[c].version + 1
    BY <1>1, <1>2 DEF ClientRow
  <2> HIDE DEF edited
  <2>3. clients'[c] = edited
    BY <1>1, <2>1, <2>2, ClientRowExt
  <2>4. ClientAbstract!Edit(c)
    BY <1>1, <2>3, SameDomain DEF edited, ClientAbstract!Edit, ClientAbstract!Touches, Known
  <2> QED
    BY <1>1, <2>4
<1>4. CASE tx.op = "changeStatut"
  <2>1. /\ ClientCanTransition(clients[c].statut, clients'[c].statut)
        /\ clients'[c].raison = clients[c].raison
        /\ clients'[c].profile = clients[c].profile
    BY <1>4, CommitEffect
  <2> DEFINE edited == [clients[c] EXCEPT !.statut = clients'[c].statut,
                                          !.version = @ + 1]
  <2>2. /\ edited \in ClientRow
        /\ edited.code = clients[c].code /\ edited.statut = clients'[c].statut
        /\ edited.certified = clients[c].certified
        /\ edited.raison = clients[c].raison /\ edited.profile = clients[c].profile
        /\ edited.version = clients[c].version + 1
    BY <1>1, <1>2 DEF ClientRow
  <2> HIDE DEF edited
  <2>3. clients'[c] = edited
    BY <1>1, <2>1, <2>2, ClientRowExt
  <2>4. ClientAbstract!ChangeStatut(c)
    BY <1>1, <2>1, <2>3, SameDomain
       DEF edited, ClientAbstract!ChangeStatut, ClientAbstract!Touches, Known
  <2> QED
    BY <1>1, <2>4
<1> QED
  BY <1>1, <1>3, <1>4 DEF WriteTx

LEMMA CreateStep ==
  ASSUME ClientTypeOK, NEW q \in ClientSession, NEW c \in Client,
         CommitCreateClient(q, c)
  PROVE  ClientAbstract!Create(c)
BY CreateEffect, SameDomain
   DEF ClientAbstract!Create, ClientAbstract!Touches, Known, CodeTaken

LEMMA ClientSteps ==
  ASSUME ClientTypeOK, WritesOpen, [ClientNext]_clientVars
  PROVE  [ClientAbstract!Next]_clients
<1>1. ASSUME NullifyAllCertificates
      PROVE  ClientAbstract!Revoke
  <2>1. \A c \in Client :
          (IF Known(c) THEN [clients[c] EXCEPT !.certified = FALSE] ELSE NoClient)
            = (IF clients[c] = NoClient THEN NoClient
               ELSE [clients[c] EXCEPT !.certified = FALSE])
    BY DEF Known
  <2> QED
    BY <1>1, <2>1 DEF NullifyAllCertificates, ClientAbstract!Revoke
<1> QED
  BY <1>1, ClientWriters, AttachStep, CommitStep, CreateStep DEF ClientAbstract!Next

(* The transactions implement the atomic table.                            *)
THEOREM ClientRefinement == ClientSpec => ClientsAtomic
<1>1. ClientInit => ClientAbstract!Init
  BY DEF ClientInit, ClientAbstract!Init
<1>2. ClientTypeOK /\ WritesOpen /\ [ClientNext]_clientVars => [ClientAbstract!Next]_clients
  BY ClientSteps
<1> QED
  BY <1>1, <1>2, ClientTypeCorrect, PTL DEF ClientSpec, ClientsAtomic, ClientAbstract!Spec

-----------------------------------------------------------------------------
(* Codes: no step but the creation gives a client a code.                  *)
LEMMA CodesUniqueStep ==
  ASSUME ClientTypeOK, WritesOpen, CodesUnique, [ClientNext]_clientVars
  PROVE  CodesUnique'
<1>1. ASSUME \A c \in Client : Known(c)' => Known(c) /\ clients'[c].code = clients[c].code
      PROVE  CodesUnique'
  BY <1>1 DEF CodesUnique, Known
<1>2. CASE UNCHANGED clients
  BY <1>2 DEF CodesUnique, Known
<1>3. ASSUME NEW q \in ClientSession, CommitClient(q)
      PROVE  CodesUnique'
  <2> DEFINE d == clientRequests[q].client
  <2>1. /\ d \in Client /\ Known(d)
        /\ clients' = [clients EXCEPT ![d] = clients'[d]]
        /\ clients'[d].code = clients[d].code
    BY <1>3, CommitEffect
  <2> HIDE DEF d
  <2>2. \A c \in Client \ {d} : clients'[c] = clients[c]
    BY <2>1 DEF ClientTypeOK
  <2> QED
    BY <1>1, <2>1, <2>2 DEF Known
<1>4. ASSUME NEW q \in ClientSession, NEW d \in Client, CommitCreateClient(q, d)
      PROVE  CodesUnique'
  <2>1. /\ ~Known(d) /\ clients' = [clients EXCEPT ![d] = clients'[d]]
        /\ ~CodeTaken(clients'[d].code)
    BY <1>4, CreateEffect
  <2>2. \A c \in Client \ {d} : clients'[c] = clients[c]
    BY <2>1 DEF ClientTypeOK
  <2> QED
    BY <2>1, <2>2 DEF CodesUnique, CodeTaken, Known
<1>5. ASSUME NEW d \in Client, AttachCertificate(d)
      PROVE  CodesUnique'
  <2>1. /\ Known(d) /\ clients[d] \in ClientRow
        /\ clients' = [clients EXCEPT ![d] = [clients[d] EXCEPT !.certified = TRUE]]
    BY <1>5 DEF AttachCertificate, Known, ClientTypeOK
  <2>2. clients'[d].code = clients[d].code
    BY <2>1 DEF ClientRow, ClientTypeOK
  <2>3. \A c \in Client \ {d} : clients'[c] = clients[c]
    BY <2>1 DEF ClientTypeOK
  <2> QED
    BY <1>1, <2>1, <2>2, <2>3 DEF Known
<1>6. CASE NullifyAllCertificates
  <2>1. \A c \in Client : Known(c) => clients[c] \in ClientRow
    BY DEF Known, ClientTypeOK
  <2>2. \A c \in Client : Known(c)' => Known(c) /\ clients'[c].code = clients[c].code
    BY <1>6, <2>1 DEF NullifyAllCertificates, Known, ClientRow
  <2> QED
    BY <1>1, <2>2
<1> QED
  BY <1>2, <1>3, <1>4, <1>5, <1>6, ClientWriters

THEOREM ClientCodesUnique == ClientSpec => []CodesUnique
<1>1. ClientInit => CodesUnique
  BY DEF ClientInit, CodesUnique, Known
<1>2. ClientTypeOK /\ WritesOpen /\ CodesUnique /\ [ClientNext]_clientVars => CodesUnique'
  BY CodesUniqueStep
<1> QED
  BY <1>1, <1>2, ClientTypeCorrect, PTL DEF ClientSpec

(* RESILIE: no step leads out of it.                                       *)
LEMMA ResilieStep ==
  ASSUME ClientTypeOK, WritesOpen, [ClientNext]_clientVars,
         NEW c \in Client, Known(c), clients[c].statut = "RESILIE"
  PROVE  clients'[c].statut = "RESILIE"
<1>0. clients[c] \in ClientRow
  BY DEF Known, ClientTypeOK
<1>1. CASE UNCHANGED clients
  BY <1>1
<1>2. ASSUME NEW q \in ClientSession, CommitClient(q)
      PROVE  clients'[c].statut = "RESILIE"
  <2> DEFINE d == clientRequests[q].client
  <2>1. /\ d \in Client
        /\ clients' = [clients EXCEPT ![d] = clients'[d]]
        /\ \/ clients'[d].statut = clients[d].statut
           \/ ClientCanTransition(clients[d].statut, clients'[d].statut)
    BY <1>2, CommitEffect DEF WriteTx
  <2> HIDE DEF d
  <2>2. CASE c = d
    BY <2>1, <2>2 DEF ClientCanTransition
  <2>3. CASE c # d
    BY <2>1, <2>3 DEF ClientTypeOK
  <2> QED
    BY <2>2, <2>3
<1>3. ASSUME NEW q \in ClientSession, NEW d \in Client, CommitCreateClient(q, d)
      PROVE  clients'[c].statut = "RESILIE"
  BY <1>3, CreateEffect DEF ClientTypeOK
<1>4. ASSUME NEW d \in Client, AttachCertificate(d)
      PROVE  clients'[c].statut = "RESILIE"
  BY <1>0, <1>4 DEF AttachCertificate, ClientTypeOK, ClientRow
<1>5. CASE NullifyAllCertificates
  BY <1>0, <1>5 DEF NullifyAllCertificates, ClientRow
<1> QED
  BY <1>1, <1>2, <1>3, <1>4, <1>5, ClientWriters

(* A statement about steps, from the type invariant of their first states. *)
THEOREM ClientResilieFinal == ClientSpec => ResilieFinal
<1>1. ClientTypeOK /\ WritesOpen /\ [ClientNext]_clientVars =>
        [\A c \in Client :
           Known(c) /\ clients[c].statut = "RESILIE" =>
             clients'[c].statut = "RESILIE"]_clientVars
  BY ResilieStep
<1> QED
  BY <1>1, ClientTypeCorrect, PTL DEF ClientSpec, ResilieFinal

-----------------------------------------------------------------------------
(* The log.  A step adds at most one versioned audit row for the client it *)
(* writes, and raises that client's version to the version of that row.    *)
LogStep(c) ==
  \/ /\ VersionedEvents(c)' = VersionedEvents(c)
     /\ Known(c)' <=> Known(c)
     /\ Known(c) => /\ clients'[c].version = clients[c].version
                    /\ clients'[c].statut = clients[c].statut
  \/ /\ Known(c)'
     /\ clients'[c].version = IF Known(c) THEN clients[c].version + 1 ELSE 0
     /\ \E e \in StatutEvent \cup ProfileEvent :
          /\ VersionedEvents(c)' = VersionedEvents(c) \cup {e}
          /\ e.client = c /\ e.version = clients'[c].version
          /\ e \in StatutEvent => e.statut = clients'[c].statut
          /\ e \notin StatutEvent =>
               Known(c) /\ clients'[c].statut = clients[c].statut

LEMMA NextLogStep ==
  ASSUME ClientTypeOK, WritesOpen, [ClientNext]_clientVars, NEW c \in Client
  PROVE  LogStep(c)
<1>0. Known(c) => clients[c] \in ClientRow
  BY DEF Known, ClientTypeOK
<1>1. CASE UNCHANGED <<clients, clientAudit>>
  BY <1>1 DEF LogStep, VersionedEvents, Known
<1>2. ASSUME NEW q \in ClientSession, CommitClient(q)
      PROVE  LogStep(c)
  <2>1. /\ clientRequests[q] \in WriteTx /\ clientRequests[q].client \in Client
        /\ Known(clientRequests[q].client)
        /\ clientRequests[q].expected = clients[clientRequests[q].client].version
        /\ clientRequests[q].op \in {"updateClient", "changeStatut"}
    BY <1>2, CommitEffect DEF CommitClient
  <2>2. PICK d \in Client : d = clientRequests[q].client
    BY <2>1
  <2>3. /\ clients[d] \in ClientRow /\ Known(d)
        /\ clients' = [clients EXCEPT ![d] = clients'[d]]
        /\ clients'[d] \in ClientRow
        /\ clients'[d].version = clients[d].version + 1
        /\ clients'[d].statut = clientRequests[q].patched.statut
        /\ clientRequests[q].op = "updateClient" => clients'[d].statut = clients[d].statut
    BY <1>2, <2>1, <2>2, CommitEffect DEF Known, ClientTypeOK
  <2>4. WriteEvent(clientRequests[q]) \in StatutEvent \cup ProfileEvent
    BY <2>1, WriteEventType
  <2>5. PICK e \in StatutEvent \cup ProfileEvent : e = WriteEvent(clientRequests[q])
    BY <2>4
  <2>6. /\ e.client = d /\ e.version = clients'[d].version
        /\ clientRequests[q].op = "updateClient" => e \notin StatutEvent
        /\ clientRequests[q].op = "changeStatut" =>
             e \in StatutEvent /\ e.statut = clients'[d].statut
    BY <2>1, <2>2, <2>3, <2>5, WriteEventType DEF WriteTx
  <2>7. clientAudit' = clientAudit \cup {e}
    BY <1>2, <2>5 DEF CommitClient, LogClient
  <2>8. CASE c = d
    <3>1. VersionedEvents(c)' = VersionedEvents(c) \cup {e}
      BY <2>6, <2>7, <2>8 DEF VersionedEvents
    <3>2. Known(c)' /\ Known(c)
      BY <2>3, <2>8, NoClientAssumption DEF Known
    <3>3. e \notin StatutEvent => clients'[c].statut = clients[c].statut
      BY <2>1, <2>3, <2>6, <2>8
    <3>4. e \in StatutEvent => e.statut = clients'[c].statut
      BY <2>1, <2>6, <2>8
    <3> QED
      BY <2>3, <2>6, <2>8, <3>1, <3>2, <3>3, <3>4 DEF LogStep
  <2>9. CASE c # d
    <3>1. VersionedEvents(c)' = VersionedEvents(c)
      BY <2>6, <2>7, <2>9 DEF VersionedEvents
    <3>2. clients'[c] = clients[c]
      BY <2>3, <2>9 DEF ClientTypeOK
    <3> QED
      BY <3>1, <3>2 DEF LogStep, Known
  <2> QED
    BY <2>8, <2>9
<1>3. ASSUME NEW q \in ClientSession, NEW d \in Client, CommitCreateClient(q, d)
      PROVE  LogStep(c)
  <2>1. /\ ~Known(d) /\ clients' = [clients EXCEPT ![d] = clients'[d]]
        /\ clients'[d] \in ClientRow
        /\ clients'[d].version = 0
        /\ clients'[d].statut = clientRequests[q].input.statut
        /\ clientRequests[q].input.statut \in ClientStatut
    BY <1>3, CreateEffect
  <2>2. PICK statut \in ClientStatut : statut = clientRequests[q].input.statut
    BY <2>1
  <2> DEFINE e == ReportsStatut("CLIENT_CREATED", d, 0, statut)
             f == [action |-> "CERTIFICATE_ISSUED", client |-> d]
  <2>3. clientAudit' = clientAudit \cup {e, f}
    BY <1>3, <2>2 DEF CommitCreateClient, LogClient
  <2>4. /\ e \in StatutEvent /\ e.client = d /\ e.version = 0
        /\ e.statut = statut
        /\ f \notin StatutEvent \cup ProfileEvent
    BY <2>1, <2>2, CreatedEventType
  <2> HIDE DEF e, f
  <2>8. CASE c = d
    <3>1. VersionedEvents(c)' = VersionedEvents(c) \cup {e}
      BY <2>3, <2>4, <2>8 DEF VersionedEvents
    <3>2. Known(c)' /\ ~Known(c)
      BY <2>1, <2>8, NoClientAssumption DEF Known
    <3> QED
      BY <2>1, <2>2, <2>4, <2>8, <3>1, <3>2 DEF LogStep
  <2>9. CASE c # d
    <3>1. VersionedEvents(c)' = VersionedEvents(c)
      BY <2>3, <2>4, <2>9 DEF VersionedEvents
    <3>2. clients'[c] = clients[c]
      BY <2>1, <2>9 DEF ClientTypeOK
    <3> QED
      BY <3>1, <3>2 DEF LogStep, Known
  <2> QED
    BY <2>8, <2>9
<1>4. ASSUME NEW d \in Client, AttachCertificate(d)
      PROVE  LogStep(c)
  <2> DEFINE f == [action |-> "CERTIFICATE_ISSUED", client |-> d]
  <2>1. /\ Known(d) /\ clients[d] \in ClientRow
        /\ clients' = [clients EXCEPT ![d] = [clients[d] EXCEPT !.certified = TRUE]]
        /\ clientAudit' = clientAudit \cup {f}
    BY <1>4 DEF AttachCertificate, LogClient, Known, ClientTypeOK
  <2>2. /\ clients'[d] \in ClientRow
        /\ clients'[d].version = clients[d].version
        /\ clients'[d].statut = clients[d].statut
    BY <2>1 DEF ClientRow, ClientTypeOK
  <2>3. \A k \in Client \ {d} : clients'[k] = clients[k]
    BY <2>1 DEF ClientTypeOK
  <2>4. f \notin StatutEvent \cup ProfileEvent
    BY DEF StatutEvent, ProfileEvent, StatutAction
  <2> HIDE DEF f
  <2>5. VersionedEvents(c)' = VersionedEvents(c)
    BY <2>1, <2>4 DEF VersionedEvents
  <2> QED
    BY <2>1, <2>2, <2>3, <2>5, NoClientAssumption DEF LogStep, Known
<1>5. CASE NullifyAllCertificates
  <2>1. VersionedEvents(c)' = VersionedEvents(c)
    BY <1>5 DEF NullifyAllCertificates, VersionedEvents
  <2>2. Known(c) => /\ clients'[c] \in ClientRow
                    /\ clients'[c].version = clients[c].version
                    /\ clients'[c].statut = clients[c].statut
    BY <1>0, <1>5 DEF NullifyAllCertificates, ClientRow
  <2>3. ~Known(c) => clients'[c] = NoClient
    BY <1>5 DEF NullifyAllCertificates
  <2> QED
    BY <2>1, <2>2, <2>3, NoClientAssumption DEF LogStep, Known
<1> QED
  BY <1>1, <1>2, <1>3, <1>4, <1>5, ClientWriters

LEMMA AuditExactStep ==
  ASSUME ClientTypeOK, WritesOpen, ClientAuditExact, [ClientNext]_clientVars
  PROVE  ClientAuditExact'
<1> SUFFICES ASSUME NEW c \in Client
             PROVE  /\ Known(c)' =>
                         \A v \in 0 .. clients'[c].version :
                           \E e \in VersionedEvents(c)' : e.version = v
                    /\ \A e \in VersionedEvents(c)' :
                         /\ Known(c)' /\ e.version <= clients'[c].version
                         /\ \A f \in VersionedEvents(c)' : f.version = e.version => f = e
  BY DEF ClientAuditExact
<1>1. LogStep(c)
  BY NextLogStep
<1>2. Known(c) => clients[c].version \in Nat
  BY DEF Known, ClientTypeOK, ClientRow
<1>3. \A e \in VersionedEvents(c) : e.version \in Nat
  BY DEF VersionedEvents, StatutEvent, ProfileEvent
<1>4. /\ Known(c) => \A v \in 0 .. clients[c].version :
                      \E e \in VersionedEvents(c) : e.version = v
      /\ \A e \in VersionedEvents(c) :
           /\ Known(c) /\ e.version <= clients[c].version
           /\ \A f \in VersionedEvents(c) : f.version = e.version => f = e
  BY DEF ClientAuditExact
<1>5. CASE /\ VersionedEvents(c)' = VersionedEvents(c)
           /\ Known(c)' <=> Known(c)
           /\ Known(c) => clients'[c].version = clients[c].version
  BY <1>4, <1>5
<1>6. ASSUME Known(c)',
             clients'[c].version = IF Known(c) THEN clients[c].version + 1 ELSE 0,
             NEW e \in StatutEvent \cup ProfileEvent,
             VersionedEvents(c)' = VersionedEvents(c) \cup {e},
             e.version = clients'[c].version
      PROVE  /\ Known(c)' =>
                  \A v \in 0 .. clients'[c].version :
                    \E f \in VersionedEvents(c)' : f.version = v
             /\ \A g \in VersionedEvents(c)' :
                  /\ Known(c)' /\ g.version <= clients'[c].version
                  /\ \A f \in VersionedEvents(c)' : f.version = g.version => f = g
  BY <1>2, <1>3, <1>4, <1>6
<1> QED
  BY <1>1, <1>5, <1>6 DEF LogStep

THEOREM ClientAudited == ClientSpec => []ClientAuditExact
<1>1. ClientInit => ClientAuditExact
  BY DEF ClientInit, ClientAuditExact, VersionedEvents, Known
<1>2. ClientTypeOK /\ WritesOpen /\ ClientAuditExact /\ [ClientNext]_clientVars
        => ClientAuditExact'
  BY AuditExactStep
<1> QED
  BY <1>1, <1>2, ClientTypeCorrect, PTL DEF ClientSpec

LEMMA LogTellsStep ==
  ASSUME ClientTypeOK, WritesOpen, ClientAuditExact, LogTellsStatut,
         [ClientNext]_clientVars
  PROVE  LogTellsStatut'
<1>0. \A c \in Client, e \in StatutEvent :
        /\ e \in clientAudit /\ e.client = c <=> e \in VersionedEvents(c)
        /\ e \in clientAudit' /\ e.client = c <=> e \in VersionedEvents(c)'
  BY DEF VersionedEvents
<1> SUFFICES ASSUME NEW c \in Client, NEW e \in StatutEvent, e \in VersionedEvents(c)',
                    \A f \in StatutEvent :
                      f \in VersionedEvents(c)' => f.version <= e.version
             PROVE  Known(c)' /\ clients'[c].statut = e.statut
  BY <1>0 DEF LogTellsStatut
<1>1. LogStep(c)
  BY NextLogStep
<1>2. \A f \in VersionedEvents(c) :
        Known(c) /\ f.version \in Nat /\ f.version <= clients[c].version
  BY DEF ClientAuditExact, VersionedEvents, StatutEvent, ProfileEvent
<1>3. Known(c) => clients[c].version \in Nat
  BY DEF Known, ClientTypeOK, ClientRow
<1>4. ASSUME e \in VersionedEvents(c),
             \A f \in StatutEvent : f \in VersionedEvents(c) => f.version <= e.version
      PROVE  Known(c) /\ clients[c].statut = e.statut
  BY <1>0, <1>4 DEF LogTellsStatut
<1>5. CASE /\ VersionedEvents(c)' = VersionedEvents(c)
           /\ Known(c)' <=> Known(c)
           /\ Known(c) => clients'[c].statut = clients[c].statut
  BY <1>4, <1>5
<1>6. ASSUME Known(c)',
             clients'[c].version = IF Known(c) THEN clients[c].version + 1 ELSE 0,
             NEW d \in StatutEvent \cup ProfileEvent,
             VersionedEvents(c)' = VersionedEvents(c) \cup {d},
             d.version = clients'[c].version,
             d \in StatutEvent => d.statut = clients'[c].statut,
             d \notin StatutEvent => Known(c) /\ clients'[c].statut = clients[c].statut
      PROVE  Known(c)' /\ clients'[c].statut = e.statut
  <2>1. CASE d \in StatutEvent
    <3>1. e = d
      BY <1>2, <1>3, <1>6, <2>1
    <3> QED
      BY <1>6, <2>1, <3>1
  <2>2. CASE d \notin StatutEvent
    BY <1>4, <1>6, <2>2
  <2> QED
    BY <2>1, <2>2
<1> QED
  BY <1>1, <1>5, <1>6 DEF LogStep

(* Replaying the log gives the statut of each client.                      *)
THEOREM ClientLogTells == ClientSpec => []LogTellsStatut
<1>1. ClientInit => LogTellsStatut
  BY DEF ClientInit, LogTellsStatut
<1>2. /\ ClientTypeOK /\ WritesOpen /\ ClientAuditExact /\ LogTellsStatut
      /\ [ClientNext]_clientVars
      => LogTellsStatut'
  BY LogTellsStep
<1> QED
  BY <1>1, <1>2, ClientTypeCorrect, ClientAudited, PTL DEF ClientSpec

(* The client table and its log are exact.                                 *)
THEOREM ClientsRight == ClientSpec => []ClientsExact
<1>1. /\ ClientTypeOK /\ CodesUnique /\ ClientAuditExact /\ LogTellsStatut
      => ClientsExact
  BY DEF ClientsExact
<1> QED
  BY <1>1, ClientTypeCorrect, ClientCodesUnique, ClientAudited, ClientLogTells, PTL

-----------------------------------------------------------------------------
(***************************************************************************)
(* Dossier: names that stay unique, and a log that tells the rows no two   *)
(* requests worked on at once.                                             *)
(***************************************************************************)

OnEntite == {"updateEntite", "toggleEntite"}

OnContact == {"updateContact", "deleteContact"}

(* A row is created once, with the log; a contact is deleted after that.   *)
RowsLogged ==
  /\ \A e \in Entite : entites[e] = NoRow <=> entitesTold[e] = NoRow
  /\ \A k \in Contact : contactsTold[k] = NoRow => contacts[k] = NoRow /\ k \notin deletions
  /\ ContactGoneIffAudited

(* An open request is on a row the log knows; an edit keeps the columns    *)
(* that its form does not have; and what a request has read is what the    *)
(* table holds, unless another one worked on the row too.                  *)
EntiteRequestOK(r) ==
  r.op \in OnEntite =>
    /\ entites[r.id] # NoRow
    /\ r.op = "updateEntite" =>
         r.patched.owner = r.seen.owner /\ r.patched.actif = r.seen.actif
    /\ r.id \notin overlapped => entites[r.id] = r.seen

ContactRequestOK(r) ==
  r.op \in OnContact =>
    /\ contactsTold[r.id] # NoRow
    /\ r.op = "updateContact" => r.patched.entite = r.seen.entite
    /\ r.id \notin overlapped => contacts[r.id] = r.seen

Alone ==
  \A p, q \in DossierSession :
    /\ p # q
    /\ dossierRequests[p].op \in OnEntite \cup OnContact
    /\ dossierRequests[q].op \in OnEntite \cup OnContact
    /\ dossierRequests[p].id = dossierRequests[q].id
    => dossierRequests[p].id \in overlapped

RequestsOK ==
  \A q \in DossierSession :
    EntiteRequestOK(dossierRequests[q]) /\ ContactRequestOK(dossierRequests[q])

DossierInv ==
  /\ DossierTypeOK /\ EntiteNamesUnique /\ QuietLogTellsRow
  /\ RowsLogged /\ RequestsOK /\ Alone

-----------------------------------------------------------------------------
LEMMA TxOf ==
  ASSUME NEW r \in DossierTx
  PROVE  /\ r.op \in {"idle", "createEntite"} \cup OnEntite \cup OnContact
         /\ r.op = "createEntite" => r.row \in EntiteRow
         /\ r.op \in OnEntite =>
              r.id \in Entite /\ r.seen \in EntiteRow /\ r.patched \in EntiteRow
         /\ r.op \in OnContact =>
              r.id \in Contact /\ r.seen \in ContactRow /\ r.patched \in ContactRow
BY DEF DossierTx, DossierIdle, OnEntite, OnContact

LEMMA IsTx ==
  /\ DossierIdle \in DossierTx /\ DossierIdle.op = "idle"
  /\ \A row \in EntiteRow : [op |-> "createEntite", row |-> row] \in DossierTx
  /\ \A op \in OnEntite, e \in Entite, seen \in EntiteRow, patched \in EntiteRow :
       [op |-> op, id |-> e, seen |-> seen, patched |-> patched] \in DossierTx
  /\ \A op \in OnContact, k \in Contact, seen \in ContactRow, patched \in ContactRow :
       [op |-> op, id |-> k, seen |-> seen, patched |-> patched] \in DossierTx
BY DEF DossierTx, DossierIdle, OnEntite, OnContact

LEMMA InitDossier == DossierInit => DossierInv
<1> SUFFICES ASSUME DossierInit PROVE DossierInv
  OBVIOUS
<1>1. DossierTypeOK
  BY IsTx DEF DossierInit, DossierTypeOK
<1>2. \A q \in DossierSession : dossierRequests[q].op = "idle"
  BY IsTx DEF DossierInit
<1>3. RequestsOK /\ Alone
  BY <1>2 DEF RequestsOK, EntiteRequestOK, ContactRequestOK, Alone, OnEntite, OnContact
<1> QED
  BY <1>1, <1>3 DEF DossierInit, DossierInv, EntiteNamesUnique, QuietLogTellsRow, RowsLogged,
                    ContactGoneIffAudited

(* The requests that stay open are the ones that were.                     *)
LEMMA ClosedKept ==
  ASSUME DossierInv, NEW q \in DossierSession, CloseDossier(q), UNCHANGED overlapped
  PROVE  /\ dossierRequests' \in [DossierSession -> DossierTx]
         /\ dossierRequests'[q] = DossierIdle
         /\ \A p \in DossierSession \ {q} : dossierRequests'[p] = dossierRequests[p]
         /\ Alone'
<1>1. dossierRequests \in [DossierSession -> DossierTx]
  BY DEF DossierInv, DossierTypeOK
<1>2. /\ dossierRequests' \in [DossierSession -> DossierTx]
      /\ dossierRequests'[q] = DossierIdle
      /\ \A p \in DossierSession \ {q} : dossierRequests'[p] = dossierRequests[p]
  BY <1>1, IsTx DEF CloseDossier
<1>3. Alone'
  BY <1>2, IsTx DEF Alone, DossierInv, OnEntite, OnContact
<1> QED
  BY <1>2, <1>3

(* A request that works on no row.                                         *)
LEMMA OtherOpsOK ==
  ASSUME NEW r, r.op \in {"idle", "createEntite"}
  PROVE  /\ EntiteRequestOK(r) /\ ContactRequestOK(r)
         /\ r.op \notin OnEntite \cup OnContact
BY DEF EntiteRequestOK, ContactRequestOK, OnEntite, OnContact

(* A request opens on what the table holds.                                *)
LEMMA OpenKept ==
  ASSUME DossierInv, NEW q \in DossierSession, NEW r \in DossierTx, NEW rows \in SUBSET (Entite \cup Contact),
         OpenDossier(q, r, rows), EntiteRequestOK(r), ContactRequestOK(r),
         r.op \in OnEntite \cup OnContact => rows = {r.id}
  PROVE  DossierInv'
<1>1. /\ dossierRequests \in [DossierSession -> DossierTx]
      /\ dossierRequests[q] = DossierIdle
      /\ dossierRequests' = [dossierRequests EXCEPT ![q] = r]
      /\ UNCHANGED <<entites, entitesTold, contacts, contactsTold, deletions>>
  BY DEF DossierInv, DossierTypeOK, OpenDossier, entiteVars, contactVars
<1>2. /\ overlapped \subseteq overlapped' /\ overlapped' \subseteq Entite \cup Contact
      /\ \A i \in rows, p \in DossierSession :
           dossierRequests[p].op \in OnEntite \cup OnContact /\ dossierRequests[p].id = i
             => i \in overlapped'
  BY DEF OpenDossier, OnEntite, OnContact, DossierInv, DossierTypeOK
<1>3. /\ dossierRequests'[q] = r
      /\ \A p \in DossierSession \ {q} : dossierRequests'[p] = dossierRequests[p]
  BY <1>1
<1>4. DossierTypeOK'
  BY <1>1, <1>2 DEF DossierInv, DossierTypeOK
<1>5. EntiteNamesUnique' /\ RowsLogged'
  BY <1>1 DEF DossierInv, EntiteNamesUnique, RowsLogged, ContactGoneIffAudited
<1>6. QuietLogTellsRow'
  BY <1>1, <1>2 DEF DossierInv, QuietLogTellsRow
<1>7. \A x : EntiteRequestOK(x) => EntiteRequestOK(x)'
  BY <1>1, <1>2 DEF EntiteRequestOK
<1>8. \A x : ContactRequestOK(x) => ContactRequestOK(x)'
  BY <1>1, <1>2 DEF ContactRequestOK
<1>9. \A p \in DossierSession :
        EntiteRequestOK(dossierRequests'[p]) /\ ContactRequestOK(dossierRequests'[p])
  BY <1>3 DEF DossierInv, RequestsOK
<1>10. RequestsOK'
  BY <1>7, <1>8, <1>9 DEF RequestsOK
<1>11. ASSUME NEW p \in DossierSession, NEW s \in DossierSession, p # s,
              dossierRequests'[p].op \in OnEntite \cup OnContact,
              dossierRequests'[s].op \in OnEntite \cup OnContact,
              dossierRequests'[p].id = dossierRequests'[s].id
       PROVE  dossierRequests'[p].id \in overlapped'
  BY <1>2, <1>3, <1>11 DEF DossierInv, Alone
<1> QED
  BY <1>4, <1>5, <1>6, <1>10, <1>11 DEF DossierInv, Alone

-----------------------------------------------------------------------------
NamesFree(e, row) ==
  \A f \in Entite \ {e} : entites[f] # NoRow => entites[f].owner # row.owner \/ entites[f].nom # row.nom

LEMMA NamesKept ==
  ASSUME DossierInv, NEW e \in Entite, NEW row \in EntiteRow, NamesFree(e, row),
         entites' = [entites EXCEPT ![e] = row]
  PROVE  /\ EntiteNamesUnique'
         /\ entites' \in [Entite -> EntiteRow \cup {NoRow}]
         /\ entites'[e] = row /\ row # NoRow
         /\ \A f \in Entite \ {e} : entites'[f] = entites[f]
<1>1. /\ entites \in [Entite -> EntiteRow \cup {NoRow}] /\ row # NoRow
  BY NoRowAssumption DEF DossierInv, DossierTypeOK
<1>2. /\ entites' \in [Entite -> EntiteRow \cup {NoRow}]
      /\ entites'[e] = row
      /\ \A f \in Entite \ {e} : entites'[f] = entites[f]
  BY <1>1
<1>3. ASSUME NEW f \in Entite, NEW g \in Entite, entites'[f] # NoRow, entites'[g] # NoRow,
             entites'[f].owner = entites'[g].owner, entites'[f].nom = entites'[g].nom
      PROVE  f = g
  BY <1>2, <1>3 DEF NamesFree, DossierInv, EntiteNamesUnique
<1> QED
  BY <1>1, <1>2, <1>3 DEF EntiteNamesUnique

(* A new row of lic_entites, with its audit row: no request is on it.      *)
LEMMA EntiteInserted ==
  ASSUME DossierInv, NEW e \in Entite, NEW row \in EntiteRow, NamesFree(e, row),
         entites[e] = NoRow,
         entites' = [entites EXCEPT ![e] = row],
         entitesTold' = [entitesTold EXCEPT ![e] = row],
         overlapped' = overlapped
  PROVE  /\ entites' \in [Entite -> EntiteRow \cup {NoRow}]
         /\ entitesTold' \in [Entite -> EntiteRow \cup {NoRow}]
         /\ EntiteNamesUnique'
         /\ \A f \in Entite : f \notin overlapped => entitesTold'[f] = entites'[f]
         /\ \A f \in Entite : entites'[f] = NoRow <=> entitesTold'[f] = NoRow
         /\ \A r : EntiteRequestOK(r) /\ r.id \in Entite => EntiteRequestOK(r)'
<1>1. /\ EntiteNamesUnique'
      /\ entites' \in [Entite -> EntiteRow \cup {NoRow}]
      /\ entites'[e] = row /\ row # NoRow
      /\ \A f \in Entite \ {e} : entites'[f] = entites[f]
  BY NamesKept
<1>2. /\ entitesTold' \in [Entite -> EntiteRow \cup {NoRow}]
      /\ entitesTold'[e] = row
      /\ \A f \in Entite \ {e} : entitesTold'[f] = entitesTold[f]
  BY DEF DossierInv, DossierTypeOK
<1>3. \A r : EntiteRequestOK(r) /\ r.id \in Entite => EntiteRequestOK(r)'
  BY <1>1 DEF EntiteRequestOK
<1> QED
  BY <1>1, <1>2, <1>3 DEF DossierInv, QuietLogTellsRow, RowsLogged

(* A commit of a request on an entite: another one on the same row has     *)
(* left it in overlapped.                                                  *)
LEMMA EntiteWritten ==
  ASSUME DossierInv, NEW q \in DossierSession, NEW row \in EntiteRow, NEW told \in EntiteRow,
         dossierRequests[q].op \in OnEntite,
         NamesFree(dossierRequests[q].id, row),
         entites' = [entites EXCEPT ![dossierRequests[q].id] = row],
         entitesTold' = [entitesTold EXCEPT ![dossierRequests[q].id] = told],
         dossierRequests[q].id \notin overlapped => told = row,
         CloseDossier(q), UNCHANGED <<contactVars, overlapped>>
  PROVE  DossierInv'
<1> DEFINE e == dossierRequests[q].id
<1>1. dossierRequests[q] \in DossierTx /\ e \in Entite /\ entites[e] # NoRow
  BY TxOf DEF DossierInv, DossierTypeOK, RequestsOK, EntiteRequestOK
<1>2. /\ EntiteNamesUnique'
      /\ entites' \in [Entite -> EntiteRow \cup {NoRow}]
      /\ entites'[e] = row /\ row # NoRow
      /\ \A f \in Entite \ {e} : entites'[f] = entites[f]
  BY <1>1, NamesKept
<1>3. /\ entitesTold' \in [Entite -> EntiteRow \cup {NoRow}]
      /\ entitesTold'[e] = told /\ told # NoRow
      /\ \A f \in Entite \ {e} : entitesTold'[f] = entitesTold[f]
  BY <1>1, NoRowAssumption DEF DossierInv, DossierTypeOK
<1>4. /\ dossierRequests' \in [DossierSession -> DossierTx]
      /\ dossierRequests'[q] = DossierIdle
      /\ \A p \in DossierSession \ {q} : dossierRequests'[p] = dossierRequests[p]
      /\ Alone'
  BY ClosedKept
<1>5. UNCHANGED <<contacts, contactsTold, deletions, overlapped>>
  BY DEF contactVars
<1>6. DossierTypeOK'
  BY <1>2, <1>3, <1>4, <1>5 DEF DossierInv, DossierTypeOK
<1>7. QuietLogTellsRow' /\ RowsLogged'
  BY <1>2, <1>3, <1>5 DEF DossierInv, QuietLogTellsRow, RowsLogged, ContactGoneIffAudited
<1>8. ASSUME NEW p \in DossierSession \ {q}
      PROVE  EntiteRequestOK(dossierRequests[p])' /\ ContactRequestOK(dossierRequests[p])'
  <2>1. EntiteRequestOK(dossierRequests[p]) /\ ContactRequestOK(dossierRequests[p])
    BY DEF DossierInv, RequestsOK
  <2>2. dossierRequests[p].op \in OnEntite =>
          /\ dossierRequests[p].id \in Entite
          /\ dossierRequests[p].id = e => e \in overlapped
    BY TxOf DEF DossierInv, DossierTypeOK, Alone
  <2>3. EntiteRequestOK(dossierRequests[p])'
    BY <1>2, <1>4, <1>5, <2>1, <2>2 DEF EntiteRequestOK
  <2> QED
    BY <1>4, <1>5, <2>1, <2>3 DEF ContactRequestOK
<1>9. EntiteRequestOK(dossierRequests[q])' /\ ContactRequestOK(dossierRequests[q])'
  BY <1>4, IsTx DEF EntiteRequestOK, ContactRequestOK, OnEntite, OnContact
<1> QED
  BY <1>2, <1>4, <1>6, <1>7, <1>8, <1>9 DEF DossierInv, RequestsOK

-----------------------------------------------------------------------------
LEMMA BeginEntiteKept ==
  ASSUME DossierInv, NEW q \in DossierSession,
         \/ BeginCreateEntite(q)
         \/ \E e \in Entite : BeginUpdateEntite(q, e) \/ BeginToggleEntite(q, e)
  PROVE  DossierInv'
<1>1. entites \in [Entite -> EntiteRow \cup {NoRow}]
  BY DEF DossierInv, DossierTypeOK
<1>2. CASE BeginCreateEntite(q)
  <2>1. PICK e \in Entite, n \in Nom, d \in Detail \cup {Blank} :
          /\ entites[e] # NoRow
          /\ OpenDossier(q, [op |-> "createEntite",
                             row |-> [owner |-> entites[e].owner, nom |-> n,
                                      detail |-> d, actif |-> TRUE]], {})
    BY <1>2 DEF BeginCreateEntite
  <2> DEFINE row == [owner |-> entites[e].owner, nom |-> n, detail |-> d, actif |-> TRUE]
             r == [op |-> "createEntite", row |-> row]
  <2>2. row \in EntiteRow
    BY <1>1, <2>1 DEF EntiteRow
  <2>3. r \in DossierTx /\ r.op = "createEntite" /\ OpenDossier(q, r, {})
    BY <2>1, <2>2, IsTx
  <2> HIDE DEF r
  <2> QED
    BY <2>3, OtherOpsOK, OpenKept
<1>3. ASSUME NEW e \in Entite, NEW patched \in EntiteRow, NEW op \in OnEntite, entites[e] # NoRow,
             op = "updateEntite" =>
               patched.owner = entites[e].owner /\ patched.actif = entites[e].actif,
             OpenDossier(q, [op |-> op, id |-> e, seen |-> entites[e], patched |-> patched], {e})
      PROVE  DossierInv'
  <2> DEFINE r == [op |-> op, id |-> e, seen |-> entites[e], patched |-> patched]
  <2>1. /\ r \in DossierTx /\ r.op = op /\ r.id = e /\ r.seen = entites[e] /\ r.patched = patched
        /\ OpenDossier(q, r, {e})
    BY <1>1, <1>3, IsTx
  <2> HIDE DEF r
  <2>2. EntiteRequestOK(r) /\ ContactRequestOK(r)
    BY <1>3, <2>1 DEF EntiteRequestOK, ContactRequestOK, OnEntite, OnContact
  <2> QED
    BY <2>1, <2>2, OpenKept
<1>4. ASSUME NEW e \in Entite, BeginUpdateEntite(q, e)
      PROVE  DossierInv'
  <2>1. PICK patched \in EntitePatches(entites[e]) :
          OpenDossier(q, [op |-> "updateEntite", id |-> e, seen |-> entites[e],
                          patched |-> patched], {e})
    BY <1>4 DEF BeginUpdateEntite
  <2>2. entites[e] \in EntiteRow /\ entites[e] # NoRow
    BY <1>1, <1>4 DEF BeginUpdateEntite
  <2>3. patched \in EntitePatches(entites[e])
    BY <2>1
  <2>4. /\ patched \in EntiteRow
        /\ patched.owner = entites[e].owner /\ patched.actif = entites[e].actif
    BY <2>2, <2>3 DEF EntitePatches
  <2> QED
    BY <1>3, <2>1, <2>2, <2>4 DEF OnEntite
<1>5. ASSUME NEW e \in Entite, BeginToggleEntite(q, e)
      PROVE  DossierInv'
  <2>1. entites[e] \in EntiteRow /\ entites[e] # NoRow
    BY <1>1, <1>5 DEF BeginToggleEntite
  <2>2. [entites[e] EXCEPT !.actif = ~@] \in EntiteRow
    BY <2>1 DEF EntiteRow
  <2> QED
    BY <1>3, <1>5, <2>1, <2>2 DEF BeginToggleEntite, OnEntite
<1> QED
  BY <1>2, <1>4, <1>5

LEMMA CreateKept ==
  ASSUME DossierInv, NEW q \in DossierSession, NEW e \in Entite, CommitCreateEntite(q, e)
  PROVE  DossierInv'
<1> DEFINE row == dossierRequests[q].row
<1>1. /\ dossierRequests[q].op = "createEntite" /\ entites[e] = NoRow
      /\ entites' = [entites EXCEPT ![e] = row]
      /\ entitesTold' = [entitesTold EXCEPT ![e] = row]
      /\ CloseDossier(q)
      /\ UNCHANGED <<contacts, contactsTold, deletions, overlapped>>
  BY DEF CommitCreateEntite, contactVars
<1>2. row \in EntiteRow
  BY <1>1, TxOf DEF DossierInv, DossierTypeOK
<1>3. NamesFree(e, row)
  BY DEF CommitCreateEntite, NameIndexRefuses, NamesFree
<1>4. /\ dossierRequests' \in [DossierSession -> DossierTx]
      /\ dossierRequests'[q] = DossierIdle
      /\ \A p \in DossierSession \ {q} : dossierRequests'[p] = dossierRequests[p]
      /\ Alone'
  BY <1>1, ClosedKept
<1>5. /\ entites' \in [Entite -> EntiteRow \cup {NoRow}]
      /\ entitesTold' \in [Entite -> EntiteRow \cup {NoRow}]
      /\ EntiteNamesUnique'
      /\ \A f \in Entite : f \notin overlapped => entitesTold'[f] = entites'[f]
      /\ \A f \in Entite : entites'[f] = NoRow <=> entitesTold'[f] = NoRow
      /\ \A r : EntiteRequestOK(r) /\ r.id \in Entite => EntiteRequestOK(r)'
  BY <1>1, <1>2, <1>3, EntiteInserted
<1>6. DossierTypeOK'
  BY <1>1, <1>4, <1>5 DEF DossierInv, DossierTypeOK
<1>7. QuietLogTellsRow' /\ RowsLogged'
  BY <1>1, <1>5 DEF DossierInv, QuietLogTellsRow, RowsLogged, ContactGoneIffAudited
<1>8. \A p \in DossierSession :
        EntiteRequestOK(dossierRequests'[p]) /\ ContactRequestOK(dossierRequests'[p])
  BY <1>4, IsTx, OtherOpsOK DEF DossierInv, RequestsOK
<1>9. \A p \in DossierSession :
        dossierRequests'[p].op \in OnEntite => dossierRequests'[p].id \in Entite
  BY <1>4, TxOf
<1>10. \A p \in DossierSession : EntiteRequestOK(dossierRequests[p])'
  BY <1>5, <1>8, <1>9 DEF EntiteRequestOK
<1>11. \A p \in DossierSession : ContactRequestOK(dossierRequests[p])'
  BY <1>1, <1>8 DEF ContactRequestOK
<1> QED
  BY <1>4, <1>5, <1>6, <1>7, <1>10, <1>11 DEF DossierInv, RequestsOK

(* The columns the form does not have stay: as the log tells of an entite  *)
(* that no other request worked on.                                        *)
LEMMA UpdateKept ==
  ASSUME DossierInv, NEW q \in DossierSession, CommitUpdateEntite(q)
  PROVE  DossierInv'
<1> DEFINE tx == dossierRequests[q]
           e == tx.id
           nom == IF tx.patched.nom = tx.seen.nom THEN entitesTold[e].nom ELSE tx.patched.nom
           detail == IF tx.patched.detail = tx.seen.detail THEN entitesTold[e].detail
                     ELSE tx.patched.detail
           told == [entitesTold[e] EXCEPT !.nom = nom, !.detail = detail]
<1>1. /\ tx.op = "updateEntite" /\ tx.op \in OnEntite
      /\ entites' = [entites EXCEPT ![e] = tx.patched]
      /\ CloseDossier(q) /\ UNCHANGED <<contactVars, overlapped>>
  BY DEF CommitUpdateEntite, OnEntite
<1>2. e \in Entite /\ tx.patched \in EntiteRow /\ tx.seen \in EntiteRow
  BY <1>1, TxOf DEF DossierInv, DossierTypeOK
<1>3. /\ entites[e] # NoRow /\ entites[e] \in EntiteRow
      /\ tx.patched.owner = tx.seen.owner /\ tx.patched.actif = tx.seen.actif
      /\ e \notin overlapped => entites[e] = tx.seen
  BY <1>1, <1>2 DEF DossierInv, DossierTypeOK, RequestsOK, EntiteRequestOK
<1>4. entitesTold \in [Entite -> EntiteRow \cup {NoRow}] /\ entitesTold[e] \in EntiteRow
  BY <1>2, <1>3 DEF DossierInv, DossierTypeOK, RowsLogged
<1>5. entitesTold' = [entitesTold EXCEPT ![e] = told]
  BY <1>2, <1>4 DEF CommitUpdateEntite, EntiteRow
<1>6. /\ told \in EntiteRow
      /\ told.owner = entitesTold[e].owner /\ told.actif = entitesTold[e].actif
      /\ told.nom = nom /\ told.detail = detail
  BY <1>2, <1>4 DEF EntiteRow
<1>7. NamesFree(e, tx.patched)
  BY DEF CommitUpdateEntite, NameIndexRefuses, NamesFree
<1>8. ASSUME e \notin overlapped PROVE told = tx.patched
  <2>1. entitesTold[e] = tx.seen
    BY <1>2, <1>3, <1>8 DEF DossierInv, QuietLogTellsRow
  <2>2. /\ told.owner = tx.patched.owner /\ told.actif = tx.patched.actif
        /\ told.nom = tx.patched.nom /\ told.detail = tx.patched.detail
    BY <1>3, <1>6, <2>1
  <2> HIDE DEF told
  <2> QED
    BY <1>2, <1>6, <2>2 DEF EntiteRow
<1> HIDE DEF told
<1> QED
  BY <1>1, <1>2, <1>5, <1>6, <1>7, <1>8, EntiteWritten

LEMMA ToggleKept ==
  ASSUME DossierInv, NEW q \in DossierSession, CommitToggleEntite(q)
  PROVE  DossierInv'
<1> DEFINE tx == dossierRequests[q]
           e == tx.id
           row == [entites[e] EXCEPT !.actif = tx.patched.actif]
           told == [entitesTold[e] EXCEPT !.actif = tx.patched.actif]
<1>1. /\ tx.op \in OnEntite
      /\ entites' = [entites EXCEPT ![e] = row]
      /\ entitesTold' = [entitesTold EXCEPT ![e] = told]
      /\ CloseDossier(q) /\ UNCHANGED <<contactVars, overlapped>>
  BY DEF CommitToggleEntite, OnEntite
<1>2. e \in Entite /\ tx.patched \in EntiteRow
  BY <1>1, TxOf DEF DossierInv, DossierTypeOK
<1>3. entites[e] \in EntiteRow /\ entitesTold[e] \in EntiteRow
  BY <1>1, <1>2 DEF DossierInv, DossierTypeOK, RequestsOK, EntiteRequestOK, RowsLogged
<1>4. row \in EntiteRow /\ row.owner = entites[e].owner /\ row.nom = entites[e].nom
  BY <1>2, <1>3 DEF EntiteRow
<1>5. told \in EntiteRow
  BY <1>2, <1>3 DEF EntiteRow
<1>6. NamesFree(e, row)
  BY <1>1, <1>2, <1>4 DEF NamesFree, DossierInv, EntiteNamesUnique, RequestsOK, EntiteRequestOK
<1>7. e \notin overlapped => told = row
  BY <1>2 DEF DossierInv, QuietLogTellsRow
<1> HIDE DEF row, told
<1> QED
  BY <1>1, <1>4, <1>5, <1>6, <1>7, EntiteWritten

LEMMA RejectKept ==
  ASSUME DossierInv, NEW q \in DossierSession, RejectEntite(q)
  PROVE  DossierInv'
<1>1. CloseDossier(q)
      /\ UNCHANGED <<entites, entitesTold, contacts, contactsTold, deletions, overlapped>>
  BY DEF RejectEntite, entiteVars, contactVars
<1>2. /\ dossierRequests' \in [DossierSession -> DossierTx]
      /\ dossierRequests'[q] = DossierIdle
      /\ \A p \in DossierSession \ {q} : dossierRequests'[p] = dossierRequests[p]
      /\ Alone'
  BY <1>1, ClosedKept
<1>3. DossierTypeOK' /\ EntiteNamesUnique' /\ QuietLogTellsRow' /\ RowsLogged'
  BY <1>1, <1>2 DEF DossierInv, DossierTypeOK, EntiteNamesUnique, QuietLogTellsRow, RowsLogged,
                    ContactGoneIffAudited
<1>4. \A p \in DossierSession :
        EntiteRequestOK(dossierRequests'[p]) /\ ContactRequestOK(dossierRequests'[p])
  BY <1>2, IsTx, OtherOpsOK DEF DossierInv, RequestsOK
<1>5. RequestsOK'
  BY <1>1, <1>4 DEF RequestsOK, EntiteRequestOK, ContactRequestOK
<1> QED
  BY <1>2, <1>3, <1>5 DEF DossierInv

-----------------------------------------------------------------------------
(* A contact of a new identity: no request is on it.                       *)
LEMMA ContactInserted ==
  ASSUME DossierInv, NEW k \in Contact, NEW row \in ContactRow, contactsTold[k] = NoRow,
         contacts' = [contacts EXCEPT ![k] = row],
         contactsTold' = [contactsTold EXCEPT ![k] = row],
         UNCHANGED <<deletions, dossierRequests, overlapped>>
  PROVE  /\ contacts' \in [Contact -> ContactRow \cup {NoRow}]
         /\ contactsTold' \in [Contact -> ContactRow \cup {NoRow}]
         /\ \A j \in Contact : j \notin overlapped /\ contacts'[j] # NoRow => contactsTold'[j] = contacts'[j]
         /\ \A j \in Contact : contactsTold'[j] = NoRow => contacts'[j] = NoRow /\ j \notin deletions
         /\ ContactGoneIffAudited'
         /\ \A r : ContactRequestOK(r) /\ r.id \in Contact => ContactRequestOK(r)'
<1>1. /\ contacts \in [Contact -> ContactRow \cup {NoRow}]
      /\ contactsTold \in [Contact -> ContactRow \cup {NoRow}]
      /\ row # NoRow
  BY NoRowAssumption DEF DossierInv, DossierTypeOK
<1>2. /\ contacts' \in [Contact -> ContactRow \cup {NoRow}]
      /\ contactsTold' \in [Contact -> ContactRow \cup {NoRow}]
      /\ contacts'[k] = row /\ contactsTold'[k] = row
      /\ \A j \in Contact \ {k} : contacts'[j] = contacts[j] /\ contactsTold'[j] = contactsTold[j]
  BY <1>1
<1>3. k \notin deletions
  BY DEF DossierInv, RowsLogged
<1>4. ContactGoneIffAudited'
  BY <1>1, <1>2, <1>3 DEF DossierInv, RowsLogged, ContactGoneIffAudited
<1>5. \A r : ContactRequestOK(r) /\ r.id \in Contact => ContactRequestOK(r)'
  BY <1>2 DEF ContactRequestOK
<1> QED
  BY <1>1, <1>2, <1>3, <1>4, <1>5 DEF DossierInv, QuietLogTellsRow, RowsLogged

LEMMA CreateContactKept ==
  ASSUME DossierInv, NEW k \in Contact, CreateContact(k)
  PROVE  DossierInv'
<1>1. PICK e \in Entite, n \in Nom, d \in Detail \cup {Blank} :
        /\ contactsTold[k] = NoRow
        /\ contacts' = [contacts EXCEPT ![k] = [entite |-> e, nom |-> n, detail |-> d]]
        /\ contactsTold' = [contactsTold EXCEPT ![k] = [entite |-> e, nom |-> n, detail |-> d]]
        /\ UNCHANGED <<entites, entitesTold, deletions, dossierRequests, overlapped>>
  BY DEF CreateContact, entiteVars
<1>2. [entite |-> e, nom |-> n, detail |-> d] \in ContactRow
  BY DEF ContactRow
<1>3. /\ contacts' \in [Contact -> ContactRow \cup {NoRow}]
      /\ contactsTold' \in [Contact -> ContactRow \cup {NoRow}]
      /\ \A j \in Contact : j \notin overlapped /\ contacts'[j] # NoRow => contactsTold'[j] = contacts'[j]
      /\ \A j \in Contact : contactsTold'[j] = NoRow => contacts'[j] = NoRow /\ j \notin deletions
      /\ ContactGoneIffAudited'
      /\ \A r : ContactRequestOK(r) /\ r.id \in Contact => ContactRequestOK(r)'
  BY <1>1, <1>2, ContactInserted
<1>4. DossierTypeOK' /\ EntiteNamesUnique' /\ QuietLogTellsRow' /\ RowsLogged' /\ Alone'
  BY <1>1, <1>3 DEF DossierInv, DossierTypeOK, EntiteNamesUnique, QuietLogTellsRow, RowsLogged, Alone
<1>5. ASSUME NEW p \in DossierSession
      PROVE  EntiteRequestOK(dossierRequests[p])' /\ ContactRequestOK(dossierRequests[p])'
  <2>1. /\ EntiteRequestOK(dossierRequests[p]) /\ ContactRequestOK(dossierRequests[p])
        /\ dossierRequests[p].op \in OnContact => dossierRequests[p].id \in Contact
    BY TxOf DEF DossierInv, RequestsOK, DossierTypeOK
  <2>2. ContactRequestOK(dossierRequests[p])'
    BY <1>1, <1>3, <2>1 DEF ContactRequestOK
  <2> QED
    BY <1>1, <2>1, <2>2 DEF EntiteRequestOK
<1> QED
  BY <1>4, <1>5 DEF DossierInv, RequestsOK

LEMMA CreateSiegeKept ==
  ASSUME DossierInv, NEW owner \in Owner, NEW e \in Entite, CreateSiege(owner, e)
  PROVE  DossierInv'
<1>1. PICK n \in Nom, d \in Detail \cup {Blank} :
        LET row == [owner |-> owner, nom |-> n, detail |-> d, actif |-> TRUE]
        IN  /\ entites' = [entites EXCEPT ![e] = row]
            /\ entitesTold' = [entitesTold EXCEPT ![e] = row]
  BY DEF CreateSiege
<1> DEFINE row == [owner |-> owner, nom |-> n, detail |-> d, actif |-> TRUE]
<1>2. row \in EntiteRow /\ row.owner = owner
  BY DEF EntiteRow
<1>3. entites' = [entites EXCEPT ![e] = row] /\ entitesTold' = [entitesTold EXCEPT ![e] = row]
  BY <1>1
<1> HIDE DEF row
<1>4. entites[e] = NoRow /\ UNCHANGED <<dossierRequests, overlapped>> /\ NamesFree(e, row)
  BY <1>2 DEF CreateSiege, NamesFree
<1>5. /\ entites' \in [Entite -> EntiteRow \cup {NoRow}]
      /\ entitesTold' \in [Entite -> EntiteRow \cup {NoRow}]
      /\ EntiteNamesUnique'
      /\ \A f \in Entite : f \notin overlapped => entitesTold'[f] = entites'[f]
      /\ \A f \in Entite : entites'[f] = NoRow <=> entitesTold'[f] = NoRow
      /\ \A r : EntiteRequestOK(r) /\ r.id \in Entite => EntiteRequestOK(r)'
  BY <1>2, <1>3, <1>4, EntiteInserted
<1>6. /\ contacts' \in [Contact -> ContactRow \cup {NoRow}]
      /\ contactsTold' \in [Contact -> ContactRow \cup {NoRow}]
      /\ \A j \in Contact : j \notin overlapped /\ contacts'[j] # NoRow => contactsTold'[j] = contacts'[j]
      /\ \A j \in Contact : contactsTold'[j] = NoRow => contacts'[j] = NoRow /\ j \notin deletions
      /\ ContactGoneIffAudited'
      /\ \A r : ContactRequestOK(r) /\ r.id \in Contact => ContactRequestOK(r)'
      /\ UNCHANGED deletions
  <2>1. CASE UNCHANGED contactVars
    BY <1>4, <2>1 DEF contactVars, DossierInv, DossierTypeOK, QuietLogTellsRow, RowsLogged,
                ContactGoneIffAudited, ContactRequestOK
  <2>2. ASSUME NEW k \in Contact, NEW m \in Nom, contactsTold[k] = NoRow,
               contacts' = [contacts EXCEPT ![k] = [entite |-> e, nom |-> m, detail |-> Blank]],
               contactsTold' = [contactsTold EXCEPT ![k] = [entite |-> e, nom |-> m, detail |-> Blank]],
               UNCHANGED deletions
        PROVE  <1>6
    <3>1. [entite |-> e, nom |-> m, detail |-> Blank] \in ContactRow
      BY DEF ContactRow
    <3> QED
      BY <1>4, <2>2, <3>1, ContactInserted
  <2> QED
    BY <2>1, <2>2 DEF CreateSiege
<1>7. DossierTypeOK' /\ QuietLogTellsRow' /\ RowsLogged' /\ Alone'
  BY <1>4, <1>5, <1>6 DEF DossierInv, DossierTypeOK, QuietLogTellsRow, RowsLogged, Alone
<1>8. ASSUME NEW p \in DossierSession
      PROVE  EntiteRequestOK(dossierRequests[p])' /\ ContactRequestOK(dossierRequests[p])'
  <2>1. /\ EntiteRequestOK(dossierRequests[p]) /\ ContactRequestOK(dossierRequests[p])
        /\ dossierRequests[p].op \in OnContact => dossierRequests[p].id \in Contact
        /\ dossierRequests[p].op \in OnEntite => dossierRequests[p].id \in Entite
    BY TxOf DEF DossierInv, RequestsOK, DossierTypeOK
  <2>2. ContactRequestOK(dossierRequests[p])'
    BY <1>4, <1>6, <2>1 DEF ContactRequestOK
  <2>3. EntiteRequestOK(dossierRequests[p])'
    BY <1>4, <1>5, <2>1 DEF EntiteRequestOK
  <2> QED
    BY <2>2, <2>3
<1> QED
  BY <1>5, <1>7, <1>8 DEF DossierInv, RequestsOK

LEMMA BeginContactKept ==
  ASSUME DossierInv, NEW q \in DossierSession, NEW k \in Contact,
         BeginUpdateContact(q, k) \/ BeginDeleteContact(q, k)
  PROVE  DossierInv'
<1>1. contacts[k] \in ContactRow /\ contactsTold[k] # NoRow
  BY DEF DossierInv, DossierTypeOK, RowsLogged, BeginUpdateContact, BeginDeleteContact
<1>2. ASSUME NEW patched \in ContactRow, NEW op \in OnContact, patched.entite = contacts[k].entite,
             OpenDossier(q, [op |-> op, id |-> k, seen |-> contacts[k], patched |-> patched], {k})
      PROVE  DossierInv'
  <2> DEFINE r == [op |-> op, id |-> k, seen |-> contacts[k], patched |-> patched]
  <2>1. /\ r \in DossierTx /\ r.op = op /\ r.id = k /\ r.seen = contacts[k] /\ r.patched = patched
        /\ OpenDossier(q, r, {k})
    BY <1>1, <1>2, IsTx
  <2> HIDE DEF r
  <2>2. EntiteRequestOK(r) /\ ContactRequestOK(r)
    BY <1>1, <1>2, <2>1 DEF EntiteRequestOK, ContactRequestOK, OnEntite, OnContact
  <2> QED
    BY <2>1, <2>2, OpenKept
<1>3. CASE BeginUpdateContact(q, k)
  <2>1. PICK patched \in ContactPatches(contacts[k]) :
          OpenDossier(q, [op |-> "updateContact", id |-> k, seen |-> contacts[k],
                          patched |-> patched], {k})
    BY <1>3 DEF BeginUpdateContact
  <2>2. patched \in ContactRow /\ patched.entite = contacts[k].entite
    <3>1. patched \in ContactPatches(contacts[k])
      BY <2>1
    <3> QED
      BY <1>1, <3>1 DEF ContactPatches
  <2> QED
    BY <1>2, <2>1, <2>2 DEF OnContact
<1>4. CASE BeginDeleteContact(q, k)
  BY <1>1, <1>2, <1>4 DEF BeginDeleteContact, OnContact
<1> QED
  BY <1>3, <1>4

(* The commit of a request on a contact, which updates it if it is there,  *)
(* or deletes it.                                                          *)
LEMMA ContactWritten ==
  ASSUME DossierInv, NEW q \in DossierSession, NEW row \in ContactRow \cup {NoRow},
         NEW told \in ContactRow,
         dossierRequests[q].op \in OnContact,
         contacts' = [contacts EXCEPT ![dossierRequests[q].id] = row],
         contactsTold' = [contactsTold EXCEPT ![dossierRequests[q].id] = told],
         dossierRequests[q].id \notin overlapped /\ row # NoRow => told = row,
         deletions \subseteq deletions', deletions' \subseteq deletions \cup {dossierRequests[q].id},
         row = NoRow <=> dossierRequests[q].id \in deletions',
         CloseDossier(q), UNCHANGED <<entiteVars, overlapped>>
  PROVE  DossierInv'
<1> DEFINE k == dossierRequests[q].id
<1>1. dossierRequests[q] \in DossierTx /\ k \in Contact
  BY TxOf DEF DossierInv, DossierTypeOK
<1>2. /\ contacts' \in [Contact -> ContactRow \cup {NoRow}]
      /\ contacts'[k] = row
      /\ \A j \in Contact \ {k} : contacts'[j] = contacts[j]
  BY <1>1 DEF DossierInv, DossierTypeOK
<1>3. /\ contactsTold' \in [Contact -> ContactRow \cup {NoRow}]
      /\ contactsTold'[k] = told /\ told # NoRow
      /\ \A j \in Contact \ {k} : contactsTold'[j] = contactsTold[j]
  BY <1>1, NoRowAssumption DEF DossierInv, DossierTypeOK
<1>4. /\ dossierRequests' \in [DossierSession -> DossierTx]
      /\ dossierRequests'[q] = DossierIdle
      /\ \A p \in DossierSession \ {q} : dossierRequests'[p] = dossierRequests[p]
      /\ Alone'
  BY ClosedKept
<1>5. UNCHANGED <<entites, entitesTold, overlapped>>
  BY DEF entiteVars
<1>6. DossierTypeOK' /\ EntiteNamesUnique'
  BY <1>1, <1>2, <1>3, <1>4, <1>5 DEF DossierInv, DossierTypeOK, EntiteNamesUnique
<1>7. QuietLogTellsRow'
  BY <1>2, <1>3, <1>5 DEF DossierInv, QuietLogTellsRow
<1>8. RowsLogged'
  <2>1. \A j \in Contact \ {k} : j \in deletions' <=> j \in deletions
    OBVIOUS
  <2>2. ContactGoneIffAudited'
    BY <1>2, <1>3, <2>1 DEF DossierInv, RowsLogged, ContactGoneIffAudited
  <2>3. \A j \in Contact : contactsTold'[j] = NoRow => contacts'[j] = NoRow /\ j \notin deletions'
    BY <1>2, <1>3, <2>1 DEF DossierInv, RowsLogged
  <2> QED
    BY <1>5, <2>2, <2>3 DEF DossierInv, RowsLogged
<1>9. ASSUME NEW p \in DossierSession \ {q}
      PROVE  EntiteRequestOK(dossierRequests[p])' /\ ContactRequestOK(dossierRequests[p])'
  <2>1. EntiteRequestOK(dossierRequests[p]) /\ ContactRequestOK(dossierRequests[p])
    BY DEF DossierInv, RequestsOK
  <2>2. dossierRequests[p].op \in OnContact =>
          /\ dossierRequests[p].id \in Contact
          /\ dossierRequests[p].id = k => k \in overlapped
    BY TxOf DEF DossierInv, DossierTypeOK, Alone
  <2>3. ContactRequestOK(dossierRequests[p])'
    BY <1>2, <1>3, <1>4, <1>5, <2>1, <2>2 DEF ContactRequestOK
  <2> QED
    BY <1>4, <1>5, <2>1, <2>3 DEF EntiteRequestOK
<1>10. EntiteRequestOK(dossierRequests[q])' /\ ContactRequestOK(dossierRequests[q])'
  BY <1>4, IsTx DEF EntiteRequestOK, ContactRequestOK, OnEntite, OnContact
<1> QED
  BY <1>4, <1>6, <1>7, <1>8, <1>9, <1>10 DEF DossierInv, RequestsOK

LEMMA CommitContactKept ==
  ASSUME DossierInv, NEW q \in DossierSession, CommitUpdateContact(q) \/ CommitDeleteContact(q)
  PROVE  DossierInv'
<1> DEFINE tx == dossierRequests[q]
           k == tx.id
<1>1. tx.op \in OnContact
  BY DEF CommitUpdateContact, CommitDeleteContact, OnContact
<1>2. k \in Contact /\ tx.patched \in ContactRow /\ tx.seen \in ContactRow
  BY <1>1, TxOf DEF DossierInv, DossierTypeOK
<1>3. /\ contactsTold \in [Contact -> ContactRow \cup {NoRow}] /\ contactsTold[k] \in ContactRow
      /\ contacts \in [Contact -> ContactRow \cup {NoRow}]
      /\ contactsTold[k] # NoRow /\ (contacts[k] = NoRow <=> k \in deletions)
  BY <1>1, <1>2 DEF DossierInv, DossierTypeOK, RequestsOK, ContactRequestOK, RowsLogged,
                    ContactGoneIffAudited
<1>4. CASE CommitDeleteContact(q)
  <2>1. contactsTold' = [contactsTold EXCEPT ![k] = contactsTold[k]]
    BY <1>3, <1>4 DEF CommitDeleteContact
  <2>2. /\ contacts' = [contacts EXCEPT ![k] = NoRow] /\ deletions' = deletions \cup {k}
        /\ CloseDossier(q) /\ UNCHANGED <<entiteVars, overlapped>>
    BY <1>4 DEF CommitDeleteContact, entiteVars
  <2> QED
    BY <1>1, <1>3, <2>1, <2>2, ContactWritten
<1>5. CASE CommitUpdateContact(q)
  <2> DEFINE nom == IF tx.patched.nom = tx.seen.nom THEN contactsTold[k].nom ELSE tx.patched.nom
             detail == IF tx.patched.detail = tx.seen.detail THEN contactsTold[k].detail
                       ELSE tx.patched.detail
             told == [contactsTold[k] EXCEPT !.nom = nom, !.detail = detail]
             row == IF contacts[k] = NoRow THEN NoRow ELSE tx.patched
  <2>1. /\ tx.op = "updateContact" /\ CloseDossier(q)
        /\ UNCHANGED <<entiteVars, deletions, overlapped>>
    BY <1>5 DEF CommitUpdateContact
  <2>2. contactsTold' = [contactsTold EXCEPT ![k] = told]
    BY <1>2, <1>3, <1>5 DEF CommitUpdateContact, ContactRow
  <2>3. contacts' = [contacts EXCEPT ![k] = row]
    BY <1>2, <1>3, <1>5 DEF CommitUpdateContact, UpdatedContacts
  <2>4. /\ told \in ContactRow /\ told.entite = contactsTold[k].entite
        /\ told.nom = nom /\ told.detail = detail
    BY <1>2, <1>3 DEF ContactRow
  <2>5. row \in ContactRow \cup {NoRow} /\ (row = NoRow <=> k \in deletions')
    BY <1>2, <1>3, <2>1, NoRowAssumption
  <2>6. ASSUME k \notin overlapped, row # NoRow PROVE told = row
    <3>1. contactsTold[k] = tx.seen /\ row = tx.patched /\ tx.patched.entite = tx.seen.entite
      BY <1>1, <1>2, <2>1, <2>6
         DEF DossierInv, QuietLogTellsRow, RequestsOK, ContactRequestOK
    <3>2. /\ told.entite = tx.patched.entite
          /\ told.nom = tx.patched.nom /\ told.detail = tx.patched.detail
      BY <2>4, <3>1
    <3> HIDE DEF told, row
    <3> QED
      BY <1>2, <2>4, <3>1, <3>2 DEF ContactRow
  <2> HIDE DEF told, row
  <2> QED
    BY <1>1, <2>1, <2>2, <2>3, <2>4, <2>5, <2>6, ContactWritten
<1> QED
  BY <1>4, <1>5

-----------------------------------------------------------------------------
LEMMA DossierStep == DossierInv /\ [DossierNext]_dossierVars => DossierInv'
<1> SUFFICES ASSUME DossierInv, [DossierNext]_dossierVars PROVE DossierInv'
  OBVIOUS
<1>1. CASE UNCHANGED dossierVars
  BY <1>1 DEF dossierVars, DossierInv, DossierTypeOK, EntiteNamesUnique, QuietLogTellsRow, RowsLogged,
              ContactGoneIffAudited, RequestsOK, EntiteRequestOK, ContactRequestOK, Alone
<1>2. CASE NewSiege
  BY <1>2, CreateSiegeKept DEF NewSiege
<1>3. ASSUME NEW q \in DossierSession, EntiteUseCase(q)
      PROVE  DossierInv'
  BY <1>3, BeginEntiteKept, CreateKept, UpdateKept, ToggleKept, RejectKept DEF EntiteUseCase
<1>4. ASSUME NEW q \in DossierSession, ContactUseCase(q)
      PROVE  DossierInv'
  BY <1>4, BeginContactKept, CommitContactKept DEF ContactUseCase
<1> QED
  BY <1>1, <1>2, <1>3, <1>4, CreateContactKept DEF DossierNext, EntiteNext, ContactNext

LEMMA DossierInvariant == DossierSpec => []DossierInv
BY InitDossier, DossierStep, PTL DEF DossierSpec

(* The entites and contacts of any clients, under any overlap of requests: *)
(* names are unique, deletions audited, and what no two requests worked on *)
(* at once is what the log tells.                                          *)
THEOREM DossiersAreExact == DossierSpec => []DossierExact
<1>1. DossierInv => DossierExact
  BY DEF DossierInv, DossierExact, RowsLogged
<1> QED
  BY <1>1, DossierInvariant, PTL

(* Of all requests, only an edit that read the entity before a toggle      *)
(* makes its log and its row part on actif.                                *)
THEOREM TogglesStand == DossierSpec => OnlyEditsUndoToggles
<1>1. ASSUME DossierInv, DossierNext, NEW e \in Entite,
             entites[e] # NoRow, entites[e].actif = entitesTold[e].actif,
             entites'[e].actif # entitesTold'[e].actif
      PROVE  \E q \in DossierSession :
               /\ dossierRequests[q].op = "updateEntite"
               /\ dossierRequests[q].id = e
               /\ dossierRequests[q].seen.actif # entites[e].actif
  <2>1. /\ entites \in [Entite -> EntiteRow \cup {NoRow}]
        /\ entitesTold \in [Entite -> EntiteRow \cup {NoRow}]
        /\ entites[e] \in EntiteRow /\ entitesTold[e] \in EntiteRow
    BY <1>1 DEF DossierInv, DossierTypeOK, RowsLogged
  <2>2. ASSUME NEW f \in Entite, NEW row, f # e,
               entites' = [entites EXCEPT ![f] = row], entitesTold' = [entitesTold EXCEPT ![f] = row]
        PROVE  FALSE
    BY <1>1, <2>1, <2>2
  <2>3. ~NewSiege /\ ~\E q \in DossierSession, f \in Entite : CommitCreateEntite(q, f)
    <3>1. ASSUME NEW o \in Owner, NEW f \in Entite, CreateSiege(o, f)
          PROVE  FALSE
      BY <1>1, <2>2, <3>1 DEF CreateSiege
    <3>2. ASSUME NEW q \in DossierSession, NEW f \in Entite, CommitCreateEntite(q, f)
          PROVE  FALSE
      BY <1>1, <2>2, <3>2 DEF CommitCreateEntite
    <3> QED
      BY <3>1, <3>2 DEF NewSiege
  <2>4. ASSUME NEW q \in DossierSession, CommitToggleEntite(q)
        PROVE  FALSE
    <3>1. dossierRequests[q].id \in Entite
      BY <1>1, <2>4, TxOf DEF CommitToggleEntite, OnEntite, DossierInv, DossierTypeOK
    <3>2. CASE dossierRequests[q].id = e
      BY <1>1, <2>1, <2>4, <3>2 DEF CommitToggleEntite, EntiteRow
    <3>3. CASE dossierRequests[q].id # e
      BY <1>1, <2>1, <2>4, <3>3 DEF CommitToggleEntite
    <3> QED
      BY <3>2, <3>3
  <2>5. UNCHANGED entiteVars => FALSE
    BY <1>1 DEF entiteVars
  <2>6. PICK q \in DossierSession : CommitUpdateEntite(q)
    BY <1>1, <2>3, <2>4, <2>5
       DEF DossierNext, EntiteNext, ContactNext, EntiteUseCase, ContactUseCase, BeginCreateEntite,
           BeginUpdateEntite, BeginToggleEntite, RejectEntite, CreateContact, BeginUpdateContact,
           BeginDeleteContact, CommitUpdateContact, CommitDeleteContact, OpenDossier
  <2> DEFINE tx == dossierRequests[q]
  <2>7. /\ tx.op = "updateEntite" /\ tx.id \in Entite
        /\ tx.patched \in EntiteRow /\ tx.patched.actif = tx.seen.actif
    BY <1>1, <2>6, TxOf
       DEF CommitUpdateEntite, OnEntite, DossierInv, DossierTypeOK, RequestsOK, EntiteRequestOK
  <2>8. tx.id = e
    BY <1>1, <2>1, <2>6, <2>7 DEF CommitUpdateEntite
  <2>9. entites'[e].actif = tx.seen.actif /\ entitesTold'[e].actif = entitesTold[e].actif
    BY <2>1, <2>6, <2>7, <2>8 DEF CommitUpdateEntite, EntiteRow
  <2> QED
    BY <1>1, <2>7, <2>8, <2>9
<1>2. DossierInv /\ [DossierNext]_dossierVars =>
        [\A e \in Entite :
           /\ entites[e] # NoRow
           /\ entites[e].actif = entitesTold[e].actif
           /\ entites'[e].actif # entitesTold'[e].actif
           => \E q \in DossierSession :
                /\ dossierRequests[q].op = "updateEntite"
                /\ dossierRequests[q].id = e
                /\ dossierRequests[q].seen.actif # entites[e].actif]_dossierVars
  BY <1>1
<1> QED
  BY <1>2, DossierInvariant, PTL DEF DossierSpec, OnlyEditsUndoToggles

=============================================================================
