-------------------------- MODULE ClientLifecycle --------------------------
(***************************************************************************)
(* The rows of lic_clients, as the use cases of the web application change *)
(* them over PostgreSQL at READ COMMITTED: a transaction reads the row,    *)
(* computes the row to write, and its writes become visible together when  *)
(* it commits.  The row is under an optimistic lock, its version; the PKI  *)
(* columns of the same row are written by other use cases and are not.     *)
(* Rows are never deleted.                                                 *)
(***************************************************************************)
EXTENDS ClientDomain

CONSTANTS
  Client,           \* identities of lic_clients rows
  ClientSession,    \* concurrent requests of the web application
  NoClient,         \* no row
  NewInput,         \* what a user types when creating a client
  PatchInput,       \* the patches a user sends to UpdateClientUseCase
  MaxClientVersion  \* bound: no request starts on a client of that version

ASSUME ClientInputAssumption ==
  /\ NewInput \subseteq ClientInput
  /\ PatchInput \subseteq ClientPatch
  /\ MaxClientVersion \in Nat

ASSUME NoClientAssumption == NoClient \notin ClientRow

VARIABLES
  clients,        \* lic_clients
  clientRequests, \* the transaction each session has open
  clientAudit     \* lic_audit_log, the rows about clients

clientVars == <<clients, clientRequests, clientAudit>>

-----------------------------------------------------------------------------
(* An audit row names the write it accounts for by the version that write  *)
(* produced; those that report a statut hold it in their afterData.        *)

StatutAction ==
  {"CLIENT_CREATED", "CLIENT_TERMINATED", "CLIENT_ACTIVATED",
   "CLIENT_SUSPENDED", "CLIENT_REACTIVATED", "CLIENT_STATUS_CHANGED"}

StatutEvent ==
  [action : StatutAction, client : Client, version : Nat, statut : ClientStatut]

ProfileEvent == [action : {"CLIENT_UPDATED"}, client : Client, version : Nat]

CertificateEvent == [action : {"CERTIFICATE_ISSUED"}, client : Client]

ReportsStatut(action, c, version, statut) ==
  [action |-> action, client |-> c, version |-> version, statut |-> statut]

-----------------------------------------------------------------------------
ClientIdle == [op |-> "idle"]

CreateTx == [op : {"create"}, input : {i \in ClientInput : ValidClientInput(i)}]

WriteTx ==
  [op : {"updateClient", "changeStatut"}, client : Client, expected : Nat,
   seen : ClientRow, patched : ClientRow]

ClientTransaction == {ClientIdle} \cup CreateTx \cup WriteTx

Known(c) == clients[c] # NoClient

CodeTaken(code) == \E c \in Client : Known(c) /\ clients[c].code = code

(* The unique index uq_clients_code refuses the INSERT.                    *)
UniqueIndexRefuses(code) == CodeTaken(code)

(* Mutant: the UPDATE has no version in its WHERE.                         *)
AnyClientVersion(c, expected) == Known(c)

ClientVersionMatches(c, expected) == clients[c].version = expected

(* Mutant: the UPDATE sets the PKI columns too, as they were read.         *)
SaveWholeClient(c, row) ==
  clients' = [clients EXCEPT ![c] = [row EXCEPT !.version = clients[c].version + 1]]

(* ClientRepositoryPg.update sets every column but the PKI ones, and       *)
(* increments the version.                                                 *)
SaveClient(c, row) ==
  clients' = [clients EXCEPT ![c] =
    [row EXCEPT !.version = clients[c].version + 1,
                !.certified = clients[c].certified]]

LogClient(events) == clientAudit' = clientAudit \cup events

OpenClient(q, transaction) ==
  /\ clientRequests[q] = ClientIdle
  /\ clientRequests' = [clientRequests EXCEPT ![q] = transaction]
  /\ UNCHANGED <<clients, clientAudit>>

CloseClient(q) == clientRequests' = [clientRequests EXCEPT ![q] = ClientIdle]

-----------------------------------------------------------------------------
ClientInit ==
  /\ clients = [c \in Client |-> NoClient]
  /\ clientRequests = [q \in ClientSession |-> ClientIdle]
  /\ clientAudit = {}

(* CreateClientUseCase, up to its INSERTs: the code was free when read.    *)
BeginCreateClient(q) ==
  \E input \in NewInput :
    /\ ValidClientInput(input)
    /\ ~CodeTaken(input.code)
    /\ OpenClient(q, [op |-> "create", input |-> input])

(* The INSERT, the certificate and the two audit rows commit together (the *)
(* siege entity and the contacts of the same transaction are Dossier's).   *)
CommitCreateClient(q, c) ==
  LET tx == clientRequests[q]
  IN  /\ tx.op = "create"
      /\ ~Known(c)
      /\ ~UniqueIndexRefuses(tx.input.code)
      /\ clients' = [clients EXCEPT ![c] = NewClient(tx.input)]
      /\ LogClient({ReportsStatut("CLIENT_CREATED", c, 0, tx.input.statut),
                    [action |-> "CERTIFICATE_ISSUED", client |-> c]})
      /\ CloseClient(q)

RejectCreateClient(q) ==
  /\ clientRequests[q].op = "create"
  /\ UniqueIndexRefuses(clientRequests[q].input.code)
  /\ CloseClient(q)
  /\ UNCHANGED <<clients, clientAudit>>

(* The page the user edits was rendered from some earlier version.         *)
ClientPageVersion(c) == 0 .. clients[c].version

(* UpdateClientUseCase, up to its UPDATE; a patch that changes nothing     *)
(* returns before it, whatever version the page had.                       *)
BeginUpdateClient(q, c) ==
  /\ Known(c)
  /\ clients[c].version < MaxClientVersion
  /\ \E expected \in ClientPageVersion(c), patch \in PatchInput :
       LET patched == WithClientProfile(clients[c], patch)
       IN  /\ ValidClientPatch(patch)
           /\ patched # clients[c]
           /\ OpenClient(q, [op |-> "updateClient", client |-> c,
                             expected |-> expected, seen |-> clients[c],
                             patched |-> patched])

(* ChangeClientStatusUseCase, up to its UPDATE.                            *)
BeginChangeStatut(q, c) ==
  /\ Known(c)
  /\ clients[c].version < MaxClientVersion
  /\ \E expected \in ClientPageVersion(c), statut \in ClientStatut :
       /\ ClientCanTransition(clients[c].statut, statut)
       /\ OpenClient(q, [op |-> "changeStatut", client |-> c,
                         expected |-> expected, seen |-> clients[c],
                         patched |-> WithStatut(clients[c], statut)])

(* Mutant: the audit row reports the statut the client had.                *)
WriteEventBefore(tx) ==
  IF tx.op = "updateClient"
  THEN [action |-> "CLIENT_UPDATED", client |-> tx.client,
        version |-> tx.expected + 1]
  ELSE ReportsStatut(StatutVerb(tx.seen.statut, tx.patched.statut), tx.client,
                     tx.expected + 1, tx.seen.statut)

(* The audit row of a transaction, from what it read and what it wrote.    *)
WriteEvent(tx) ==
  IF tx.op = "updateClient"
  THEN [action |-> "CLIENT_UPDATED", client |-> tx.client,
        version |-> tx.expected + 1]
  ELSE ReportsStatut(StatutVerb(tx.seen.statut, tx.patched.statut), tx.client,
                     tx.expected + 1, tx.patched.statut)

CommitClient(q) ==
  LET tx == clientRequests[q]
  IN  /\ tx.op \in {"updateClient", "changeStatut"}
      /\ ClientVersionMatches(tx.client, tx.expected)
      /\ SaveClient(tx.client, tx.patched)
      /\ LogClient({WriteEvent(tx)})
      /\ CloseClient(q)

(* Zero rows updated: SPX-LIC-728, and the transaction rolls back.         *)
RejectClient(q) ==
  /\ clientRequests[q].op \in {"updateClient", "changeStatut"}
  /\ ~ClientVersionMatches(clientRequests[q].client, clientRequests[q].expected)
  /\ CloseClient(q)
  /\ UNCHANGED <<clients, clientAudit>>

(* The backfill attaches a certificate to a client that has none (Pki      *)
(* models the whole of it); the version stays.                             *)
AttachCertificate(c) ==
  /\ Known(c)
  /\ ~clients[c].certified
  /\ clients' = [clients EXCEPT ![c].certified = TRUE]
  /\ LogClient({[action |-> "CERTIFICATE_ISSUED", client |-> c]})
  /\ UNCHANGED clientRequests

(* delete-ca clears the PKI columns of every client.                       *)
NullifyAllCertificates ==
  /\ \E c \in Client : Known(c) /\ clients[c].certified
  /\ clients' = [c \in Client |->
       IF Known(c) THEN [clients[c] EXCEPT !.certified = FALSE] ELSE NoClient]
  /\ UNCHANGED <<clientRequests, clientAudit>>

ClientUseCase(q) ==
  \/ BeginCreateClient(q)
  \/ \E c \in Client :
       \/ CommitCreateClient(q, c)
       \/ BeginUpdateClient(q, c)
       \/ BeginChangeStatut(q, c)
  \/ RejectCreateClient(q)
  \/ CommitClient(q)
  \/ RejectClient(q)

ClientNext ==
  \/ \E q \in ClientSession : ClientUseCase(q)
  \/ \E c \in Client : AttachCertificate(c)
  \/ NullifyAllCertificates

ClientSpec == ClientInit /\ [][ClientNext]_clientVars

-----------------------------------------------------------------------------
(* The table, the open transactions and the log hold rows of their types.  *)
ClientTypeOK ==
  /\ clients \in [Client -> ClientRow \cup {NoClient}]
  /\ clientRequests \in [ClientSession -> ClientTransaction]
  /\ clientAudit \subseteq StatutEvent \cup ProfileEvent \cup CertificateEvent

InWriteTx(q) == clientRequests[q].op \in {"updateClient", "changeStatut"}

(* The columns the optimistic lock protects: all but the PKI ones.         *)
Locked(row) == [row EXCEPT !.certified = FALSE]

(* Rule L4 on clients.  A transaction whose version check would let it     *)
(* write holds every column it will set as it is in the table, however     *)
(* many edits, statut changes and certificates were committed since.       *)
StaleClientWriteRefused ==
  \A q \in ClientSession : InWriteTx(q) =>
    LET tx == clientRequests[q]
    IN  ClientVersionMatches(tx.client, tx.expected) =>
          Locked(tx.seen) = Locked(clients[tx.client])

(* Two requests that both found a code free never both create a client     *)
(* with it.                                                                *)
CodesUnique ==
  \A c, d \in Client :
    Known(c) /\ Known(d) /\ clients[c].code = clients[d].code => c = d

(* RESILIE is terminal: a request that read the client before it was       *)
(* terminated cannot bring it back.                                        *)
ResilieFinal ==
  [][\A c \in Client :
       Known(c) /\ clients[c].statut = "RESILIE" =>
         clients'[c].statut = "RESILIE"]_clientVars

VersionedEvents(c) ==
  {e \in clientAudit : e \in StatutEvent \cup ProfileEvent /\ e.client = c}

(* Rule L3 on clients: each write a client went through, its creation      *)
(* first, is accounted for by exactly one audit row.                       *)
ClientAuditExact ==
  \A c \in Client :
    /\ Known(c) =>
         \A v \in 0 .. clients[c].version :
           \E e \in VersionedEvents(c) : e.version = v
    /\ \A e \in VersionedEvents(c) :
         /\ Known(c) /\ e.version <= clients[c].version
         /\ \A f \in VersionedEvents(c) : f.version = e.version => f = e

(* Replaying the log gives the statut of the client: the last audit row    *)
(* that reports one reports the one in the table.                          *)
LogTellsStatut ==
  \A c \in Client : \A e \in clientAudit :
    /\ e \in StatutEvent /\ e.client = c
    /\ \A f \in clientAudit :
         f \in StatutEvent /\ f.client = c => f.version <= e.version
    => Known(c) /\ clients[c].statut = e.statut

(* The clients and their log are exact: codes are unique, every write has  *)
(* its audit row and no other has one, and the last statut of the log is the *)
(* statut of the row, whatever creations, edits and batches overlap.       *)
ClientsExact == ClientTypeOK /\ CodesUnique /\ ClientAuditExact /\ LogTellsStatut

(* The inductive invariant.  An open write is about a client that exists;  *)
(* the row it read is the row in the table or has an older version, the    *)
(* page is no newer than that row, and the row to write differs from it by *)
(* what the use case may change.                                           *)
WriteOpen(tx) ==
  /\ Known(tx.client)
  /\ tx.expected <= tx.seen.version
  /\ tx.seen.version <= clients[tx.client].version
  /\ tx.seen.version = clients[tx.client].version =>
       Locked(tx.seen) = Locked(clients[tx.client])
  /\ tx.op = "updateClient" =>
       /\ tx.patched.code = tx.seen.code
       /\ tx.patched.statut = tx.seen.statut
  /\ tx.op = "changeStatut" =>
       /\ ClientCanTransition(tx.seen.statut, tx.patched.statut)
       /\ tx.patched = WithStatut(tx.seen, tx.patched.statut)

WritesOpen == \A q \in ClientSession : InWriteTx(q) => WriteOpen(clientRequests[q])

ClientIInv ==
  ClientTypeOK /\ WritesOpen /\ CodesUnique /\ ClientAuditExact /\ LogTellsStatut

ClientAbstract == INSTANCE AtomicClient

(* Requests and certificate batches running together change the clients as *)
(* if each acted at one instant, on the row as it stands then.             *)
ClientsAtomic == ClientAbstract!Spec
=============================================================================
