--------------------------------- MODULE Pki ---------------------------------
(***************************************************************************)
(* The certification authority of the portal, the client certificates it   *)
(* issues and the .lic files signed with them.  The CA is one row of       *)
(* lic_settings, the certificates are columns of lic_clients.              *)
(*                                                                         *)
(* Every use case reads first and computes keys outside any transaction;   *)
(* what it then commits is a READ COMMITTED transaction, whose statements  *)
(* each see what was committed when they run.                              *)
(***************************************************************************)
EXTENDS Integers, Sequences, FiniteSets

CONSTANTS
  Client,    \* the clients of the portal
  CA,        \* key pairs with a self-signed certificate
  Session,   \* concurrent requests of the web application
  Null,      \* NULL, and no CA
  Absent,    \* a client that is not created yet
  MaxChange, \* bound: how many changes of CA are audited
  MaxFault   \* bound: how many requests fail or lose their process

ASSUME PkiAssumption ==
  /\ Null \notin CA /\ Absent \notin CA /\ Null # Absent
  /\ MaxChange \in Nat /\ MaxFault \in Nat

VARIABLES
  ca,        \* the s2m_root_ca row of lic_settings
  certs,     \* for each client, the CA that signed its certificate
  lics,      \* the LIC_GENERATED rows of lic_fichiers_log
  requests,  \* what each session is in the middle of
  pkiAudit,  \* the rows of lic_audit_log on the CA, as they commit
  issued,    \* how many CERTIFICATE_ISSUED rows, by client and CA
  overlapped,\* history: two requests that conflict have run together
  faults     \* how many requests have failed

vars == <<ca, certs, lics, requests, pkiAudit, issued, overlapped, faults>>

-----------------------------------------------------------------------------
Idle == [op |-> "idle"]

InstallStage == {"install", "installWrite"}
DeleteStage == {"delete", "deleteRecheck", "deleteNullify", "deleteRow", "deleteCommit"}
BackfillStage == {"backfillSelect", "backfill"}

(* The two requests should not run together: one of them changes the CA,   *)
(* or both issue certificates to the same clients.                         *)
Conflict(op1, op2) ==
  \/ op1 \in InstallStage \cup DeleteStage
  \/ op2 \in InstallStage \cup DeleteStage
  \/ op1 \in BackfillStage /\ op2 \in BackfillStage

Open(q, request) ==
  /\ requests[q] = Idle
  /\ requests' = [requests EXCEPT ![q] = request]
  /\ overlapped' =
       \/ overlapped
       \/ \E r \in Session : requests[r] # Idle /\ Conflict(request.op, requests[r].op)
  /\ UNCHANGED <<ca, certs, lics, pkiAudit, issued, faults>>

Close(q) == requests' = [requests EXCEPT ![q] = Idle]

(* A statement that reads, and takes the request to its next stage.        *)
Advance(q, request) ==
  /\ requests' = [requests EXCEPT ![q] = request]
  /\ UNCHANGED <<ca, certs, lics, pkiAudit, issued, overlapped, faults>>

Fail(q) == Advance(q, Idle)

Init ==
  /\ ca = Null
  /\ certs \in [Client -> {Absent, Null}]
  /\ lics = {}
  /\ requests = [q \in Session |-> Idle]
  /\ pkiAudit = <<>>
  /\ issued = [c \in Client |-> [k \in CA |-> 0]]
  /\ overlapped = FALSE
  /\ faults = 0

-----------------------------------------------------------------------------
(* GenerateCAUseCase and ImportCAUseCase: refuse when there is a CA, make  *)
(* or verify the key pair ...                                              *)
BeginInstallCA(q, k) ==
  /\ Len(pkiAudit) < MaxChange
  /\ ca = Null
  /\ Open(q, [op |-> "install", ca |-> k])

(* ... read the settings again in the transaction ...                      *)
InstallRecheck(q) ==
  /\ requests[q].op = "install"
  /\ IF ca = Null THEN Advance(q, [requests[q] EXCEPT !.op = "installWrite"])
                  ELSE Fail(q)

(* Mutant: ON CONFLICT DO NOTHING.                                         *)
UpsertKeeps(k) == ca' = IF ca = Null THEN k ELSE ca

(* SettingRepositoryPg.upsertMany: INSERT ... ON CONFLICT DO UPDATE.       *)
UpsertCA(k) == ca' = k

(* The settings row is locked by the transaction that has deleted it.      *)
RowLocked == \E r \in Session : requests[r].op = "deleteCommit" /\ requests[r].deletes

(* ... and upsert it with its audit.  The upsert waits for a deletion that *)
(* holds the row; its own lock lasts until its commit, so that the two are *)
(* one step.                                                               *)
CommitInstallCA(q) ==
  /\ requests[q].op = "installWrite"
  /\ ~RowLocked
  /\ UpsertCA(requests[q].ca)
  /\ pkiAudit' = Append(pkiAudit, [action |-> "INSTALLED", ca |-> requests[q].ca])
  /\ Close(q)
  /\ UNCHANGED <<certs, lics, issued, overlapped, faults>>

(* DeleteCAUseCase.  The two reads before the transaction are one step:    *)
(* a .lic file that is logged stays logged.                                *)
BeginDeleteCA(q) ==
  /\ Len(pkiAudit) < MaxChange
  /\ ca # Null
  /\ lics = {}
  /\ Open(q, [op |-> "delete", ca |-> ca, locked |-> {}, deletes |-> FALSE])

(* In the transaction: countByType("LIC_GENERATED") ...                    *)
DeleteRecount(q) ==
  /\ requests[q].op = "delete"
  /\ IF lics = {} THEN Advance(q, [requests[q] EXCEPT !.op = "deleteRecheck"])
                  ELSE Fail(q)

(* ... the settings ...                                                    *)
DeleteRecheck(q) ==
  /\ requests[q].op = "deleteRecheck"
  /\ IF ca # Null THEN Advance(q, [requests[q] EXCEPT !.op = "deleteNullify"])
                  ELSE Fail(q)

Existing == {c \in Client : certs[c] # Absent}

(* Client rows that an open transaction has updated: others wait for it.   *)
Locked(c) ==
  \E r \in Session :
    requests[r].op \in {"deleteRow", "deleteCommit"} /\ c \in requests[r].locked

(* ... nullifyAllCertificates, which updates the clients it sees ...       *)
NullifyCertificates(q) ==
  /\ requests[q].op = "deleteNullify"
  /\ \A c \in Existing : ~Locked(c)
  /\ Advance(q, [requests[q] EXCEPT !.op = "deleteRow", !.locked = Existing])

(* ... deleteByKey: the DELETE waits for a row that another deletion has   *)
(* deleted.  When there is no row (any more) it deletes none and locks     *)
(* none, and nothing looks at how many it deleted ...                      *)
DeleteRow(q) ==
  /\ requests[q].op = "deleteRow"
  /\ ~RowLocked
  /\ Advance(q, [requests[q] EXCEPT !.op = "deleteCommit", !.deletes = (ca # Null)])

DeletedCA(q) == IF requests[q].deletes THEN Null ELSE ca

(* Mutant: the certificates are left for the backfill to replace.          *)
CommitDeleteOnly(q) ==
  /\ requests[q].op = "deleteCommit"
  /\ ca' = DeletedCA(q)
  /\ pkiAudit' = Append(pkiAudit, [action |-> "DELETED", ca |-> requests[q].ca])
  /\ Close(q)
  /\ UNCHANGED <<certs, lics, issued, overlapped, faults>>

(* ... and the audit of the CA that was read first, with the commit.       *)
CommitDeleteCA(q) ==
  /\ requests[q].op = "deleteCommit"
  /\ certs' = [c \in Client |-> IF c \in requests[q].locked THEN Null ELSE certs[c]]
  /\ ca' = DeletedCA(q)
  /\ pkiAudit' = Append(pkiAudit, [action |-> "DELETED", ca |-> requests[q].ca])
  /\ Close(q)
  /\ UNCHANGED <<lics, issued, overlapped, faults>>

-----------------------------------------------------------------------------
(* CreateClientUseCase reads the CA and signs a certificate ...            *)
BeginCreateClient(q, c) ==
  /\ ca # Null
  /\ certs[c] = Absent
  /\ Open(q, [op |-> "create", client |-> c, ca |-> ca])

(* ... then inserts the client with it, unless its code exists by now.     *)
CommitCreateClient(q) ==
  LET c == requests[q].client
      k == requests[q].ca
  IN  /\ requests[q].op = "create"
      /\ IF certs[c] # Absent THEN Fail(q)
         ELSE /\ certs' = [certs EXCEPT ![c] = k]
              /\ issued' = [issued EXCEPT ![c][k] = @ + 1]
              /\ Close(q)
              /\ UNCHANGED <<ca, lics, pkiAudit, overlapped, faults>>

(* BackfillClientCertificatesUseCase reads the CA once ...                 *)
BeginBackfill(q) ==
  /\ ca # Null
  /\ Open(q, [op |-> "backfillSelect", ca |-> ca, todo |-> {}])

Pending == {c \in Client : certs[c] = Null}

(* Mutant: IS NOT NULL.                                                    *)
BackfillSelectCertified(q) ==
  /\ requests[q].op = "backfillSelect"
  /\ Advance(q, [requests[q] EXCEPT !.op = "backfill", !.todo = Existing \ Pending])

(* ... and once the clients without a certificate ...                      *)
BackfillSelect(q) ==
  /\ requests[q].op = "backfillSelect"
  /\ Advance(q, [requests[q] EXCEPT !.op = "backfill", !.todo = Pending])

(* Mutant: the UPDATE commits without its audit.                           *)
BackfillUnaudited(q, c) ==
  /\ requests[q].op = "backfill"
  /\ c \in requests[q].todo
  /\ ~Locked(c)
  /\ certs' = [certs EXCEPT ![c] = requests[q].ca]
  /\ requests' = [requests EXCEPT ![q].todo = @ \ {c}]
  /\ UNCHANGED <<ca, lics, pkiAudit, issued, overlapped, faults>>

(* ... then one transaction for each, an UPDATE WHERE id and its audit.    *)
BackfillClient(q, c) ==
  LET k == requests[q].ca
  IN  /\ requests[q].op = "backfill"
      /\ c \in requests[q].todo
      /\ ~Locked(c)
      /\ certs' = [certs EXCEPT ![c] = k]
      /\ issued' = [issued EXCEPT ![c][k] = @ + 1]
      /\ requests' = [requests EXCEPT ![q].todo = @ \ {c}]
      /\ UNCHANGED <<ca, lics, pkiAudit, overlapped, faults>>

(* One client's failure is caught, and the loop goes on.                   *)
BackfillSkips(q, c) ==
  /\ faults < MaxFault
  /\ requests[q].op = "backfill"
  /\ c \in requests[q].todo
  /\ faults' = faults + 1
  /\ requests' = [requests EXCEPT ![q].todo = @ \ {c}]
  /\ UNCHANGED <<ca, certs, lics, pkiAudit, issued, overlapped>>

BackfillEnds(q) ==
  /\ requests[q].op = "backfill"
  /\ requests[q].todo = {}
  /\ Fail(q)

-----------------------------------------------------------------------------
(* GenerateLicenceFichierUseCase: findClientCredentials ...                *)
BeginGenerateLic(q, c) ==
  /\ certs[c] \in CA
  /\ Open(q, [op |-> "lic", client |-> c, ca |-> certs[c]])

(* ... then LogFichierGenereUseCase, outside any transaction.              *)
LogLic(q) ==
  /\ requests[q].op = "lic"
  /\ lics' = lics \cup {[client |-> requests[q].client, ca |-> requests[q].ca]}
  /\ Close(q)
  /\ UNCHANGED <<ca, certs, pkiAudit, issued, overlapped, faults>>

(* A request throws or its process dies: an open transaction rolls back.   *)
Abandon(q) ==
  /\ faults < MaxFault
  /\ requests[q] # Idle
  /\ faults' = faults + 1
  /\ Close(q)
  /\ UNCHANGED <<ca, certs, lics, pkiAudit, issued, overlapped>>

ChangeCA(q) ==
  \/ \E k \in CA : BeginInstallCA(q, k)
  \/ InstallRecheck(q)
  \/ CommitInstallCA(q)
  \/ BeginDeleteCA(q)
  \/ DeleteRecount(q)
  \/ DeleteRecheck(q)
  \/ NullifyCertificates(q)
  \/ DeleteRow(q)
  \/ CommitDeleteCA(q)

BackfillStep(q) ==
  \/ BackfillSelect(q)
  \/ \E c \in Client : BackfillClient(q, c)
  \/ BackfillEnds(q)

UseCA(q) ==
  \/ \E c \in Client : BeginCreateClient(q, c) \/ BeginGenerateLic(q, c)
  \/ CommitCreateClient(q)
  \/ LogLic(q)
  \/ BeginBackfill(q)
  \/ BackfillStep(q)
  \/ \E c \in Client : BackfillSkips(q, c)

Next == \E q \in Session : ChangeCA(q) \/ UseCA(q) \/ Abandon(q)

Spec == Init /\ [][Next]_vars

(* What has begun runs on, and an administrator starts the backfill again  *)
(* as long as the page counts clients without a certificate.               *)
RunsOn(q) ==
  \/ InstallRecheck(q) \/ CommitInstallCA(q)
  \/ DeleteRecount(q) \/ DeleteRecheck(q)
  \/ NullifyCertificates(q) \/ DeleteRow(q) \/ CommitDeleteCA(q)
  \/ CommitCreateClient(q) \/ LogLic(q) \/ BackfillStep(q)

FairSpec ==
  /\ Spec
  /\ \A q \in Session : WF_vars(RunsOn(q))
  /\ SF_vars(\E q \in Session : Pending # {} /\ BeginBackfill(q))

-----------------------------------------------------------------------------
Request ==
  {Idle}
  \cup [op : InstallStage, ca : CA]
  \cup [op : DeleteStage, ca : CA, locked : SUBSET Client, deletes : BOOLEAN]
  \cup [op : {"create", "lic"}, client : Client, ca : CA]
  \cup [op : BackfillStage, ca : CA, todo : SUBSET Client]

(* The rows and the requests are of their types, and a backfill or a       *)
(* nullification in progress is about clients that exist.                  *)
TypeOK ==
  /\ ca \in CA \cup {Null}
  /\ certs \in [Client -> CA \cup {Null, Absent}]
  /\ lics \subseteq [client : Client, ca : CA]
  /\ requests \in [Session -> Request]
  /\ pkiAudit \in Seq([action : {"INSTALLED", "DELETED"}, ca : CA])
  /\ issued \in [Client -> [CA -> Nat]]
  /\ overlapped \in BOOLEAN
  /\ faults \in Nat

(* The row of lic_audit_log that installed the CA k, and nothing but       *)
(* deletions after it.                                                     *)
LastInstalled(k) ==
  \E i \in 1 .. Len(pkiAudit) :
    /\ pkiAudit[i] = [action |-> "INSTALLED", ca |-> k]
    /\ \A j \in i + 1 .. Len(pkiAudit) : pkiAudit[j].action = "DELETED"

LastTold ==
  IF pkiAudit = <<>> \/ pkiAudit[Len(pkiAudit)].action = "DELETED"
  THEN Null
  ELSE pkiAudit[Len(pkiAudit)].ca

(* Whatever the administrators do at the same time, the CA of the portal   *)
(* is the one whose installation was audited last, and a portal without CA *)
(* has its deletion as the last row.  As long as no conflicting requests   *)
(* ran together the last row alone tells: after it, a second deletion may  *)
(* have been logged for a CA that the first one had deleted.               *)
AuditTellsCA ==
  /\ ca = Null => LastTold = Null
  /\ ca # Null => LastInstalled(ca)
  /\ ~overlapped => ca = LastTold

(* A client created, backfilled or read for a .lic has had its certificate *)
(* issued, and the log says so.                                            *)
CertificatesAudited ==
  /\ \A c \in Client : certs[c] \in CA => issued[c][certs[c]] > 0
  /\ \A l \in lics : issued[l.client][l.ca] > 0

(* The log of the PKI is exact, however requests overlap or fail: it tells *)
(* which CA was installed last, and no certificate is used unaudited.      *)
PkiLogExact == TypeOK /\ AuditTellsCA /\ CertificatesAudited

(* As long as no request ran beside one it conflicts with, every           *)
(* certificate and every .lic file is of the CA the portal has.            *)
(* Creations, .lic generations and one backfill may run together.          *)
OneTrust ==
  ~overlapped =>
    /\ \A c \in Client : certs[c] \in CA => certs[c] = ca
    /\ \A l \in lics : l.ca = ca

Installations(k) ==
  {i \in 1 .. Len(pkiAudit) : pkiAudit[i] = [action |-> "INSTALLED", ca |-> k]}

(* Nor does a client get two certificates from one installation of a CA:   *)
(* a second backfill finds nothing to do.                                  *)
IssuedOnce ==
  ~overlapped =>
    \A c \in Client, k \in CA : issued[c][k] <= Cardinality(Installations(k))

(* Undisturbed, the portal trusts one CA at a time and each of its clients *)
(* holds at most one certificate of it.                                    *)
QuietTrust == OneTrust /\ IssuedOnce

(* Every client ends up with a certificate, if there is a CA that stays    *)
(* and somebody runs the backfill as long as clients are pending.          *)
EventuallyCertified == <>[](ca # Null) => []<>(Pending = {})

(* "Re-check inside tx pour fermer la fenetre TOCTOU avec un autre admin": *)
(* a CA is not replaced by another one, it must be deleted first.          *)
CaNeverReplaced == [][ca # Null => ca' \in {ca, Null}]_vars

(* "Re-check inside tx pour fermer la fenetre TOCTOU avec un autre admin   *)
(* qui aurait genere un .lic ou supprime la CA entre temps": a deletion    *)
(* that is audited deletes a CA, and no other has deleted it before.       *)
DeletedOnce ==
  \A i \in 1 .. Len(pkiAudit) :
    pkiAudit[i].action = "DELETED" => i > 1 /\ pkiAudit[i - 1].action = "INSTALLED"

(* "La suppression est BLOQUEE si au moins un fichier .lic a deja ete      *)
(* genere."                                                                *)
DeletionBlockedByLic == [][ca # Null /\ ca' = Null => lics = {}]_vars

(* "La suppression de la CA invalide tous les certs signes": the portal    *)
(* without a CA has no certificate.                                        *)
DeletionInvalidatesCertificates ==
  ca = Null => \A c \in Client : certs[c] \notin CA
=============================================================================
