----------------------------- MODULE Pki_proofs -----------------------------
(***************************************************************************)
(* Proofs about Pki, for any sets of clients, key pairs and sessions, and  *)
(* any bounds.                                                             *)
(***************************************************************************)
EXTENDS Pki, FiniteSetTheorems, TLAPS

(* A request in the middle of an operation holds what that operation read. *)
LEMMA RequestOf ==
  ASSUME NEW t \in Request
  PROVE  /\ t.op \in InstallStage => t \in [op : InstallStage, ca : CA]
         /\ t.op \in DeleteStage =>
              t \in [op : DeleteStage, ca : CA, locked : SUBSET Client, deletes : BOOLEAN]
         /\ t.op \in {"create", "lic"} =>
              t \in [op : {"create", "lic"}, client : Client, ca : CA]
         /\ t.op \in BackfillStage => t \in [op : BackfillStage, ca : CA, todo : SUBSET Client]
         /\ t.op = "idle" => t = Idle
BY DEF Request, Idle, InstallStage, DeleteStage, BackfillStage

LEMMA IsRequest ==
  /\ Idle \in Request
  /\ [op : InstallStage, ca : CA] \subseteq Request
  /\ [op : DeleteStage, ca : CA, locked : SUBSET Client, deletes : BOOLEAN] \subseteq Request
  /\ [op : {"create", "lic"}, client : Client, ca : CA] \subseteq Request
  /\ [op : BackfillStage, ca : CA, todo : SUBSET Client] \subseteq Request
BY DEF Request

LEMMA OpenTypeOK ==
  ASSUME TypeOK, NEW q \in Session, NEW t \in Request, Open(q, t)
  PROVE  TypeOK'
BY DEF Open, TypeOK

LEMMA AdvanceTypeOK ==
  ASSUME TypeOK, NEW q \in Session, NEW t \in Request, Advance(q, t)
  PROVE  TypeOK'
BY DEF Advance, TypeOK

LEMMA FailTypeOK ==
  ASSUME TypeOK, NEW q \in Session, Fail(q)
  PROVE  TypeOK'
BY AdvanceTypeOK, IsRequest DEF Fail

LEMMA InitTypeOK == Init => TypeOK
<1> SUFFICES ASSUME Init
             PROVE  TypeOK
  OBVIOUS
<1>1. certs \in [Client -> CA \cup {Null, Absent}]
  BY DEF Init
<1>2. requests \in [Session -> Request] /\ issued \in [Client -> [CA -> Nat]]
  BY IsRequest DEF Init
<1>3. pkiAudit \in Seq([action : {"INSTALLED", "DELETED"}, ca : CA])
  BY DEF Init
<1> QED
  BY <1>1, <1>2, <1>3 DEF Init, TypeOK

LEMMA InstallTypeOK ==
  ASSUME TypeOK, NEW q \in Session,
         \/ \E k \in CA : BeginInstallCA(q, k)
         \/ InstallRecheck(q)
         \/ CommitInstallCA(q)
  PROVE  TypeOK'
<1>1. ASSUME NEW k \in CA, BeginInstallCA(q, k)
      PROVE  TypeOK'
  <2>1. [op |-> "install", ca |-> k] \in Request
    BY IsRequest DEF InstallStage
  <2> QED
    BY <1>1, <2>1, OpenTypeOK DEF BeginInstallCA
<1>2. CASE InstallRecheck(q)
  <2>1. requests[q] \in [op : InstallStage, ca : CA]
    BY <1>2, RequestOf DEF InstallRecheck, InstallStage, TypeOK
  <2>2. [requests[q] EXCEPT !.op = "installWrite"] \in [op : InstallStage, ca : CA]
    BY <2>1 DEF InstallStage
  <2> QED
    BY <1>2, <2>2, IsRequest, AdvanceTypeOK, FailTypeOK DEF InstallRecheck
<1>3. CASE CommitInstallCA(q)
  <2>1. requests[q].ca \in CA
    BY <1>3, RequestOf DEF CommitInstallCA, InstallStage, TypeOK
  <2>2. pkiAudit' \in Seq([action : {"INSTALLED", "DELETED"}, ca : CA])
    BY <1>3, <2>1 DEF CommitInstallCA, TypeOK
  <2> QED
    BY <1>3, <2>1, <2>2, IsRequest DEF CommitInstallCA, UpsertCA, Close, TypeOK
<1> QED
  BY <1>1, <1>2, <1>3

LEMMA DeleteTypeOK ==
  ASSUME TypeOK, NEW q \in Session,
         \/ BeginDeleteCA(q) \/ DeleteRecount(q) \/ DeleteRecheck(q)
         \/ NullifyCertificates(q) \/ DeleteRow(q) \/ CommitDeleteCA(q)
  PROVE  TypeOK'
<1> DEFINE Deletion == [op : DeleteStage, ca : CA, locked : SUBSET Client, deletes : BOOLEAN]
<1>1. CASE BeginDeleteCA(q)
  <2>1. [op |-> "delete", ca |-> ca, locked |-> {}, deletes |-> FALSE] \in Deletion
    BY <1>1 DEF BeginDeleteCA, DeleteStage, TypeOK
  <2> QED
    BY <1>1, <2>1, IsRequest, OpenTypeOK DEF BeginDeleteCA
<1>2. CASE DeleteRecount(q) \/ DeleteRecheck(q) \/ NullifyCertificates(q) \/ DeleteRow(q)
  <2>1. requests[q] \in Deletion
    BY <1>2, RequestOf DEF DeleteRecount, DeleteRecheck, NullifyCertificates, DeleteRow,
                           DeleteStage, TypeOK
  <2>2. /\ [requests[q] EXCEPT !.op = "deleteRecheck"] \in Deletion
        /\ [requests[q] EXCEPT !.op = "deleteNullify"] \in Deletion
        /\ [requests[q] EXCEPT !.op = "deleteRow", !.locked = Existing] \in Deletion
        /\ [requests[q] EXCEPT !.op = "deleteCommit", !.deletes = (ca # Null)] \in Deletion
    BY <2>1 DEF DeleteStage, Existing
  <2> QED
    BY <1>2, <2>2, IsRequest, AdvanceTypeOK, FailTypeOK
       DEF DeleteRecount, DeleteRecheck, NullifyCertificates, DeleteRow
<1>3. CASE CommitDeleteCA(q)
  <2>1. requests[q] \in Deletion
    BY <1>3, RequestOf DEF CommitDeleteCA, DeleteStage, TypeOK
  <2>2. pkiAudit' \in Seq([action : {"INSTALLED", "DELETED"}, ca : CA])
    BY <1>3, <2>1 DEF CommitDeleteCA, TypeOK
  <2>3. certs' \in [Client -> CA \cup {Null, Absent}]
    BY <1>3 DEF CommitDeleteCA, TypeOK
  <2> QED
    BY <1>3, <2>2, <2>3, IsRequest DEF CommitDeleteCA, DeletedCA, Close, TypeOK
<1> QED
  BY <1>1, <1>2, <1>3

(* A certificate of the CA k is issued to the client c.                    *)
LEMMA IssueTypeOK ==
  ASSUME TypeOK, NEW c \in Client, NEW k \in CA,
         certs' = [certs EXCEPT ![c] = k],
         issued' = [issued EXCEPT ![c][k] = issued[c][k] + 1]
  PROVE  /\ certs' \in [Client -> CA \cup {Null, Absent}]
         /\ issued' \in [Client -> [CA -> Nat]]
         /\ \A d \in Client, j \in CA :
              issued'[d][j] = IF d = c /\ j = k THEN issued[d][j] + 1 ELSE issued[d][j]
<1>1. issued[c][k] + 1 \in Nat
  BY DEF TypeOK
<1> QED
  BY <1>1 DEF TypeOK

LEMMA UseTypeOK ==
  ASSUME TypeOK, NEW q \in Session, UseCA(q)
  PROVE  TypeOK'
<1> DEFINE Backfill == [op : BackfillStage, ca : CA, todo : SUBSET Client]
<1>1. ASSUME NEW c \in Client, BeginCreateClient(q, c) \/ BeginGenerateLic(q, c)
      PROVE  TypeOK'
  <2>1. CASE BeginCreateClient(q, c)
    <3>1. [op |-> "create", client |-> c, ca |-> ca] \in Request
      BY <2>1, IsRequest DEF BeginCreateClient, TypeOK
    <3> QED
      BY <2>1, <3>1, OpenTypeOK DEF BeginCreateClient
  <2>2. CASE BeginGenerateLic(q, c)
    <3>1. [op |-> "lic", client |-> c, ca |-> certs[c]] \in Request
      BY <2>2, IsRequest DEF BeginGenerateLic
    <3> QED
      BY <2>2, <3>1, OpenTypeOK DEF BeginGenerateLic
  <2> QED
    BY <1>1, <2>1, <2>2
<1>2. CASE CommitCreateClient(q)
  <2>1. requests[q].client \in Client /\ requests[q].ca \in CA
    BY <1>2, RequestOf DEF CommitCreateClient, TypeOK
  <2> QED
    BY <1>2, <2>1, IsRequest, FailTypeOK, IssueTypeOK DEF CommitCreateClient, Close, TypeOK
<1>3. CASE LogLic(q)
  <2>1. requests[q].client \in Client /\ requests[q].ca \in CA
    BY <1>3, RequestOf DEF LogLic, TypeOK
  <2> QED
    BY <1>3, <2>1, IsRequest DEF LogLic, Close, TypeOK
<1>4. CASE BeginBackfill(q)
  <2>1. [op |-> "backfillSelect", ca |-> ca, todo |-> {}] \in Backfill
    BY <1>4 DEF BeginBackfill, BackfillStage, TypeOK
  <2> QED
    BY <1>4, <2>1, IsRequest, OpenTypeOK DEF BeginBackfill
<1>5. CASE BackfillSelect(q)
  <2>1. requests[q] \in Backfill
    BY <1>5, RequestOf DEF BackfillSelect, BackfillStage, TypeOK
  <2>2. [requests[q] EXCEPT !.op = "backfill", !.todo = Pending] \in Backfill
    BY <2>1 DEF BackfillStage, Pending
  <2> QED
    BY <1>5, <2>2, IsRequest, AdvanceTypeOK DEF BackfillSelect
<1>6. ASSUME NEW c \in Client, BackfillClient(q, c) \/ BackfillSkips(q, c)
      PROVE  TypeOK'
  <2>1. requests[q] \in Backfill
    BY <1>6, RequestOf DEF BackfillClient, BackfillSkips, BackfillStage, TypeOK
  <2>2. [requests[q] EXCEPT !.todo = requests[q].todo \ {c}] \in Request
    BY <2>1, IsRequest DEF BackfillStage
  <2>3. requests' \in [Session -> Request]
    <3>1. requests' = [requests EXCEPT ![q] = [requests[q] EXCEPT !.todo = requests[q].todo \ {c}]]
      BY <1>6 DEF BackfillClient, BackfillSkips
    <3> QED
      BY <2>2, <3>1 DEF TypeOK
  <2>4. requests[q].ca \in CA
    BY <2>1
  <2> QED
    BY <1>6, <2>3, <2>4, IssueTypeOK DEF BackfillClient, BackfillSkips, TypeOK
<1>7. CASE BackfillEnds(q)
  BY <1>7, FailTypeOK DEF BackfillEnds
<1> QED
  BY <1>1, <1>2, <1>3, <1>4, <1>5, <1>6, <1>7 DEF UseCA, BackfillStep

LEMMA NextTypeOK ==
  ASSUME TypeOK, [Next]_vars
  PROVE  TypeOK'
<1>1. ASSUME NEW q \in Session, Abandon(q)
      PROVE  TypeOK'
  BY <1>1, IsRequest DEF Abandon, Close, TypeOK
<1>2. CASE UNCHANGED vars
  BY <1>2 DEF vars, TypeOK
<1> QED
  BY <1>1, <1>2, InstallTypeOK, DeleteTypeOK, UseTypeOK DEF Next, ChangeCA

(* The rows, the log and the requests of the PKI hold values of their     *)
(* types, whatever is installed, deleted, issued and signed meanwhile.     *)
THEOREM PkiTypeCorrect == Spec => []TypeOK
<1>1. TypeOK /\ [Next]_vars => TypeOK'
  BY NextTypeOK
<1> QED
  BY <1>1, InitTypeOK, PTL DEF Spec

-----------------------------------------------------------------------------
(* The only steps that write the CA, its log, the certificates or the      *)
(* rows about them.                                                        *)
LEMMA Writers ==
  ASSUME [Next]_vars
  PROVE  \/ UNCHANGED <<ca, certs, lics, pkiAudit, issued>>
         \/ \E q \in Session : \/ CommitInstallCA(q)
                               \/ CommitDeleteCA(q)
                               \/ CommitCreateClient(q) /\ ~Fail(q)
                               \/ LogLic(q)
                               \/ \E c \in Client : BackfillClient(q, c)
<1>1. ASSUME NEW q \in Session, ChangeCA(q)
      PROVE  \/ UNCHANGED <<ca, certs, lics, pkiAudit, issued>>
             \/ CommitInstallCA(q) \/ CommitDeleteCA(q)
  BY <1>1 DEF ChangeCA, BeginInstallCA, InstallRecheck, BeginDeleteCA, DeleteRecount,
              DeleteRecheck, NullifyCertificates, DeleteRow, Open, Advance, Fail
<1>2. ASSUME NEW q \in Session, UseCA(q)
      PROVE  \/ UNCHANGED <<ca, certs, lics, pkiAudit, issued>>
             \/ CommitCreateClient(q) /\ ~Fail(q)
             \/ LogLic(q)
             \/ \E c \in Client : BackfillClient(q, c)
  BY <1>2 DEF UseCA, BackfillStep, BeginCreateClient, BeginGenerateLic, BeginBackfill,
              BackfillSelect, BackfillSkips, BackfillEnds, Open, Advance, Fail
<1> QED
  BY <1>1, <1>2 DEF Next, Abandon, vars

(* A session's request stays, ends, begins or goes to its next stage.      *)
Moves(q) ==
  \/ \E k \in CA : BeginInstallCA(q, k)
  \/ InstallRecheck(q)
  \/ BeginDeleteCA(q) \/ DeleteRecount(q) \/ DeleteRecheck(q)
  \/ NullifyCertificates(q) \/ DeleteRow(q)
  \/ \E c \in Client : BeginCreateClient(q, c) \/ BeginGenerateLic(q, c)
  \/ BeginBackfill(q) \/ BackfillSelect(q)
  \/ \E c \in Client : BackfillClient(q, c) \/ BackfillSkips(q, c)

LEMMA RequestStep ==
  ASSUME TypeOK, [Next]_vars, NEW q \in Session
  PROVE  requests'[q] = requests[q] \/ requests'[q] = Idle \/ Moves(q)
<1>1. ASSUME NEW p \in Session, p # q, ChangeCA(p)
      PROVE  requests'[q] = requests[q]
  BY <1>1 DEF ChangeCA, BeginInstallCA, InstallRecheck, CommitInstallCA, BeginDeleteCA,
              DeleteRecount, DeleteRecheck, NullifyCertificates, DeleteRow, CommitDeleteCA,
              Open, Advance, Fail, Close, TypeOK
<1>2. ASSUME NEW p \in Session, p # q, UseCA(p)
      PROVE  requests'[q] = requests[q]
  BY <1>2 DEF UseCA, BackfillStep, BeginCreateClient, BeginGenerateLic, CommitCreateClient,
              LogLic, BeginBackfill, BackfillSelect, BackfillClient, BackfillSkips,
              BackfillEnds, Open, Advance, Fail, Close, TypeOK
<1>3. ASSUME ChangeCA(q)
      PROVE  requests'[q] = Idle \/ Moves(q)
  BY <1>3 DEF ChangeCA, CommitInstallCA, CommitDeleteCA, Close, Moves, TypeOK
<1>4. ASSUME UseCA(q)
      PROVE  requests'[q] = Idle \/ Moves(q)
  BY <1>4 DEF UseCA, BackfillStep, CommitCreateClient, LogLic, BackfillEnds, Advance, Fail,
              Close, Moves, TypeOK
<1> QED
  BY <1>1, <1>2, <1>3, <1>4 DEF Next, Abandon, Close, vars, TypeOK

(* What the next stage of an operation holds.                              *)
LEMMA StageStep ==
  ASSUME TypeOK, NEW q \in Session
  PROVE  /\ InstallRecheck(q) =>
              \/ requests'[q] = Idle
              \/ requests'[q].op = "installWrite" /\ ca = Null
         /\ DeleteRecount(q) =>
              \/ requests'[q] = Idle
              \/ /\ requests'[q].op = "deleteRecheck" /\ requests'[q].ca = requests[q].ca
                 /\ lics = {}
         /\ DeleteRecheck(q) =>
              \/ requests'[q] = Idle
              \/ requests'[q].op = "deleteNullify" /\ requests'[q].ca = requests[q].ca
         /\ NullifyCertificates(q) =>
              /\ requests'[q].op = "deleteRow" /\ requests'[q].ca = requests[q].ca
              /\ requests'[q].locked = Existing
         /\ DeleteRow(q) =>
              /\ requests'[q].op = "deleteCommit" /\ requests'[q].ca = requests[q].ca
              /\ requests'[q].locked = requests[q].locked
              /\ requests'[q].deletes <=> ca # Null
         /\ BackfillSelect(q) =>
              /\ requests'[q].op = "backfill" /\ requests'[q].ca = requests[q].ca
              /\ requests'[q].todo = Pending
         /\ \A c \in Client : BackfillClient(q, c) \/ BackfillSkips(q, c) =>
              /\ requests'[q].op = "backfill" /\ requests'[q].ca = requests[q].ca
              /\ requests'[q].todo = requests[q].todo \ {c}
<1>1. ASSUME InstallRecheck(q), requests'[q] # Idle
      PROVE  requests'[q].op = "installWrite" /\ ca = Null
  <2>1. requests[q] \in [op : InstallStage, ca : CA]
    BY <1>1, RequestOf DEF InstallRecheck, InstallStage, TypeOK
  <2>2. requests'[q] = [requests[q] EXCEPT !.op = "installWrite"] /\ ca = Null
    BY <1>1 DEF InstallRecheck, Advance, Fail, TypeOK
  <2> QED
    BY <2>1, <2>2
<1>2. ASSUME DeleteRecount(q) \/ DeleteRecheck(q) \/ NullifyCertificates(q) \/ DeleteRow(q)
      PROVE  requests[q] \in
               [op : DeleteStage, ca : CA, locked : SUBSET Client, deletes : BOOLEAN]
  BY <1>2, RequestOf DEF DeleteRecount, DeleteRecheck, NullifyCertificates, DeleteRow,
                         DeleteStage, TypeOK
<1>3. ASSUME DeleteRecount(q), requests'[q] # Idle
      PROVE  /\ requests'[q].op = "deleteRecheck" /\ requests'[q].ca = requests[q].ca
             /\ lics = {}
  <2>1. requests'[q] = [requests[q] EXCEPT !.op = "deleteRecheck"] /\ lics = {}
    BY <1>3 DEF DeleteRecount, Advance, Fail, TypeOK
  <2> QED
    BY <1>2, <1>3, <2>1
<1>4. ASSUME DeleteRecheck(q), requests'[q] # Idle
      PROVE  requests'[q].op = "deleteNullify" /\ requests'[q].ca = requests[q].ca
  <2>1. requests'[q] = [requests[q] EXCEPT !.op = "deleteNullify"]
    BY <1>4 DEF DeleteRecheck, Advance, Fail, TypeOK
  <2> QED
    BY <1>2, <1>4, <2>1
<1>5. ASSUME NullifyCertificates(q)
      PROVE  /\ requests'[q].op = "deleteRow" /\ requests'[q].ca = requests[q].ca
             /\ requests'[q].locked = Existing
  <2>1. requests'[q] = [requests[q] EXCEPT !.op = "deleteRow", !.locked = Existing]
    BY <1>5 DEF NullifyCertificates, Advance, TypeOK
  <2> QED
    BY <1>2, <1>5, <2>1
<1>8. ASSUME DeleteRow(q)
      PROVE  /\ requests'[q].op = "deleteCommit" /\ requests'[q].ca = requests[q].ca
             /\ requests'[q].locked = requests[q].locked
             /\ requests'[q].deletes <=> ca # Null
  <2>1. requests'[q] = [requests[q] EXCEPT !.op = "deleteCommit", !.deletes = (ca # Null)]
    BY <1>8 DEF DeleteRow, Advance, TypeOK
  <2> QED
    BY <1>2, <1>8, <2>1
<1>6. ASSUME BackfillSelect(q)
      PROVE  /\ requests'[q].op = "backfill" /\ requests'[q].ca = requests[q].ca
             /\ requests'[q].todo = Pending
  <2>1. requests[q] \in [op : BackfillStage, ca : CA, todo : SUBSET Client]
    BY <1>6, RequestOf DEF BackfillSelect, BackfillStage, TypeOK
  <2>2. requests'[q] = [requests[q] EXCEPT !.op = "backfill", !.todo = Pending]
    BY <1>6 DEF BackfillSelect, Advance, TypeOK
  <2> QED
    BY <2>1, <2>2
<1>7. ASSUME NEW c \in Client, BackfillClient(q, c) \/ BackfillSkips(q, c)
      PROVE  /\ requests'[q].op = "backfill" /\ requests'[q].ca = requests[q].ca
             /\ requests'[q].todo = requests[q].todo \ {c}
  <2>1. /\ requests[q] \in [op : BackfillStage, ca : CA, todo : SUBSET Client]
        /\ requests[q].op = "backfill"
    BY <1>7, RequestOf DEF BackfillClient, BackfillSkips, BackfillStage, TypeOK
  <2>2. requests' = [requests EXCEPT ![q] = [requests[q] EXCEPT !.todo = requests[q].todo \ {c}]]
    BY <1>7 DEF BackfillClient, BackfillSkips
  <2>3. requests'[q] = [requests[q] EXCEPT !.todo = requests[q].todo \ {c}]
    BY <2>2 DEF TypeOK
  <2> QED
    BY <2>1, <2>3
<1> QED
  BY <1>1, <1>3, <1>4, <1>5, <1>6, <1>7, <1>8

(* What an operation that begins holds.                                    *)
LEMMA BeginStep ==
  ASSUME TypeOK, NEW q \in Session
  PROVE  /\ \A k \in CA : BeginInstallCA(q, k) =>
              requests'[q].op = "install" /\ requests'[q].ca = k
         /\ BeginDeleteCA(q) => requests'[q].op = "delete" /\ requests'[q].ca = ca
         /\ \A c \in Client : BeginCreateClient(q, c) =>
              requests'[q].op = "create" /\ requests'[q].ca = ca
         /\ \A c \in Client : BeginGenerateLic(q, c) =>
              requests'[q] = [op |-> "lic", client |-> c, ca |-> certs[c]]
         /\ BeginBackfill(q) => requests'[q].op = "backfillSelect" /\ requests'[q].ca = ca
<1>1. ASSUME NEW t, Open(q, t)
      PROVE  requests'[q] = t
  BY <1>1 DEF Open, TypeOK
<1>2. ASSUME NEW k \in CA, BeginInstallCA(q, k)
      PROVE  requests'[q].op = "install" /\ requests'[q].ca = k
  BY <1>1, <1>2 DEF BeginInstallCA
<1>3. ASSUME BeginDeleteCA(q)
      PROVE  requests'[q].op = "delete" /\ requests'[q].ca = ca
  BY <1>1, <1>3 DEF BeginDeleteCA
<1>4. ASSUME NEW c \in Client, BeginCreateClient(q, c)
      PROVE  requests'[q].op = "create" /\ requests'[q].ca = ca
  BY <1>1, <1>4 DEF BeginCreateClient
<1>5. ASSUME NEW c \in Client, BeginGenerateLic(q, c)
      PROVE  requests'[q] = [op |-> "lic", client |-> c, ca |-> certs[c]]
  BY <1>1, <1>5 DEF BeginGenerateLic
<1>6. ASSUME BeginBackfill(q)
      PROVE  requests'[q].op = "backfillSelect" /\ requests'[q].ca = ca
  BY <1>1, <1>6 DEF BeginBackfill
<1> QED
  BY <1>2, <1>3, <1>4, <1>5, <1>6

-----------------------------------------------------------------------------
(* A .lic file in the making is signed with a certificate that was issued. *)
LicsIssued ==
  \A q \in Session :
    requests[q].op = "lic" => issued[requests[q].client][requests[q].ca] > 0

(* What the log tells of the CA however requests overlap.                  *)
ToldInLog ==
  /\ ca = Null => LastTold = Null
  /\ ca # Null => LastInstalled(ca)

LogInv == ToldInLog /\ CertificatesAudited /\ LicsIssued

LEMMA InitLogInv == Init => LogInv
BY PkiAssumption DEF Init, LogInv, ToldInLog, LastTold, CertificatesAudited, LicsIssued, Idle

(* No count of issued certificates ever goes down.                         *)
LEMMA IssuedGrows ==
  ASSUME TypeOK, [Next]_vars, NEW c \in Client, NEW k \in CA
  PROVE  /\ issued[c][k] \in Nat /\ issued'[c][k] \in Nat
         /\ issued[c][k] <= issued'[c][k]
<1>1. ASSUME NEW q \in Session, CommitCreateClient(q), ~Fail(q)
      PROVE  issued'[c][k] \in {issued[c][k], issued[c][k] + 1}
  <2>1. requests[q].client \in Client /\ requests[q].ca \in CA
    BY <1>1, RequestOf DEF CommitCreateClient, TypeOK
  <2> QED
    BY <1>1, <2>1, IssueTypeOK DEF CommitCreateClient
<1>2. ASSUME NEW q \in Session, NEW d \in Client, BackfillClient(q, d)
      PROVE  issued'[c][k] \in {issued[c][k], issued[c][k] + 1}
  <2>1. requests[q].ca \in CA
    BY <1>2, RequestOf DEF BackfillClient, BackfillStage, TypeOK
  <2> QED
    BY <1>2, <2>1, IssueTypeOK DEF BackfillClient
<1>3. issued'[c][k] \in {issued[c][k], issued[c][k] + 1}
  BY <1>1, <1>2, Writers DEF CommitInstallCA, CommitDeleteCA, LogLic
<1> QED
  BY <1>3 DEF TypeOK

(* A row is added to the log.                                              *)
LEMMA RowLogged ==
  ASSUME TypeOK, NEW k \in CA, NEW action \in {"INSTALLED", "DELETED"},
         pkiAudit' = Append(pkiAudit, [action |-> action, ca |-> k])
  PROVE  /\ action = "INSTALLED" => LastInstalled(k)' /\ LastTold' = k
         /\ action = "DELETED" => LastTold' = Null
         /\ \A j \in CA : action = "DELETED" /\ LastInstalled(j) => LastInstalled(j)'
<1> DEFINE n == Len(pkiAudit)
<1>1. n \in Nat /\ Len(pkiAudit') = n + 1 /\ pkiAudit' # <<>>
  BY DEF TypeOK
<1>2. /\ \A i \in 1 .. n : pkiAudit'[i] = pkiAudit[i]
      /\ pkiAudit'[n + 1] = [action |-> action, ca |-> k]
  BY DEF TypeOK
<1>3. LastTold' = IF action = "DELETED" THEN Null ELSE k
  BY <1>1, <1>2 DEF LastTold
<1>4. ASSUME action = "INSTALLED"
      PROVE  LastInstalled(k)'
  BY <1>1, <1>2, <1>4 DEF LastInstalled
<1>5. ASSUME NEW j \in CA, action = "DELETED", LastInstalled(j)
      PROVE  LastInstalled(j)'
  <2>1. PICK i \in 1 .. n :
          /\ pkiAudit[i] = [action |-> "INSTALLED", ca |-> j]
          /\ \A m \in i + 1 .. n : pkiAudit[m].action = "DELETED"
    BY <1>5 DEF LastInstalled
  <2> HIDE DEF n
  <2>2. i \in 1 .. n + 1 /\ pkiAudit'[i] = [action |-> "INSTALLED", ca |-> j]
    BY <1>1, <1>2, <2>1
  <2>3. \A m \in i + 1 .. n + 1 : pkiAudit'[m].action = "DELETED"
    <3> TAKE m \in i + 1 .. n + 1
    <3>1. CASE m = n + 1
      <4> DEFINE row == [action |-> "DELETED", ca |-> k]
      <4>1. pkiAudit'[m] = row
        BY <1>2, <1>5, <3>1
      <4>2. row.action = "DELETED"
        OBVIOUS
      <4> HIDE DEF row
      <4> QED
        BY <4>1, <4>2
    <3>2. CASE m # n + 1
      <4>1. m \in 1 .. n /\ m \in i + 1 .. n
        BY <1>1, <3>2
      <4> QED
        BY <1>2, <2>1, <4>1
    <3> QED
      BY <3>1, <3>2
  <2> QED
    BY <1>1, <2>2, <2>3 DEF LastInstalled
<1> QED
  BY <1>3, <1>4, <1>5

LEMMA NextToldInLog ==
  ASSUME TypeOK, ToldInLog, [Next]_vars
  PROVE  ToldInLog'
<1>1. ASSUME NEW q \in Session, CommitInstallCA(q)
      PROVE  ToldInLog'
  <2>1. PICK k \in CA : k = requests[q].ca
    BY <1>1, RequestOf DEF CommitInstallCA, InstallStage, TypeOK
  <2>2. ca' = k /\ LastInstalled(k)'
    BY <1>1, <2>1, RowLogged DEF CommitInstallCA, UpsertCA
  <2>3. LastInstalled(ca)'
    BY <2>2 DEF LastInstalled
  <2> QED
    BY <2>1, <2>2, <2>3, PkiAssumption DEF ToldInLog
<1>2. ASSUME NEW q \in Session, CommitDeleteCA(q)
      PROVE  ToldInLog'
  <2>1. requests[q].ca \in CA
    BY <1>2, RequestOf DEF CommitDeleteCA, DeleteStage, TypeOK
  <2>2. LastTold' = Null /\ ca' \in {ca, Null}
    BY <1>2, <2>1, RowLogged DEF CommitDeleteCA, DeletedCA
  <2>3. ASSUME ca' # Null
        PROVE  LastInstalled(ca)'
    <3>1. PICK j \in CA : j = ca
      BY <2>2, <2>3 DEF TypeOK
    <3>2. LastInstalled(j)
      BY <2>2, <2>3, <3>1 DEF ToldInLog
    <3>3. PICK k \in CA : k = requests[q].ca
      BY <2>1
    <3>4. LastInstalled(j)'
      BY <1>2, <3>2, <3>3, RowLogged DEF CommitDeleteCA
    <3>5. ca' = j
      BY <2>2, <2>3, <3>1
    <3> QED
      BY <3>4, <3>5 DEF LastInstalled
  <2> QED
    BY <2>2, <2>3 DEF ToldInLog
<1>3. CASE UNCHANGED <<ca, pkiAudit>>
  BY <1>3 DEF ToldInLog, LastTold, LastInstalled
<1> QED
  BY <1>1, <1>2, <1>3, Writers DEF CommitCreateClient, Fail, Advance, LogLic, BackfillClient

LEMMA NextCertificatesAudited ==
  ASSUME TypeOK, CertificatesAudited, LicsIssued, [Next]_vars
  PROVE  CertificatesAudited'
<1>1. \A c \in Client, k \in CA : issued[c][k] > 0 => issued'[c][k] > 0
  BY IssuedGrows
<1>2. ASSUME NEW c \in Client, certs'[c] \in CA
      PROVE  issued'[c][certs'[c]] > 0
  <2>1. CASE certs'[c] = certs[c]
    BY <1>1, <1>2, <2>1 DEF CertificatesAudited
  <2>2. ASSUME NEW d \in Client, NEW k \in CA,
               certs' = [certs EXCEPT ![d] = k],
               issued' = [issued EXCEPT ![d][k] = issued[d][k] + 1],
               certs'[c] # certs[c]
        PROVE  issued'[c][certs'[c]] > 0
    <3>1. c = d /\ certs'[c] = k
      BY <2>2 DEF TypeOK
    <3>2. issued'[c][k] = issued[c][k] + 1 /\ issued[c][k] \in Nat
      BY <2>2, <3>1, IssueTypeOK DEF TypeOK
    <3> QED
      BY <3>1, <3>2
  <2>3. ASSUME NEW q \in Session, CommitCreateClient(q), ~Fail(q)
        PROVE  certs'[c] = certs[c] \/ issued'[c][certs'[c]] > 0
    <3>1. requests[q].client \in Client /\ requests[q].ca \in CA
      BY <2>3, RequestOf DEF CommitCreateClient, TypeOK
    <3> QED
      BY <2>2, <2>3, <3>1 DEF CommitCreateClient
  <2>4. ASSUME NEW q \in Session, NEW d \in Client, BackfillClient(q, d)
        PROVE  certs'[c] = certs[c] \/ issued'[c][certs'[c]] > 0
    <3>1. requests[q].ca \in CA
      BY <2>4, RequestOf DEF BackfillClient, BackfillStage, TypeOK
    <3> QED
      BY <2>2, <2>4, <3>1 DEF BackfillClient
  <2>5. ASSUME NEW q \in Session, CommitDeleteCA(q)
        PROVE  certs'[c] = certs[c]
    BY <1>2, <2>5, PkiAssumption DEF CommitDeleteCA
  <2> QED
    BY <2>1, <2>3, <2>4, <2>5, Writers DEF CommitInstallCA, LogLic
<1>3. ASSUME NEW l \in lics'
      PROVE  issued'[l.client][l.ca] > 0
  <2>1. ASSUME NEW q \in Session, LogLic(q)
        PROVE  l \in lics \/ l = [client |-> requests[q].client, ca |-> requests[q].ca]
    BY <1>3, <2>1 DEF LogLic
  <2>2. ASSUME NEW q \in Session, LogLic(q)
        PROVE  /\ requests[q].client \in Client /\ requests[q].ca \in CA
               /\ issued[requests[q].client][requests[q].ca] > 0
    BY <2>2, RequestOf DEF LogLic, LicsIssued, TypeOK
  <2>3. l \in lics => l.client \in Client /\ l.ca \in CA /\ issued[l.client][l.ca] > 0
    BY DEF CertificatesAudited, TypeOK
  <2>4. l \in lics \/ \E q \in Session : LogLic(q)
    BY Writers DEF CommitInstallCA, CommitDeleteCA, CommitCreateClient, Fail, Advance,
                   BackfillClient
  <2> QED
    BY <1>1, <2>1, <2>2, <2>3, <2>4
<1> QED
  BY <1>2, <1>3 DEF CertificatesAudited

LEMMA NextLicsIssued ==
  ASSUME TypeOK, CertificatesAudited, LicsIssued, [Next]_vars
  PROVE  LicsIssued'
<1> SUFFICES ASSUME NEW q \in Session, requests'[q].op = "lic"
             PROVE  issued'[requests'[q].client][requests'[q].ca] > 0
  BY DEF LicsIssued
<1>1. \A c \in Client, k \in CA : issued[c][k] > 0 => issued'[c][k] > 0
  BY IssuedGrows
<1>2. CASE requests'[q] = requests[q]
  <2>1. requests[q].client \in Client /\ requests[q].ca \in CA
    BY <1>2, RequestOf DEF TypeOK
  <2> QED
    BY <1>1, <1>2, <2>1 DEF LicsIssued
<1>3. ASSUME NEW c \in Client, BeginGenerateLic(q, c)
      PROVE  issued'[requests'[q].client][requests'[q].ca] > 0
  <2>1. requests'[q] = [op |-> "lic", client |-> c, ca |-> certs[c]]
    BY <1>3 DEF BeginGenerateLic, Open, TypeOK
  <2> QED
    BY <1>1, <1>3, <2>1 DEF BeginGenerateLic, CertificatesAudited
<1>4. CASE /\ Moves(q)
           /\ \A c \in Client : ~BeginGenerateLic(q, c)
  <2>1. CASE \/ \E k \in CA : BeginInstallCA(q, k)
             \/ \E c \in Client : BeginCreateClient(q, c)
             \/ BeginDeleteCA(q) \/ BeginBackfill(q)
    <3>1. requests'[q].op \in {"install", "create", "delete", "backfillSelect"}
      BY <2>1, BeginStep
    <3> QED
      BY <3>1
  <2>2. CASE \/ InstallRecheck(q) \/ DeleteRecount(q) \/ DeleteRecheck(q)
             \/ NullifyCertificates(q) \/ DeleteRow(q) \/ BackfillSelect(q)
             \/ \E c \in Client : BackfillClient(q, c) \/ BackfillSkips(q, c)
    <3>1. requests'[q] = Idle \/ requests'[q].op # "lic"
      BY <2>2, StageStep
    <3> QED
      BY <3>1 DEF Idle
  <2> QED
    BY <1>4, <2>1, <2>2 DEF Moves
<1> QED
  BY <1>2, <1>3, <1>4, RequestStep DEF Idle

LEMMA NextLogInv ==
  ASSUME TypeOK, LogInv, [Next]_vars
  PROVE  LogInv'
BY NextToldInLog, NextCertificatesAudited, NextLicsIssued DEF LogInv

-----------------------------------------------------------------------------
(* As long as no two requests that conflict have run together, none do ... *)
Apart ==
  \A q, r \in Session :
    q # r /\ requests[q] # Idle /\ requests[r] # Idle =>
      ~Conflict(requests[q].op, requests[r].op)

(* ... so what a request has read of the CA, the clients and the files is  *)
(* still so: it works with the CA the portal has, installs one only when   *)
(* there is none, deletes the one it has read and only when no file        *)
(* depends on it ...                                                       *)
ReadsHold(q) ==
  LET t == requests[q]
  IN  /\ t.op \in {"create", "lic"} \cup BackfillStage \cup DeleteStage =>
           t.ca = ca /\ ca \in CA
      /\ t.op = "installWrite" => ca = Null
      /\ t.op \in DeleteStage \ {"delete"} => lics = {}
      /\ t.op \in {"deleteRow", "deleteCommit"} => t.locked = Existing
      /\ t.op = "deleteCommit" => t.deletes
      /\ t.op = "backfill" => t.todo \subseteq Pending

(* ... and a client that has no certificate got none from the CA as it was *)
(* installed last.                                                         *)
IssuedOncePerInstallation ==
  \A c \in Client, k \in CA :
    /\ issued[c][k] <= Cardinality(Installations(k))
    /\ k = ca /\ certs[c] \notin CA => issued[c][k] < Cardinality(Installations(k))

OneCA ==
  /\ \A c \in Client : certs[c] \in CA => certs[c] = ca
  /\ \A l \in lics : l.ca = ca

QuietInv ==
  ~overlapped =>
    /\ Apart
    /\ \A q \in Session : ReadsHold(q)
    /\ OneCA
    /\ IssuedOncePerInstallation

LEMMA InstallationsFinite ==
  ASSUME TypeOK, NEW k \in CA
  PROVE  IsFiniteSet(Installations(k)) /\ Cardinality(Installations(k)) \in Nat
<1>1. Len(pkiAudit) \in Nat
  BY DEF TypeOK
<1>2. IsFiniteSet(1 .. Len(pkiAudit))
  BY <1>1, FS_Interval
<1>3. Installations(k) \subseteq 1 .. Len(pkiAudit)
  BY DEF Installations
<1> QED
  BY <1>2, <1>3, FS_Subset, FS_CardinalityType

(* An installation of a CA is one more of it and none of another.          *)
LEMMA InstallationLogged ==
  ASSUME TypeOK, NEW j \in CA, NEW action \in {"INSTALLED", "DELETED"},
         pkiAudit' = Append(pkiAudit, [action |-> action, ca |-> j]),
         NEW k \in CA
  PROVE  Cardinality(Installations(k)') =
           Cardinality(Installations(k)) + (IF action = "INSTALLED" /\ k = j THEN 1 ELSE 0)
<1> DEFINE n == Len(pkiAudit)
<1>1. n \in Nat /\ Len(pkiAudit') = n + 1
  BY DEF TypeOK
<1>2. /\ \A i \in 1 .. n : pkiAudit'[i] = pkiAudit[i]
      /\ pkiAudit'[n + 1] = [action |-> action, ca |-> j]
  BY DEF TypeOK
<1> HIDE DEF n
<1>3. Installations(k) = {i \in 1 .. n : pkiAudit[i] = [action |-> "INSTALLED", ca |-> k]}
  BY DEF Installations, n
<1>4. Installations(k)' =
        {i \in 1 .. n + 1 : pkiAudit'[i] = [action |-> "INSTALLED", ca |-> k]}
  BY <1>1 DEF Installations
<1>5. 1 .. n + 1 = (1 .. n) \cup {n + 1} /\ n + 1 \notin 1 .. n
  BY <1>1
<1>6. CASE action = "INSTALLED" /\ k = j
  <2>1. Installations(k)' = Installations(k) \cup {n + 1}
    BY <1>2, <1>3, <1>4, <1>5, <1>6
  <2>2. n + 1 \notin Installations(k)
    BY <1>3, <1>5
  <2> QED
    BY <1>6, <2>1, <2>2, InstallationsFinite, FS_AddElement
<1>7. CASE ~(action = "INSTALLED" /\ k = j)
  <2>1. pkiAudit'[n + 1] # [action |-> "INSTALLED", ca |-> k]
    <3>1. [action |-> action, ca |-> j] # [action |-> "INSTALLED", ca |-> k]
      BY <1>7
    <3> QED
      BY <1>2, <3>1
  <2>2. Installations(k)' = Installations(k)
    BY <1>2, <1>3, <1>4, <1>5, <2>1
  <2> QED
    BY <1>7, <2>2, InstallationsFinite
<1> QED
  BY <1>6, <1>7

(* What a step does to the history of overlaps: it is kept, or the request *)
(* that begins finds none it conflicts with.                               *)
LEMMA BeginsApart ==
  ASSUME TypeOK, Apart, NEW q \in Session, NEW t \in Request, t # Idle, Open(q, t), ~overlapped'
  PROVE  Apart' /\ ~overlapped
<1>1. /\ ~overlapped
      /\ \A r \in Session : requests[r] # Idle => ~Conflict(t.op, requests[r].op)
  BY DEF Open
<1>2. /\ requests'[q] = t
      /\ \A r \in Session \ {q} : requests'[r] = requests[r]
  BY DEF Open, TypeOK
<1>3. \A op1, op2 : Conflict(op1, op2) <=> Conflict(op2, op1)
  BY DEF Conflict
<1> QED
  BY <1>1, <1>2, <1>3 DEF Apart

(* A request that goes on, or ends, comes into conflict with no other.     *)
SameKind(op1, op2) ==
  /\ op1 \in InstallStage <=> op2 \in InstallStage
  /\ op1 \in DeleteStage <=> op2 \in DeleteStage
  /\ op1 \in BackfillStage <=> op2 \in BackfillStage

LEMMA GoesOnApart ==
  ASSUME Apart, NEW q \in Session,
         \A r \in Session \ {q} : requests'[r] = requests[r],
         \/ requests'[q] = Idle
         \/ requests[q] # Idle /\ SameKind(requests'[q].op, requests[q].op)
  PROVE  Apart'
BY DEF Apart, Conflict, SameKind

(* What runs beside a request.                                             *)
LEMMA Beside ==
  ASSUME Apart, NEW q \in Session, requests[q] # Idle, NEW r \in Session, r # q
  PROVE  /\ requests[r].op \notin InstallStage \cup DeleteStage
         /\ requests[q].op \in BackfillStage => requests[r].op \notin BackfillStage
         /\ requests[q].op \in InstallStage \cup DeleteStage => requests[r] = Idle
BY DEF Apart, Conflict, Idle, InstallStage, DeleteStage, BackfillStage

Quiet ==
  /\ Apart
  /\ \A q \in Session : ReadsHold(q)
  /\ OneCA
  /\ IssuedOncePerInstallation

LEMMA UnchangedCounts ==
  ASSUME IssuedOncePerInstallation, UNCHANGED <<ca, certs, pkiAudit, issued>>
  PROVE  IssuedOncePerInstallation'
BY DEF IssuedOncePerInstallation, Installations

LEMMA BeginQuiet ==
  ASSUME TypeOK, Quiet, NEW q \in Session, ~overlapped',
         \/ \E k \in CA : BeginInstallCA(q, k)
         \/ \E c \in Client : BeginCreateClient(q, c) \/ BeginGenerateLic(q, c)
         \/ BeginDeleteCA(q) \/ BeginBackfill(q)
  PROVE  Quiet'
<1>1. PICK t \in Request : Open(q, t) /\ t # Idle /\ requests'[q] = t
  <2>1. ASSUME NEW k \in CA, BeginInstallCA(q, k)
        PROVE  \E t \in Request : Open(q, t) /\ t # Idle
    <3>1. /\ [op |-> "install", ca |-> k] \in Request
          /\ [op |-> "install", ca |-> k] # Idle
      BY IsRequest DEF InstallStage, Idle
    <3> QED
      BY <2>1, <3>1 DEF BeginInstallCA
  <2>2. ASSUME NEW c \in Client, BeginCreateClient(q, c)
        PROVE  \E t \in Request : Open(q, t) /\ t # Idle
    <3>1. /\ [op |-> "create", client |-> c, ca |-> ca] \in Request
          /\ [op |-> "create", client |-> c, ca |-> ca] # Idle
      BY <2>2, IsRequest DEF BeginCreateClient, Idle, TypeOK
    <3> QED
      BY <2>2, <3>1 DEF BeginCreateClient
  <2>3. ASSUME NEW c \in Client, BeginGenerateLic(q, c)
        PROVE  \E t \in Request : Open(q, t) /\ t # Idle
    <3>1. /\ [op |-> "lic", client |-> c, ca |-> certs[c]] \in Request
          /\ [op |-> "lic", client |-> c, ca |-> certs[c]] # Idle
      BY <2>3, IsRequest DEF BeginGenerateLic, Idle
    <3> QED
      BY <2>3, <3>1 DEF BeginGenerateLic
  <2>4. ASSUME BeginDeleteCA(q)
        PROVE  \E t \in Request : Open(q, t) /\ t # Idle
    <3>1. /\ [op |-> "delete", ca |-> ca, locked |-> {}, deletes |-> FALSE] \in Request
          /\ [op |-> "delete", ca |-> ca, locked |-> {}, deletes |-> FALSE] # Idle
      BY <2>4, IsRequest DEF BeginDeleteCA, DeleteStage, Idle, TypeOK
    <3> QED
      BY <2>4, <3>1 DEF BeginDeleteCA
  <2>5. ASSUME BeginBackfill(q)
        PROVE  \E t \in Request : Open(q, t) /\ t # Idle
    <3>1. /\ [op |-> "backfillSelect", ca |-> ca, todo |-> {}] \in Request
          /\ [op |-> "backfillSelect", ca |-> ca, todo |-> {}] # Idle
      BY <2>5, IsRequest DEF BeginBackfill, BackfillStage, Idle, TypeOK
    <3> QED
      BY <2>5, <3>1 DEF BeginBackfill
  <2> QED
    BY <2>1, <2>2, <2>3, <2>4, <2>5 DEF Open, TypeOK
<1>2. /\ UNCHANGED <<ca, certs, lics, pkiAudit, issued>>
      /\ \A r \in Session \ {q} : requests'[r] = requests[r]
  BY <1>1 DEF Open, TypeOK
<1>3. Apart'
  BY <1>1, BeginsApart DEF Quiet
<1>4. ReadsHold(q)'
  <2>1. CASE \E k \in CA : BeginInstallCA(q, k)
    <3>1. requests'[q].op = "install"
      BY <2>1, BeginStep
    <3> QED
      BY <3>1 DEF ReadsHold, BackfillStage, DeleteStage
  <2>2. CASE \/ \E c \in Client : BeginCreateClient(q, c)
             \/ BeginDeleteCA(q) \/ BeginBackfill(q)
    <3>1. /\ requests'[q].op \in {"create", "delete", "backfillSelect"}
          /\ requests'[q].ca = ca
      BY <2>2, BeginStep
    <3>2. ca \in CA
      BY <2>2 DEF BeginCreateClient, BeginDeleteCA, BeginBackfill, TypeOK
    <3> QED
      BY <1>2, <3>1, <3>2 DEF ReadsHold, DeleteStage, BackfillStage
  <2>3. ASSUME NEW c \in Client, BeginGenerateLic(q, c)
        PROVE  ReadsHold(q)'
    <3>1. requests'[q].op = "lic" /\ requests'[q].ca = certs[c] /\ certs[c] \in CA
      BY <2>3, BeginStep DEF BeginGenerateLic
    <3>2. certs[c] = ca
      BY <3>1 DEF Quiet, OneCA
    <3> QED
      BY <1>2, <3>1, <3>2 DEF ReadsHold, DeleteStage, BackfillStage
  <2> QED
    BY <2>1, <2>2, <2>3
<1>5. ASSUME NEW r \in Session, r # q
      PROVE  ReadsHold(r)'
  BY <1>2, <1>5 DEF Quiet, ReadsHold, Existing, Pending
<1>6. OneCA'
  BY <1>2 DEF Quiet, OneCA
<1> QED
  BY <1>2, <1>3, <1>4, <1>5, <1>6, UnchangedCounts DEF Quiet

LEMMA GoesOnQuiet ==
  ASSUME TypeOK, Quiet, NEW q \in Session,
         \/ InstallRecheck(q)
         \/ DeleteRecount(q) \/ DeleteRecheck(q) \/ NullifyCertificates(q) \/ DeleteRow(q)
         \/ BackfillSelect(q) \/ BackfillEnds(q)
         \/ \E c \in Client : BackfillSkips(q, c)
         \/ Fail(q) \/ Abandon(q)
  PROVE  Quiet'
<1>1. UNCHANGED <<ca, certs, lics, pkiAudit, issued>>
  BY DEF InstallRecheck, DeleteRecount, DeleteRecheck, NullifyCertificates, DeleteRow,
         BackfillSelect, BackfillEnds, BackfillSkips, Fail, Abandon, Advance
<1>2. \A r \in Session \ {q} : requests'[r] = requests[r]
  BY DEF InstallRecheck, DeleteRecount, DeleteRecheck, NullifyCertificates, DeleteRow,
         BackfillSelect, BackfillEnds, BackfillSkips, Fail, Abandon, Advance, Close,
         TypeOK
<1>3. \/ requests'[q] = Idle
      \/ requests[q].op \in InstallStage /\ requests'[q].op = "installWrite" /\ ca = Null
      \/ /\ requests[q].op \in DeleteStage
         /\ requests'[q].ca = requests[q].ca
         /\ \/ requests'[q].op = "deleteRecheck" /\ lics = {}
            \/ /\ requests[q].op \in {"deleteRecheck", "deleteNullify"}
               /\ \/ requests'[q].op = "deleteNullify"
                  \/ requests'[q].op = "deleteRow" /\ requests'[q].locked = Existing
            \/ /\ requests[q].op = "deleteRow" /\ requests'[q].op = "deleteCommit"
               /\ requests'[q].locked = requests[q].locked
               /\ requests'[q].deletes <=> ca # Null
      \/ /\ requests[q].op \in BackfillStage
         /\ requests'[q].op = "backfill"
         /\ requests'[q].ca = requests[q].ca
         /\ \/ requests'[q].todo = Pending
            \/ requests[q].op = "backfill" /\ requests'[q].todo \subseteq requests[q].todo
  <2>1. CASE InstallRecheck(q)
    BY <2>1, StageStep DEF InstallRecheck, InstallStage
  <2>2. CASE DeleteRecount(q) \/ DeleteRecheck(q) \/ NullifyCertificates(q) \/ DeleteRow(q)
    BY <2>2, StageStep
       DEF DeleteRecount, DeleteRecheck, NullifyCertificates, DeleteRow, DeleteStage
  <2>3. CASE BackfillSelect(q)
    BY <2>3, StageStep DEF BackfillSelect, BackfillStage
  <2>4. ASSUME NEW c \in Client, BackfillSkips(q, c)
        PROVE  /\ requests[q].op = "backfill" /\ requests'[q].op = "backfill"
               /\ requests'[q].ca = requests[q].ca
               /\ requests'[q].todo \subseteq requests[q].todo
    BY <2>4, StageStep DEF BackfillSkips
  <2>5. CASE BackfillEnds(q) \/ Fail(q) \/ Abandon(q)
    BY <2>5 DEF BackfillEnds, Fail, Advance, Abandon, Close, TypeOK
  <2> QED
    BY <2>1, <2>2, <2>3, <2>4, <2>5 DEF BackfillStage
<1>4. Apart'
  <2>1. \/ requests'[q] = Idle
        \/ requests[q] # Idle /\ SameKind(requests'[q].op, requests[q].op)
    BY <1>3 DEF SameKind, Idle, InstallStage, DeleteStage, BackfillStage
  <2> QED
    BY <1>2, <2>1, GoesOnApart DEF Quiet
<1>5. ReadsHold(q)'
  <2>1. ReadsHold(q)
    BY DEF Quiet
  <2>2. Pending' = Pending /\ Existing' = Existing
    BY <1>1 DEF Pending, Existing
  <2> QED
    BY <1>1, <1>3, <2>1, <2>2, PkiAssumption
       DEF ReadsHold, Idle, InstallStage, DeleteStage, BackfillStage
<1>6. ASSUME NEW r \in Session, r # q
      PROVE  ReadsHold(r)'
  BY <1>1, <1>2, <1>6 DEF Quiet, ReadsHold, Existing, Pending
<1>7. OneCA'
  BY <1>1 DEF Quiet, OneCA
<1> QED
  BY <1>1, <1>4, <1>5, <1>6, <1>7, UnchangedCounts DEF Quiet

LEMMA InstallQuiet ==
  ASSUME TypeOK, Quiet, NEW q \in Session, CommitInstallCA(q)
  PROVE  Quiet'
<1> DEFINE k == requests[q].ca
<1>1. /\ k \in CA /\ ca = Null /\ requests[q] # Idle /\ requests[q].op \in InstallStage
      /\ ca' = k
  BY RequestOf DEF CommitInstallCA, UpsertCA, InstallStage, Quiet, ReadsHold, Idle, TypeOK
<1>2. \A r \in Session : requests'[r] = Idle
  BY <1>1, Beside DEF CommitInstallCA, Close, Quiet, TypeOK
<1>3. Apart' /\ \A r \in Session : ReadsHold(r)'
  BY <1>2 DEF Apart, ReadsHold, Idle, InstallStage, DeleteStage, BackfillStage
<1>4. OneCA'
  BY <1>1, PkiAssumption DEF CommitInstallCA, Quiet, OneCA, TypeOK
<1>5. IssuedOncePerInstallation'
  <2> SUFFICES ASSUME NEW c \in Client, NEW j \in CA
               PROVE  /\ issued[c][j] <= Cardinality(Installations(j)')
                      /\ j = k => issued[c][j] < Cardinality(Installations(j)')
    BY <1>1 DEF IssuedOncePerInstallation, CommitInstallCA
  <2>1. Cardinality(Installations(j)') = Cardinality(Installations(j)) + (IF j = k THEN 1 ELSE 0)
    BY <1>1, InstallationLogged DEF CommitInstallCA
  <2>2. issued[c][j] \in Nat /\ Cardinality(Installations(j)) \in Nat
    BY InstallationsFinite DEF TypeOK
  <2>3. issued[c][j] <= Cardinality(Installations(j))
    BY DEF Quiet, IssuedOncePerInstallation
  <2> QED
    BY <2>1, <2>2, <2>3
<1> QED
  BY <1>3, <1>4, <1>5 DEF Quiet

LEMMA DeleteQuiet ==
  ASSUME TypeOK, Quiet, NEW q \in Session, CommitDeleteCA(q)
  PROVE  Quiet'
<1>1. /\ requests[q].ca \in CA /\ requests[q] # Idle /\ requests[q].op \in DeleteStage
      /\ lics = {} /\ requests[q].locked = Existing /\ ca' = Null
  <2>1. /\ requests[q].ca \in CA /\ requests[q].op = "deleteCommit"
        /\ requests[q].deletes
    BY RequestOf DEF CommitDeleteCA, DeleteStage, Quiet, ReadsHold, TypeOK
  <2>2. ca' = Null
    BY <2>1 DEF CommitDeleteCA, DeletedCA
  <2>3. lics = {} /\ requests[q].locked = Existing
    BY <2>1 DEF Quiet, ReadsHold, DeleteStage
  <2> QED
    BY <2>1, <2>2, <2>3 DEF Idle, DeleteStage
<1>2. \A r \in Session : requests'[r] = Idle
  BY <1>1, Beside DEF CommitDeleteCA, Close, Quiet, TypeOK
<1>3. Apart' /\ \A r \in Session : ReadsHold(r)'
  BY <1>2 DEF Apart, ReadsHold, Idle, InstallStage, DeleteStage, BackfillStage
<1>4. \A c \in Client : certs'[c] \notin CA
  BY <1>1, PkiAssumption DEF CommitDeleteCA, Existing
<1>5. OneCA'
  BY <1>1, <1>4 DEF CommitDeleteCA, OneCA
<1>6. IssuedOncePerInstallation'
  <2> SUFFICES ASSUME NEW c \in Client, NEW j \in CA
               PROVE  issued[c][j] <= Cardinality(Installations(j)')
    BY <1>1, PkiAssumption DEF IssuedOncePerInstallation, CommitDeleteCA
  <2>1. Cardinality(Installations(j)') = Cardinality(Installations(j)) + 0
    BY <1>1, InstallationLogged DEF CommitDeleteCA
  <2>2. Cardinality(Installations(j)) \in Nat
    BY InstallationsFinite
  <2>3. issued[c][j] <= Cardinality(Installations(j))
    BY DEF Quiet, IssuedOncePerInstallation
  <2> QED
    BY <2>1, <2>2, <2>3
<1> QED
  BY <1>3, <1>5, <1>6 DEF Quiet

(* A certificate issued to a client that had none.                         *)
LEMMA IssueQuiet ==
  ASSUME TypeOK, OneCA, IssuedOncePerInstallation, NEW c \in Client, certs[c] \notin CA,
         ca \in CA, certs' = [certs EXCEPT ![c] = ca],
         issued' = [issued EXCEPT ![c][ca] = issued[c][ca] + 1],
         UNCHANGED <<ca, lics, pkiAudit>>
  PROVE  OneCA' /\ IssuedOncePerInstallation'
<1>1. OneCA'
  BY DEF OneCA, TypeOK
<1>2. IssuedOncePerInstallation'
  <2> SUFFICES ASSUME NEW d \in Client, NEW k \in CA
               PROVE  /\ issued'[d][k] <= Cardinality(Installations(k))
                      /\ k = ca /\ certs'[d] \notin CA =>
                           issued'[d][k] < Cardinality(Installations(k))
    BY DEF IssuedOncePerInstallation, Installations
  <2>1. issued'[d][k] = IF d = c /\ k = ca THEN issued[d][k] + 1 ELSE issued[d][k]
    BY IssueTypeOK
  <2>2. issued[d][k] \in Nat /\ Cardinality(Installations(k)) \in Nat
    BY InstallationsFinite DEF TypeOK
  <2>3. /\ issued[d][k] <= Cardinality(Installations(k))
        /\ k = ca /\ certs[d] \notin CA => issued[d][k] < Cardinality(Installations(k))
    BY DEF IssuedOncePerInstallation
  <2>4. certs'[d] = IF d = c THEN ca ELSE certs[d]
    BY DEF TypeOK
  <2> QED
    BY <2>1, <2>2, <2>3, <2>4
<1> QED
  BY <1>1, <1>2

LEMMA UseQuiet ==
  ASSUME TypeOK, Quiet, NEW q \in Session,
         \/ CommitCreateClient(q) /\ ~Fail(q)
         \/ LogLic(q)
         \/ \E c \in Client : BackfillClient(q, c)
  PROVE  Quiet'
<1>1. /\ requests[q] # Idle
      /\ requests[q].op \in {"create", "lic", "backfill"}
      /\ requests[q].ca = ca /\ ca \in CA
  BY DEF CommitCreateClient, LogLic, BackfillClient, BackfillStage, Quiet, ReadsHold, Idle
<1>2. \A r \in Session \ {q} : requests'[r] = requests[r]
  BY DEF CommitCreateClient, LogLic, BackfillClient, Close, TypeOK
<1>3. \/ requests'[q] = Idle
      \/ /\ requests[q].op = "backfill" /\ requests'[q].op = "backfill"
         /\ requests'[q].ca = ca
         /\ requests'[q].todo \subseteq requests[q].todo
  BY <1>1, StageStep DEF CommitCreateClient, LogLic, BackfillClient, Close, TypeOK
<1>4. Apart'
  <2>1. requests'[q] = Idle \/ SameKind(requests'[q].op, requests[q].op)
    BY <1>3 DEF SameKind
  <2> QED
    BY <1>1, <1>2, <2>1, GoesOnApart DEF Quiet
<1>5. ca' = ca
  BY DEF CommitCreateClient, LogLic, BackfillClient
<1>6. /\ OneCA' /\ IssuedOncePerInstallation'
      /\ \A c \in Pending : c \in Pending' \/ BackfillClient(q, c)
  <2>1. CASE CommitCreateClient(q) /\ ~Fail(q)
    <3> DEFINE c == requests[q].client
    <3>1. c \in Client /\ certs[c] = Absent
      BY <2>1, RequestOf DEF CommitCreateClient, TypeOK
    <3>2. /\ certs' = [certs EXCEPT ![c] = ca]
          /\ issued' = [issued EXCEPT ![c][ca] = issued[c][ca] + 1]
          /\ UNCHANGED <<ca, lics, pkiAudit>>
      BY <1>1, <2>1, <3>1 DEF CommitCreateClient
    <3>3. Pending \subseteq Pending'
      BY <3>1, <3>2, PkiAssumption DEF Pending, TypeOK
    <3> HIDE DEF c
    <3> QED
      BY <1>1, <3>1, <3>2, <3>3, IssueQuiet, PkiAssumption DEF Quiet
  <2>2. CASE LogLic(q)
    <3>1. lics' = lics \cup {[client |-> requests[q].client, ca |-> ca]}
      BY <1>1, <2>2 DEF LogLic
    <3>2. OneCA'
      BY <2>2, <3>1 DEF LogLic, Quiet, OneCA
    <3> QED
      BY <2>2, <3>2, UnchangedCounts DEF LogLic, Pending, Quiet
  <2>3. ASSUME NEW c \in Client, BackfillClient(q, c)
        PROVE  /\ OneCA' /\ IssuedOncePerInstallation'
               /\ \A d \in Pending \ {c} : d \in Pending'
    <3>1. certs[c] = Null
      BY <2>3 DEF BackfillClient, Quiet, ReadsHold, Pending
    <3>2. /\ certs' = [certs EXCEPT ![c] = ca]
          /\ issued' = [issued EXCEPT ![c][ca] = issued[c][ca] + 1]
          /\ UNCHANGED <<ca, lics, pkiAudit>>
      BY <1>1, <2>3 DEF BackfillClient
    <3>3. \A d \in Pending \ {c} : d \in Pending'
      BY <3>2 DEF Pending, TypeOK
    <3> QED
      BY <1>1, <2>3, <3>1, <3>2, <3>3, IssueQuiet, PkiAssumption DEF Quiet
  <2> QED
    BY <2>1, <2>2, <2>3
<1>7. ASSUME NEW r \in Session, r # q
      PROVE  ReadsHold(r)'
  <2>1. /\ requests[r].op \notin InstallStage \cup DeleteStage
        /\ requests[q].op = "backfill" => requests[r].op \notin BackfillStage
    BY <1>1, <1>7, Beside DEF Quiet, BackfillStage
  <2>2. ReadsHold(r) /\ requests'[r] = requests[r]
    BY <1>2, <1>7 DEF Quiet
  <2>3. requests[r].op = "backfill" => Pending \subseteq Pending'
    BY <1>6, <2>1 DEF BackfillClient, BackfillStage
  <2> QED
    BY <1>5, <2>1, <2>2, <2>3 DEF ReadsHold, InstallStage, DeleteStage
<1>8. ReadsHold(q)'
  <2>1. CASE requests'[q] = Idle
    BY <2>1 DEF ReadsHold, Idle, DeleteStage, BackfillStage
  <2>2. ASSUME NEW c \in Client, BackfillClient(q, c)
        PROVE  ReadsHold(q)'
    <3>1. /\ requests'[q].op = "backfill" /\ requests'[q].ca = ca
          /\ requests'[q].todo = requests[q].todo \ {c}
      BY <1>1, <2>2, StageStep
    <3>2. requests[q].todo \subseteq Pending
      BY <2>2 DEF BackfillClient, Quiet, ReadsHold
    <3>3. \A d \in Pending \ {c} : d \in Pending'
      BY <2>2 DEF BackfillClient, Pending, TypeOK
    <3> QED
      BY <1>1, <1>5, <3>1, <3>2, <3>3 DEF ReadsHold, DeleteStage, BackfillStage
  <2> QED
    BY <2>1, <2>2 DEF CommitCreateClient, LogLic, Close, TypeOK
<1> QED
  BY <1>4, <1>6, <1>7, <1>8 DEF Quiet

LEMMA InitQuietInv == Init => QuietInv
<1> SUFFICES ASSUME Init
             PROVE  QuietInv
  OBVIOUS
<1>1. OneCA
  BY PkiAssumption DEF Init, OneCA
<1>2. IssuedOncePerInstallation
  <2> SUFFICES ASSUME NEW c \in Client, NEW k \in CA
               PROVE  issued[c][k] <= Cardinality(Installations(k))
    BY PkiAssumption DEF Init, IssuedOncePerInstallation
  <2> QED
    BY InitTypeOK, InstallationsFinite DEF Init
<1> QED
  BY <1>1, <1>2 DEF Init, QuietInv, Apart, ReadsHold, Idle, DeleteStage, BackfillStage

(* An overlap is never forgotten.                                          *)
LEMMA OverlapStays ==
  ASSUME [Next]_vars, ~overlapped'
  PROVE  ~overlapped
<1>1. ASSUME NEW q \in Session, ChangeCA(q)
      PROVE  ~overlapped
  BY <1>1 DEF ChangeCA, BeginInstallCA, InstallRecheck, CommitInstallCA, BeginDeleteCA,
              DeleteRecount, DeleteRecheck, NullifyCertificates, DeleteRow, CommitDeleteCA,
              Open, Advance, Fail
<1>2. ASSUME NEW q \in Session, UseCA(q)
      PROVE  ~overlapped
  BY <1>2 DEF UseCA, BackfillStep, BeginCreateClient, BeginGenerateLic, CommitCreateClient,
              LogLic, BeginBackfill, BackfillSelect, BackfillClient, BackfillSkips,
              BackfillEnds, Open, Advance, Fail
<1> QED
  BY <1>1, <1>2 DEF Next, Abandon, vars

LEMMA NextQuietInv ==
  ASSUME TypeOK, QuietInv, [Next]_vars
  PROVE  QuietInv'
<1> SUFFICES ASSUME ~overlapped'
             PROVE  Quiet'
  BY DEF QuietInv, Quiet
<1>1. ~overlapped
  BY OverlapStays
<1>2. Quiet
  BY <1>1 DEF QuietInv, Quiet
<1>3. ASSUME NEW q \in Session, ChangeCA(q) \/ UseCA(q) \/ Abandon(q)
      PROVE  Quiet'
  BY <1>2, <1>3, BeginQuiet, GoesOnQuiet, InstallQuiet, DeleteQuiet, UseQuiet
     DEF ChangeCA, UseCA, BackfillStep
<1>4. CASE UNCHANGED vars
  BY <1>2, <1>4 DEF vars, Quiet, Apart, ReadsHold, Existing, Pending, OneCA,
                    IssuedOncePerInstallation, Installations
<1> QED
  BY <1>3, <1>4 DEF Next

(* Undisturbed, the last row of the log tells the CA.                      *)
LastRowTells == ~overlapped => ca = LastTold

LEMMA NextLastRowTells ==
  ASSUME TypeOK, QuietInv, LastRowTells, [Next]_vars
  PROVE  LastRowTells'
<1> SUFFICES ASSUME ~overlapped'
             PROVE  ca' = LastTold'
  BY DEF LastRowTells
<1>1. Quiet /\ ca = LastTold
  BY OverlapStays DEF QuietInv, Quiet, LastRowTells
<1>2. ASSUME NEW q \in Session, CommitInstallCA(q)
      PROVE  ca' = LastTold'
  <2>1. requests[q].ca \in CA
    BY <1>2, RequestOf DEF CommitInstallCA, InstallStage, TypeOK
  <2> QED
    BY <1>2, <2>1, RowLogged DEF CommitInstallCA, UpsertCA
<1>3. ASSUME NEW q \in Session, CommitDeleteCA(q)
      PROVE  ca' = LastTold'
  <2>1. requests[q].ca \in CA /\ requests[q].deletes
    BY <1>1, <1>3, RequestOf DEF CommitDeleteCA, DeleteStage, Quiet, ReadsHold, TypeOK
  <2> QED
    BY <1>3, <2>1, RowLogged DEF CommitDeleteCA, DeletedCA
<1>4. CASE UNCHANGED <<ca, pkiAudit>>
  BY <1>1, <1>4 DEF LastTold
<1> QED
  BY <1>2, <1>3, <1>4, Writers DEF CommitCreateClient, Fail, Advance, LogLic, BackfillClient

(* The log of the PKI is exact: it tells which CA the portal has whatever  *)
(* overlapped, its last row alone does undisturbed, and no certificate is  *)
(* used without having been logged.                                        *)
THEOREM PkiLogIsExact == Spec => []PkiLogExact
<1>1. Init => LogInv /\ QuietInv /\ LastRowTells
  BY InitLogInv, InitQuietInv DEF Init, LastRowTells, LastTold
<1>2. /\ TypeOK /\ LogInv /\ QuietInv /\ LastRowTells
      /\ [Next]_vars
      => LogInv' /\ QuietInv' /\ LastRowTells'
  BY NextLogInv, NextQuietInv, NextLastRowTells
<1>3. TypeOK /\ LogInv /\ LastRowTells => PkiLogExact
  BY DEF LogInv, ToldInLog, LastRowTells, AuditTellsCA, PkiLogExact
<1> QED
  BY <1>1, <1>2, <1>3, PkiTypeCorrect, PTL DEF Spec

(* As long as no request has run beside one it conflicts with, certificates*)
(* and files are of the CA the portal has, and a client gets one           *)
(* certificate from each installation of a CA.                             *)
THEOREM QuietIsTrusted == Spec => []QuietTrust
<1>1. TypeOK /\ QuietInv /\ [Next]_vars => QuietInv'
  BY NextQuietInv
<1>2. QuietInv => QuietTrust
  BY DEF QuietInv, OneCA, IssuedOncePerInstallation, QuietTrust, OneTrust, IssuedOnce
<1> QED
  BY <1>1, <1>2, InitQuietInv, PkiTypeCorrect, PTL DEF Spec
=============================================================================
