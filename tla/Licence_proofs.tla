---------------------------- MODULE Licence_proofs ----------------------------
(***************************************************************************)
(* Proofs about LicenceLifecycle, for any sets of licences,                *)
(* renouvellements and sessions, any number of runs of each job, and any   *)
(* bounds: types, the optimistic lock and the refinement first, then the   *)
(* audit log, the period of a validated renouvellement and the proposals   *)
(* of the auto-renew job.                                                  *)
(***************************************************************************)
EXTENDS LicenceLifecycle, TLAPS

(* The with* methods return rows.                                          *)
LEMMA ProfileRow ==
  ASSUME NEW row \in LicenceRow, NEW patch \in ProfilePatch
  PROVE  /\ WithProfile(row, patch) \in LicenceRow
         /\ WithProfile(row, patch).version = row.version
         /\ WithProfile(row, patch).status = row.status
BY KeepAssumption DEF WithProfile, Given, LicenceRow, ProfilePatch

LEMMA StatusRow ==
  ASSUME NEW row \in LicenceRow, NEW status \in LicenceStatus
  PROVE  /\ WithStatus(row, status) \in LicenceRow
         /\ WithStatus(row, status).version = row.version
BY DEF WithStatus, LicenceRow

LEMMA RenewedRow ==
  ASSUME NEW row \in LicenceRow, NEW debut \in Int, NEW fin \in Int
  PROVE  /\ Renewed(row, debut, fin) \in LicenceRow
         /\ Renewed(row, debut, fin).version = row.version
         /\ Renewed(row, debut, fin).debut = debut
         /\ Renewed(row, debut, fin).fin = fin
BY DEF Renewed, LicenceRow, LicenceStatus

LEMMA ExpiredRow ==
  ASSUME NEW row \in LicenceRow
  PROVE  /\ Expired(row) \in LicenceRow
         /\ Expired(row).version = row.version + 1
         /\ Expired(row).status = "EXPIRE"
<1>1. row.version + 1 \in Nat
  BY DEF LicenceRow
<1>2. Expired(row) \in LicenceRow
  <2> DEFINE next == row.version + 1
  <2>1. next \in Nat
    BY <1>1
  <2>2. Expired(row) = [row EXCEPT !.status = "EXPIRE", !.version = next]
    BY DEF Expired
  <2> HIDE DEF next
  <2> QED
    BY <2>1, <2>2 DEF LicenceRow, LicenceStatus
<1>3. Expired(row).version = row.version + 1
  BY <1>1 DEF Expired, LicenceRow
<1>4. Expired(row).status = "EXPIRE"
  BY <1>1 DEF Expired, LicenceRow
<1> QED
  BY <1>2, <1>3, <1>4

LEMMA RenewStatusRow ==
  ASSUME NEW row \in RenewRow(Licence), NEW status \in RenewStatus
  PROVE  /\ WithStatus(row, status) \in RenewRow(Licence)
         /\ WithStatus(row, status).licence = row.licence
BY DEF WithStatus, RenewRow

(* A request that is not idle holds a transaction of its operation.        *)
LEMMA TransactionOf ==
  ASSUME NEW t \in Transaction
  PROVE  /\ t.op \in {"update", "changeStatus"} => t \in LicenceTx
         /\ t.op \in {"annuler", "updateRenouvellement"} => t \in RenewTx
         /\ t.op = "valider" => t \in ValiderTx
         /\ t.op = "validerWrite" => t \in ValiderWrite
         /\ t.op = "idle" => t = Idle
BY DEF Transaction, Idle, LicenceTx, RenewTx, ValiderTx, ValiderWrite

LEMMA InTransaction ==
  /\ Idle \in Transaction
  /\ LicenceTx \subseteq Transaction
  /\ RenewTx \subseteq Transaction
  /\ ValiderTx \subseteq Transaction
  /\ ValiderWrite \subseteq Transaction
BY DEF Transaction

(* What Open and Close leave of the type invariant.                        *)
LEMMA OpenTypeOK ==
  ASSUME TypeOK, NEW q \in Session, NEW t \in Transaction, Open(q, t)
  PROVE  TypeOK'
BY DEF Open, TypeOK

-----------------------------------------------------------------------------
LEMMA InitTypeOK == Init => TypeOK
BY DEF Init, TypeOK, Transaction, Idle

(* Requests on a licence.                                                  *)
LEMMA LicenceUseCaseTypeOK ==
  ASSUME TypeOK, References, NEW q \in Session, LicenceUseCase(q)
  PROVE  TypeOK'
<1>1. ASSUME NEW l \in Licence, BeginUpdateLicence(q, l)
      PROVE  TypeOK'
  <2>1. PICK expected \in PageVersion(l), patch \in ProfileInput :
          Open(q, [op |-> "update", licence |-> l, expected |-> expected,
                   seen |-> licences[l],
                   patched |-> WithProfile(licences[l], patch)])
    BY <1>1 DEF BeginUpdateLicence
  <2>2. licences[l] \in LicenceRow
    BY <1>1 DEF BeginUpdateLicence, Created, TypeOK
  <2>3. WithProfile(licences[l], patch) \in LicenceRow
    BY <2>2, ProfileRow, InputAssumption
  <2>4. expected \in Nat
    BY <2>2 DEF PageVersion, LicenceRow
  <2>5. [op |-> "update", licence |-> l, expected |-> expected,
         seen |-> licences[l],
         patched |-> WithProfile(licences[l], patch)] \in LicenceTx
    BY <2>2, <2>3, <2>4 DEF LicenceTx
  <2> QED
    BY <2>1, <2>5, OpenTypeOK, InTransaction
<1>2. ASSUME NEW l \in Licence, BeginChangeStatus(q, l)
      PROVE  TypeOK'
  <2>1. PICK expected \in PageVersion(l), status \in LicenceStatus :
          Open(q, [op |-> "changeStatus", licence |-> l, expected |-> expected,
                   seen |-> licences[l],
                   patched |-> WithStatus(licences[l], status)])
    BY <1>2 DEF BeginChangeStatus
  <2>2. licences[l] \in LicenceRow
    BY <1>2 DEF BeginChangeStatus, Created, TypeOK
  <2>3. WithStatus(licences[l], status) \in LicenceRow
    BY <2>2, StatusRow
  <2>4. expected \in Nat
    BY <2>2 DEF PageVersion, LicenceRow
  <2>5. [op |-> "changeStatus", licence |-> l, expected |-> expected,
         seen |-> licences[l],
         patched |-> WithStatus(licences[l], status)] \in LicenceTx
    BY <2>2, <2>3, <2>4 DEF LicenceTx
  <2> QED
    BY <2>1, <2>5, OpenTypeOK, InTransaction
<1>3. ASSUME CommitLicence(q)
      PROVE  TypeOK'
  <2> DEFINE tx == requests[q]
  <2>1. tx \in LicenceTx
    BY <1>3, TransactionOf DEF CommitLicence, TypeOK
  <2>2. licences[tx.licence] \in LicenceRow
    BY <1>3, <2>1 DEF CommitLicence, LicenceTx, TypeOK, References, TxReferences,
                      InLicenceTx, Created
  <2>3. [tx.patched EXCEPT !.version = licences[tx.licence].version + 1]
          \in LicenceRow
    BY <2>1, <2>2 DEF LicenceTx, LicenceRow
  <2>4. licences' \in [Licence -> LicenceRow \cup {None}]
    BY <1>3, <2>1, <2>3 DEF CommitLicence, SaveLicence, LicenceTx, TypeOK
  <2>5. requests' \in [Session -> Transaction]
    BY <1>3, InTransaction DEF CommitLicence, Close, TypeOK
  <2>6. LicenceChange(LicenceTxVerb(tx), tx.licence, tx.expected + 1)
          \in LicenceEvent
    BY <2>1 DEF LicenceChange, LicenceTxVerb, StatusVerb, LicenceEvent,
                LicenceVerb, LicenceTx
  <2>7. audit' \subseteq LicenceEvent \cup RenewedEvent \cup RenewEvent
    BY <1>3, <2>6 DEF CommitLicence, Log, TypeOK
  <2> QED
    BY <1>3, <2>4, <2>5, <2>7 DEF CommitLicence, TypeOK
<1>4. ASSUME RejectLicence(q)
      PROVE  TypeOK'
  BY <1>4, InTransaction DEF RejectLicence, Close, TypeOK
<1> QED
  BY <1>1, <1>2, <1>3, <1>4 DEF LicenceUseCase

(* Requests on a renouvellement.                                           *)
LEMMA RenouvellementUseCaseTypeOK ==
  ASSUME TypeOK, References, NEW q \in Session, RenouvellementUseCase(q)
  PROVE  TypeOK'
<1>1. ASSUME NEW r \in Renouvellement, BeginAnnuler(q, r)
      PROVE  TypeOK'
  <2>1. renouvellements[r] \in RenewRow(Licence)
    BY <1>1 DEF BeginAnnuler, Exists, TypeOK
  <2>2. WithStatus(renouvellements[r], "ANNULE") \in RenewRow(Licence)
    BY <2>1, RenewStatusRow DEF RenewStatus
  <2>3. [op |-> "annuler", renouvellement |-> r,
         seen |-> renouvellements[r],
         patched |-> WithStatus(renouvellements[r], "ANNULE")] \in RenewTx
    BY <2>1, <2>2 DEF RenewTx
  <2> QED
    BY <1>1, <2>3, OpenTypeOK, InTransaction DEF BeginAnnuler
<1>2. ASSUME NEW r \in Renouvellement, BeginUpdateRenouvellement(q, r)
      PROVE  TypeOK'
  <2>1. PICK patch \in DatePatch :
          Open(q, [op |-> "updateRenouvellement", renouvellement |-> r,
                   seen |-> renouvellements[r],
                   patched |-> [renouvellements[r] EXCEPT
                     !.debut = Given(patch.debut, renouvellements[r].debut),
                     !.fin = Given(patch.fin, renouvellements[r].fin)]])
    BY <1>2 DEF BeginUpdateRenouvellement
  <2>2. renouvellements[r] \in RenewRow(Licence)
    BY <1>2 DEF BeginUpdateRenouvellement, Exists, TypeOK
  <2>3. [renouvellements[r] EXCEPT
           !.debut = Given(patch.debut, renouvellements[r].debut),
           !.fin = Given(patch.fin, renouvellements[r].fin)] \in RenewRow(Licence)
    BY <2>2, InputAssumption DEF RenewRow, Given
  <2>4. [op |-> "updateRenouvellement", renouvellement |-> r,
         seen |-> renouvellements[r],
         patched |-> [renouvellements[r] EXCEPT
           !.debut = Given(patch.debut, renouvellements[r].debut),
           !.fin = Given(patch.fin, renouvellements[r].fin)]] \in RenewTx
    BY <2>2, <2>3 DEF RenewTx
  <2> QED
    BY <2>1, <2>4, OpenTypeOK, InTransaction
<1>3. ASSUME NEW r \in Renouvellement, BeginValider(q, r)
      PROVE  TypeOK'
  <2>1. renouvellements[r] \in RenewRow(Licence)
    BY <1>3 DEF BeginValider, Exists, TypeOK
  <2>2. [op |-> "valider", renouvellement |-> r,
         seen |-> renouvellements[r]] \in ValiderTx
    BY <2>1 DEF ValiderTx
  <2> QED
    BY <1>3, <2>2, OpenTypeOK, InTransaction DEF BeginValider
<1>4. ASSUME CommitRenouvellement(q)
      PROVE  TypeOK'
  <2> DEFINE tx == requests[q]
  <2>1. tx \in RenewTx
    BY <1>4, TransactionOf DEF CommitRenouvellement, TypeOK
  <2>2. RenewChange(RenewTxVerb(tx.op), tx.renouvellement) \in RenewEvent
    BY <2>1 DEF RenewChange, RenewTxVerb, RenewEvent, RenewVerb, RenewTx
  <2>3. audit' \subseteq LicenceEvent \cup RenewedEvent \cup RenewEvent
    BY <1>4, <2>2 DEF CommitRenouvellement, Log, TypeOK
  <2>4. requests' \in [Session -> Transaction]
    BY <1>4, InTransaction DEF CommitRenouvellement, Close, TypeOK
  <2>5. renouvellements' \in [Renouvellement -> RenewRow(Licence) \cup {None}]
    BY <1>4, <2>1 DEF CommitRenouvellement, SaveRenouvellement, RenewTx, TypeOK
  <2> QED
    BY <1>4, <2>3, <2>4, <2>5 DEF CommitRenouvellement, TypeOK
<1>5. ASSUME ValiderReadLicence(q)
      PROVE  TypeOK'
  <2> DEFINE tx == requests[q]
  <2>1. tx \in ValiderTx
    BY <1>5, TransactionOf DEF ValiderReadLicence, TypeOK
  <2>2. tx.seen.licence \in Licence
    BY <2>1 DEF ValiderTx, RenewRow
  <2>3. licences[tx.seen.licence] \in LicenceRow
    BY <1>5, <2>2 DEF ValiderReadLicence, TypeOK, References, TxReferences,
                      Created
  <2>4. [op |-> "validerWrite", renouvellement |-> tx.renouvellement,
         seen |-> tx.seen, licence |-> licences[tx.seen.licence]]
           \in ValiderWrite
    BY <2>1, <2>3 DEF ValiderTx, ValiderWrite
  <2> QED
    BY <1>5, <2>4, InTransaction DEF ValiderReadLicence, TypeOK
<1>6. ASSUME CommitValider(q)
      PROVE  TypeOK'
  <2> DEFINE tx == requests[q]
             l == tx.seen.licence
             patched == Renewed(tx.licence, tx.seen.debut, tx.seen.fin)
  <2>1. tx \in ValiderWrite
    BY <1>6, TransactionOf DEF CommitValider, TypeOK
  <2>2. /\ l \in Licence /\ tx.seen.debut \in Int /\ tx.seen.fin \in Int
        /\ tx.licence \in LicenceRow /\ tx.seen \in RenewRow(Licence)
        /\ tx.renouvellement \in Renouvellement
    BY <2>1 DEF ValiderWrite, RenewRow
  <2>3. licences[l] \in LicenceRow
    BY <1>6, <2>2 DEF CommitValider, TypeOK, References, TxReferences, Created
  <2>4. /\ patched \in LicenceRow
        /\ patched.debut \in Int /\ patched.fin \in Int
    BY <2>2, RenewedRow
  <2>5. [patched EXCEPT !.version = licences[l].version + 1] \in LicenceRow
    BY <2>3, <2>4 DEF LicenceRow
  <2>6. licences' \in [Licence -> LicenceRow \cup {None}]
    BY <1>6, <2>2, <2>5 DEF CommitValider, SaveLicence, TypeOK
  <2>7. WithStatus(tx.seen, "VALIDE") \in RenewRow(Licence)
    BY <2>2, RenewStatusRow DEF RenewStatus
  <2>8. renouvellements' \in [Renouvellement -> RenewRow(Licence) \cup {None}]
    BY <1>6, <2>2, <2>7 DEF CommitValider, SaveRenouvellement, TypeOK
  <2>9. /\ RenewalOf(l, tx.licence.version + 1, patched, tx.renouvellement)
             \in RenewedEvent
        /\ RenewChange("RENOUVELLEMENT_VALIDATED", tx.renouvellement)
             \in RenewEvent
    BY <2>2, <2>4 DEF RenewalOf, RenewedEvent, RenewChange, RenewEvent,
                      RenewVerb, LicenceRow
  <2>10. audit' \subseteq LicenceEvent \cup RenewedEvent \cup RenewEvent
    BY <1>6, <2>9 DEF CommitValider, Log, TypeOK
  <2>11. requests' \in [Session -> Transaction]
    BY <1>6, InTransaction DEF CommitValider, Close, TypeOK
  <2> QED
    BY <1>6, <2>6, <2>8, <2>10, <2>11 DEF CommitValider, TypeOK
<1>7. ASSUME RejectValider(q)
      PROVE  TypeOK'
  BY <1>7, InTransaction DEF RejectValider, Close, TypeOK
<1> QED
  BY <1>1, <1>2, <1>3, <1>4, <1>5, <1>6, <1>7 DEF RenouvellementUseCase

(* The jobs.                                                               *)
LEMMA ExpireJobTypeOK ==
  ASSUME TypeOK, NEW x \in ExpireRun, ExpireJob(x)
  PROVE  TypeOK'
<1>1. ASSUME ExpireUpdate(x)
      PROVE  TypeOK'
  <2>1. \A l \in Licence : Overdue(l) => licences[l] \in LicenceRow
    BY DEF Overdue, Created, TypeOK
  <2>2. licences' \in [Licence -> LicenceRow \cup {None}]
    BY <1>1, <2>1, ExpiredRow DEF ExpireUpdate, TypeOK
  <2>3. {[licence |-> l, version |-> licences[l].version + 1] :
           l \in {k \in Licence : Overdue(k)}}
          \in SUBSET [licence : Licence, version : Nat]
    BY <2>1 DEF LicenceRow
  <2> QED
    BY <1>1, <2>2, <2>3 DEF ExpireUpdate, TypeOK
<1>2. ASSUME ExpireAudit(x)
      PROVE  TypeOK'
  <2>1. PICK row \in expireRuns[x] :
          /\ Log({LicenceChange("LICENCE_EXPIRED_BY_JOB", row.licence, row.version)})
          /\ expireRuns' = [expireRuns EXCEPT ![x] = @ \ {row}]
    BY <1>2 DEF ExpireAudit
  <2>2. row \in [licence : Licence, version : Nat]
    BY <2>1 DEF TypeOK
  <2>3. LicenceChange("LICENCE_EXPIRED_BY_JOB", row.licence, row.version)
          \in LicenceEvent
    BY <2>2 DEF LicenceChange, LicenceEvent, LicenceVerb
  <2> QED
    BY <1>2, <2>1, <2>3 DEF ExpireAudit, Log, TypeOK
<1>3. ASSUME ExpireDies(x)
      PROVE  TypeOK'
  BY <1>3 DEF ExpireDies, TypeOK
<1> QED
  BY <1>1, <1>2, <1>3 DEF ExpireJob

LEMMA RenewJobTypeOK ==
  ASSUME TypeOK, NEW x \in RenewRun, RenewJob(x)
  PROVE  TypeOK'
<1>1. ASSUME RenewSelect(x)
      PROVE  TypeOK'
  <2>1. \A l \in Licence : Eligible(l) => licences[l].fin \in Int
    BY DEF Eligible, Created, TypeOK, LicenceRow
  <2>2. {[licence |-> l, fin |-> licences[l].fin] :
           l \in {k \in Licence : Eligible(k)}}
          \in SUBSET [licence : Licence, fin : Int]
    BY <2>1
  <2> QED
    BY <1>1, <2>2 DEF RenewSelect, TypeOK
<1>2. ASSUME NEW r \in Renouvellement, RenewSave(x, r)
      PROVE  TypeOK'
  <2>1. PICK row \in renewRuns[x].todo :
          /\ renouvellements' = [renouvellements EXCEPT ![r] =
               [licence |-> row.licence, debut |-> row.fin,
                fin |-> row.fin + RenewDuration, status |-> "CREE"]]
          /\ renewRuns' = [renewRuns EXCEPT ![x] =
               [todo |-> @.todo \ {row}, unaudited |-> r]]
    BY <1>2 DEF RenewSave
  <2>2. row \in [licence : Licence, fin : Int]
    BY <2>1 DEF TypeOK
  <2>3. [licence |-> row.licence, debut |-> row.fin,
         fin |-> row.fin + RenewDuration, status |-> "CREE"] \in RenewRow(Licence)
    BY <2>2, InputAssumption DEF RenewRow, RenewStatus
  <2> QED
    BY <1>2, <2>1, <2>3 DEF RenewSave, TypeOK
<1>3. ASSUME RenewAudit(x)
      PROVE  TypeOK'
  <2>1. renewRuns[x].unaudited \in Renouvellement
    BY <1>3 DEF RenewAudit, TypeOK
  <2>2. RenewChange("RENOUVELLEMENT_CREATED_BY_JOB", renewRuns[x].unaudited)
          \in RenewEvent
    BY <2>1 DEF RenewChange, RenewEvent, RenewVerb
  <2> QED
    BY <1>3, <2>2 DEF RenewAudit, Log, TypeOK
<1>4. ASSUME RenewSkip(x)
      PROVE  TypeOK'
  BY <1>4 DEF RenewSkip, TypeOK
<1>5. ASSUME RenewDies(x)
      PROVE  TypeOK'
  BY <1>5 DEF RenewDies, RenewIdle, TypeOK
<1> QED
  BY <1>1, <1>2, <1>3, <1>4, <1>5 DEF RenewJob

LEMMA NextTypeOK ==
  ASSUME TypeOK, References, [Next]_vars
  PROVE  TypeOK'
<1>1. CASE Tick
  BY <1>1 DEF Tick, TypeOK
<1>2. ASSUME NEW l \in Licence, CreateLicence(l)
      PROVE  TypeOK'
  <2>1. PICK p \in Period, auto \in BOOLEAN :
          licences' = [licences EXCEPT ![l] = NewLicence(p.debut, p.fin, auto)]
    BY <1>2 DEF CreateLicence
  <2>2. NewLicence(p.debut, p.fin, auto) \in LicenceRow
    BY InputAssumption DEF NewLicence, LicenceRow, LicenceStatus
  <2>3. LicenceChange("LICENCE_CREATED", l, 0) \in LicenceEvent
    BY DEF LicenceChange, LicenceEvent, LicenceVerb
  <2> QED
    BY <1>2, <2>1, <2>2, <2>3 DEF CreateLicence, Log, TypeOK
<1>3. ASSUME NEW r \in Renouvellement, CreateRenouvellement(r)
      PROVE  TypeOK'
  <2>1. PICK l \in Licence, p \in Period :
          renouvellements' = [renouvellements EXCEPT ![r] =
            [licence |-> l, debut |-> p.debut, fin |-> p.fin,
             status |-> "EN_COURS"]]
    BY <1>3 DEF CreateRenouvellement
  <2>2. [licence |-> l, debut |-> p.debut, fin |-> p.fin,
         status |-> "EN_COURS"] \in RenewRow(Licence)
    BY InputAssumption DEF RenewRow, RenewStatus
  <2>3. RenewChange("RENOUVELLEMENT_CREATED", r) \in RenewEvent
    BY DEF RenewChange, RenewEvent, RenewVerb
  <2> QED
    BY <1>3, <2>1, <2>2, <2>3 DEF CreateRenouvellement, Log, TypeOK
<1>4. CASE UNCHANGED vars
  BY <1>4 DEF vars, TypeOK
<1> QED
  BY <1>1, <1>2, <1>3, <1>4, LicenceUseCaseTypeOK, RenouvellementUseCaseTypeOK,
     ExpireJobTypeOK, RenewJobTypeOK DEF Next

-----------------------------------------------------------------------------
(* The only steps that move the clock or write lic_licences.               *)
LEMMA LicenceWriters ==
  ASSUME [Next]_vars
  PROVE  \/ UNCHANGED <<today, licences>>
         \/ Tick
         \/ \E l \in Licence : CreateLicence(l)
         \/ \E q \in Session : CommitLicence(q) \/ CommitValider(q)
         \/ \E x \in ExpireRun : ExpireUpdate(x)
<1>1. ASSUME NEW q \in Session, LicenceUseCase(q)
      PROVE  CommitLicence(q) \/ UNCHANGED <<today, licences>>
  BY <1>1 DEF LicenceUseCase, BeginUpdateLicence, BeginChangeStatus,
              RejectLicence, Open
<1>2. ASSUME NEW q \in Session, RenouvellementUseCase(q)
      PROVE  CommitValider(q) \/ UNCHANGED <<today, licences>>
  BY <1>2 DEF RenouvellementUseCase, BeginAnnuler, BeginUpdateRenouvellement,
              BeginValider, CommitRenouvellement, ValiderReadLicence,
              RejectValider, Open
<1>3. ASSUME NEW x \in ExpireRun, ExpireJob(x)
      PROVE  ExpireUpdate(x) \/ UNCHANGED <<today, licences>>
  BY <1>3 DEF ExpireJob, ExpireAudit, ExpireDies
<1>4. ASSUME NEW x \in RenewRun, RenewJob(x)
      PROVE  UNCHANGED <<today, licences>>
  BY <1>4 DEF RenewJob, RenewSelect, RenewSave, RenewAudit, RenewSkip, RenewDies
<1>5. ASSUME NEW r \in Renouvellement, CreateRenouvellement(r)
      PROVE  UNCHANGED <<today, licences>>
  BY <1>5 DEF CreateRenouvellement
<1> QED
  BY <1>1, <1>2, <1>3, <1>4, <1>5 DEF Next, vars

(* A licence stays, and no step changes it without raising its version.    *)
Grows ==
  \A l \in Licence : Created(l) =>
    /\ Created(l)'
    /\ licences[l].version <= licences'[l].version
    /\ licences'[l].version = licences[l].version => licences'[l] = licences[l]

LEMMA NextGrows ==
  ASSUME TypeOK, References, [Next]_vars
  PROVE  Grows
<1>1. CASE UNCHANGED licences
  BY <1>1 DEF Grows, Created, TypeOK, LicenceRow
<1>2. ASSUME NEW l \in Licence, NEW row \in LicenceRow, Created(l),
             SaveLicence(l, row)
      PROVE  Grows
  <2>1. licences[l] \in LicenceRow
    BY <1>2 DEF Created, TypeOK
  <2>2. [row EXCEPT !.version = licences[l].version + 1] \in LicenceRow
    BY <2>1 DEF LicenceRow
  <2>3. /\ licences'[l] # None
        /\ licences'[l].version = licences[l].version + 1
    BY <1>2, <2>2, NoneAssumption DEF SaveLicence, TypeOK, LicenceRow
  <2>4. \A k \in Licence \ {l} : licences'[k] = licences[k]
    BY <1>2 DEF SaveLicence, TypeOK
  <2> QED
    BY <2>1, <2>3, <2>4 DEF Grows, Created, TypeOK, LicenceRow
<1>3. ASSUME NEW l \in Licence, CreateLicence(l)
      PROVE  Grows
  <2>1. \A k \in Licence \ {l} : licences'[k] = licences[k]
    BY <1>3 DEF CreateLicence, TypeOK
  <2> QED
    BY <1>3, <2>1 DEF Grows, CreateLicence, Created, TypeOK, LicenceRow
<1>4. ASSUME NEW q \in Session, CommitLicence(q)
      PROVE  Grows
  <2>1. requests[q] \in LicenceTx
    BY <1>4, TransactionOf DEF CommitLicence, TypeOK
  <2>2. Created(requests[q].licence)
    BY <1>4 DEF CommitLicence, References, TxReferences, InLicenceTx
  <2> QED
    BY <1>4, <2>1, <2>2, <1>2 DEF CommitLicence, LicenceTx
<1>5. ASSUME NEW q \in Session, CommitValider(q)
      PROVE  Grows
  <2>1. requests[q] \in ValiderWrite
    BY <1>5, TransactionOf DEF CommitValider, TypeOK
  <2>2. Created(requests[q].seen.licence)
    BY <1>5 DEF CommitValider, References, TxReferences
  <2>3. Renewed(requests[q].licence, requests[q].seen.debut, requests[q].seen.fin)
          \in LicenceRow
    BY <2>1, RenewedRow DEF ValiderWrite, RenewRow
  <2> QED
    BY <1>5, <2>1, <2>2, <2>3, <1>2 DEF CommitValider, ValiderWrite, RenewRow
<1>6. ASSUME NEW x \in ExpireRun, ExpireUpdate(x)
      PROVE  Grows
  <2>1. SUFFICES ASSUME NEW l \in Licence, Created(l)
                 PROVE  /\ licences'[l] # None
                        /\ licences[l].version <= licences'[l].version
                        /\ licences'[l].version = licences[l].version =>
                             licences'[l] = licences[l]
    BY DEF Grows, Created
  <2>2. licences[l] \in LicenceRow
    BY <2>1 DEF Created, TypeOK
  <2>3. CASE Overdue(l)
    <3>1. licences'[l] = Expired(licences[l])
      BY <1>6, <2>3 DEF ExpireUpdate
    <3> QED
      BY <2>2, <3>1, ExpiredRow, NoneAssumption DEF LicenceRow
  <2>4. CASE ~Overdue(l)
    <3>1. licences'[l] = licences[l]
      BY <1>6, <2>4 DEF ExpireUpdate
    <3> QED
      BY <2>1, <2>2, <3>1 DEF Created, LicenceRow
  <2> QED
    BY <2>3, <2>4
<1> QED
  BY <1>1, <1>3, <1>4, <1>5, <1>6, LicenceWriters DEF Tick

-----------------------------------------------------------------------------
(* A step leaves a session's transaction, closes it, or opens one.         *)
Opens(q) ==
  \/ \E l \in Licence : BeginUpdateLicence(q, l) \/ BeginChangeStatus(q, l)
  \/ \E r \in Renouvellement :
       BeginAnnuler(q, r) \/ BeginUpdateRenouvellement(q, r) \/ BeginValider(q, r)
  \/ ValiderReadLicence(q)

LEMMA RequestStep ==
  ASSUME TypeOK, [Next]_vars, NEW q \in Session
  PROVE  requests'[q] = requests[q] \/ requests'[q] = Idle \/ Opens(q)
<1>1. CASE UNCHANGED requests
  BY <1>1
<1>2. ASSUME NEW p \in Session, LicenceUseCase(p)
      PROVE  requests'[q] = requests[q] \/ requests'[q] = Idle \/ Opens(q)
  <2>1. CASE p = q
    BY <1>2, <2>1 DEF LicenceUseCase, CommitLicence, RejectLicence, Close,
                      TypeOK, Opens
  <2>2. CASE p # q
    BY <1>2, <2>2 DEF LicenceUseCase, BeginUpdateLicence, BeginChangeStatus,
                      CommitLicence, RejectLicence, Open, Close, TypeOK
  <2> QED
    BY <2>1, <2>2
<1>3. ASSUME NEW p \in Session, RenouvellementUseCase(p)
      PROVE  requests'[q] = requests[q] \/ requests'[q] = Idle \/ Opens(q)
  <2>1. CASE p = q
    BY <1>3, <2>1 DEF RenouvellementUseCase, CommitRenouvellement,
                      CommitValider, RejectValider, Close, TypeOK, Opens
  <2>2. CASE p # q
    BY <1>3, <2>2 DEF RenouvellementUseCase, BeginAnnuler,
                      BeginUpdateRenouvellement, BeginValider,
                      CommitRenouvellement, ValiderReadLicence, CommitValider,
                      RejectValider, Open, Close, TypeOK
  <2> QED
    BY <2>1, <2>2
<1> QED
  BY <1>1, <1>2, <1>3
     DEF Next, Tick, CreateLicence, CreateRenouvellement, ExpireJob,
         ExpireUpdate, ExpireAudit, ExpireDies, RenewJob, RenewSelect,
         RenewSave, RenewAudit, RenewSkip, RenewDies, vars

-----------------------------------------------------------------------------
LEMMA InitReferences == Init => References
BY DEF Init, References, TxReferences, InLicenceTx, Exists, Idle, RenewIdle

(* The only steps that write lic_renouvellements.                          *)
LEMMA RenouvellementWriters ==
  ASSUME [Next]_vars
  PROVE  \/ UNCHANGED renouvellements
         \/ \E r \in Renouvellement : CreateRenouvellement(r)
         \/ \E q \in Session : CommitRenouvellement(q) \/ CommitValider(q)
         \/ \E x \in RenewRun, r \in Renouvellement : RenewSave(x, r)
<1>1. ASSUME NEW q \in Session, LicenceUseCase(q)
      PROVE  UNCHANGED renouvellements
  BY <1>1 DEF LicenceUseCase, BeginUpdateLicence, BeginChangeStatus,
              CommitLicence, RejectLicence, Open
<1>2. ASSUME NEW q \in Session, RenouvellementUseCase(q)
      PROVE  \/ UNCHANGED renouvellements
             \/ CommitRenouvellement(q)
             \/ CommitValider(q)
  BY <1>2 DEF RenouvellementUseCase, BeginAnnuler, BeginUpdateRenouvellement,
              BeginValider, ValiderReadLicence, RejectValider, Open
<1>3. ASSUME NEW x \in ExpireRun, ExpireJob(x)
      PROVE  UNCHANGED renouvellements
  BY <1>3 DEF ExpireJob, ExpireUpdate, ExpireAudit, ExpireDies
<1>4. ASSUME NEW x \in RenewRun, RenewJob(x)
      PROVE  \/ UNCHANGED renouvellements
             \/ \E r \in Renouvellement : RenewSave(x, r)
  BY <1>4 DEF RenewJob, RenewSelect, RenewAudit, RenewSkip, RenewDies
<1> QED
  BY <1>1, <1>2, <1>3, <1>4 DEF Next, Tick, CreateLicence, vars

LEMMA RowReferencesStep ==
  ASSUME TypeOK, References, [Next]_vars, NEW r \in Renouvellement, Exists(r)'
  PROVE  Created(renouvellements[r].licence)'
<1> USE NextGrows DEF Grows
<1>1. CASE UNCHANGED renouvellements
  <2>1. renouvellements[r].licence \in Licence
    BY <1>1 DEF Exists, TypeOK, RenewRow
  <2> QED
    BY <1>1, <2>1 DEF Exists, References
<1>2. ASSUME NEW s \in Renouvellement, NEW row \in RenewRow(Licence),
             Created(row.licence), SaveRenouvellement(s, row)
      PROVE  Created(renouvellements[r].licence)'
  <2>1. row.licence \in Licence
    BY DEF RenewRow
  <2>2. CASE s = r
    BY <1>2, <2>1, <2>2 DEF SaveRenouvellement, TypeOK
  <2>3. CASE s # r
    <3>1. renouvellements'[r] = renouvellements[r]
      BY <1>2, <2>3 DEF SaveRenouvellement, TypeOK
    <3>2. renouvellements[r].licence \in Licence
      BY <3>1 DEF Exists, TypeOK, RenewRow
    <3> QED
      BY <3>1, <3>2 DEF Exists, References
  <2> QED
    BY <2>2, <2>3
<1>3. ASSUME NEW s \in Renouvellement, CreateRenouvellement(s)
      PROVE  Created(renouvellements[r].licence)'
  <2>1. PICK l \in Licence, p \in Period :
          /\ Created(l)
          /\ renouvellements' = [renouvellements EXCEPT ![s] =
               [licence |-> l, debut |-> p.debut, fin |-> p.fin,
                status |-> "EN_COURS"]]
    BY <1>3 DEF CreateRenouvellement
  <2>2. [licence |-> l, debut |-> p.debut, fin |-> p.fin,
         status |-> "EN_COURS"] \in RenewRow(Licence)
    BY InputAssumption DEF RenewRow, RenewStatus
  <2> QED
    BY <2>1, <2>2, <1>2 DEF SaveRenouvellement
<1>4. ASSUME NEW q \in Session, CommitRenouvellement(q)
      PROVE  Created(renouvellements[r].licence)'
  <2>1. requests[q] \in RenewTx
    BY <1>4, TransactionOf DEF CommitRenouvellement, TypeOK
  <2>2. Created(requests[q].patched.licence)
    BY <1>4, <2>1 DEF CommitRenouvellement, References, TxReferences
  <2> QED
    BY <1>4, <2>1, <2>2, <1>2 DEF CommitRenouvellement, RenewTx
<1>5. ASSUME NEW q \in Session, CommitValider(q)
      PROVE  Created(renouvellements[r].licence)'
  <2>1. requests[q] \in ValiderWrite
    BY <1>5, TransactionOf DEF CommitValider, TypeOK
  <2>2. Created(requests[q].seen.licence)
    BY <1>5, <2>1 DEF CommitValider, References, TxReferences
  <2>3. /\ WithStatus(requests[q].seen, "VALIDE") \in RenewRow(Licence)
        /\ WithStatus(requests[q].seen, "VALIDE").licence = requests[q].seen.licence
    BY <2>1, RenewStatusRow DEF ValiderWrite, RenewStatus
  <2> QED
    BY <1>5, <2>1, <2>2, <2>3, <1>2 DEF CommitValider, ValiderWrite
<1>6. ASSUME NEW x \in RenewRun, NEW s \in Renouvellement, RenewSave(x, s)
      PROVE  Created(renouvellements[r].licence)'
  <2>1. PICK row \in renewRuns[x].todo :
          renouvellements' = [renouvellements EXCEPT ![s] =
            [licence |-> row.licence, debut |-> row.fin,
             fin |-> row.fin + RenewDuration, status |-> "CREE"]]
    BY <1>6 DEF RenewSave
  <2>2. row \in [licence : Licence, fin : Int] /\ Created(row.licence)
    BY <2>1 DEF TypeOK, References
  <2>3. [licence |-> row.licence, debut |-> row.fin,
         fin |-> row.fin + RenewDuration, status |-> "CREE"] \in RenewRow(Licence)
    BY <2>2, InputAssumption DEF RenewRow, RenewStatus
  <2> QED
    BY <2>1, <2>2, <2>3, <1>2 DEF SaveRenouvellement
<1> QED
  BY <1>1, <1>3, <1>4, <1>5, <1>6, RenouvellementWriters

LEMMA TxReferencesStep ==
  ASSUME TypeOK, References, [Next]_vars, NEW q \in Session
  PROVE  TxReferences(q)'
<1> USE NextGrows DEF Grows
<1>1. CASE requests'[q] = requests[q]
  <2>1. /\ requests[q] \in Transaction
        /\ TxReferences(q)
    BY DEF TypeOK, References
  <2>2. InLicenceTx(q) => requests[q].licence \in Licence
    BY <2>1, TransactionOf DEF InLicenceTx, LicenceTx
  <2>3. requests[q].op \in {"annuler", "updateRenouvellement", "valider",
                           "validerWrite"} => requests[q].seen.licence \in Licence
    BY <2>1, TransactionOf DEF RenewTx, ValiderTx, ValiderWrite, RenewRow
  <2> QED
    BY <1>1, <2>1, <2>2, <2>3 DEF TxReferences, InLicenceTx
<1>2. CASE requests'[q] = Idle
  BY <1>2 DEF TxReferences, InLicenceTx, Idle
<1>3. ASSUME NEW l \in Licence, BeginUpdateLicence(q, l)
      PROVE  TxReferences(q)'
  <2>1. /\ requests'[q].op = "update"
        /\ requests'[q].licence = l
    BY <1>3 DEF BeginUpdateLicence, Open, TypeOK
  <2> QED
    BY <1>3, <2>1 DEF TxReferences, InLicenceTx, BeginUpdateLicence
<1>4. ASSUME NEW l \in Licence, BeginChangeStatus(q, l)
      PROVE  TxReferences(q)'
  <2>1. /\ requests'[q].op = "changeStatus"
        /\ requests'[q].licence = l
    BY <1>4 DEF BeginChangeStatus, Open, TypeOK
  <2> QED
    BY <1>4, <2>1 DEF TxReferences, InLicenceTx, BeginChangeStatus
<1>5. ASSUME NEW r \in Renouvellement, NEW row \in RenewRow(Licence),
             Exists(r), row.licence = renouvellements[r].licence,
             \/ requests'[q] = [op |-> "annuler", renouvellement |-> r,
                                seen |-> renouvellements[r], patched |-> row]
             \/ requests'[q] = [op |-> "updateRenouvellement",
                                renouvellement |-> r,
                                seen |-> renouvellements[r], patched |-> row]
             \/ requests'[q] = [op |-> "valider", renouvellement |-> r,
                                seen |-> renouvellements[r]]
      PROVE  TxReferences(q)'
  <2>1. licences'[row.licence] # None
    BY <1>5 DEF References, RenewRow, Created
  <2> QED
    BY <1>5, <2>1 DEF TxReferences, InLicenceTx, Created
<1>6. ASSUME NEW r \in Renouvellement, BeginAnnuler(q, r)
      PROVE  TxReferences(q)'
  <2>1. renouvellements[r] \in RenewRow(Licence)
    BY <1>6 DEF BeginAnnuler, Exists, TypeOK
  <2>2. /\ WithStatus(renouvellements[r], "ANNULE") \in RenewRow(Licence)
        /\ WithStatus(renouvellements[r], "ANNULE").licence
             = renouvellements[r].licence
    BY <2>1, RenewStatusRow DEF RenewStatus
  <2> QED
    BY <1>6, <2>2, <1>5 DEF BeginAnnuler, Open, TypeOK
<1>7. ASSUME NEW r \in Renouvellement, BeginUpdateRenouvellement(q, r)
      PROVE  TxReferences(q)'
  <2>1. PICK patch \in DatePatch :
          Open(q, [op |-> "updateRenouvellement", renouvellement |-> r,
                   seen |-> renouvellements[r],
                   patched |-> [renouvellements[r] EXCEPT
                     !.debut = Given(patch.debut, renouvellements[r].debut),
                     !.fin = Given(patch.fin, renouvellements[r].fin)]])
    BY <1>7 DEF BeginUpdateRenouvellement
  <2> DEFINE row == [renouvellements[r] EXCEPT
                       !.debut = Given(patch.debut, renouvellements[r].debut),
                       !.fin = Given(patch.fin, renouvellements[r].fin)]
  <2>2. renouvellements[r] \in RenewRow(Licence)
    BY <1>7 DEF BeginUpdateRenouvellement, Exists, TypeOK
  <2>3. row \in RenewRow(Licence) /\ row.licence = renouvellements[r].licence
    BY <2>2, InputAssumption DEF RenewRow, Given
  <2>4. requests'[q] = [op |-> "updateRenouvellement", renouvellement |-> r,
                        seen |-> renouvellements[r], patched |-> row]
    BY <2>1 DEF Open, TypeOK
  <2>5. Exists(r)
    BY <1>7 DEF BeginUpdateRenouvellement
  <2> HIDE DEF row
  <2> QED
    BY <2>3, <2>4, <2>5, <1>5
<1>8. ASSUME NEW r \in Renouvellement, BeginValider(q, r)
      PROVE  TxReferences(q)'
  <2>1. renouvellements[r] \in RenewRow(Licence)
    BY <1>8 DEF BeginValider, Exists, TypeOK
  <2> QED
    BY <1>8, <2>1, <1>5 DEF BeginValider, Open, TypeOK
<1>9. ASSUME ValiderReadLicence(q)
      PROVE  TxReferences(q)'
  <2>1. requests[q] \in ValiderTx
    BY <1>9, TransactionOf DEF ValiderReadLicence, TypeOK
  <2>2. Created(requests[q].seen.licence)'
    BY <1>9, <2>1 DEF ValiderReadLicence, References, TxReferences, ValiderTx,
                      RenewRow
  <2>3. /\ requests'[q].op = "validerWrite"
        /\ requests'[q].seen = requests[q].seen
    BY <1>9 DEF ValiderReadLicence, TypeOK
  <2> QED
    BY <2>2, <2>3 DEF TxReferences, InLicenceTx
<1> QED
  BY <1>1, <1>2, <1>3, <1>4, <1>6, <1>7, <1>8, <1>9, RequestStep DEF Opens

LEMMA RunReferencesStep ==
  ASSUME TypeOK, References, [Next]_vars, NEW x \in RenewRun,
         NEW row \in renewRuns'[x].todo
  PROVE  Created(row.licence)'
<1> USE NextGrows DEF Grows
<1>1. CASE row \in renewRuns[x].todo
  BY <1>1 DEF TypeOK, References
<1>2. ASSUME NEW y \in RenewRun, RenewSelect(y), row \notin renewRuns[x].todo
      PROVE  Created(row.licence)'
  <2>1. y = x
    BY <1>2 DEF RenewSelect, TypeOK
  <2>2. PICK l \in Licence : Eligible(l) /\ row = [licence |-> l, fin |-> licences[l].fin]
    BY <1>2, <2>1 DEF RenewSelect, TypeOK
  <2> QED
    BY <2>2 DEF Eligible
<1>3. ASSUME NEW y \in RenewRun, RenewJob(y)
      PROVE  RenewSelect(y) \/ row \in renewRuns[x].todo
  BY <1>3 DEF RenewJob, RenewSave, RenewAudit, RenewSkip, RenewDies, RenewIdle,
              TypeOK
<1> QED
  <2>1. ASSUME NEW q \in Session, LicenceUseCase(q)
        PROVE  UNCHANGED renewRuns
    BY <2>1 DEF LicenceUseCase, BeginUpdateLicence, BeginChangeStatus,
                CommitLicence, RejectLicence, Open
  <2>2. ASSUME NEW q \in Session, RenouvellementUseCase(q)
        PROVE  UNCHANGED renewRuns
    BY <2>2 DEF RenouvellementUseCase, BeginAnnuler, BeginUpdateRenouvellement,
                BeginValider, ValiderReadLicence, RejectValider, Open,
                CommitRenouvellement, CommitValider
  <2>3. ASSUME NEW y \in ExpireRun, ExpireJob(y)
        PROVE  UNCHANGED renewRuns
    BY <2>3 DEF ExpireJob, ExpireUpdate, ExpireAudit, ExpireDies
  <2> QED
    BY <1>1, <1>2, <1>3, <2>1, <2>2, <2>3
       DEF Next, Tick, CreateLicence, CreateRenouvellement, vars

(* Every foreign key of lic_renouvellements holds, and every open          *)
(* transaction and job row speaks of a licence that exists.                *)
LEMMA NextReferences ==
  ASSUME TypeOK, References, [Next]_vars
  PROVE  References'
BY RowReferencesStep, TxReferencesStep, RunReferencesStep DEF References

-----------------------------------------------------------------------------
(* The tables, the open transactions, the runs of the jobs and the audit   *)
(* log only ever hold values of their types, and no row, transaction or    *)
(* run speaks of a licence that does not exist.                            *)
THEOREM TypeCorrect == Spec => [](TypeOK /\ References)
<1>1. Init => TypeOK /\ References
  BY InitTypeOK, InitReferences
<1>2. TypeOK /\ References /\ [Next]_vars => (TypeOK /\ References)'
  BY NextTypeOK, NextReferences
<1> QED
  BY <1>1, <1>2, PTL DEF Spec

-----------------------------------------------------------------------------
LEMMA SnapshotKept ==
  ASSUME TypeOK, TypeOK', Grows, NEW l \in Licence, Created(l),
         NEW row \in LicenceRow, SnapshotOf(row, l)
  PROVE  SnapshotOf(row, l)'
<1>1. licences[l] \in LicenceRow /\ licences'[l] \in LicenceRow
  BY DEF Created, TypeOK, Grows
<1>2. /\ licences[l].version \in Nat /\ row.version \in Nat
      /\ licences'[l].version \in Nat
      /\ licences[l].version <= licences'[l].version
      /\ licences'[l].version = licences[l].version => licences'[l] = licences[l]
  BY <1>1 DEF Grows, LicenceRow
<1>3. CASE licences'[l].version = licences[l].version
  BY <1>2, <1>3 DEF SnapshotOf
<1>4. CASE licences'[l].version # licences[l].version
  BY <1>2, <1>4 DEF SnapshotOf
<1> QED
  BY <1>3, <1>4

LEMMA InitSnapshots == Init => Snapshots
BY DEF Init, Snapshots, TxSnapshot, InLicenceTx, Idle

LEMMA NextSnapshots ==
  ASSUME TypeOK, References, Snapshots, [Next]_vars
  PROVE  Snapshots'
<1> SUFFICES ASSUME NEW q \in Session
             PROVE  TxSnapshot(q)'
  BY DEF Snapshots
<1>1. CASE requests'[q] = requests[q]
  <2>1. requests[q] \in Transaction /\ TxReferences(q) /\ TxSnapshot(q)
    BY DEF TypeOK, References, Snapshots
  <2>2. CASE InLicenceTx(q)
    <3>1. requests[q] \in LicenceTx
      BY <2>1, <2>2, TransactionOf DEF InLicenceTx
    <3>2. SnapshotOf(requests[q].seen, requests[q].licence)
      BY <2>1, <2>2 DEF TxSnapshot
    <3> QED
      BY <1>1, <2>1, <2>2, <3>1, <3>2, SnapshotKept, NextGrows, NextTypeOK
         DEF TxSnapshot, TxReferences, InLicenceTx, LicenceTx, SnapshotOf
  <2>3. CASE requests[q].op = "validerWrite"
    <3>1. requests[q] \in ValiderWrite
      BY <2>1, <2>3, TransactionOf
    <3>2. SnapshotOf(requests[q].licence, requests[q].seen.licence)
      BY <2>1, <2>3 DEF TxSnapshot
    <3>3. Created(requests[q].seen.licence)
      BY <2>1, <2>3 DEF TxReferences
    <3> QED
      BY <1>1, <2>1, <2>3, <3>1, <3>2, <3>3, SnapshotKept, NextGrows, NextTypeOK
         DEF TxSnapshot, InLicenceTx, ValiderWrite, RenewRow, SnapshotOf
  <2> QED
    BY <1>1, <2>2, <2>3 DEF TxSnapshot, InLicenceTx
<1>2. CASE requests'[q] = Idle
  BY <1>2 DEF TxSnapshot, InLicenceTx, Idle
<1>3. ASSUME NEW l \in Licence, BeginUpdateLicence(q, l)
      PROVE  TxSnapshot(q)'
  <2>1. licences[l] \in LicenceRow
    BY <1>3 DEF BeginUpdateLicence, Created, TypeOK
  <2>2. /\ UNCHANGED licences
        /\ requests'[q].op = "update" /\ requests'[q].licence = l
        /\ requests'[q].seen = licences[l]
        /\ requests'[q].expected \in PageVersion(l)
    BY <1>3 DEF BeginUpdateLicence, Open, TypeOK
  <2> QED
    BY <2>1, <2>2 DEF TxSnapshot, InLicenceTx, PageVersion, SnapshotOf, LicenceRow
<1>4. ASSUME NEW l \in Licence, BeginChangeStatus(q, l)
      PROVE  TxSnapshot(q)'
  <2>1. licences[l] \in LicenceRow
    BY <1>4 DEF BeginChangeStatus, Created, TypeOK
  <2>2. /\ UNCHANGED licences
        /\ requests'[q].op = "changeStatus" /\ requests'[q].licence = l
        /\ requests'[q].seen = licences[l]
        /\ requests'[q].expected \in PageVersion(l)
    BY <1>4 DEF BeginChangeStatus, Open, TypeOK
  <2> QED
    BY <2>1, <2>2 DEF TxSnapshot, InLicenceTx, PageVersion, SnapshotOf, LicenceRow
<1>5. ASSUME NEW r \in Renouvellement,
             BeginAnnuler(q, r) \/ BeginUpdateRenouvellement(q, r) \/ BeginValider(q, r)
      PROVE  TxSnapshot(q)'
  <2>1. CASE BeginAnnuler(q, r)
    BY <2>1 DEF BeginAnnuler, Open, TypeOK, TxSnapshot, InLicenceTx
  <2>2. CASE BeginUpdateRenouvellement(q, r)
    BY <2>2 DEF BeginUpdateRenouvellement, Open, TypeOK, TxSnapshot, InLicenceTx
  <2>3. CASE BeginValider(q, r)
    BY <2>3 DEF BeginValider, Open, TypeOK, TxSnapshot, InLicenceTx
  <2> QED
    BY <1>5, <2>1, <2>2, <2>3
<1>6. ASSUME ValiderReadLicence(q)
      PROVE  TxSnapshot(q)'
  <2>1. requests[q] \in ValiderTx
    BY <1>6, TransactionOf DEF ValiderReadLicence, TypeOK
  <2>2. licences[requests[q].seen.licence] \in LicenceRow
    BY <1>6, <2>1 DEF ValiderReadLicence, References, TxReferences, Created,
                      TypeOK, ValiderTx, RenewRow
  <2>3. /\ UNCHANGED licences
        /\ requests'[q].op = "validerWrite"
        /\ requests'[q].seen = requests[q].seen
        /\ requests'[q].licence = licences[requests[q].seen.licence]
    BY <1>6 DEF ValiderReadLicence, TypeOK
  <2> QED
    BY <2>2, <2>3 DEF TxSnapshot, InLicenceTx, SnapshotOf, LicenceRow
<1> QED
  BY <1>1, <1>2, <1>3, <1>4, <1>5, <1>6, RequestStep DEF Opens

LEMMA SnapshotsRefuseStaleWrites ==
  ASSUME TypeOK, References, Snapshots
  PROVE  StaleWriteRefused
<1> SUFFICES ASSUME NEW q \in Session
             PROVE  /\ InLicenceTx(q) =>
                         \/ ~VersionMatches(requests[q].licence, requests[q].expected)
                         \/ requests[q].seen = licences[requests[q].licence]
                    /\ requests[q].op = "validerWrite" =>
                         \/ ~VersionMatches(requests[q].seen.licence,
                                           requests[q].licence.version)
                         \/ requests[q].licence = licences[requests[q].seen.licence]
  BY DEF StaleWriteRefused
<1>1. requests[q] \in Transaction /\ TxReferences(q) /\ TxSnapshot(q)
  BY DEF TypeOK, References, Snapshots
<1>2. ASSUME InLicenceTx(q),
             VersionMatches(requests[q].licence, requests[q].expected)
      PROVE  requests[q].seen = licences[requests[q].licence]
  <2>1. /\ requests[q] \in LicenceTx
        /\ licences[requests[q].licence] \in LicenceRow
    BY <1>1, <1>2, TransactionOf DEF InLicenceTx, TxReferences, Created,
                                     LicenceTx, TypeOK
  <2> QED
    BY <1>1, <1>2, <2>1 DEF TxSnapshot, SnapshotOf, VersionMatches, LicenceTx,
                            LicenceRow
<1>3. ASSUME requests[q].op = "validerWrite",
             VersionMatches(requests[q].seen.licence, requests[q].licence.version)
      PROVE  requests[q].licence = licences[requests[q].seen.licence]
  BY <1>1, <1>3 DEF TxSnapshot, SnapshotOf, VersionMatches
<1> QED
  BY <1>2, <1>3

(* Rule L4: whatever users and jobs commit in between, a transaction whose *)
(* version check passes holds the licence as it is.                        *)
THEOREM VersionLock == Spec => []StaleWriteRefused
<1>1. Init => Snapshots
  BY InitSnapshots
<1>2. TypeOK /\ References /\ Snapshots /\ [Next]_vars => Snapshots'
  BY NextSnapshots
<1>3. TypeOK /\ References /\ Snapshots => StaleWriteRefused
  BY SnapshotsRefuseStaleWrites
<1> QED
  BY <1>1, <1>2, <1>3, TypeCorrect, PTL DEF Spec

-----------------------------------------------------------------------------
(* The licence rows the operations write, in the words of AtomicLicence.   *)
LEMMA ProfileDates ==
  ASSUME NEW row \in LicenceRow, NEW patch \in ProfilePatch,
         ValidDates(row.debut, row.fin), ProfileAccepted(row, patch)
  PROVE  ValidDates(WithProfile(row, patch).debut, WithProfile(row, patch).fin)
BY DEF ProfileAccepted, WithProfile, Given, LicenceRow

(* The instance carries its own copy of the domain's operators.            *)
LEMMA SameDomain ==
  /\ Abstract!LicenceRow = LicenceRow
  /\ \A debut, fin : Abstract!ValidDates(debut, fin) <=> ValidDates(debut, fin)
  /\ \A from, to : Abstract!LicenceCanTransition(from, to)
                     <=> LicenceCanTransition(from, to)
  /\ \A row : Abstract!Expired(row) = Expired(row)
BY DEF Abstract!LicenceRow, LicenceRow, Abstract!LicenceStatus, LicenceStatus,
       Abstract!ValidDates, ValidDates, Abstract!Expired, Expired,
       Abstract!LicenceCanTransition, LicenceCanTransition

LEMMA SavedRow ==
  ASSUME TypeOK, NEW l \in Licence, Created(l), NEW row \in LicenceRow,
         SaveLicence(l, row)
  PROVE  /\ licences' = [licences EXCEPT ![l] = licences'[l]]
         /\ licences'[l] \in LicenceRow
         /\ licences'[l] = [row EXCEPT !.version = licences[l].version + 1]
         /\ licences'[l].status = row.status
         /\ licences'[l].debut = row.debut
         /\ licences'[l].fin = row.fin
         /\ licences'[l].auto = row.auto
         /\ licences'[l].version = licences[l].version + 1
<1>1. licences[l].version + 1 \in Nat
  BY DEF Created, TypeOK, LicenceRow
<1> DEFINE saved == [row EXCEPT !.version = licences[l].version + 1]
<1>2. /\ saved \in LicenceRow
      /\ saved.status = row.status
      /\ saved.debut = row.debut
      /\ saved.fin = row.fin
      /\ saved.auto = row.auto
      /\ saved.version = licences[l].version + 1
  BY <1>1 DEF LicenceRow
<1>3. licences' = [licences EXCEPT ![l] = saved]
  BY DEF SaveLicence
<1>4. licences'[l] = saved
  BY <1>3 DEF TypeOK
<1> HIDE DEF saved
<1> QED
  BY <1>2, <1>3, <1>4 DEF saved

LEMMA CommitLicenceStep ==
  ASSUME TypeOK, References, Snapshots, Patches, NEW q \in Session,
         CommitLicence(q)
  PROVE  \E l \in Licence : Abstract!Update(l) \/ Abstract!ChangeStatus(l)
<1> DEFINE tx == requests[q]
           l  == requests[q].licence
<1>1. tx \in LicenceTx
  BY TransactionOf DEF CommitLicence, TypeOK
<1>2. /\ l \in Licence /\ tx.patched \in LicenceRow /\ tx.seen \in LicenceRow
      /\ Created(l)
  BY <1>1 DEF LicenceTx, References, TxReferences, InLicenceTx, CommitLicence
<1>3. licences[l] \in LicenceRow
  BY <1>2 DEF Created, TypeOK
<1>4. tx.seen = licences[l]
  BY SnapshotsRefuseStaleWrites DEF StaleWriteRefused, InLicenceTx, CommitLicence
<1>5. SaveLicence(l, tx.patched) /\ UNCHANGED today
  BY DEF CommitLicence
<1>6. TxPatch(tx)
  BY DEF Patches
<1>7. CASE tx.op = "update"
  <2>1. /\ ValidDates(tx.patched.debut, tx.patched.fin)
        /\ tx.patched.status = licences[l].status
    BY <1>4, <1>6, <1>7 DEF TxPatch
  <2>2. Abstract!Touches(l)
    BY <1>2, <1>5, <2>1, SavedRow, SameDomain DEF Abstract!Touches
  <2> QED
    BY <1>2, <1>5, <2>1, <2>2, SavedRow, SameDomain
       DEF Abstract!Update, Abstract!Writes, Created
<1>8. CASE tx.op = "changeStatus"
  <2>1. /\ LicenceCanTransition(licences[l].status, tx.patched.status)
        /\ tx.patched = [licences[l] EXCEPT !.status = tx.patched.status]
    BY <1>4, <1>6, <1>8 DEF TxPatch, WithStatus
  <2>2. ValidDates(licences[l].debut, licences[l].fin)
    BY <1>2 DEF Patches
  <2>3. tx.patched.debut = licences[l].debut /\ tx.patched.fin = licences[l].fin
    BY <1>3, <2>1 DEF LicenceRow
  <2>4. Abstract!Touches(l)
    BY <1>2, <1>5, <2>2, <2>3, SavedRow, SameDomain DEF Abstract!Touches
  <2>5. licences'[l].status = tx.patched.status
    BY <1>2, <1>5, SavedRow, SameDomain
  <2>6. licences'[l] = [licences[l] EXCEPT !.status = licences'[l].status,
                                           !.version = licences[l].version + 1]
    <3>1. licences'[l] = [tx.patched EXCEPT !.version = licences[l].version + 1]
      BY <1>2, <1>5, SavedRow, SameDomain
    <3> DEFINE next == licences[l].version + 1
               status == tx.patched.status
    <3>2. licences'[l] = [tx.patched EXCEPT !.version = next]
      BY <3>1
    <3>3. tx.patched = [licences[l] EXCEPT !.status = status]
      BY <2>1
    <3>4. licences'[l].status = status
      BY <2>5
    <3> HIDE DEF next, status, tx, l
    <3>5. licences'[l] = [licences[l] EXCEPT !.status = licences'[l].status,
                                             !.version = next]
      BY <1>3, <3>2, <3>3, <3>4 DEF LicenceRow
    <3> QED
      BY <3>5 DEF next
  <2> QED
    BY <1>2, <1>5, <2>1, <2>4, <2>5, <2>6, SavedRow, SameDomain
       DEF Abstract!ChangeStatus, Abstract!Writes, Created
<1> QED
  BY <1>7, <1>8 DEF CommitLicence

LEMMA CommitValiderStep ==
  ASSUME TypeOK, References, Snapshots, Patches, NEW q \in Session,
         CommitValider(q)
  PROVE  \E l \in Licence : Abstract!Renew(l)
<1> DEFINE tx      == requests[q]
           l       == requests[q].seen.licence
           patched == Renewed(tx.licence, tx.seen.debut, tx.seen.fin)
<1>1. tx \in ValiderWrite
  BY TransactionOf DEF CommitValider, TypeOK
<1>2. /\ l \in Licence /\ tx.licence \in LicenceRow
      /\ tx.seen.debut \in Int /\ tx.seen.fin \in Int
      /\ Created(l)
  BY <1>1 DEF ValiderWrite, RenewRow, References, TxReferences, CommitValider
<1>3. tx.licence = licences[l]
  BY SnapshotsRefuseStaleWrites DEF StaleWriteRefused, CommitValider
<1>4. ValidDates(tx.seen.debut, tx.seen.fin)
  BY DEF Patches, TxPatch, CommitValider
<1>5. /\ patched \in LicenceRow
      /\ patched.debut = tx.seen.debut /\ patched.fin = tx.seen.fin
  BY <1>2, RenewedRow
<1>6. /\ patched.auto = licences[l].auto
      /\ patched.status = IF licences[l].status = "EXPIRE" THEN "ACTIF"
                          ELSE licences[l].status
  BY <1>2, <1>3 DEF Renewed, LicenceRow
<1>7. SaveLicence(l, patched) /\ UNCHANGED today
  BY DEF CommitValider
<1> HIDE DEF patched
<1>8. Abstract!Touches(l)
  BY <1>2, <1>4, <1>5, <1>7, SavedRow, SameDomain DEF Abstract!Touches
<1> QED
  BY <1>2, <1>5, <1>6, <1>7, <1>8, SavedRow, SameDomain
     DEF Abstract!Renew, Abstract!Writes, Created

LEMMA CreateLicenceStep ==
  ASSUME TypeOK, NEW l \in Licence, CreateLicence(l)
  PROVE  Abstract!Create(l)
<1>1. PICK p \in Period, auto \in BOOLEAN :
        /\ ValidDates(p.debut, p.fin)
        /\ licences' = [licences EXCEPT ![l] = NewLicence(p.debut, p.fin, auto)]
  BY DEF CreateLicence
<1>2. licences'[l] = NewLicence(p.debut, p.fin, auto)
  BY <1>1 DEF TypeOK
<1>3. p.debut \in Int /\ p.fin \in Int
  BY InputAssumption
<1>4. /\ licences'[l] \in LicenceRow
      /\ licences'[l].status = "ACTIF" /\ licences'[l].version = 0
      /\ licences'[l].debut = p.debut /\ licences'[l].fin = p.fin
  BY <1>2, <1>3 DEF NewLicence, LicenceRow, LicenceStatus
<1>5. licences' = [licences EXCEPT ![l] = licences'[l]]
  BY <1>1, <1>2
<1>6. licences[l] = None /\ UNCHANGED today
  BY DEF CreateLicence, Created
<1> QED
  BY <1>1, <1>4, <1>5, <1>6, SameDomain DEF Abstract!Create, Abstract!Touches

LEMMA ExpireUpdateStep ==
  ASSUME TypeOK, NEW x \in ExpireRun, ExpireUpdate(x)
  PROVE  Abstract!Expire
BY SameDomain DEF ExpireUpdate, Overdue, Created, Abstract!Expire

(* Every step of the detailed specification is one step of the abstract    *)
(* one on the licences, or leaves them alone.                              *)
LEMMA AbstractStep ==
  ASSUME TypeOK, References, Snapshots, Patches, [Next]_vars
  PROVE  [Abstract!Next]_(Abstract!avars)
<1>1. CASE Tick
  BY <1>1 DEF Tick, Abstract!Next, Abstract!Tick
<1>2. CASE UNCHANGED <<today, licences>>
  BY <1>2 DEF Abstract!avars
<1> QED
  BY <1>1, <1>2, LicenceWriters, CommitLicenceStep, CommitValiderStep,
     CreateLicenceStep, ExpireUpdateStep DEF Abstract!Next

-----------------------------------------------------------------------------
(* Every period stays ordered.                                             *)
LEMMA LicenceDatesStep ==
  ASSUME TypeOK, References, Snapshots, Patches, [Next]_vars,
         NEW l \in Licence, Created(l)'
  PROVE  ValidDates(licences[l].debut, licences[l].fin)'
<1>1. CASE UNCHANGED Abstract!avars
  BY <1>1 DEF Abstract!avars, Patches, Created
<1>2. ASSUME NEW k \in Licence, Abstract!Touches(k)
      PROVE  ValidDates(licences[l].debut, licences[l].fin)'
  <2>1. CASE k = l
    BY <1>2, <2>1, SameDomain DEF Abstract!Touches
  <2>2. CASE k # l
    <3>1. licences'[l] = licences[l]
      BY <1>2, <2>2 DEF Abstract!Touches, TypeOK
    <3> QED
      BY <3>1 DEF Patches, Created
  <2> QED
    BY <2>1, <2>2
<1>3. CASE Abstract!Expire
  <2>1. CASE licences'[l] = licences[l]
    BY <2>1 DEF Patches, Created
  <2>2. CASE licences[l] # None /\ licences'[l] = Expired(licences[l])
    <3>1. /\ licences'[l].debut = licences[l].debut
          /\ licences'[l].fin = licences[l].fin
      BY <2>2 DEF Expired, TypeOK, LicenceRow
    <3> QED
      BY <2>2, <3>1 DEF Patches, Created
  <2> QED
    BY <1>3, <2>1, <2>2, SameDomain DEF Abstract!Expire
<1>4. CASE Abstract!Tick
  BY <1>4 DEF Abstract!Tick, Patches, Created
<1> QED
  BY <1>1, <1>2, <1>3, <1>4, AbstractStep
     DEF Abstract!Next, Abstract!Create, Abstract!Update, Abstract!ChangeStatus,
         Abstract!Renew, Abstract!Writes

LEMMA RenewDatesStep ==
  ASSUME TypeOK, References, Patches, [Next]_vars,
         NEW r \in Renouvellement, Exists(r)'
  PROVE  ValidDates(renouvellements[r].debut, renouvellements[r].fin)'
<1>1. CASE UNCHANGED renouvellements
  BY <1>1 DEF Patches, Exists
<1>2. ASSUME NEW s \in Renouvellement, NEW row, ValidDates(row.debut, row.fin),
             SaveRenouvellement(s, row)
      PROVE  ValidDates(renouvellements[r].debut, renouvellements[r].fin)'
  <2>1. CASE s = r
    BY <1>2, <2>1 DEF SaveRenouvellement, TypeOK
  <2>2. CASE s # r
    <3>1. renouvellements'[r] = renouvellements[r]
      BY <1>2, <2>2 DEF SaveRenouvellement, TypeOK
    <3> QED
      BY <3>1 DEF Patches, Exists
  <2> QED
    BY <2>1, <2>2
<1>3. ASSUME NEW s \in Renouvellement, CreateRenouvellement(s)
      PROVE  ValidDates(renouvellements[r].debut, renouvellements[r].fin)'
  <2>1. PICK l \in Licence, p \in Period :
          /\ ValidDates(p.debut, p.fin)
          /\ renouvellements' = [renouvellements EXCEPT ![s] =
               [licence |-> l, debut |-> p.debut, fin |-> p.fin,
                status |-> "EN_COURS"]]
    BY <1>3 DEF CreateRenouvellement
  <2> QED
    BY <2>1, <1>2 DEF SaveRenouvellement
<1>4. ASSUME NEW q \in Session, CommitRenouvellement(q)
      PROVE  ValidDates(renouvellements[r].debut, renouvellements[r].fin)'
  <2>1. requests[q] \in RenewTx /\ TxPatch(requests[q])
    BY <1>4, TransactionOf DEF CommitRenouvellement, TypeOK, Patches
  <2> QED
    BY <1>4, <2>1, <1>2 DEF CommitRenouvellement, TxPatch, RenewTx
<1>5. ASSUME NEW q \in Session, CommitValider(q)
      PROVE  ValidDates(renouvellements[r].debut, renouvellements[r].fin)'
  <2>1. requests[q] \in ValiderWrite /\ TxPatch(requests[q])
    BY <1>5, TransactionOf DEF CommitValider, TypeOK, Patches
  <2>2. LET row == WithStatus(requests[q].seen, "VALIDE")
        IN  row.debut = requests[q].seen.debut /\ row.fin = requests[q].seen.fin
    BY <2>1 DEF WithStatus, ValiderWrite, RenewRow
  <2> QED
    BY <1>5, <2>1, <2>2, <1>2 DEF CommitValider, TxPatch, ValiderWrite
<1>6. ASSUME NEW x \in RenewRun, NEW s \in Renouvellement, RenewSave(x, s)
      PROVE  ValidDates(renouvellements[r].debut, renouvellements[r].fin)'
  <2>1. PICK row \in renewRuns[x].todo :
          renouvellements' = [renouvellements EXCEPT ![s] =
            [licence |-> row.licence, debut |-> row.fin,
             fin |-> row.fin + RenewDuration, status |-> "CREE"]]
    BY <1>6 DEF RenewSave
  <2>2. row.fin \in Int /\ row.fin < row.fin + RenewDuration
    BY <2>1, InputAssumption DEF TypeOK
  <2> QED
    BY <2>1, <2>2, <1>2 DEF SaveRenouvellement, ValidDates
<1> QED
  BY <1>1, <1>3, <1>4, <1>5, <1>6, RenouvellementWriters

LEMMA TxPatchStep ==
  ASSUME TypeOK, References, Patches, [Next]_vars, NEW q \in Session
  PROVE  TxPatch(requests'[q])
<1>1. CASE requests'[q] = requests[q]
  BY <1>1 DEF Patches
<1>2. CASE requests'[q] = Idle
  BY <1>2 DEF TxPatch, Idle
<1>3. ASSUME NEW l \in Licence, BeginUpdateLicence(q, l)
      PROVE  TxPatch(requests'[q])
  <2>1. PICK expected \in PageVersion(l), patch \in ProfileInput :
          /\ ProfileAccepted(licences[l], patch)
          /\ Open(q, [op |-> "update", licence |-> l, expected |-> expected,
                      seen |-> licences[l],
                      patched |-> WithProfile(licences[l], patch)])
    BY <1>3 DEF BeginUpdateLicence
  <2>2. /\ licences[l] \in LicenceRow
        /\ ValidDates(licences[l].debut, licences[l].fin)
    BY <1>3 DEF BeginUpdateLicence, Created, TypeOK, Patches
  <2>3. /\ WithProfile(licences[l], patch).status = licences[l].status
        /\ ValidDates(WithProfile(licences[l], patch).debut,
                      WithProfile(licences[l], patch).fin)
    BY <2>1, <2>2, ProfileRow, ProfileDates, InputAssumption
  <2> DEFINE patched == WithProfile(licences[l], patch)
  <2>4. requests'[q] = [op |-> "update", licence |-> l, expected |-> expected,
                        seen |-> licences[l], patched |-> patched]
    BY <2>1 DEF Open, TypeOK
  <2> HIDE DEF patched
  <2> QED
    BY <2>3, <2>4 DEF TxPatch, patched
<1>4. ASSUME NEW l \in Licence, BeginChangeStatus(q, l)
      PROVE  TxPatch(requests'[q])
  <2>1. PICK expected \in PageVersion(l), status \in LicenceStatus :
          /\ LicenceCanTransition(licences[l].status, status)
          /\ Open(q, [op |-> "changeStatus", licence |-> l,
                      expected |-> expected, seen |-> licences[l],
                      patched |-> WithStatus(licences[l], status)])
    BY <1>4 DEF BeginChangeStatus
  <2>2. WithStatus(licences[l], status).status = status
    BY <1>4 DEF BeginChangeStatus, Created, TypeOK, WithStatus, LicenceRow
  <2> DEFINE patched == WithStatus(licences[l], status)
  <2>3. requests'[q] = [op |-> "changeStatus", licence |-> l,
                        expected |-> expected, seen |-> licences[l],
                        patched |-> patched]
    BY <2>1 DEF Open, TypeOK
  <2>4. patched.status = status /\ patched = WithStatus(licences[l], status)
    BY <2>2
  <2> HIDE DEF patched
  <2> QED
    BY <2>1, <2>3, <2>4 DEF TxPatch
<1>5. ASSUME NEW r \in Renouvellement, BeginAnnuler(q, r)
      PROVE  TxPatch(requests'[q])
  <2>1. LET row == WithStatus(renouvellements[r], "ANNULE")
        IN  row.debut = renouvellements[r].debut /\ row.fin = renouvellements[r].fin
    BY <1>5 DEF BeginAnnuler, Exists, TypeOK, WithStatus, RenewRow
  <2>2. ValidDates(renouvellements[r].debut, renouvellements[r].fin)
    BY <1>5 DEF BeginAnnuler, Patches
  <2>3. /\ requests'[q].op = "annuler"
        /\ requests'[q].patched = WithStatus(renouvellements[r], "ANNULE")
    BY <1>5 DEF BeginAnnuler, Open, TypeOK
  <2> QED
    BY <2>1, <2>2, <2>3 DEF TxPatch
<1>6. ASSUME NEW r \in Renouvellement, BeginUpdateRenouvellement(q, r)
      PROVE  TxPatch(requests'[q])
  <2>1. PICK patch \in DatePatch :
          LET debut == Given(patch.debut, renouvellements[r].debut)
              fin   == Given(patch.fin, renouvellements[r].fin)
          IN  /\ patch.debut # Keep \/ patch.fin # Keep => ValidDates(debut, fin)
              /\ Open(q, [op |-> "updateRenouvellement", renouvellement |-> r,
                          seen |-> renouvellements[r],
                          patched |-> [renouvellements[r] EXCEPT
                                         !.debut = debut, !.fin = fin]])
    BY <1>6 DEF BeginUpdateRenouvellement
  <2> DEFINE debut == Given(patch.debut, renouvellements[r].debut)
             fin == Given(patch.fin, renouvellements[r].fin)
             row == [renouvellements[r] EXCEPT !.debut = debut, !.fin = fin]
  <2>2. /\ renouvellements[r] \in RenewRow(Licence)
        /\ ValidDates(renouvellements[r].debut, renouvellements[r].fin)
    BY <1>6 DEF BeginUpdateRenouvellement, Exists, TypeOK, Patches
  <2>3. ValidDates(debut, fin)
    BY <2>1, <2>2 DEF Given
  <2>4. /\ requests'[q].op = "updateRenouvellement"
        /\ requests'[q].patched = row
    BY <2>1 DEF Open, TypeOK
  <2> HIDE DEF debut, fin
  <2>5. row.debut = debut /\ row.fin = fin
    BY <2>2 DEF RenewRow
  <2> QED
    BY <2>3, <2>4, <2>5 DEF TxPatch
<1>7. ASSUME NEW r \in Renouvellement, BeginValider(q, r)
      PROVE  TxPatch(requests'[q])
  <2>1. ValidDates(renouvellements[r].debut, renouvellements[r].fin)
    BY <1>7 DEF BeginValider, Patches
  <2>2. requests'[q].op = "valider" /\ requests'[q].seen = renouvellements[r]
    BY <1>7 DEF BeginValider, Open, TypeOK
  <2> QED
    BY <2>1, <2>2 DEF TxPatch
<1>8. ASSUME ValiderReadLicence(q)
      PROVE  TxPatch(requests'[q])
  <2>1. /\ requests[q].op = "valider"
        /\ requests'[q].op = "validerWrite"
        /\ requests'[q].seen = requests[q].seen
    BY <1>8 DEF ValiderReadLicence, TypeOK
  <2> QED
    BY <2>1 DEF TxPatch, Patches
<1> QED
  BY <1>1, <1>2, <1>3, <1>4, <1>5, <1>6, <1>7, <1>8, RequestStep DEF Opens

LEMMA InitPatches == Init => Patches
BY DEF Init, Patches, Created, Exists, TxPatch, Idle

LEMMA NextPatches ==
  ASSUME TypeOK, References, Snapshots, Patches, [Next]_vars
  PROVE  Patches'
BY LicenceDatesStep, RenewDatesStep, TxPatchStep DEF Patches

-----------------------------------------------------------------------------
(* The whole inductive invariant.                                          *)
Inv == TypeOK /\ References /\ Snapshots /\ Patches

THEOREM InvHolds == Spec => []Inv
<1>1. Init => Inv
  BY InitTypeOK, InitReferences, InitSnapshots, InitPatches DEF Inv
<1>2. Inv /\ [Next]_vars => Inv'
  BY NextTypeOK, NextReferences, NextSnapshots, NextPatches DEF Inv
<1> QED
  BY <1>1, <1>2, PTL DEF Spec

(* Whatever requests, renewals and jobs interleave, the licences change as *)
(* if each operation acted at one instant on the licence of that instant.  *)
THEOREM LicencesAtomic == Spec => LicencesAreAtomic
<1>1. Init => Abstract!Init
  BY DEF Init, Abstract!Init
<1>2. Inv /\ [Next]_vars => [Abstract!Next]_(Abstract!avars)
  BY AbstractStep DEF Inv
<1> QED
  BY <1>1, <1>2, InvHolds, PTL DEF Spec, LicencesAreAtomic, Abstract!Spec

-----------------------------------------------------------------------------
(* The writers of lic_licences other than a renewal leave EXPIRE alone.    *)
LEMMA ExpireStays ==
  ASSUME TypeOK, NEW l \in Licence, Created(l), licences[l].status = "EXPIRE",
         \/ UNCHANGED licences
         \/ Abstract!Tick
         \/ Abstract!Expire
         \/ \E k \in Licence :
              Abstract!Create(k) \/ Abstract!Update(k) \/ Abstract!ChangeStatus(k)
  PROVE  licences'[l].status = "EXPIRE"
<1>1. CASE UNCHANGED licences \/ Abstract!Tick \/ Abstract!Expire
  BY <1>1 DEF Abstract!Tick, Abstract!Expire, TypeOK
<1>2. ASSUME NEW k \in Licence,
             Abstract!Create(k) \/ Abstract!Update(k) \/ Abstract!ChangeStatus(k)
      PROVE  licences'[l].status = "EXPIRE"
  <2>1. CASE k = l
    BY <1>2, <2>1, SameDomain
       DEF Abstract!Create, Abstract!Update, Abstract!ChangeStatus, Created,
           LicenceCanTransition
  <2>2. CASE k # l
    BY <1>2, <2>2
       DEF Abstract!Create, Abstract!Update, Abstract!ChangeStatus,
           Abstract!Writes, Abstract!Touches, TypeOK
  <2> QED
    BY <2>1, <2>2
<1> QED
  BY <1>1, <1>2

LEMMA ValiderRenews ==
  ASSUME TypeOK, References, Snapshots, NEW q \in Session, CommitValider(q),
         NEW l \in Licence, Created(l), licences[l].status = "EXPIRE"
  PROVE  \/ licences'[l].status = "EXPIRE"
         \/ /\ licences'[l].status = "ACTIF"
            /\ \E r \in Renouvellement :
                 /\ renouvellements'[r] =
                      [licence |-> l, debut |-> licences'[l].debut,
                       fin |-> licences'[l].fin, status |-> "VALIDE"]
                 /\ RenewChange("RENOUVELLEMENT_VALIDATED", r) \in audit'
<1> DEFINE tx      == requests[q]
           patched == Renewed(tx.licence, tx.seen.debut, tx.seen.fin)
           r       == tx.renouvellement
<1>1. tx \in ValiderWrite
  BY TransactionOf DEF CommitValider, TypeOK
<1>2. /\ tx.licence \in LicenceRow /\ tx.seen \in RenewRow(Licence)
      /\ r \in Renouvellement
      /\ tx.seen.debut \in Int /\ tx.seen.fin \in Int
      /\ SaveLicence(tx.seen.licence, patched)
  BY <1>1 DEF ValiderWrite, RenewRow, CommitValider
<1>3. CASE tx.seen.licence # l
  BY <1>2, <1>3 DEF SaveLicence, TypeOK
<1>4. CASE tx.seen.licence = l
  <2>1. tx.licence = licences[l]
    BY <1>4, SnapshotsRefuseStaleWrites DEF StaleWriteRefused, CommitValider
  <2>2. /\ patched \in LicenceRow
        /\ patched.debut = tx.seen.debut /\ patched.fin = tx.seen.fin
    BY <1>2, RenewedRow
  <2>3. patched.status = "ACTIF"
    BY <1>2, <2>1 DEF Renewed, LicenceRow
  <2> HIDE DEF patched
  <2>4. /\ licences'[l].status = "ACTIF"
        /\ licences'[l].debut = tx.seen.debut
        /\ licences'[l].fin = tx.seen.fin
    BY <1>2, <1>4, <2>2, <2>3, SavedRow
  <2>5. renouvellements'[r] = WithStatus(tx.seen, "VALIDE")
    BY <1>2 DEF CommitValider, SaveRenouvellement, TypeOK
  <2>6. WithStatus(tx.seen, "VALIDE") =
          [licence |-> l, debut |-> tx.seen.debut, fin |-> tx.seen.fin,
           status |-> "VALIDE"]
    BY <1>2, <1>4 DEF WithStatus, RenewRow
  <2>7. RenewChange("RENOUVELLEMENT_VALIDATED", r) \in audit'
    BY DEF CommitValider, Log
  <2> QED
    BY <1>2, <2>4, <2>5, <2>6, <2>7
<1> QED
  BY <1>3, <1>4

(* An expired licence comes back only by the validation of one of its      *)
(* renouvellements, with that renouvellement's period.                     *)
THEOREM ExpiredStaysExpired == Spec => ExpireLeftOnlyByRenewal
<1> DEFINE Left(l) ==
      Created(l) /\ licences[l].status = "EXPIRE" =>
        \/ licences'[l].status = "EXPIRE"
        \/ /\ licences'[l].status = "ACTIF"
           /\ \E r \in Renouvellement :
                /\ renouvellements'[r] =
                     [licence |-> l, debut |-> licences'[l].debut,
                      fin |-> licences'[l].fin, status |-> "VALIDE"]
                /\ RenewChange("RENOUVELLEMENT_VALIDATED", r) \in audit'
<1>1. ASSUME Inv, [Next]_vars, NEW l \in Licence
      PROVE  Left(l)
  <2> USE <1>1 DEF Inv
  <2> SUFFICES ASSUME Created(l), licences[l].status = "EXPIRE"
               PROVE  Left(l)
    OBVIOUS
  <2>1. ASSUME NEW q \in Session, CommitValider(q)
        PROVE  Left(l)
    BY <2>1, ValiderRenews
  <2>2. CASE ~\E q \in Session : CommitValider(q)
    <3>1. \/ UNCHANGED licences
          \/ \E k \in Licence : CreateLicence(k)
          \/ \E q \in Session : CommitLicence(q)
          \/ \E x \in ExpireRun : ExpireUpdate(x)
      BY <2>2, LicenceWriters DEF Tick
    <3> QED
      BY <3>1, ExpireStays, CreateLicenceStep, CommitLicenceStep, ExpireUpdateStep
  <2> QED
    BY <2>1, <2>2
<1>2. Inv /\ [Next]_vars => [\A l \in Licence : Left(l)]_vars
  BY <1>1
<1> QED
  BY <1>2, InvHolds, PTL DEF Spec, ExpireLeftOnlyByRenewal

-----------------------------------------------------------------------------
(***************************************************************************)
(* The audit log of the licences, the period of a validated renouvellement *)
(* and the proposals of the auto-renew job.                                *)
(***************************************************************************)

Accounting == LicenceEvent \cup RenewedEvent

(* The version of the row the next write of a licence leaves.              *)
NextVersion(l) == IF Created(l) THEN licences[l].version + 1 ELSE 0

(* A write of the licence l by a request, with the audit row e.            *)
Audits(l, e) ==
  /\ e \in Accounting /\ e.licence = l /\ e.version = NextVersion(l)
  /\ audit' \cap Accounting = (audit \cap Accounting) \cup {e}
  /\ licences'[l] \in LicenceRow /\ licences'[l].version = NextVersion(l)
  /\ licences' = [licences EXCEPT ![l] = licences'[l]]
  /\ UNCHANGED <<expireRuns, faults>>

LEMMA RenewNotAccounting ==
  ASSUME NEW verb \in RenewVerb, NEW r
  PROVE  RenewChange(verb, r) \notin Accounting
BY DEF RenewChange, RenewVerb, Accounting, LicenceEvent, LicenceVerb, RenewedEvent

(* Rows about renouvellements account for no write of a licence.           *)
LEMMA LogsNoWrite ==
  ASSUME NEW verb \in RenewVerb, NEW r, Log({RenewChange(verb, r)})
  PROVE  audit' \cap Accounting = audit \cap Accounting
BY RenewNotAccounting DEF Log

LEMMA CreateAudits ==
  ASSUME TypeOK, NEW l \in Licence, CreateLicence(l)
  PROVE  \E e : Audits(l, e)
<1> DEFINE e == LicenceChange("LICENCE_CREATED", l, 0)
<1>1. PICK p \in Period, auto \in BOOLEAN :
        licences' = [licences EXCEPT ![l] = NewLicence(p.debut, p.fin, auto)]
  BY DEF CreateLicence
<1>2. /\ NewLicence(p.debut, p.fin, auto) \in LicenceRow
      /\ NewLicence(p.debut, p.fin, auto).version = 0
  BY InputAssumption DEF NewLicence, LicenceRow, LicenceStatus
<1>3. licences'[l] = NewLicence(p.debut, p.fin, auto)
  BY <1>1 DEF TypeOK
<1>4. e \in Accounting /\ e.licence = l /\ e.version = 0
  BY DEF LicenceChange, LicenceEvent, LicenceVerb, Accounting
<1>5. audit' \cap Accounting = (audit \cap Accounting) \cup {e}
  BY <1>4 DEF CreateLicence, Log
<1>6. NextVersion(l) = 0
  BY DEF NextVersion, CreateLicence
<1>7. UNCHANGED <<expireRuns, faults>>
  BY DEF CreateLicence
<1> QED
  BY <1>1, <1>2, <1>3, <1>4, <1>5, <1>6, <1>7 DEF Audits

LEMMA CommitAudits ==
  ASSUME TypeOK, References, NEW q \in Session, CommitLicence(q)
  PROVE  \E l \in Licence : \E e : Audits(l, e)
<1> DEFINE tx == requests[q]
           l == tx.licence
           e == LicenceChange(LicenceTxVerb(tx), l, tx.expected + 1)
<1>1. tx \in LicenceTx
  BY TransactionOf DEF CommitLicence, TypeOK
<1>2. /\ l \in Licence /\ tx.patched \in LicenceRow /\ tx.expected \in Nat
      /\ Created(l) /\ licences[l].version = tx.expected
  BY <1>1 DEF LicenceTx, CommitLicence, VersionMatches, References, TxReferences, InLicenceTx
<1>3. /\ licences' = [licences EXCEPT ![l] = licences'[l]]
      /\ licences'[l] \in LicenceRow
      /\ licences'[l].version = licences[l].version + 1
  BY <1>2, SavedRow DEF CommitLicence
<1>4. e \in Accounting /\ e.licence = l /\ e.version = tx.expected + 1
  BY <1>1, <1>2 DEF LicenceChange, LicenceTxVerb, StatusVerb, LicenceEvent, LicenceVerb,
                    LicenceTx, Accounting
<1>5. audit' \cap Accounting = (audit \cap Accounting) \cup {e}
  BY <1>4 DEF CommitLicence, Log
<1>6. NextVersion(l) = tx.expected + 1
  BY <1>2 DEF NextVersion
<1>7. UNCHANGED <<expireRuns, faults>>
  BY DEF CommitLicence
<1> HIDE DEF e
<1>8. Audits(l, e)
  BY <1>2, <1>3, <1>4, <1>5, <1>6, <1>7 DEF Audits
<1> QED
  BY <1>2, <1>8

LEMMA ValiderAudits ==
  ASSUME TypeOK, References, NEW q \in Session, CommitValider(q)
  PROVE  \E l \in Licence : \E e : Audits(l, e)
<1> DEFINE tx      == requests[q]
           l       == tx.seen.licence
           patched == Renewed(tx.licence, tx.seen.debut, tx.seen.fin)
           e       == RenewalOf(l, tx.licence.version + 1, patched, tx.renouvellement)
           f       == RenewChange("RENOUVELLEMENT_VALIDATED", tx.renouvellement)
<1>1. tx \in ValiderWrite
  BY TransactionOf DEF CommitValider, TypeOK
<1>2. /\ l \in Licence /\ tx.licence \in LicenceRow /\ tx.licence.version \in Nat
      /\ tx.seen.debut \in Int /\ tx.seen.fin \in Int
      /\ tx.renouvellement \in Renouvellement
      /\ Created(l) /\ licences[l].version = tx.licence.version
  BY <1>1 DEF ValiderWrite, RenewRow, LicenceRow, CommitValider, VersionMatches, References,
              TxReferences
<1>3. patched \in LicenceRow /\ patched.debut \in Int /\ patched.fin \in Int
  BY <1>2, RenewedRow
<1> HIDE DEF patched
<1>4. SaveLicence(l, patched)
  BY DEF CommitValider, patched
<1>5. /\ licences' = [licences EXCEPT ![l] = licences'[l]]
      /\ licences'[l] \in LicenceRow
      /\ licences'[l].version = licences[l].version + 1
  BY <1>2, <1>3, <1>4, SavedRow
<1>6. e \in Accounting /\ e.licence = l /\ e.version = tx.licence.version + 1
  BY <1>2, <1>3 DEF RenewalOf, RenewedEvent, Accounting
<1>7. f \notin Accounting
  BY RenewNotAccounting DEF RenewVerb
<1>8. audit' = audit \cup {e, f}
  BY DEF CommitValider, Log, patched
<1> HIDE DEF e, f
<1>9. audit' \cap Accounting = (audit \cap Accounting) \cup {e}
  BY <1>6, <1>7, <1>8
<1>10. NextVersion(l) = tx.licence.version + 1
  BY <1>2 DEF NextVersion
<1>11. UNCHANGED <<expireRuns, faults>>
  BY DEF CommitValider
<1>12. Audits(l, e)
  BY <1>2, <1>5, <1>6, <1>9, <1>10, <1>11 DEF Audits
<1> QED
  BY <1>2, <1>12

(* A step leaves the licences and what they are owed alone, or is one of   *)
(* the writes and debts.                                                   *)
Quiet ==
  /\ UNCHANGED <<licences, expireRuns>>
  /\ audit' \cap Accounting = audit \cap Accounting
  /\ faults' \in {faults, faults + 1}

LEMMA AuditStep ==
  ASSUME TypeOK, References, [Next]_vars
  PROVE  \/ Quiet
         \/ \E l \in Licence : \E e : Audits(l, e)
         \/ \E x \in ExpireRun : ExpireUpdate(x) \/ ExpireAudit(x) \/ ExpireDies(x)
<1>1. CASE Tick \/ UNCHANGED vars
  BY <1>1 DEF Tick, vars, Quiet
<1>2. ASSUME NEW r \in Renouvellement, CreateRenouvellement(r)
      PROVE  Quiet
  BY <1>2, LogsNoWrite DEF CreateRenouvellement, RenewVerb, Quiet
<1>3. ASSUME NEW q \in Session, LicenceUseCase(q)
      PROVE  Quiet \/ CommitLicence(q)
  BY <1>3 DEF LicenceUseCase, BeginUpdateLicence, BeginChangeStatus, RejectLicence, Open, Quiet
<1>4. ASSUME NEW q \in Session, RenouvellementUseCase(q)
      PROVE  Quiet \/ CommitValider(q)
  <2>1. ASSUME CommitRenouvellement(q)
        PROVE  Quiet
    <3>1. RenewTxVerb(requests[q].op) \in RenewVerb
      BY DEF RenewTxVerb, RenewVerb
    <3> QED
      BY <2>1, <3>1, LogsNoWrite DEF CommitRenouvellement, Quiet
  <2> QED
    BY <1>4, <2>1 DEF RenouvellementUseCase, BeginAnnuler, BeginUpdateRenouvellement,
                      BeginValider, ValiderReadLicence, RejectValider, Open, Quiet
<1>5. ASSUME NEW x \in RenewRun, RenewJob(x)
      PROVE  Quiet
  <2>1. CASE RenewAudit(x)
    BY <2>1, LogsNoWrite DEF RenewAudit, RenewVerb, Quiet
  <2>2. CASE ~RenewAudit(x)
    BY <1>5, <2>2 DEF RenewJob, RenewSelect, RenewSave, RenewSkip, RenewDies, Quiet
  <2> QED
    BY <2>1, <2>2
<1> QED
  BY <1>1, <1>2, <1>3, <1>4, <1>5, CreateAudits, CommitAudits, ValiderAudits
     DEF Next, ExpireJob

-----------------------------------------------------------------------------
(* What an expire run owes: an audit row for a write that happened, that   *)
(* the log does not hold and that no other run owes.                       *)
Accounted(l, v) ==
  \E e \in audit \cap Accounting : e.licence = l /\ e.version = v

OwedExact ==
  \A x \in ExpireRun : \A row \in expireRuns[x] :
    /\ Created(row.licence)
    /\ row.version <= licences[row.licence].version
    /\ ~Accounted(row.licence, row.version)
    /\ \A y \in ExpireRun : row \in expireRuns[y] => y = x

(* The log holds one row for a write, and none for a write to come.        *)
OnePerWrite ==
  \A e, f \in audit \cap Accounting :
    e.licence = f.licence =>
      /\ Created(e.licence)
      /\ e.version <= licences[e.licence].version
      /\ e.version = f.version => e = f

AllAccounted ==
  faults = 0 =>
    \A l \in Licence : Created(l) =>
      \A v \in 0 .. licences[l].version : Accounted(l, v) \/ AuditOwed(l, v)

AuditInv == OwedExact /\ OnePerWrite /\ AllAccounted

LEMMA AuditInvExact ==
  ASSUME TypeOK, AuditInv
  PROVE  AuditExact
<1>1. AuditAccountsForWrites
  BY DEF AuditInv, AllAccounted, AuditAccountsForWrites, Accounted, Accounting, LicenceEvents
<1>2. AuditOnePerWrite
  BY DEF AuditInv, OnePerWrite, AuditOnePerWrite, Accounting
<1> QED
  BY <1>1, <1>2 DEF AuditExact

LEMMA InitAuditInv == Init => AuditInv
BY DEF Init, AuditInv, OwedExact, OnePerWrite, AllAccounted, Created

LEMMA QuietAuditInv ==
  ASSUME TypeOK, AuditInv, Quiet
  PROVE  AuditInv'
<1>1. faults' = 0 => faults = 0
  BY DEF Quiet, TypeOK
<1>2. \A l, v : Accounted(l, v)' <=> Accounted(l, v)
  BY DEF Quiet, Accounted, Accounting, LicenceEvent, RenewedEvent
<1>3. OwedExact'
  BY <1>2 DEF Quiet, AuditInv, OwedExact, Created
<1>4. OnePerWrite'
  BY DEF Quiet, AuditInv, OnePerWrite, Created, Accounting, LicenceEvent, RenewedEvent
<1>5. AllAccounted'
  BY <1>1, <1>2 DEF Quiet, AuditInv, AllAccounted, Created, AuditOwed
<1> QED
  BY <1>3, <1>4, <1>5 DEF AuditInv

LEMMA AuditsAuditInv ==
  ASSUME TypeOK, AuditInv, NEW l \in Licence, NEW e, Audits(l, e)
  PROVE  AuditInv'
<1>1. /\ licences'[l] # None
      /\ \A k \in Licence \ {l} : licences'[k] = licences[k]
  BY NoneAssumption DEF Audits, TypeOK
<1>2. Created(l) => licences[l].version \in Nat
  BY DEF Created, TypeOK, LicenceRow
<1>3. \A k \in Licence : \A v : Accounted(k, v)' <=>
        Accounted(k, v) \/ (k = l /\ v = NextVersion(l))
  BY DEF Audits, Accounted, Accounting, LicenceEvent, RenewedEvent
<1>4. \A k \in Licence : Created(k) =>
        Created(k)' /\ licences[k].version <= licences'[k].version
  <2> SUFFICES ASSUME NEW k \in Licence, Created(k)
               PROVE  Created(k)' /\ licences[k].version <= licences'[k].version
    OBVIOUS
  <2>1. licences[k].version \in Nat
    BY DEF Created, TypeOK, LicenceRow
  <2> QED
    BY <2>1, <1>1, <1>2 DEF Created, Audits, NextVersion
<1>5. OwedExact'
  <2> SUFFICES ASSUME NEW x \in ExpireRun, NEW row \in expireRuns[x]
               PROVE  /\ Created(row.licence)'
                      /\ row.version <= licences'[row.licence].version
                      /\ ~Accounted(row.licence, row.version)'
                      /\ \A y \in ExpireRun : row \in expireRuns[y] => y = x
    BY DEF OwedExact, Audits
  <2>1. row.licence \in Licence /\ row.version \in Nat
    BY DEF TypeOK
  <2>2. /\ Created(row.licence)
        /\ row.version <= licences[row.licence].version
        /\ ~Accounted(row.licence, row.version)
        /\ \A y \in ExpireRun : row \in expireRuns[y] => y = x
    BY DEF AuditInv, OwedExact
  <2>3. licences[row.licence].version \in Nat /\ licences'[row.licence].version \in Nat
    BY <2>1, <2>2, <1>1, <1>2 DEF Created, TypeOK, LicenceRow, Audits
  <2>4. ~(row.licence = l /\ row.version = NextVersion(l))
    BY <2>1, <2>2, <2>3 DEF NextVersion
  <2> QED
    BY <2>1, <2>2, <2>3, <2>4, <1>3, <1>4
<1>6. OnePerWrite'
  <2> SUFFICES ASSUME NEW f \in (audit \cap Accounting)', NEW g \in (audit \cap Accounting)',
                      f.licence = g.licence
               PROVE  /\ Created(f.licence)'
                      /\ f.version <= licences'[f.licence].version
                      /\ f.version = g.version => f = g
    BY DEF OnePerWrite
  <2>1. /\ f \in (audit \cap Accounting) \cup {e}
        /\ g \in (audit \cap Accounting) \cup {e}
    BY DEF Audits, Accounting, LicenceEvent, RenewedEvent
  <2>2. f.licence \in Licence /\ f.version \in Nat /\ g.version \in Nat
    BY <2>1 DEF Audits, Accounting, LicenceEvent, RenewedEvent
  <2>3. \A h \in audit \cap Accounting : h.licence = f.licence =>
          /\ Created(f.licence)
          /\ h.version <= licences[f.licence].version
    BY DEF AuditInv, OnePerWrite
  <2>4. \A h \in audit \cap Accounting : h.licence = l => h.version < NextVersion(l)
    <3> SUFFICES ASSUME NEW h \in audit \cap Accounting, h.licence = l
                 PROVE  h.version < NextVersion(l)
      OBVIOUS
    <3>1. h.version \in Nat
      BY DEF Accounting, LicenceEvent, RenewedEvent
    <3>2. Created(l) /\ h.version <= licences[l].version
      BY DEF AuditInv, OnePerWrite
    <3> QED
      BY <3>1, <3>2, <1>2 DEF NextVersion
  <2>5. Created(f.licence)' /\ f.version <= licences'[f.licence].version
    <3>1. CASE f = e
      BY <3>1, <1>1, <2>2 DEF Audits, Created
    <3>2. CASE f \in audit \cap Accounting
      <4>1. licences[f.licence].version \in Nat /\ licences'[f.licence].version \in Nat
        BY <2>2, <2>3, <3>2, <1>1 DEF Created, TypeOK, LicenceRow, Audits
      <4> QED
        BY <3>2, <2>2, <2>3, <4>1, <1>4
    <3> QED
      BY <3>1, <3>2, <2>1
  <2>6. f.version = g.version => f = g
    <3>1. CASE f \in audit \cap Accounting /\ g \in audit \cap Accounting
      BY <3>1 DEF AuditInv, OnePerWrite
    <3>2. CASE f = e \/ g = e
      BY <3>2, <2>1, <2>2, <2>4 DEF Audits
    <3> QED
      BY <3>1, <3>2, <2>1
  <2> QED
    BY <2>5, <2>6
<1>7. AllAccounted'
  <2> SUFFICES ASSUME faults = 0, NEW k \in Licence, Created(k)',
                      NEW v \in 0 .. licences'[k].version
               PROVE  Accounted(k, v)' \/ AuditOwed(k, v)'
    BY DEF AllAccounted, Audits
  <2>1. CASE k # l
    <3>1. Created(k) /\ licences'[k] = licences[k]
      BY <2>1, <1>1 DEF Created
    <3> QED
      BY <2>1, <3>1, <1>3 DEF AuditInv, AllAccounted, AuditOwed, Audits
  <2>2. CASE k = l /\ v = NextVersion(l)
    BY <2>2, <1>3
  <2>3. CASE k = l /\ v # NextVersion(l)
    <3>1. Created(l) /\ v \in 0 .. licences[l].version
      BY <2>3, <1>2 DEF Audits, NextVersion
    <3> QED
      BY <2>3, <3>1, <1>3 DEF AuditInv, AllAccounted, AuditOwed, Audits
  <2> QED
    BY <2>1, <2>2, <2>3
<1> QED
  BY <1>5, <1>6, <1>7 DEF AuditInv

(* The UPDATE of a run writes a new version of each licence it takes, and  *)
(* the run, which owed nothing, now owes that version.                     *)
LEMMA ExpireUpdateAuditInv ==
  ASSUME TypeOK, AuditInv, NEW x \in ExpireRun, ExpireUpdate(x)
  PROVE  AuditInv'
<1> DEFINE owed == {[licence |-> l, version |-> licences[l].version + 1] :
                      l \in {k \in Licence : Overdue(k)}}
<1>1. /\ expireRuns[x] = {} /\ expireRuns'[x] = owed
      /\ \A y \in ExpireRun \ {x} : expireRuns'[y] = expireRuns[y]
      /\ UNCHANGED <<audit, faults>>
  BY DEF ExpireUpdate, TypeOK
<1>2. \A l, v : Accounted(l, v)' <=> Accounted(l, v)
  BY <1>1 DEF Accounted, Accounting, LicenceEvent, RenewedEvent
<1>3. ASSUME NEW l \in Licence, Created(l)
      PROVE  /\ licences[l].version \in Nat
             /\ Created(l)'
             /\ licences'[l].version =
                  IF Overdue(l) THEN licences[l].version + 1 ELSE licences[l].version
  <2>1. licences[l] \in LicenceRow
    BY <1>3 DEF Created, TypeOK
  <2>2. CASE Overdue(l)
    <3>1. licences'[l] = Expired(licences[l])
      BY <2>2 DEF ExpireUpdate
    <3> QED
      BY <2>1, <2>2, <3>1, ExpiredRow, NoneAssumption DEF Created, LicenceRow
  <2>3. CASE ~Overdue(l)
    <3>1. licences'[l] = licences[l]
      BY <2>3 DEF ExpireUpdate
    <3> QED
      BY <2>1, <2>3, <3>1, <1>3 DEF Created, LicenceRow
  <2> QED
    BY <2>2, <2>3
<1>4. \A l \in Licence : Created(l)' => Created(l)
  BY DEF ExpireUpdate, Overdue, Created
<1>5. \A l \in Licence : \A v : Accounted(l, v) => Created(l) /\ v <= licences[l].version
  BY DEF Accounted, AuditInv, OnePerWrite
<1>6. ASSUME NEW row \in owed
      PROVE  /\ row.licence \in Licence /\ Created(row.licence) /\ Overdue(row.licence)
             /\ row.version = licences[row.licence].version + 1
  BY <1>6 DEF Overdue
<1> HIDE DEF owed
<1>7. ASSUME NEW y \in ExpireRun, NEW row \in expireRuns[y]
      PROVE  /\ row.licence \in Licence /\ row.version \in Nat
             /\ Created(row.licence)
             /\ row.version <= licences[row.licence].version
             /\ ~Accounted(row.licence, row.version)
             /\ \A z \in ExpireRun : row \in expireRuns[z] => z = y
  BY <1>7 DEF AuditInv, OwedExact, TypeOK
<1>8. OwedExact'
  <2> SUFFICES ASSUME NEW y \in ExpireRun, NEW row \in expireRuns'[y]
               PROVE  /\ Created(row.licence)'
                      /\ row.version <= licences'[row.licence].version
                      /\ ~Accounted(row.licence, row.version)'
                      /\ \A z \in ExpireRun : row \in expireRuns'[z] => z = y
    BY DEF OwedExact
  <2>1. CASE y = x
    <3>1. row \in owed
      BY <2>1, <1>1
    <3>2. row.licence \in Licence /\ licences[row.licence].version \in Nat
      BY <3>1, <1>6, <1>3
    <3>3. Created(row.licence)' /\ row.version <= licences'[row.licence].version
      BY <3>1, <3>2, <1>6, <1>3
    <3>4. ~Accounted(row.licence, row.version)'
      BY <3>1, <3>2, <1>6, <1>2, <1>5
    <3>5. \A z \in ExpireRun : row \in expireRuns'[z] => z = y
      BY <2>1, <3>1, <3>2, <1>1, <1>6, <1>7
    <3> QED
      BY <3>3, <3>4, <3>5
  <2>2. CASE y # x
    <3>1. row \in expireRuns[y]
      BY <2>2, <1>1
    <3>2. /\ row.licence \in Licence /\ licences[row.licence].version \in Nat
          /\ row.version \in Nat /\ row.version <= licences[row.licence].version
      BY <3>1, <1>7, <1>3
    <3>3. Created(row.licence)' /\ row.version <= licences'[row.licence].version
      BY <3>1, <3>2, <1>7, <1>3
    <3>4. row \notin owed
      BY <3>2, <1>6
    <3> QED
      BY <3>1, <3>3, <3>4, <1>1, <1>2, <1>7
  <2> QED
    BY <2>1, <2>2
<1>9. OnePerWrite'
  <2> SUFFICES ASSUME NEW f \in audit \cap Accounting, NEW g \in audit \cap Accounting,
                      f.licence = g.licence
               PROVE  /\ Created(f.licence)'
                      /\ f.version <= licences'[f.licence].version
                      /\ f.version = g.version => f = g
    BY <1>1 DEF OnePerWrite, Accounting, LicenceEvent, RenewedEvent
  <2>1. f.licence \in Licence /\ f.version \in Nat
    BY DEF Accounting, LicenceEvent, RenewedEvent
  <2>2. /\ Created(f.licence) /\ f.version <= licences[f.licence].version
        /\ f.version = g.version => f = g
    BY DEF AuditInv, OnePerWrite
  <2> QED
    BY <2>1, <2>2, <1>3
<1>10. AllAccounted'
  <2> SUFFICES ASSUME faults = 0, NEW l \in Licence, Created(l),
                      NEW v \in 0 .. licences'[l].version
               PROVE  Accounted(l, v) \/ AuditOwed(l, v)'
    BY <1>1, <1>2, <1>4 DEF AllAccounted
  <2>1. CASE v \in 0 .. licences[l].version
    <3>1. Accounted(l, v) \/ AuditOwed(l, v)
      BY <2>1 DEF AuditInv, AllAccounted
    <3> QED
      BY <3>1, <1>1 DEF AuditOwed
  <2>2. CASE v \notin 0 .. licences[l].version
    <3>1. Overdue(l) /\ v = licences[l].version + 1
      BY <2>2, <1>3
    <3>2. [licence |-> l, version |-> v] \in owed
      BY <3>1 DEF owed
    <3> QED
      BY <3>2, <1>1 DEF AuditOwed
  <2> QED
    BY <2>1, <2>2
<1> QED
  BY <1>8, <1>9, <1>10 DEF AuditInv

LEMMA ExpireAuditAuditInv ==
  ASSUME TypeOK, AuditInv, NEW x \in ExpireRun, ExpireAudit(x)
  PROVE  AuditInv'
<1>1. PICK row \in expireRuns[x] :
        /\ audit' = audit \cup
             {LicenceChange("LICENCE_EXPIRED_BY_JOB", row.licence, row.version)}
        /\ expireRuns' = [expireRuns EXCEPT ![x] = expireRuns[x] \ {row}]
        /\ UNCHANGED <<licences, faults>>
  BY DEF ExpireAudit, Log
<1> DEFINE e == LicenceChange("LICENCE_EXPIRED_BY_JOB", row.licence, row.version)
<1>2. /\ row = [licence |-> row.licence, version |-> row.version]
      /\ row.licence \in Licence /\ row.version \in Nat
  BY <1>1 DEF TypeOK
<1>3. /\ Created(row.licence)
      /\ row.version <= licences[row.licence].version
      /\ ~Accounted(row.licence, row.version)
      /\ \A y \in ExpireRun : row \in expireRuns[y] => y = x
  BY <1>1 DEF AuditInv, OwedExact
<1>4. e \in Accounting /\ e.licence = row.licence /\ e.version = row.version
  BY <1>2 DEF LicenceChange, Accounting, LicenceEvent, LicenceVerb
<1>5. (audit \cap Accounting)' = (audit \cap Accounting) \cup {e}
  BY <1>1, <1>4 DEF Accounting, LicenceEvent, RenewedEvent
<1> HIDE DEF e
<1>6. \A l, v : Accounted(l, v)' <=>
        Accounted(l, v) \/ (l = row.licence /\ v = row.version)
  BY <1>4, <1>5 DEF Accounted
<1>7. /\ expireRuns'[x] = expireRuns[x] \ {row}
      /\ \A y \in ExpireRun \ {x} : expireRuns'[y] = expireRuns[y]
  BY <1>1 DEF TypeOK
<1>8. OwedExact'
  <2> SUFFICES ASSUME NEW y \in ExpireRun, NEW owed \in expireRuns'[y]
               PROVE  /\ Created(owed.licence)'
                      /\ owed.version <= licences'[owed.licence].version
                      /\ ~Accounted(owed.licence, owed.version)'
                      /\ \A z \in ExpireRun : owed \in expireRuns'[z] => z = y
    BY DEF OwedExact
  <2>1. owed \in expireRuns[y] /\ owed # row
    BY <1>1, <1>3, <1>7
  <2>2. owed = [licence |-> owed.licence, version |-> owed.version]
    BY <2>1 DEF TypeOK
  <2>3. /\ Created(owed.licence)
        /\ owed.version <= licences[owed.licence].version
        /\ ~Accounted(owed.licence, owed.version)
        /\ \A z \in ExpireRun : owed \in expireRuns[z] => z = y
    BY <2>1 DEF AuditInv, OwedExact
  <2>4. ~(owed.licence = row.licence /\ owed.version = row.version)
    BY <2>1, <2>2, <1>2
  <2> QED
    BY <2>3, <2>4, <1>1, <1>6, <1>7 DEF Created
<1>9. OnePerWrite'
  <2> SUFFICES ASSUME NEW f \in (audit \cap Accounting) \cup {e},
                      NEW g \in (audit \cap Accounting) \cup {e},
                      f.licence = g.licence
               PROVE  /\ Created(f.licence)
                      /\ f.version <= licences[f.licence].version
                      /\ f.version = g.version => f = g
    BY <1>1, <1>5 DEF OnePerWrite, Created
  <2>1. CASE f \in audit \cap Accounting /\ g \in audit \cap Accounting
    BY <2>1 DEF AuditInv, OnePerWrite
  <2>2. CASE f = e /\ g = e
    BY <2>2, <1>3, <1>4
  <2>3. CASE f = e /\ g \in audit \cap Accounting
    BY <2>3, <1>3, <1>4 DEF Accounted
  <2>4. CASE f \in audit \cap Accounting /\ g = e
    <3>1. f.version # g.version
      BY <2>4, <1>3, <1>4 DEF Accounted
    <3> QED
      BY <2>4, <3>1 DEF AuditInv, OnePerWrite
  <2> QED
    BY <2>1, <2>2, <2>3, <2>4
<1>10. AllAccounted'
  <2> SUFFICES ASSUME faults = 0, NEW l \in Licence, Created(l),
                      NEW v \in 0 .. licences[l].version
               PROVE  Accounted(l, v)' \/ AuditOwed(l, v)'
    BY <1>1 DEF AllAccounted, Created
  <2>1. CASE Accounted(l, v)
    BY <2>1, <1>6
  <2>2. CASE AuditOwed(l, v)
    BY <2>2, <1>2, <1>6, <1>7 DEF AuditOwed
  <2> QED
    BY <2>1, <2>2 DEF AuditInv, AllAccounted
<1> QED
  BY <1>8, <1>9, <1>10 DEF AuditInv

LEMMA ExpireDiesAuditInv ==
  ASSUME TypeOK, AuditInv, NEW x \in ExpireRun, ExpireDies(x)
  PROVE  AuditInv'
<1>1. /\ expireRuns'[x] = {}
      /\ \A y \in ExpireRun \ {x} : expireRuns'[y] = expireRuns[y]
      /\ UNCHANGED <<licences, audit>>
      /\ faults' # 0
  BY DEF ExpireDies, TypeOK
<1>2. \A l, v : Accounted(l, v)' <=> Accounted(l, v)
  BY <1>1 DEF Accounted, Accounting, LicenceEvent, RenewedEvent
<1>3. OwedExact'
  <2> SUFFICES ASSUME NEW y \in ExpireRun, NEW row \in expireRuns'[y]
               PROVE  /\ Created(row.licence)'
                      /\ row.version <= licences'[row.licence].version
                      /\ ~Accounted(row.licence, row.version)'
                      /\ \A z \in ExpireRun : row \in expireRuns'[z] => z = y
    BY DEF OwedExact
  <2>1. y # x /\ row \in expireRuns[y]
    BY <1>1
  <2> QED
    BY <2>1, <1>1, <1>2 DEF AuditInv, OwedExact, Created
<1>4. OnePerWrite'
  BY <1>1 DEF AuditInv, OnePerWrite, Created, Accounting, LicenceEvent, RenewedEvent
<1> QED
  BY <1>1, <1>3, <1>4 DEF AuditInv, AllAccounted

LEMMA NextAuditInv ==
  ASSUME TypeOK, References, AuditInv, [Next]_vars
  PROVE  AuditInv'
BY AuditStep, QuietAuditInv, AuditsAuditInv, ExpireUpdateAuditInv, ExpireAuditAuditInv,
   ExpireDiesAuditInv

(* The audit log is an exact account of the writes to lic_licences.        *)
THEOREM AuditIsExact == Spec => []AuditExact
<1>1. Init => AuditInv
  BY InitAuditInv
<1>2. TypeOK /\ References /\ AuditInv /\ [Next]_vars => AuditInv'
  BY NextAuditInv
<1>3. TypeOK /\ AuditInv => AuditExact
  BY AuditInvExact
<1> QED
  BY <1>1, <1>2, <1>3, TypeCorrect, PTL DEF Spec

-----------------------------------------------------------------------------
(* A cancellation writes ANNULE and an edit EN_COURS, whatever the row has *)
(* become since it was read.                                               *)
WritesStatus(tx) ==
  tx.op \in {"annuler", "updateRenouvellement"} =>
    tx.patched.status \in {"ANNULE", "EN_COURS"}

RequestsWriteStatus == \A q \in Session : WritesStatus(requests[q])

LEMMA NextRequestsWriteStatus ==
  ASSUME TypeOK, RequestsWriteStatus, [Next]_vars
  PROVE  RequestsWriteStatus'
<1> SUFFICES ASSUME NEW q \in Session
             PROVE  WritesStatus(requests'[q])
  BY DEF RequestsWriteStatus, WritesStatus
<1>1. CASE requests'[q] = requests[q]
  BY <1>1 DEF RequestsWriteStatus
<1>2. CASE requests'[q] = Idle
  BY <1>2 DEF Idle, WritesStatus
<1>3. ASSUME NEW r \in Renouvellement, BeginAnnuler(q, r)
      PROVE  WritesStatus(requests'[q])
  <2>1. renouvellements[r] \in RenewRow(Licence)
    BY <1>3 DEF BeginAnnuler, Exists, TypeOK
  <2>2. requests'[q] = [op |-> "annuler", renouvellement |-> r,
                        seen |-> renouvellements[r],
                        patched |-> WithStatus(renouvellements[r], "ANNULE")]
    BY <1>3 DEF BeginAnnuler, Open, TypeOK
  <2> QED
    BY <2>1, <2>2 DEF WritesStatus, WithStatus, RenewRow
<1>4. ASSUME NEW r \in Renouvellement, BeginUpdateRenouvellement(q, r)
      PROVE  WritesStatus(requests'[q])
  <2>1. renouvellements[r] \in RenewRow(Licence) /\ renouvellements[r].status = "EN_COURS"
    BY <1>4 DEF BeginUpdateRenouvellement, Exists, TypeOK
  <2>2. PICK patch \in DatePatch :
          Open(q, [op |-> "updateRenouvellement", renouvellement |-> r,
                   seen |-> renouvellements[r],
                   patched |-> [renouvellements[r] EXCEPT
                                  !.debut = Given(patch.debut, renouvellements[r].debut),
                                  !.fin = Given(patch.fin, renouvellements[r].fin)]])
    BY <1>4 DEF BeginUpdateRenouvellement
  <2> DEFINE patched == [renouvellements[r] EXCEPT
                           !.debut = Given(patch.debut, renouvellements[r].debut),
                           !.fin = Given(patch.fin, renouvellements[r].fin)]
  <2>3. patched.status = "EN_COURS"
    BY <2>1 DEF RenewRow
  <2> HIDE DEF patched
  <2>4. requests'[q] = [op |-> "updateRenouvellement", renouvellement |-> r,
                        seen |-> renouvellements[r], patched |-> patched]
    BY <2>2 DEF Open, TypeOK, patched
  <2> QED
    BY <2>3, <2>4 DEF WritesStatus
<1>5. CASE \/ \E l \in Licence : BeginUpdateLicence(q, l) \/ BeginChangeStatus(q, l)
           \/ \E r \in Renouvellement : BeginValider(q, r)
           \/ ValiderReadLicence(q)
  <2>1. requests'[q].op \in {"update", "changeStatus", "valider", "validerWrite"}
    BY <1>5 DEF BeginUpdateLicence, BeginChangeStatus, BeginValider, ValiderReadLicence,
                Open, TypeOK
  <2> QED
    BY <2>1 DEF WritesStatus
<1> QED
  BY <1>1, <1>2, <1>3, <1>4, <1>5, RequestStep DEF Opens

(* Only a validation makes a row VALIDE, and only the job makes one CREE.  *)
LEMMA WrittenRows ==
  ASSUME TypeOK, RequestsWriteStatus, [Next]_vars, NEW r \in Renouvellement
  PROVE  \/ renouvellements'[r] = renouvellements[r]
         \/ renouvellements'[r].status \in {"EN_COURS", "ANNULE"}
         \/ \E q \in Session : CommitValider(q) /\ requests[q].renouvellement = r
         \/ \E x \in RenewRun : RenewSave(x, r)
<1>1. ASSUME NEW s \in Renouvellement, CreateRenouvellement(s)
      PROVE  \/ renouvellements'[r] = renouvellements[r]
             \/ renouvellements'[r].status \in {"EN_COURS", "ANNULE"}
  BY <1>1 DEF CreateRenouvellement, TypeOK
<1>2. ASSUME NEW q \in Session, CommitRenouvellement(q)
      PROVE  \/ renouvellements'[r] = renouvellements[r]
             \/ renouvellements'[r].status \in {"EN_COURS", "ANNULE"}
  BY <1>2 DEF CommitRenouvellement, SaveRenouvellement, RequestsWriteStatus, WritesStatus,
              TypeOK
<1>3. ASSUME NEW q \in Session, CommitValider(q), requests[q].renouvellement # r
      PROVE  renouvellements'[r] = renouvellements[r]
  BY <1>3 DEF CommitValider, SaveRenouvellement, TypeOK
<1>4. ASSUME NEW x \in RenewRun, NEW s \in Renouvellement, RenewSave(x, s), s # r
      PROVE  renouvellements'[r] = renouvellements[r]
  BY <1>4 DEF RenewSave, TypeOK
<1> QED
  BY <1>1, <1>2, <1>3, <1>4, RenouvellementWriters

LEMMA AuditGrows ==
  ASSUME [Next]_vars
  PROVE  audit \subseteq audit'
<1>1. ASSUME NEW q \in Session, LicenceUseCase(q) \/ RenouvellementUseCase(q)
      PROVE  audit \subseteq audit'
  BY <1>1 DEF LicenceUseCase, BeginUpdateLicence, BeginChangeStatus, CommitLicence,
              RejectLicence, RenouvellementUseCase, BeginAnnuler, BeginUpdateRenouvellement,
              BeginValider, CommitRenouvellement, ValiderReadLicence, CommitValider,
              RejectValider, Open, Log
<1>2. ASSUME NEW x \in ExpireRun, ExpireJob(x)
      PROVE  audit \subseteq audit'
  BY <1>2 DEF ExpireJob, ExpireUpdate, ExpireAudit, ExpireDies, Log
<1>3. ASSUME NEW x \in RenewRun, RenewJob(x)
      PROVE  audit \subseteq audit'
  BY <1>3 DEF RenewJob, RenewSelect, RenewSave, RenewAudit, RenewSkip, RenewDies, Log
<1> QED
  BY <1>1, <1>2, <1>3 DEF Next, Tick, CreateLicence, CreateRenouvellement, Log, vars

LEMMA NextPeriodApplied ==
  ASSUME TypeOK, References, RequestsWriteStatus, ValidatedPeriodApplied, [Next]_vars
  PROVE  ValidatedPeriodApplied'
<1> DEFINE Applies(e, r, row) ==
      /\ e \in RenewedEvent
      /\ e.renouvellement = r
      /\ e.licence = row.licence
      /\ e.debut = row.debut
      /\ e.fin = row.fin
<1> SUFFICES ASSUME NEW r \in Renouvellement, Exists(r)',
                    renouvellements'[r].status = "VALIDE"
             PROVE  \E e \in audit' : Applies(e, r, renouvellements'[r])
  BY DEF ValidatedPeriodApplied, RenewedEvent
<1>1. CASE renouvellements'[r] = renouvellements[r]
  <2>1. \E e \in audit : Applies(e, r, renouvellements[r])
    BY <1>1 DEF ValidatedPeriodApplied, Exists
  <2> QED
    BY <1>1, <2>1, AuditGrows
<1>2. ASSUME NEW q \in Session, CommitValider(q), requests[q].renouvellement = r
      PROVE  \E e \in audit' : Applies(e, r, renouvellements'[r])
  <2> DEFINE tx      == requests[q]
             patched == Renewed(tx.licence, tx.seen.debut, tx.seen.fin)
             e       == RenewalOf(tx.seen.licence, tx.licence.version + 1, patched, r)
  <2>1. /\ tx.seen \in RenewRow(Licence) /\ tx.licence \in LicenceRow
        /\ tx.licence.version + 1 \in Nat
    BY <1>2, TransactionOf DEF CommitValider, ValiderWrite, LicenceRow, TypeOK
  <2>2. /\ tx.seen.licence \in Licence /\ tx.seen.debut \in Int /\ tx.seen.fin \in Int
    BY <2>1 DEF RenewRow
  <2>3. patched.debut = tx.seen.debut /\ patched.fin = tx.seen.fin
    BY <2>1, <2>2, RenewedRow
  <2>4. renouvellements'[r] = WithStatus(tx.seen, "VALIDE")
    BY <1>2 DEF CommitValider, SaveRenouvellement, TypeOK
  <2>5. /\ renouvellements'[r].licence = tx.seen.licence
        /\ renouvellements'[r].debut = tx.seen.debut
        /\ renouvellements'[r].fin = tx.seen.fin
    BY <2>1, <2>4 DEF WithStatus, RenewRow
  <2>6. e \in audit'
    BY <1>2 DEF CommitValider, Log
  <2> HIDE DEF patched
  <2>7. Applies(e, r, renouvellements'[r])
    BY <2>1, <2>2, <2>3, <2>5 DEF RenewalOf, RenewedEvent
  <2> QED
    BY <2>6, <2>7
<1>3. ASSUME NEW x \in RenewRun, RenewSave(x, r)
      PROVE  FALSE
  BY <1>3 DEF RenewSave, TypeOK
<1> QED
  BY <1>1, <1>2, <1>3, WrittenRows

(* A renouvellement that reads VALIDE shows the period its licence was     *)
(* given.                                                                  *)
THEOREM ValidatedIsApplied == Spec => []ValidatedPeriodApplied
<1>1. Init => RequestsWriteStatus /\ ValidatedPeriodApplied
  BY DEF Init, RequestsWriteStatus, WritesStatus, Idle, ValidatedPeriodApplied, Exists
<1>2. TypeOK /\ RequestsWriteStatus /\ [Next]_vars => RequestsWriteStatus'
  BY NextRequestsWriteStatus
<1>3. TypeOK /\ References /\ RequestsWriteStatus /\ ValidatedPeriodApplied /\ [Next]_vars
        => ValidatedPeriodApplied'
  BY NextPeriodApplied
<1> QED
  BY <1>1, <1>2, <1>3, TypeCorrect, PTL DEF Spec

-----------------------------------------------------------------------------
(* What a run of auto-renew has selected and not yet proposed a            *)
(* renouvellement to has none proposed, and is selected once.              *)
TodoFresh ==
  \A x \in RenewRun : \A row \in renewRuns[x].todo :
    /\ \A other \in renewRuns[x].todo : other.licence = row.licence => other = row
    /\ \A r \in Renouvellement :
         Exists(r) /\ renouvellements[r].status = "CREE" =>
           renouvellements[r].licence # row.licence

ProposalInv == TodoFresh /\ OneProposalPerLicence

(* A step of the jobs keeps what a run has to do, empties it or selects.   *)
LEMMA TodoStep ==
  ASSUME TypeOK, [Next]_vars, NEW x \in RenewRun
  PROVE  \/ renewRuns'[x].todo \subseteq renewRuns[x].todo
         \/ RenewSelect(x)
<1>1. ASSUME NEW y \in RenewRun, RenewJob(y), y # x
      PROVE  renewRuns'[x] = renewRuns[x]
  BY <1>1 DEF RenewJob, RenewSelect, RenewSave, RenewAudit, RenewSkip, RenewDies, TypeOK
<1>2. ASSUME RenewJob(x)
      PROVE  renewRuns'[x].todo \subseteq renewRuns[x].todo \/ RenewSelect(x)
  BY <1>2 DEF RenewJob, RenewSave, RenewAudit, RenewSkip, RenewDies, RenewIdle, TypeOK
<1>3. ASSUME NEW q \in Session, LicenceUseCase(q) \/ RenouvellementUseCase(q)
      PROVE  UNCHANGED renewRuns
  BY <1>3 DEF LicenceUseCase, BeginUpdateLicence, BeginChangeStatus, CommitLicence,
              RejectLicence, RenouvellementUseCase, BeginAnnuler, BeginUpdateRenouvellement,
              BeginValider, CommitRenouvellement, ValiderReadLicence, CommitValider,
              RejectValider, Open
<1>4. ASSUME NEW y \in ExpireRun, ExpireJob(y)
      PROVE  UNCHANGED renewRuns
  BY <1>4 DEF ExpireJob, ExpireUpdate, ExpireAudit, ExpireDies
<1> QED
  BY <1>1, <1>2, <1>3, <1>4 DEF Next, Tick, CreateLicence, CreateRenouvellement, vars

LEMMA SelectProposalInv ==
  ASSUME TypeOK, ProposalInv, \A x, y \in RenewRun : x = y,
         NEW x \in RenewRun, RenewSelect(x)
  PROVE  ProposalInv'
<1>1. UNCHANGED renouvellements
  BY DEF RenewSelect
<1>2. renewRuns'[x].todo =
        {[licence |-> l, fin |-> licences[l].fin] : l \in {k \in Licence : Eligible(k)}}
  BY DEF RenewSelect, TypeOK
<1>3. \A row \in renewRuns'[x].todo :
        /\ row.licence \in Licence /\ row.fin = licences[row.licence].fin
        /\ row = [licence |-> row.licence, fin |-> row.fin]
        /\ OpenRenewals(row.licence) = {}
  BY <1>2 DEF Eligible
<1>4. TodoFresh'
  BY <1>1, <1>3 DEF TodoFresh, OpenRenewals, Exists
<1>5. OneProposalPerLicence'
  BY <1>1 DEF ProposalInv, OneProposalPerLicence, Exists
<1> QED
  BY <1>4, <1>5 DEF ProposalInv

LEMMA SaveProposalInv ==
  ASSUME TypeOK, ProposalInv, \A x, y \in RenewRun : x = y,
         NEW x \in RenewRun, NEW r \in Renouvellement, RenewSave(x, r)
  PROVE  ProposalInv'
<1>1. PICK row \in renewRuns[x].todo :
        /\ renouvellements' = [renouvellements EXCEPT ![r] =
             [licence |-> row.licence, debut |-> row.fin,
              fin |-> row.fin + RenewDuration, status |-> "CREE"]]
        /\ renewRuns' = [renewRuns EXCEPT ![x] =
             [todo |-> renewRuns[x].todo \ {row}, unaudited |-> r]]
  BY DEF RenewSave
<1>2. /\ renouvellements'[r].licence = row.licence
      /\ \A s \in Renouvellement \ {r} : renouvellements'[s] = renouvellements[s]
      /\ renewRuns'[x].todo = renewRuns[x].todo \ {row}
  BY <1>1 DEF TypeOK
<1>3. \A s \in Renouvellement :
        Exists(s) /\ renouvellements[s].status = "CREE" =>
          renouvellements[s].licence # row.licence
  BY DEF ProposalInv, TodoFresh
<1>4. TodoFresh'
  <2> SUFFICES ASSUME NEW other \in renewRuns[x].todo, other # row
               PROVE  /\ \A third \in renewRuns[x].todo :
                           third.licence = other.licence => third = other
                      /\ \A s \in Renouvellement :
                           Exists(s)' /\ renouvellements'[s].status = "CREE" =>
                             renouvellements'[s].licence # other.licence
    BY <1>2 DEF TodoFresh
  <2>1. /\ \A third \in renewRuns[x].todo : third.licence = other.licence => third = other
        /\ \A s \in Renouvellement :
             Exists(s) /\ renouvellements[s].status = "CREE" =>
               renouvellements[s].licence # other.licence
    BY DEF ProposalInv, TodoFresh
  <2>2. row.licence # other.licence
    BY <2>1
  <2> QED
    BY <2>1, <2>2, <1>2 DEF Exists
<1>5. OneProposalPerLicence'
  BY <1>2, <1>3 DEF ProposalInv, OneProposalPerLicence, Exists
<1> QED
  BY <1>4, <1>5 DEF ProposalInv

LEMMA NextProposalInv ==
  ASSUME TypeOK, RequestsWriteStatus, ProposalInv, \A x, y \in RenewRun : x = y, [Next]_vars
  PROVE  ProposalInv'
<1>1. ASSUME NEW x \in RenewRun, RenewSelect(x)
      PROVE  ProposalInv'
  BY <1>1, SelectProposalInv
<1>2. ASSUME NEW x \in RenewRun, NEW r \in Renouvellement, RenewSave(x, r)
      PROVE  ProposalInv'
  BY <1>2, SaveProposalInv
<1>3. CASE /\ \A x \in RenewRun : ~RenewSelect(x)
           /\ \A x \in RenewRun, r \in Renouvellement : ~RenewSave(x, r)
  <2>1. \A x \in RenewRun : renewRuns'[x].todo \subseteq renewRuns[x].todo
    BY <1>3, TodoStep
  <2>2. ASSUME NEW r \in Renouvellement, Exists(r)', renouvellements'[r].status = "CREE"
        PROVE  renouvellements'[r] = renouvellements[r] /\ Exists(r)
    <3>1. ASSUME NEW q \in Session, CommitValider(q), requests[q].renouvellement = r
          PROVE  FALSE
      <4>1. requests[q].seen \in RenewRow(Licence)
        BY <3>1, TransactionOf DEF CommitValider, ValiderWrite, TypeOK
      <4>2. renouvellements'[r] = WithStatus(requests[q].seen, "VALIDE")
        BY <3>1 DEF CommitValider, SaveRenouvellement, TypeOK
      <4> QED
        BY <2>2, <4>1, <4>2 DEF WithStatus, RenewRow
    <3> QED
      BY <1>3, <2>2, <3>1, WrittenRows DEF Exists
  <2>3. TodoFresh'
    BY <2>1, <2>2 DEF ProposalInv, TodoFresh, Exists
  <2>4. OneProposalPerLicence'
    BY <2>2 DEF ProposalInv, OneProposalPerLicence, Exists
  <2> QED
    BY <2>3, <2>4 DEF ProposalInv
<1> QED
  BY <1>1, <1>2, <1>3

(* As long as runs of the job do not overlap, a licence never has two of   *)
(* its proposals waiting.                                                  *)
THEOREM ProposedOnce ==
  (\A x, y \in RenewRun : x = y) => (Spec => []OneProposalPerLicence)
<1> SUFFICES ASSUME \A x, y \in RenewRun : x = y
             PROVE  Spec => []OneProposalPerLicence
  OBVIOUS
<1>1. Init => RequestsWriteStatus /\ ProposalInv
  BY DEF Init, RequestsWriteStatus, WritesStatus, Idle, ProposalInv, TodoFresh,
         OneProposalPerLicence, Exists, RenewIdle
<1>2. TypeOK /\ RequestsWriteStatus /\ [Next]_vars => RequestsWriteStatus'
  BY NextRequestsWriteStatus
<1>3. TypeOK /\ RequestsWriteStatus /\ ProposalInv /\ [Next]_vars => ProposalInv'
  BY NextProposalInv
<1>4. ProposalInv => OneProposalPerLicence
  BY DEF ProposalInv
<1> QED
  BY <1>1, <1>2, <1>3, <1>4, TypeCorrect, PTL DEF Spec

=============================================================================
