-------------------------- MODULE LicenceLifecycle --------------------------
(***************************************************************************)
(* Licences and their renouvellements, as the use cases of the web         *)
(* application and the nightly jobs change them, over PostgreSQL at its    *)
(* default isolation level, READ COMMITTED.                                *)
(*                                                                         *)
(* A use case runs in one transaction: it reads committed rows, computes   *)
(* the rows to write, then writes.  Another transaction may commit between *)
(* any two of its reads, and between its reads and its writes.  Its writes *)
(* become visible together when it commits, and each UPDATE evaluates its  *)
(* WHERE on the row it has locked, so the writes of a transaction are one  *)
(* action, the commit.  The jobs have no transaction: each of their        *)
(* statements is a step of its own, and a run can stop between any two.    *)
(***************************************************************************)
EXTENDS LicenceDomain

CONSTANTS
  Licence,        \* identities of lic_licences rows
  Renouvellement, \* identities of lic_renouvellements rows
  Session,        \* concurrent requests of the web application
  ExpireRun,      \* concurrent runs of the expire-licences handler
  RenewRun,       \* concurrent runs of the auto-renew-licences handler
  None,           \* no row
  Period,         \* the [debut, fin] pairs a user types when creating
  ProfileInput,   \* the patches a user sends to UpdateLicenceUseCase
  DatePatch,      \* the dates a user sends to UpdateRenouvellementUseCase
  RenewWindow,    \* RENEW_WINDOW_DAYS
  RenewDuration,  \* RENEW_DURATION_YEARS, in days
  MaxDay,         \* bound: the clock stops there
  MaxVersion,     \* bound: no request starts on a licence of that version
  MaxFault        \* bound: how many times a job run may die

ASSUME InputAssumption ==
  /\ Period \subseteq [debut : Int, fin : Int]
  /\ ProfileInput \subseteq ProfilePatch
  /\ DatePatch \subseteq [debut : Int \cup {Keep}, fin : Int \cup {Keep}]
  /\ RenewWindow \in Nat /\ RenewDuration \in Nat \ {0}
  /\ MaxDay \in Nat /\ MaxVersion \in Nat /\ MaxFault \in Nat

ASSUME NoneAssumption ==
  /\ None \notin LicenceRow
  /\ None \notin RenewRow(Licence)
  /\ None \notin Renouvellement

ASSUME KeepAssumption == Keep \notin Int \cup BOOLEAN

VARIABLES
  today,          \* the database clock, NOW()
  licences,       \* lic_licences
  renouvellements,\* lic_renouvellements
  requests,       \* the transaction each session has open
  expireRuns,     \* what each expire run has still to audit
  renewRuns,      \* what each auto-renew run has still to do
  audit,          \* lic_audit_log
  faults          \* how many job runs have died so far

vars == <<today, licences, renouvellements, requests, expireRuns, renewRuns,
          audit, faults>>

-----------------------------------------------------------------------------
(* An audit row of a licence names the write it accounts for, by the       *)
(* version that write produced; LICENCE_RENEWED also holds the period and  *)
(* the renouvellement in its afterData.                                    *)

LicenceVerb ==
  {"LICENCE_CREATED", "LICENCE_UPDATED", "LICENCE_EXPIRED",
   "LICENCE_SUSPENDED", "LICENCE_REACTIVATED", "LICENCE_ACTIVATED",
   "LICENCE_DEACTIVATED", "LICENCE_EXPIRED_BY_JOB"}

LicenceEvent == [action : LicenceVerb, licence : Licence, version : Nat]

RenewedEvent ==
  [action : {"LICENCE_RENEWED"}, licence : Licence, version : Nat,
   debut : Int, fin : Int, renouvellement : Renouvellement]

RenewVerb ==
  {"RENOUVELLEMENT_CREATED", "RENOUVELLEMENT_UPDATED",
   "RENOUVELLEMENT_CANCELLED", "RENOUVELLEMENT_VALIDATED",
   "RENOUVELLEMENT_CREATED_BY_JOB"}

RenewEvent == [action : RenewVerb, renouvellement : Renouvellement]

LicenceChange(verb, l, version) ==
  [action |-> verb, licence |-> l, version |-> version]

RenewalOf(l, version, row, r) ==
  [action |-> "LICENCE_RENEWED", licence |-> l, version |-> version,
   debut |-> row.debut, fin |-> row.fin, renouvellement |-> r]

RenewChange(verb, r) == [action |-> verb, renouvellement |-> r]

-----------------------------------------------------------------------------
(* An open transaction holds what it has read and the row it will write.   *)

Idle == [op |-> "idle"]

LicenceTx ==
  [op : {"update", "changeStatus"}, licence : Licence, expected : Nat,
   seen : LicenceRow, patched : LicenceRow]

RenewTx ==
  [op : {"annuler", "updateRenouvellement"}, renouvellement : Renouvellement,
   seen : RenewRow(Licence), patched : RenewRow(Licence)]

ValiderTx ==
  [op : {"valider"}, renouvellement : Renouvellement,
   seen : RenewRow(Licence)]

ValiderWrite ==
  [op : {"validerWrite"}, renouvellement : Renouvellement,
   seen : RenewRow(Licence), licence : LicenceRow]

Transaction == {Idle} \cup LicenceTx \cup RenewTx \cup ValiderTx \cup ValiderWrite

Created(l) == licences[l] # None

Exists(r) == renouvellements[r] # None

(* Mutant: the UPDATE has no version in its WHERE.                         *)
AnyVersionMatches(l, expected) == Created(l)

(* LicenceRepositoryPg.update: UPDATE ... SET version = version + 1        *)
(* WHERE id = l AND version = expected.                                    *)
VersionMatches(l, expected) == licences[l].version = expected

(* Mutant: the UPDATE does not count itself.                               *)
SaveLicenceUncounted(l, row) == licences' = [licences EXCEPT ![l] = row]

SaveLicence(l, row) ==
  licences' = [licences EXCEPT ![l] =
                 [row EXCEPT !.version = licences[l].version + 1]]

(* RenouvellementRepositoryPg.update: UPDATE ... WHERE id = r, whatever    *)
(* the row holds by then.                                                  *)
SaveRenouvellement(r, row) ==
  renouvellements' = [renouvellements EXCEPT ![r] = row]

Log(events) == audit' = audit \cup events

Open(q, transaction) ==
  /\ requests[q] = Idle
  /\ requests' = [requests EXCEPT ![q] = transaction]
  /\ UNCHANGED <<today, licences, renouvellements, expireRuns, renewRuns,
                 audit, faults>>

Close(q) == requests' = [requests EXCEPT ![q] = Idle]

-----------------------------------------------------------------------------
Init ==
  /\ today = 0
  /\ licences = [l \in Licence |-> None]
  /\ renouvellements = [r \in Renouvellement |-> None]
  /\ requests = [q \in Session |-> Idle]
  /\ expireRuns = [x \in ExpireRun |-> {}]
  /\ renewRuns = [x \in RenewRun |-> [todo |-> {}, unaudited |-> None]]
  /\ audit = {}
  /\ faults = 0

Tick ==
  /\ today < MaxDay
  /\ today' = today + 1
  /\ UNCHANGED <<licences, renouvellements, requests, expireRuns, renewRuns,
                 audit, faults>>

-----------------------------------------------------------------------------
(* The use cases on a licence.                                             *)

(* CreateLicenceUseCase reads no row another transaction can write: the    *)
(* reference is a nextval, and the INSERT and its audit commit together.   *)
CreateLicence(l) ==
  /\ ~Created(l)
  /\ \E p \in Period, auto \in BOOLEAN :
       /\ ValidDates(p.debut, p.fin)
       /\ licences' = [licences EXCEPT ![l] = NewLicence(p.debut, p.fin, auto)]
  /\ Log({LicenceChange("LICENCE_CREATED", l, 0)})
  /\ UNCHANGED <<today, renouvellements, requests, expireRuns, renewRuns,
                 faults>>

(* The page the user edits was rendered from some earlier version of the   *)
(* row, which the form sends back as expectedVersion.                      *)
PageVersion(l) == 0 .. licences[l].version

(* UpdateLicenceUseCase, up to its UPDATE; a patch that changes nothing    *)
(* returns before it, whatever version the page had.                       *)
BeginUpdateLicence(q, l) ==
  /\ Created(l)
  /\ licences[l].version < MaxVersion
  /\ \E expected \in PageVersion(l), patch \in ProfileInput :
       LET patched == WithProfile(licences[l], patch)
       IN  /\ ProfileAccepted(licences[l], patch)
           /\ patched # licences[l]
           /\ Open(q, [op |-> "update", licence |-> l, expected |-> expected,
                       seen |-> licences[l], patched |-> patched])

(* ChangeLicenceStatusUseCase, up to its UPDATE.                           *)
BeginChangeStatus(q, l) ==
  /\ Created(l)
  /\ licences[l].version < MaxVersion
  /\ \E expected \in PageVersion(l), status \in LicenceStatus :
       /\ LicenceCanTransition(licences[l].status, status)
       /\ Open(q, [op |-> "changeStatus", licence |-> l, expected |-> expected,
                   seen |-> licences[l],
                   patched |-> WithStatus(licences[l], status)])

LicenceTxVerb(tx) ==
  IF tx.op = "update" THEN "LICENCE_UPDATED"
  ELSE StatusVerb(tx.seen.status, tx.patched.status)

CommitLicence(q) ==
  LET tx == requests[q]
  IN  /\ tx.op \in {"update", "changeStatus"}
      /\ VersionMatches(tx.licence, tx.expected)
      /\ SaveLicence(tx.licence, tx.patched)
      /\ Log({LicenceChange(LicenceTxVerb(tx), tx.licence, tx.expected + 1)})
      /\ Close(q)
      /\ UNCHANGED <<today, renouvellements, expireRuns, renewRuns, faults>>

(* Zero rows updated: SPX-LIC-739, and the transaction rolls back.         *)
RejectLicence(q) ==
  /\ requests[q].op \in {"update", "changeStatus"}
  /\ ~VersionMatches(requests[q].licence, requests[q].expected)
  /\ Close(q)
  /\ UNCHANGED <<today, licences, renouvellements, expireRuns, renewRuns,
                 audit, faults>>

-----------------------------------------------------------------------------
(* The use cases on a renouvellement.                                      *)

(* CreateRenouvellementUseCase: the licence it checks is never deleted.    *)
CreateRenouvellement(r) ==
  /\ ~Exists(r)
  /\ \E l \in Licence, p \in Period :
       /\ Created(l)
       /\ ValidDates(p.debut, p.fin)
       /\ renouvellements' = [renouvellements EXCEPT ![r] =
            [licence |-> l, debut |-> p.debut, fin |-> p.fin,
             status |-> "EN_COURS"]]
  /\ Log({RenewChange("RENOUVELLEMENT_CREATED", r)})
  /\ UNCHANGED <<today, licences, requests, expireRuns, renewRuns, faults>>

BeginAnnuler(q, r) ==
  /\ Exists(r)
  /\ RenewCanTransition(renouvellements[r].status, "ANNULE")
  /\ Open(q, [op |-> "annuler", renouvellement |-> r,
              seen |-> renouvellements[r],
              patched |-> WithStatus(renouvellements[r], "ANNULE")])

BeginUpdateRenouvellement(q, r) ==
  /\ Exists(r)
  /\ renouvellements[r].status = "EN_COURS"
  /\ \E patch \in DatePatch :
       LET debut == Given(patch.debut, renouvellements[r].debut)
           fin   == Given(patch.fin, renouvellements[r].fin)
       IN  /\ patch.debut # Keep \/ patch.fin # Keep => ValidDates(debut, fin)
           /\ Open(q, [op |-> "updateRenouvellement", renouvellement |-> r,
                       seen |-> renouvellements[r],
                       patched |-> [renouvellements[r] EXCEPT
                                      !.debut = debut, !.fin = fin]])

RenewTxVerb(op) ==
  IF op = "annuler" THEN "RENOUVELLEMENT_CANCELLED" ELSE "RENOUVELLEMENT_UPDATED"

CommitRenouvellement(q) ==
  LET tx == requests[q]
  IN  /\ tx.op \in {"annuler", "updateRenouvellement"}
      /\ SaveRenouvellement(tx.renouvellement, tx.patched)
      /\ Log({RenewChange(RenewTxVerb(tx.op), tx.renouvellement)})
      /\ Close(q)
      /\ UNCHANGED <<today, licences, expireRuns, renewRuns, faults>>

(* ValiderRenouvellementUseCase reads the renouvellement, then, in a later *)
(* statement, the licence; it writes both, the licence under the version   *)
(* that second read returned.                                              *)
BeginValider(q, r) ==
  /\ Exists(r)
  /\ RenewCanTransition(renouvellements[r].status, "VALIDE")
  /\ Open(q, [op |-> "valider", renouvellement |-> r,
              seen |-> renouvellements[r]])

ValiderReadLicence(q) ==
  LET tx == requests[q]
  IN  /\ tx.op = "valider"
      /\ licences[tx.seen.licence].version < MaxVersion
      /\ requests' = [requests EXCEPT ![q] =
           [op |-> "validerWrite", renouvellement |-> tx.renouvellement,
            seen |-> tx.seen, licence |-> licences[tx.seen.licence]]]
      /\ UNCHANGED <<today, licences, renouvellements, expireRuns, renewRuns,
                     audit, faults>>

(* Mutant: the dates of the renouvellement are left to the table.          *)
CommitValiderStatusOnly(q) ==
  LET tx      == requests[q]
      l       == tx.seen.licence
      patched == Renewed(tx.licence, tx.seen.debut, tx.seen.fin)
  IN  /\ tx.op = "validerWrite"
      /\ VersionMatches(l, tx.licence.version)
      /\ SaveLicence(l, patched)
      /\ renouvellements' =
           [renouvellements EXCEPT ![tx.renouvellement].status = "VALIDE"]
      /\ Log({RenewalOf(l, tx.licence.version + 1, patched, tx.renouvellement),
              RenewChange("RENOUVELLEMENT_VALIDATED", tx.renouvellement)})
      /\ Close(q)
      /\ UNCHANGED <<today, expireRuns, renewRuns, faults>>

CommitValider(q) ==
  LET tx      == requests[q]
      l       == tx.seen.licence
      patched == Renewed(tx.licence, tx.seen.debut, tx.seen.fin)
  IN  /\ tx.op = "validerWrite"
      /\ VersionMatches(l, tx.licence.version)
      /\ SaveLicence(l, patched)
      /\ SaveRenouvellement(tx.renouvellement, WithStatus(tx.seen, "VALIDE"))
      /\ Log({RenewalOf(l, tx.licence.version + 1, patched, tx.renouvellement),
              RenewChange("RENOUVELLEMENT_VALIDATED", tx.renouvellement)})
      /\ Close(q)
      /\ UNCHANGED <<today, expireRuns, renewRuns, faults>>

(* The licence moved: SPX-LIC-739, nothing is written.                     *)
RejectValider(q) ==
  /\ requests[q].op = "validerWrite"
  /\ ~VersionMatches(requests[q].seen.licence, requests[q].licence.version)
  /\ Close(q)
  /\ UNCHANGED <<today, licences, renouvellements, expireRuns, renewRuns,
                 audit, faults>>

-----------------------------------------------------------------------------
(* The expire-licences job.                                                *)

Overdue(l) ==
  Created(l) /\ licences[l].status = "ACTIF" /\ licences[l].fin < today

(* Mutant: the last day is compared as if the licence ended a day later.   *)
ExpireOneDayLate(x) ==
  LET expired == {l \in Licence : Overdue(l) /\ licences[l].fin + 1 < today}
  IN  /\ expireRuns[x] = {}
      /\ licences' = [l \in Licence |->
           IF l \in expired THEN Expired(licences[l]) ELSE licences[l]]
      /\ expireRuns' = [expireRuns EXCEPT ![x] =
           {[licence |-> l, version |-> licences[l].version + 1] : l \in expired}]
      /\ UNCHANGED <<today, renouvellements, requests, renewRuns, audit, faults>>

(* One UPDATE ... WHERE status = 'ACTIF' AND date_fin < NOW() RETURNING id.*)
ExpireUpdate(x) ==
  LET expired == {l \in Licence : Overdue(l)}
  IN  /\ expireRuns[x] = {}
      /\ licences' = [l \in Licence |->
           IF l \in expired THEN Expired(licences[l]) ELSE licences[l]]
      /\ expireRuns' = [expireRuns EXCEPT ![x] =
           {[licence |-> l, version |-> licences[l].version + 1] : l \in expired}]
      /\ UNCHANGED <<today, renouvellements, requests, renewRuns, audit, faults>>

(* The loop over the rows returned: one INSERT per licence.                *)
ExpireAudit(x) ==
  \E row \in expireRuns[x] :
    /\ Log({LicenceChange("LICENCE_EXPIRED_BY_JOB", row.licence, row.version)})
    /\ expireRuns' = [expireRuns EXCEPT ![x] = @ \ {row}]
    /\ UNCHANGED <<today, licences, renouvellements, requests, renewRuns, faults>>

(* The process dies, or an INSERT throws: the tracker marks the run FAILED *)
(* and pg-boss does not retry it, so the rows left are forgotten.          *)
ExpireDies(x) ==
  /\ faults < MaxFault
  /\ expireRuns[x] # {}
  /\ expireRuns' = [expireRuns EXCEPT ![x] = {}]
  /\ faults' = faults + 1
  /\ UNCHANGED <<today, licences, renouvellements, requests, renewRuns, audit>>

-----------------------------------------------------------------------------
(* The auto-renew-licences job.                                            *)

(* Mutant: a proposal of the job does not count as open.                   *)
RenewalsEnCours(l) ==
  {r \in Renouvellement : /\ Exists(r)
                          /\ renouvellements[r].licence = l
                          /\ renouvellements[r].status = "EN_COURS"}

OpenRenewals(l) ==
  {r \in Renouvellement : /\ Exists(r)
                          /\ renouvellements[r].licence = l
                          /\ renouvellements[r].status \in {"EN_COURS", "CREE"}}

Eligible(l) ==
  /\ Created(l)
  /\ licences[l].auto
  /\ licences[l].status = "ACTIF"
  /\ licences[l].fin <= today + RenewWindow
  /\ licences[l].fin > today
  /\ OpenRenewals(l) = {}

RenewIdle == [todo |-> {}, unaudited |-> None]

(* Mutant: NOT EXISTS without the status, a closed renouvellement blocks.  *)
RenewSelectNeverRenewed(x) ==
  /\ renewRuns[x] = RenewIdle
  /\ renewRuns' = [renewRuns EXCEPT ![x].todo =
       {[licence |-> l, fin |-> licences[l].fin] : l \in
          {k \in Licence :
             /\ Eligible(k)
             /\ \A r \in Renouvellement :
                  Exists(r) => renouvellements[r].licence # k}}]
  /\ UNCHANGED <<today, licences, renouvellements, requests, expireRuns, audit,
                 faults>>

RenewSelect(x) ==
  /\ renewRuns[x] = RenewIdle
  /\ renewRuns' = [renewRuns EXCEPT ![x].todo =
       {[licence |-> l, fin |-> licences[l].fin] : l \in {k \in Licence : Eligible(k)}}]
  /\ UNCHANGED <<today, licences, renouvellements, requests, expireRuns, audit,
                 faults>>

(* Renouvellement.createForJob and its INSERT, from the row selected.      *)
RenewSave(x, r) ==
  /\ renewRuns[x].unaudited = None
  /\ ~Exists(r)
  /\ \E row \in renewRuns[x].todo :
       /\ renouvellements' = [renouvellements EXCEPT ![r] =
            [licence |-> row.licence, debut |-> row.fin,
             fin |-> row.fin + RenewDuration, status |-> "CREE"]]
       /\ renewRuns' = [renewRuns EXCEPT ![x] =
            [todo |-> @.todo \ {row}, unaudited |-> r]]
  /\ UNCHANGED <<today, licences, requests, expireRuns, audit, faults>>

RenewAudit(x) ==
  /\ renewRuns[x].unaudited # None
  /\ Log({RenewChange("RENOUVELLEMENT_CREATED_BY_JOB", renewRuns[x].unaudited)})
  /\ renewRuns' = [renewRuns EXCEPT ![x].unaudited = None]
  /\ UNCHANGED <<today, licences, renouvellements, requests, expireRuns, faults>>

(* The INSERT of the row or that of its audit throws: the loop catches it     *)
(* and takes the next row.                                                    *)
RenewSkip(x) ==
  /\ faults < MaxFault
  /\ \/ /\ renewRuns[x].unaudited # None
        /\ renewRuns' = [renewRuns EXCEPT ![x].unaudited = None]
     \/ /\ renewRuns[x].unaudited = None
        /\ \E row \in renewRuns[x].todo :
             renewRuns' = [renewRuns EXCEPT ![x].todo = @ \ {row}]
  /\ faults' = faults + 1
  /\ UNCHANGED <<today, licences, renouvellements, requests, expireRuns, audit>>

RenewDies(x) ==
  /\ faults < MaxFault
  /\ renewRuns[x] # RenewIdle
  /\ renewRuns' = [renewRuns EXCEPT ![x] = RenewIdle]
  /\ faults' = faults + 1
  /\ UNCHANGED <<today, licences, renouvellements, requests, expireRuns, audit>>

-----------------------------------------------------------------------------
LicenceUseCase(q) ==
  \/ \E l \in Licence : BeginUpdateLicence(q, l) \/ BeginChangeStatus(q, l)
  \/ CommitLicence(q)
  \/ RejectLicence(q)

RenouvellementUseCase(q) ==
  \/ \E r \in Renouvellement :
       \/ BeginAnnuler(q, r)
       \/ BeginUpdateRenouvellement(q, r)
       \/ BeginValider(q, r)
  \/ CommitRenouvellement(q)
  \/ ValiderReadLicence(q)
  \/ CommitValider(q)
  \/ RejectValider(q)

ExpireJob(x) == ExpireUpdate(x) \/ ExpireAudit(x) \/ ExpireDies(x)

RenewJob(x) ==
  \/ RenewSelect(x)
  \/ \E r \in Renouvellement : RenewSave(x, r)
  \/ RenewAudit(x)
  \/ RenewSkip(x)
  \/ RenewDies(x)

Next ==
  \/ Tick
  \/ \E l \in Licence : CreateLicence(l)
  \/ \E r \in Renouvellement : CreateRenouvellement(r)
  \/ \E q \in Session : LicenceUseCase(q) \/ RenouvellementUseCase(q)
  \/ \E x \in ExpireRun : ExpireJob(x)
  \/ \E x \in RenewRun : RenewJob(x)

Spec == Init /\ [][Next]_vars

(* The worker's cron starts each job every day and a handler that has      *)
(* started runs on, so the jobs' own steps are weakly fair; a handler that *)
(* dies is started again the next day.  Users owe nothing.                 *)
JobFairness ==
  /\ \A x \in ExpireRun : WF_vars(ExpireUpdate(x)) /\ WF_vars(ExpireAudit(x))
  /\ \A x \in RenewRun :
       /\ WF_vars(RenewSelect(x))
       /\ WF_vars(\E r \in Renouvellement : RenewSave(x, r))
       /\ WF_vars(RenewAudit(x))

FairSpec == Spec /\ JobFairness

-----------------------------------------------------------------------------
(* The tables hold rows of their types, a started transaction holds rows   *)
(* of theirs, and the runs hold rows of the tables they selected from.     *)
TypeOK ==
  /\ today \in Nat
  /\ licences \in [Licence -> LicenceRow \cup {None}]
  /\ renouvellements \in [Renouvellement -> RenewRow(Licence) \cup {None}]
  /\ requests \in [Session -> Transaction]
  /\ expireRuns \in [ExpireRun -> SUBSET [licence : Licence, version : Nat]]
  /\ renewRuns \in [RenewRun -> [todo : SUBSET [licence : Licence, fin : Int],
                                 unaudited : Renouvellement \cup {None}]]
  /\ audit \subseteq LicenceEvent \cup RenewedEvent \cup RenewEvent
  /\ faults \in Nat

InLicenceTx(q) == requests[q].op \in {"update", "changeStatus"}

(* Rule L4.  A transaction whose version check would let it write holds    *)
(* the licence exactly as it is in the table: whatever was committed since *)
(* it read, by a user, a renewal or the expire job, makes its UPDATE match *)
(* no row.  No field it was not asked to change can go back to an older    *)
(* value.                                                                  *)
StaleWriteRefused ==
  \A q \in Session :
    /\ InLicenceTx(q) =>
         \/ ~VersionMatches(requests[q].licence, requests[q].expected)
         \/ requests[q].seen = licences[requests[q].licence]
    /\ requests[q].op = "validerWrite" =>
         \/ ~VersionMatches(requests[q].seen.licence, requests[q].licence.version)
         \/ requests[q].licence = licences[requests[q].seen.licence]

(* An expired licence comes back only through the validation of one of its *)
(* renouvellements, with the period of that renouvellement; a request that *)
(* read it before the expire job committed cannot revive it.               *)
ExpireLeftOnlyByRenewal ==
  [][\A l \in Licence :
       Created(l) /\ licences[l].status = "EXPIRE" =>
         \/ licences'[l].status = "EXPIRE"
         \/ /\ licences'[l].status = "ACTIF"
            /\ \E r \in Renouvellement :
                 /\ renouvellements'[r] =
                      [licence |-> l, debut |-> licences'[l].debut,
                       fin |-> licences'[l].fin, status |-> "VALIDE"]
                 /\ RenewChange("RENOUVELLEMENT_VALIDATED", r) \in audit']_vars

LicenceEvents(l, v) ==
  {e \in audit : e \in LicenceEvent \cup RenewedEvent /\ e.licence = l /\ e.version = v}

AuditOwed(l, v) ==
  \E x \in ExpireRun : [licence |-> l, version |-> v] \in expireRuns[x]

(* Rule L3, as far as the code keeps it.  As long as no job run has died,  *)
(* each write a licence went through, its creation first, is in the audit  *)
(* log or is owed to it by an expire run still going.                      *)
AuditAccountsForWrites ==
  faults = 0 =>
    \A l \in Licence : Created(l) =>
      \A v \in 0 .. licences[l].version :
        LicenceEvents(l, v) # {} \/ AuditOwed(l, v)

(* No write is accounted for twice, and none is before it happened: two    *)
(* concurrent requests cannot both claim the same version.                 *)
AuditOnePerWrite ==
  \A l \in Licence : \A e, f \in audit :
    /\ e \in LicenceEvent \cup RenewedEvent /\ f \in LicenceEvent \cup RenewedEvent
    /\ e.licence = l /\ f.licence = l
    => /\ Created(l)
       /\ e.version <= licences[l].version
       /\ e.version = f.version => e = f

(* The audit log is an exact account of the writes to lic_licences: one row *)
(* for each, as long as no run has died, and none for anything else.       *)
AuditExact == AuditAccountsForWrites /\ AuditOnePerWrite

(* A renouvellement that reads VALIDE shows the very period its licence    *)
(* was given when it was validated, even if it was edited meanwhile.       *)
ValidatedPeriodApplied ==
  \A r \in Renouvellement :
    Exists(r) /\ renouvellements[r].status = "VALIDE" =>
      \E e \in audit :
        /\ e \in RenewedEvent
        /\ e.renouvellement = r
        /\ e.licence = renouvellements[r].licence
        /\ e.debut = renouvellements[r].debut
        /\ e.fin = renouvellements[r].fin

(* With one auto-renew run at a time, a licence never has two proposals of *)
(* the job waiting.                                                        *)
OneProposalPerLicence ==
  \A r, s \in Renouvellement :
    /\ Exists(r) /\ renouvellements[r].status = "CREE"
    /\ Exists(s) /\ renouvellements[s].status = "CREE"
    /\ renouvellements[r].licence = renouvellements[s].licence
    => r = s

(* Every licence left active past its end is dealt with: the expire job    *)
(* takes it, unless a user moves its dates or its status first.            *)
OverdueExpires ==
  \A l \in Licence : Overdue(l) ~> ~Overdue(l)

(* The bound on lic_renouvellements rows is reached: no INSERT is left.    *)
RowsExhausted == \A r \in Renouvellement : Exists(r)

(* A licence set to renew itself gets a renouvellement, or leaves the      *)
(* window by an edit or by reaching its end.                               *)
EligibleProposed ==
  \A l \in Licence : Eligible(l) ~> ~Eligible(l) \/ RowsExhausted

(* The inductive invariant.  Every row and every open transaction refers   *)
(* to licences that exist (rows of lic_licences are never deleted) ...     *)
TxReferences(q) ==
  /\ InLicenceTx(q) => Created(requests[q].licence)
  /\ requests[q].op \in {"annuler", "updateRenouvellement", "valider",
                         "validerWrite"}
       => Created(requests[q].seen.licence)
  /\ requests[q].op \in {"annuler", "updateRenouvellement"}
       => requests[q].patched.licence = requests[q].seen.licence

References ==
  /\ \A r \in Renouvellement :
       Exists(r) => Created(renouvellements[r].licence)
  /\ \A q \in Session : TxReferences(q)
  /\ \A x \in RenewRun : \A row \in renewRuns[x].todo : Created(row.licence)

(* ... and a row read earlier is the row in the table or has an older      *)
(* version: no write to lic_licences leaves the version as it was.         *)
SnapshotOf(row, l) ==
  /\ row.version <= licences[l].version
  /\ row.version = licences[l].version => row = licences[l]

TxSnapshot(q) ==
  /\ InLicenceTx(q) =>
       /\ requests[q].expected <= requests[q].seen.version
       /\ SnapshotOf(requests[q].seen, requests[q].licence)
  /\ requests[q].op = "validerWrite" =>
       SnapshotOf(requests[q].licence, requests[q].seen.licence)

Snapshots == \A q \in Session : TxSnapshot(q)

(* Every period is ordered, and a patched row differs from the row it was  *)
(* made from by what its use case may change.                              *)
TxPatch(tx) ==
  /\ tx.op = "update" =>
       /\ ValidDates(tx.patched.debut, tx.patched.fin)
       /\ tx.patched.status = tx.seen.status
  /\ tx.op = "changeStatus" =>
       /\ LicenceCanTransition(tx.seen.status, tx.patched.status)
       /\ tx.patched = WithStatus(tx.seen, tx.patched.status)
  /\ tx.op \in {"annuler", "updateRenouvellement"} =>
       ValidDates(tx.patched.debut, tx.patched.fin)
  /\ tx.op \in {"valider", "validerWrite"} =>
       ValidDates(tx.seen.debut, tx.seen.fin)

Patches ==
  /\ \A l \in Licence :
       Created(l) => ValidDates(licences[l].debut, licences[l].fin)
  /\ \A r \in Renouvellement :
       Exists(r) => ValidDates(renouvellements[r].debut, renouvellements[r].fin)
  /\ \A q \in Session : TxPatch(requests[q])

Abstract == INSTANCE AtomicLicence

(* Requests, jobs and renewals running together change the licences as if  *)
(* each acted at one instant, one after the other.                         *)
LicencesAreAtomic == Abstract!Spec

-----------------------------------------------------------------------------
(* What the comments of the code say and its interleavings refute.         *)

(* "Les autres statuts (VALIDE, CREE, ANNULE) sont terminaux."  A          *)
(* cancellation or an edit that read the row EN_COURS before a validation  *)
(* committed writes its own status over VALIDE.                            *)
TerminalStatusKept ==
  [][\A r \in Renouvellement :
       Exists(r) /\ renouvellements[r].status # "EN_COURS" =>
         renouvellements'[r].status = renouvellements[r].status]_vars

(* "1 tx -> 1 licence a jour + 1 renouvellement VALIDE": a renouvellement  *)
(* renews its licence once.  Two validations can both read it EN_COURS, the*)
(* second one reading the licence after the first has committed.           *)
RenewedOnce ==
  \A e, f \in audit :
    /\ e \in RenewedEvent /\ f \in RenewedEvent
    /\ e.renouvellement = f.renouvellement
    => e = f

(* "L'audit reste obligatoire": each write of a licence is in the log or   *)
(* still owed by a run, even when runs die.                                *)
AuditMandatory ==
  \A l \in Licence : Created(l) =>
    \A v \in 0 .. licences[l].version :
      LicenceEvents(l, v) # {} \/ AuditOwed(l, v)

(* "PAS de renouvellement EN_COURS ou CREE existant": the job proposes a   *)
(* renouvellement only to a licence that has none open.                    *)
ProposedOnlyWhenNoneOpen ==
  [][\A r \in Renouvellement :
       ~Exists(r) /\ renouvellements'[r] # None =>
         \/ renouvellements'[r].status # "CREE"
         \/ OpenRenewals(renouvellements'[r].licence) = {}]_vars

(* Users who try again and again everything the application offers them    *)
(* on a renouvellement, and whose transactions finish.                     *)
UserPersistence ==
  \A q \in Session :
    /\ \A r \in Renouvellement :
         /\ SF_vars(BeginValider(q, r))
         /\ SF_vars(BeginAnnuler(q, r))
         /\ SF_vars(BeginUpdateRenouvellement(q, r))
    /\ WF_vars(CommitRenouvellement(q))
    /\ WF_vars(ValiderReadLicence(q))
    /\ WF_vars(CommitValider(q) \/ RejectValider(q))
    /\ WF_vars(CommitLicence(q) \/ RejectLicence(q))

PersistentSpec == FairSpec /\ UserPersistence

(* "L'admin doit le passer en EN_COURS s'il veut le valider": a proposal   *)
(* of the job can be decided by users who persist.                         *)
ProposalDecided ==
  \A r \in Renouvellement :
    LET Waiting == Exists(r) /\ renouvellements[r].status = "CREE"
    IN  Waiting ~> ~Waiting
=============================================================================
