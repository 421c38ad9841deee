------------------------------ MODULE DemoData ------------------------------
(***************************************************************************)
(* The demonstration data: purgeDemoData, one TRUNCATE of the business     *)
(* tables, and reloadDemoData, which runs the seeds of phases 4 to 10 one  *)
(* after the other.  Each seed first looks whether its table has rows; its *)
(* inserts then commit one by one, each with the rows that belong to it.   *)
(* Administrators may launch the two at once, a statement may fail and the *)
(* process may die; a reload is launched again.  The catalogue and the     *)
(* settings are not purged.  A row created after a purge is not the row    *)
(* there was: its era tells.                                               *)
(***************************************************************************)
EXTENDS Integers, FiniteSets

CONSTANTS
  DemoCode,   \* CLIENT_SEEDS, by code
  Pilot,      \* the clients with a branch, a renewal, an alert and a file
  Rich,       \* articles every licence is given: two or three
  Notice,     \* NOTIF_SEEDS
  Reload,     \* sessions of administrators
  MaxCopies,  \* bound: rows of one kind for one seed
  MaxReloads, \* bound: reloads launched
  MaxPurges,  \* bound: purges
  MaxFailures \* bound: reloads that fail or die on their own

ASSUME DemoAssumption ==
  /\ Pilot \subseteq DemoCode /\ IsFiniteSet(DemoCode) /\ DemoCode # {} /\ Rich # {}
  /\ MaxCopies \in Nat /\ MaxPurges \in Nat

VARIABLES
  era,
  seeded,    \* rows of lic_clients, with their head office
  fiches,    \* branches and contacts of the clients
  granted,   \* rows of lic_licences
  renewals,  \* licences with a renouvellement
  given,     \* rows of lic_licence_articles
  tracked,   \* licences with volume snapshots
  alerts,    \* rows of lic_alert_configs
  notices,   \* rows of lic_notifications with the demonstration's tag
  files,     \* licences with rows in lic_fichiers_log
  reloads,   \* the reload each session runs
  launched,
  failures,
  overlapped \* history: a reload ran beside another reload or a purge since
             \* the base was last emptied with none running

base == <<seeded, fiches, granted, renewals, given, tracked, alerts, notices, files>>
demoVars == <<era, base, reloads, launched, failures, overlapped>>

ClientSeed == [code : DemoCode, era : 0 .. MaxPurges]

LicenceSeed == [of : ClientSeed, no : 1 .. MaxCopies]

NotLoading == [at |-> "idle"]

Loading(q) == reloads[q].at \notin {"idle", "done", "failed"}

EmptyBase == base = <<{}, {}, {}, {}, {}, {}, {}, {}, {}>>

DemoInit ==
  /\ era = 0
  /\ seeded = {} /\ fiches = {} /\ granted = {} /\ renewals = {} /\ given = {}
  /\ tracked = {} /\ alerts = {} /\ notices = {} /\ files = {}
  /\ reloads = [q \in Reload |-> NotLoading]
  /\ launched = 0 /\ failures = 0 /\ overlapped = FALSE

-----------------------------------------------------------------------------
(* A loop over what was read; known is what the loop before it created.    *)
LoopOver(q, at, todo) ==
  reloads' = [reloads EXCEPT ![q].at = at, ![q].todo = todo]

Advance(q, x, new) ==
  reloads' = [reloads EXCEPT ![q].todo = @ \ {x}, ![q].known = @ \cup new]

(* The loops run over arrays: always the same row is the next.             *)
NextRow(q) ==
  LET todo == reloads[q].todo IN IF todo = {} THEN {} ELSE {CHOOSE x \in todo : TRUE}

LoopEnded(q, at) == reloads[q].at = at /\ reloads[q].todo = {}

(* The statement is refused: step() reports it and nothing more runs.      *)
StepFails(q) == reloads' = [reloads EXCEPT ![q].at = "failed"] /\ UNCHANGED base

(* The foreign keys.                                                       *)
Referable(rows, row) == row \in rows

CopyNo(rows) == Cardinality(rows) + 1

(* reloadDemoAction.  quiet is set until another reload or a purge runs    *)
(* beside it.                                                              *)
LaunchReload(q) ==
  /\ ~Loading(q) /\ launched < MaxReloads
  /\ launched' = launched + 1
  /\ LET alone == \A p \in Reload : ~Loading(p)
     IN  /\ reloads' = [p \in Reload |->
           IF p = q THEN [at |-> "phase4", todo |-> {}, known |-> {},
                          fresh |-> EmptyBase, quiet |-> alone]
           ELSE IF Loading(p) THEN [reloads[p] EXCEPT !.quiet = FALSE]
           ELSE reloads[p]]
         /\ overlapped' = (overlapped \/ ~alone)
  /\ UNCHANGED <<era, base, failures>>

(* seedPhase4Clients: nothing if there is a client.                        *)
Phase4(q) ==
  /\ reloads[q].at = "phase4"
  /\ IF seeded # {} THEN LoopOver(q, "phase5", {}) ELSE LoopOver(q, "clients", DemoCode)
  /\ UNCHANGED base

SeedClient(q) ==
  /\ reloads[q].at = "clients"
  /\ \E code \in NextRow(q) :
       LET row == [code |-> code, era |-> era]
       IN  IF \E r \in seeded : r.code = code THEN StepFails(q)
           ELSE /\ seeded' = seeded \cup {row}
                /\ Advance(q, code, {row})
                /\ UNCHANGED <<fiches, granted, renewals, given, tracked, alerts, notices, files>>

Piloted(rows) == {r \in rows : r.code \in Pilot}

EndClients(q) ==
  /\ LoopEnded(q, "clients")
  /\ LoopOver(q, "branches", Piloted(reloads[q].known))
  /\ UNCHANGED base

(* Contacts go to the head offices found by a SELECT.                      *)
EndBranches(q) ==
  /\ LoopEnded(q, "branches")
  /\ LoopOver(q, "contacts", reloads[q].known \cap seeded)
  /\ UNCHANGED base

SeedFiche(q, at) ==
  /\ reloads[q].at = at
  /\ \E row \in NextRow(q) :
       IF ~Referable(seeded, row) THEN StepFails(q)
       ELSE /\ fiches' = fiches \cup {<<at, row>>}
            /\ Advance(q, row, {})
            /\ UNCHANGED <<seeded, granted, renewals, given, tracked, alerts, notices, files>>

EndContacts(q) ==
  /\ LoopEnded(q, "contacts")
  /\ LoopOver(q, "phase5", {})
  /\ UNCHANGED base

(* Mutant: the licences already there are not looked at.                   *)
Phase5Regrants(q) ==
  /\ reloads[q].at = "phase5"
  /\ IF seeded = {} THEN LoopOver(q, "phase6", {})
     ELSE reloads' = [reloads EXCEPT ![q].at = "licences", ![q].todo = seeded, ![q].known = {}]
  /\ UNCHANGED base

(* seedPhase5Licences: nothing if there is a licence, or no client.        *)
Phase5(q) ==
  /\ reloads[q].at = "phase5"
  /\ IF granted # {} \/ seeded = {} THEN LoopOver(q, "phase6", {})
     ELSE reloads' = [reloads EXCEPT ![q].at = "licences", ![q].todo = seeded, ![q].known = {}]
  /\ UNCHANGED base

(* The reference comes from a sequence: a client may be given two.         *)
SeedLicence(q) ==
  /\ reloads[q].at = "licences"
  /\ \E row \in NextRow(q) :
       LET licence == [of |-> row, no |-> CopyNo({l \in granted : l.of = row})]
       IN  IF ~Referable(seeded, row) THEN StepFails(q)
           ELSE /\ licence.no <= MaxCopies
                /\ granted' = granted \cup {licence}
                /\ Advance(q, row, {licence})
                /\ UNCHANGED <<seeded, fiches, renewals, given, tracked, alerts, notices, files>>

EndLicences(q) ==
  /\ LoopEnded(q, "licences")
  /\ LoopOver(q, "renewals", {l \in reloads[q].known : l.of.code \in Pilot})
  /\ UNCHANGED base

SeedRenewal(q) ==
  /\ reloads[q].at = "renewals"
  /\ \E l \in NextRow(q) :
       IF ~Referable(granted, l) THEN StepFails(q)
       ELSE /\ renewals' = renewals \cup {l}
            /\ Advance(q, l, {})
            /\ UNCHANGED <<seeded, fiches, granted, given, tracked, alerts, notices, files>>

EndRenewals(q) ==
  /\ LoopEnded(q, "renewals")
  /\ LoopOver(q, "phase6", {})
  /\ UNCHANGED base

WithArticles == {l \in granted : \E a \in Rich : <<l, a>> \in given}

(* seedPhase6Catalogue: where articles were given already, the licences    *)
(* that have none are filled in; else every licence.                       *)
Phase6(q) ==
  /\ reloads[q].at = "phase6"
  /\ IF given # {} THEN LoopOver(q, "backfill", (granted \ WithArticles) \X Rich)
     ELSE IF granted = {} THEN LoopOver(q, "phase7", {})
     ELSE reloads' = [reloads EXCEPT ![q].at = "links", ![q].todo = granted, ![q].known = {}]
  /\ UNCHANGED base

(* seedLicenceLiaisons: the product and the articles of a licence in one   *)
(* transaction, which uq_licence_articles_licence_article may refuse.      *)
SeedLinks(q) ==
  /\ reloads[q].at = "links"
  /\ \E l \in NextRow(q) :
       IF ~Referable(granted, l) \/ l \in WithArticles THEN StepFails(q)
       ELSE /\ given' = given \cup ({l} \X Rich)
            /\ Advance(q, l, {l})
            /\ UNCHANGED <<seeded, fiches, granted, renewals, tracked, alerts, notices, files>>

(* seedVolumeSnapshots: through the repository, no snapshot may be there.  *)
EndLinks(q) ==
  /\ LoopEnded(q, "links")
  /\ LoopOver(q, "snapshots", reloads[q].known)
  /\ UNCHANGED base

SeedSnapshots(q) ==
  /\ reloads[q].at = "snapshots"
  /\ \E l \in NextRow(q) :
       IF ~Referable(granted, l) \/ l \in tracked THEN StepFails(q)
       ELSE /\ tracked' = tracked \cup {l}
            /\ Advance(q, l, {})
            /\ UNCHANGED <<seeded, fiches, granted, renewals, given, alerts, notices, files>>

(* backfillMissingLiaisons: one INSERT ... ON CONFLICT DO NOTHING a row.   *)
Backfill(q) ==
  /\ reloads[q].at = "backfill"
  /\ \E link \in NextRow(q) :
       IF ~Referable(granted, link[1]) THEN StepFails(q)
       ELSE /\ given' = given \cup {link}
            /\ Advance(q, link, {})
            /\ UNCHANGED <<seeded, fiches, granted, renewals, tracked, alerts, notices, files>>

EndLiaisons(q) ==
  /\ LoopEnded(q, "snapshots") \/ LoopEnded(q, "backfill")
  /\ LoopOver(q, "phase7", {})
  /\ UNCHANGED base

(* seedPhase7VolumeSnapshots: nothing if there is a snapshot.  Of the      *)
(* licences with a controlled article it takes the first five.             *)
Phase7(q) ==
  /\ reloads[q].at = "phase7"
  /\ LoopOver(q, "history", IF tracked # {} THEN {} ELSE WithArticles)
  /\ UNCHANGED base

SeedHistory(q) ==
  /\ reloads[q].at = "history"
  /\ \E l \in NextRow(q) :
       IF ~Referable(granted, l) THEN StepFails(q)
       ELSE /\ tracked' = tracked \cup {l}
            /\ Advance(q, l, {})
            /\ UNCHANGED <<seeded, fiches, granted, renewals, given, alerts, notices, files>>

(* seedPhase8Alerts.                                                       *)
EndHistory(q) ==
  /\ LoopEnded(q, "history")
  /\ LoopOver(q, "alerts", Piloted(seeded))
  /\ UNCHANGED base

AlertsOf(row) == {a \in alerts : a.of = row}

(* INSERT ... WHERE NOT EXISTS: two at once may both find none.            *)
SeedAlert(q) ==
  /\ reloads[q].at = "alerts"
  /\ \E row \in NextRow(q) :
       LET alert == [of |-> row, no |-> CopyNo(AlertsOf(row))]
           twin  == \E p \in Reload \ {q} : reloads[p].at = "alerts"
       IN  IF ~Referable(seeded, row) THEN StepFails(q)
           ELSE /\ Advance(q, row, {})
                /\ \/ AlertsOf(row) # {} /\ UNCHANGED alerts
                   \/ /\ AlertsOf(row) = {} \/ (twin /\ alert.no <= MaxCopies)
                      /\ alerts' = alerts \cup {alert}
                /\ UNCHANGED <<seeded, fiches, granted, renewals, given, tracked, notices, files>>

(* seedPhase8Notifications: nothing if a notification has the tag.         *)
EndAlerts(q) ==
  /\ LoopEnded(q, "alerts")
  /\ LoopOver(q, "notices", IF notices # {} THEN {} ELSE Notice)
  /\ UNCHANGED base

SeedNotice(q) ==
  /\ reloads[q].at = "notices"
  /\ \E n \in NextRow(q) :
       LET copy == <<n, CopyNo({m \in notices : m[1] = n})>>
       IN  /\ copy[2] <= MaxCopies
           /\ notices' = notices \cup {copy}
           /\ Advance(q, n, {})
           /\ UNCHANGED <<seeded, fiches, granted, renewals, given, tracked, alerts, files>>

(* Of the licences of a client, the one the SELECT returned last.          *)
LicencesByCode == {CHOOSE l \in granted : l.of = r : r \in {l.of : l \in granted}}

(* seedPhase10Fichiers: nothing if a file has the tag.                     *)
EndNotices(q) ==
  /\ LoopEnded(q, "notices")
  /\ LoopOver(q, "files", IF files # {} THEN {} ELSE {l \in LicencesByCode : l.of.code \in Pilot})
  /\ UNCHANGED base

SeedFile(q) ==
  /\ reloads[q].at = "files"
  /\ \E l \in NextRow(q) :
       IF ~Referable(granted, l) THEN StepFails(q)
       ELSE /\ files' = files \cup {l}
            /\ Advance(q, l, {})
            /\ UNCHANGED <<seeded, fiches, granted, renewals, given, tracked, alerts, notices>>

EndReload(q) ==
  /\ LoopEnded(q, "files")
  /\ LoopOver(q, "done", {})
  /\ UNCHANGED base

ReloadStep(q) ==
  /\ \/ Phase4(q) \/ SeedClient(q) \/ EndClients(q) \/ EndBranches(q) \/ EndContacts(q)
     \/ SeedFiche(q, "branches") \/ SeedFiche(q, "contacts")
     \/ Phase5(q) \/ SeedLicence(q) \/ EndLicences(q) \/ SeedRenewal(q) \/ EndRenewals(q)
     \/ Phase6(q) \/ SeedLinks(q) \/ EndLinks(q) \/ SeedSnapshots(q)
     \/ Backfill(q) \/ EndLiaisons(q)
     \/ Phase7(q) \/ SeedHistory(q) \/ EndHistory(q)
     \/ SeedAlert(q) \/ EndAlerts(q) \/ SeedNotice(q) \/ EndNotices(q)
     \/ SeedFile(q) \/ EndReload(q)
  /\ UNCHANGED <<era, launched, failures, overlapped>>

(* A statement fails, or the process dies.                                 *)
ReloadFails(q) ==
  /\ Loading(q) /\ failures < MaxFailures
  /\ failures' = failures + 1
  /\ StepFails(q)
  /\ UNCHANGED <<era, launched, overlapped>>

(* purgeDemoAction.                                                        *)
Purge ==
  /\ era < MaxPurges
  /\ era' = era + 1
  /\ seeded' = {} /\ fiches' = {} /\ granted' = {} /\ renewals' = {} /\ given' = {}
  /\ tracked' = {} /\ alerts' = {} /\ notices' = {} /\ files' = {}
  /\ reloads' = [q \in Reload |-> IF Loading(q) THEN [reloads[q] EXCEPT !.quiet = FALSE]
                                  ELSE NotLoading]
  /\ overlapped' = (\E q \in Reload : Loading(q))
  /\ UNCHANGED <<launched, failures>>

DemoNext ==
  \/ \E q \in Reload : LaunchReload(q) \/ ReloadStep(q) \/ ReloadFails(q)
  \/ Purge

DemoSpec == DemoInit /\ [][DemoNext]_demoVars

-----------------------------------------------------------------------------
(* Rows belong to rows that are there.                                     *)
DemoTypeOK ==
  /\ seeded \subseteq ClientSeed
  /\ fiches \subseteq {"branches", "contacts"} \X seeded
  /\ granted \subseteq LicenceSeed /\ \A l \in granted : l.of \in seeded
  /\ renewals \cup tracked \cup files \subseteq granted
  /\ given \subseteq granted \X Rich
  /\ \A a \in alerts : a.of \in seeded
  /\ \A n \in notices : n[1] \in Notice

Complete ==
  /\ {r.code : r \in seeded} = DemoCode
  /\ fiches = ({"contacts"} \X seeded) \cup ({"branches"} \X Piloted(seeded))
  /\ {l.of : l \in granted} = seeded
  /\ renewals = {l \in granted : l.of.code \in Pilot} /\ files = renewals
  /\ given = granted \X Rich
  /\ tracked = granted
  /\ {a.of : a \in alerts} = Piloted(seeded)
  /\ {n[1] : n \in notices} = Notice

(* Launched on a purged base, a reload nothing ran beside that ends well   *)
(* has loaded the whole demonstration.                                     *)
FreshReloadComplete ==
  \A q \in Reload :
    reloads[q].at = "done" /\ reloads[q].fresh /\ reloads[q].quiet => Complete

(* However reloads before it broke off, one that ends well with nothing    *)
(* beside it leaves no licence without articles.                           *)
ReloadFillsLicences ==
  \A q \in Reload :
    reloads[q].at = "done" /\ reloads[q].quiet => granted = WithArticles

(* A client has two licences of the demonstration only if two reloads, or  *)
(* a purge and a reload, ran at once.                                      *)
LicencePerClient ==
  ~overlapped => \A l, m \in granted : l.of = m.of => l = m

(* A reload does what it says when nothing runs beside it: on a purged base *)
(* it loads everything, on any base it leaves no licence without articles, *)
(* and it never gives a client a second licence.                           *)
ReloadsExact ==
  DemoTypeOK /\ FreshReloadComplete /\ ReloadFillsLicences /\ LicencePerClient

-----------------------------------------------------------------------------
(* What the comments of the seeds promise and the steps refute.            *)

(* "Idempotent", "reset complet": a reload that ends well on a base where  *)
(* an earlier one broke off leaves clients, contacts, renewals or          *)
(* notifications missing, since their tables have rows.                    *)
ReloadRepairs == \A q \in Reload : reloads[q].at = "done" /\ reloads[q].quiet => Complete

(* One licence for each client, whatever runs at once.                     *)
LicencePerClientAlways == \A l, m \in granted : l.of = m.of => l = m
=============================================================================
