# TLA+ verification of lic_portal_v2

S2M's licence portal (`src/`) is a Next.js application over one PostgreSQL
database, with a second process, the worker, that runs nightly and monthly jobs
through pg-boss. Its back end is a set of hexagonal modules under
`src/app/src/server/modules/<module>/`: `domain/` (entities and their rules),
`application/` (one use case per operation), `adapters/postgres/` (repositories).
Its front end is a set of React pages that call server actions.

The state the server keeps is rows of `lic_*` tables; what makes it hard is what
PostgreSQL makes hard when its default isolation level, READ COMMITTED, is all
there is: a use case reads rows, computes, and writes rows that others may have
changed; the jobs, the file generation and the reload of the demonstration data
do not even run in a transaction; the worker and the web process run the same
handlers side by side. The state a page keeps is React state: it survives the
requests it sent, whose answers arrive when something else may be on the screen.

Two rules of the project (`src/PROJECT_CONTEXT_LIC.md:527-528`) set the tone of
this verification: **L3**, every mutation writes its audit row in the same
transaction, and **L4**, edits are protected by an optimistic lock on `version`.

Contents: [inventory](#1-inventory), [plan](#2-plan), [modules](#3-the-modules),
[runs](#4-the-runs), [fairness](#5-fairness), [proofs](#6-the-proofs),
[disagreements](#7-where-the-code-and-its-comments-disagree),
[limits](#8-what-is-only-model-checked-and-what-is-not-modelled).

## 1. Inventory

`PROJECT.json` lists every component with its status, and every hazard at its line.

| Component | State | Operations | Talks to | Hard part | What makes it correct |
|---|---|---|---|---|---|
| licence | `lic_licences`: dates, status, `version`, auto-renewal flag, hash of the last file | create, update, change status | renouvellement, jobs, audit | two forms open on one version; a job that writes beside them | a write based on an old row is refused; every write is audited once; EXPIRE is left by a renewal only |
| renouvellement | `lic_renouvellements`: dates, status EN_COURS/CREE/VALIDE/ANNULE | create, update, cancel, validate (which renews the licence) | licence, audit, auto-renew job | no version column: the row is written back as read | a validated renewal shows the period the licence was given |
| jobs expire-licences, auto-renew-licences | none of their own | one statement after another, no transaction | licence, renouvellement, audit, notification | crash between two statements; two runs at once | overdue licences expire, expiring ones get one proposal |
| licence-produit, licence-article | the products and articles attached to a licence, with volumes | add, remove, update a volume | fichier-log | both volumes are written whichever was edited | a removed row stays removed |
| fichier-log, generation | `lic_fichiers_log`, `last_lic_file_hash` | generate the `.lic`, staleness banner | licence content, crypto, client | content and hash are read at different moments, outside any transaction | a file generated in peace is current and called fresh |
| fichier-log, healthcheck import | the same rows | import a report, entry by entry | article, licence-article | one failing entry in the middle, a death in the loop | every volume written is traced; ERREUR means nothing was written |
| crypto (PKI) | the CA, a row of `lic_settings`; certificates, columns of `lic_clients` | generate, import, delete the CA; backfill certificates | client, settings, fichier-log | CA replaced or deleted while something is being signed with it | one CA signed everything the portal holds; the log tells which |
| client | `lic_clients`: profile, statut, `version`, certificate | create (with head office, contacts and certificate), update, change statut | crypto, entite, contact | the certificate columns are written beside the lock; a patch that changes nothing returns before it | as licence; RESILIE is final; codes unique; the log tells the statut |
| entite, contact | rows of a client | create, update, toggle, delete | client, audit | whole row written back as read; deletion beside an edit | names unique; the log tells the row if nothing overlaps |
| user | `lic_users`: role, flag, hash, failures, token version | create, update, toggle, reset, forgot, change password | audit, email | every write computed from an old row; two administrators; boot inserts an account | matricules unique; the log tells who is active |
| auth | tokens in browsers | login attempts, session check at each request | user, rate-limit | counters read, a slow hash, counters written | a live session was opened with the password of today; lockouts are logged |
| rate-limit | buckets in a process | count in a window | server actions | fixed window | twice the maximum at most in a window's time |
| jobs: tracker, worker, run-job-now | `lic_batch_jobs`, `lic_batch_executions` | track a run, schedule, launch by hand | every job | handler, SUCCESS and last execution are three statements; manual runs go around pg-boss | the last execution shown is one that succeeded; a row gets closed |
| job check-alerts; alert-config; notification | `lic_alert_configs`, `lic_notifications` | for each threshold reached, notify each user once a day; edit thresholds; mark read, archive | licence, user | check then insert; retries; midnight; edits while it runs | nobody told twice, nobody left out |
| job snapshot-volumes; volume-history | one row per attached article and month | insert, skip what exists | licence-article | volumes read once, inserted later; overlapping runs | one snapshot per month, of volumes that were really held |
| article, produit; referentials (regions, pays, devises, langues, types-contact, team-members) | catalogue and reference tables | create, update, toggle, delete | licences, forms | whole row written back as read, check then DELETE | unique codes, no orphan, only a stale edit reactivates |
| audit, audit-query; lists | `lic_audit_log`; nothing | append, search, export; pages by cursor | everyone | rows inserted between two pages | nothing skipped, nothing twice |
| demo: purge and reload | every table | TRUNCATE; seeds of phases 4 to 10 | everything | each row commits alone; a seed skips a table that has rows | a reload on a purged base loads everything |
| pages: wizard that creates a licence | React state | three steps, effects, creation | licence | answers late, double clicks | what is created is what the last step shows |
| pages: dialogs of a licence and of a client | React state, version of the row | edit, change status, import, create | licence, client, fichier-log | the page is rendered anew under an open dialog | an edit writes what its user typed, an import what was previewed |
| pages: tables of rows | React state | dialogs and buttons on rows | reference tables, users, articles, entites… | buttons never disabled, answers that close whatever is open | the page ends up with what the server has |
| pages: lists fetched bit by bit | React state | load more, filter, mark, archive | notification, renouvellement, audit | two requests from one click state | an unbroken run of the rows |
| pages: lists filtered by their URL | history of the tab | filter, next, previous, reset | client, licence, volumes, files | links of a page that is old | no page skipped on the way |
| settings, clients-ref, email, env | key-value rows, lookup table | upsert, look up, send | crypto, client, user | last writer wins | – |
| dashboard, error, logger, db client and migrations, crypto domain, composition root, components, i18n, shared, ship, docs | – | reads, rendering, configuration, tooling | – | – | – |

How they interact: server actions (`src/app/src/app/**/_actions.ts`) check a role
and a schema, then call one use case, which opens `db.transaction` and calls
repositories and `auditRepository.save` with the same `tx`. The jobs call the
repositories without a `tx`, so each call commits alone. The licence page calls
the stale-status use case, which hashes the contract and compares it with the
stored hash. `expire-licences` and a validation write the same licence row as the
form does; the auto-renew job writes renouvellements that users decide upon. A
browser sends its server actions one after the other; each answer brings the
page rendered after it.

## 2. Plan

Most important first: the licence is what the portal sells, and its row is the
one most actors write. All of the following is done.

1. `LicenceDomain`, `LicenceLifecycle` (composes licence, renouvellement and their
   two jobs), abstract specification `AtomicLicence`, proofs.
2. `LicenceContent` (articles, products, `.lic`, banner), then
   `HealthcheckImport`, which composes the import with it.
3. `Pki` (CA, certificates, client creation, backfill, `.lic` signature).
4. `BatchTracker`, and `CheckAlerts`, which runs inside it.
5. `ClientDomain`, `ClientLifecycle`, abstract specification `AtomicClient`,
   proofs; `Dossier` for entites and contacts.
6. `UserAccount`, `LoginSession`, `RateLimit`.
7. `Referentials` (with the catalogue), `VolumeSnapshot`, `Listing`.
8. `Browser`, and the pages over it: `LicenceWizard`, `EditDialogs`,
   `ImportDialog`, `CreationDialog`, `TableScreens`, `AsyncLists`; `FilteredPages`.
9. `DemoData`.

Abstract specifications: `AtomicLicence` and `AtomicClient`, a table whose rows
change one whole operation at a time.

Theorems: type correctness, lock and refinement of both tables first, since
everything else rests on those rows; then rule L3, the log of the licences (jobs
included) and of the clients; then the modules where requests race with few lines
of code between them: the CA, the alerts, the snapshots, sessions and accounts,
lockouts, the rate limit; then the contract, its file and the import, the rows that
no version protects (entites, contacts, reference tables), lists by identity and
the reload of the demonstration ([section 6](#6-the-proofs)). What could be proved next is in
[section 8](#8-what-is-only-model-checked-and-what-is-not-modelled).

## 3. The modules

A transaction at READ COMMITTED reads rows that are committed, and its writes
appear together when it commits; an UPDATE evaluates its WHERE clause again on
the row it has locked. So throughout: **each read that can be separated from the
next is an action, all the writes of one transaction are one action (its
commit), and a statement outside a transaction is an action of its own.** Audit
rows are written by the action that does the write, because the code writes them
with the same `tx`; where the code does not (the jobs), they are separate actions.

On the browser's side: **an event handler with the effects and the rendering it
causes is one action; sending a request, its work on the server and the delivery
of its answer are three.**

### LicenceDomain, LicenceLifecycle, AtomicLicence, MCLicenceLifecycle

`LicenceDomain` translates the entities: `LicenceCanTransition`, `ValidDates`,
`WithProfile` (the patch rule `patch.x ?? this.x`), `Renewed`, and so on.
`LicenceLifecycle` has one variable per table (`licences`, `renouvellements`,
`audit`), the clock `today`, the open transaction of each session (`requests`)
and what each job run has still to do (`expireRuns`, `renewRuns`).

| Code | Actions |
|---|---|
| `CreateLicenceUseCase`, `CreateRenouvellementUseCase` | `CreateLicence`, `CreateRenouvellement` |
| `UpdateLicenceUseCase`, `ChangeLicenceStatusUseCase` | `BeginUpdateLicence` / `BeginChangeStatus`, then `CommitLicence` or `RejectLicence` |
| `AnnulerRenouvellement…`, `UpdateRenouvellementUseCase` | `BeginAnnuler` / `BeginUpdateRenouvellement`, then `CommitRenouvellement` |
| `ValiderRenouvellementUseCase` | `BeginValider`, `ValiderReadLicence`, then `CommitValider` or `RejectValider` |
| `runExpireLicences` | `ExpireUpdate` (one UPDATE for all), `ExpireAudit` per row, `ExpireDies` |
| `runAutoRenewLicences` | `RenewSelect`, `RenewSave`, `RenewAudit` per row, `RenewSkip` (either INSERT throws), `RenewDies` |

Version numbers are unbounded naturals as in the code (an `integer` column no run
of the portal can exhaust). An audit row is identified by the version its write
produced, which is how the properties tie the log to the table.
`AtomicLicence` is the promise: a table of rows where each step is *one* complete
operation on the current row. `LicencesAreAtomic` says the detailed module
implements it. `MCLicenceLifecycle` has two scenes, one of requests beside the
expire job, one of both jobs beside a request.

### LicenceContent, MCLicenceContent, HealthcheckImport, MCHealthcheckImport

One licence (licences share nothing here): its `terms`, its `liaisons` (attached
products and articles), the hash `stored` with it and `lic_fichiers_log`. A
generation is six steps: licence, articles, log row, then the three SELECTs of
`computeLicenceContentHash` and the UPDATE that stores it. The hash is modelled
by what it distinguishes: the record of the fields it covers. Two history
variables, `edits` and `generated`, remember whether the contract changed since a
generation began. `HealthcheckImport` EXTENDS it with the import loop: catalogue
read once, per entry a SELECT, then the two steps of `UpdateArticleVolumeUseCase`,
one history row at the end. What is refused or throws in an entry is caught and noted
(`ImportEntryFails`); what throws outside the loop, or a death, ends the import
unlogged (`ImportDies`).

### Pki, MCPki

`ca` is the settings row, `certs[c]` the CA that signed the client's certificate,
`lics` the generated files with the CA they were signed under. Installation and
deletion of the CA re-check in their transaction, as the code does; each re-check
is a step, since READ COMMITTED lets another transaction commit after it.
`nullifyAllCertificates` locks the rows it saw until the deletion commits. So does
the DELETE of the settings row (`DeleteRow`), if there is a row: another DELETE and the
upsert of an installation wait for it (`RowLocked`). A DELETE that matches no row, since
another deletion committed before it, locks nothing and is audited all the same, even
after a new CA was installed (`deletes`). The
history variable `overlapped` says whether two requests that conflict ever ran
together, which is the assumption `OneTrust` and `IssuedOnce` need.
Cryptography is kept as "which CA signed".

### BatchTracker, CheckAlerts, MCCheckAlerts

`BatchTracker` is `track()`: the INSERT of the execution row, the handler, the
UPDATE to SUCCESS, the UPDATE of `last_execution_id`, or the catch clause, each a
statement that can fail, and a process that can die between any two. `CheckAlerts`
takes it with INSTANCE and puts the handler in its "handler" stage: read the
configurations, read the users, then per threshold SELECT the licences, and per
licence and user a SELECT and an INSERT. Configurations, consumption, users and
the day change at any step.

### ClientDomain, ClientLifecycle, AtomicClient, Dossier, MCClients

`ClientDomain` translates the entity: row, validators, statut machine, the
`with*` methods. `ClientLifecycle` has the table, the log and one open
transaction per session: `CreateClient` (one transaction, which the unique index
may refuse), `BeginUpdateClient` and `BeginChangeStatut` (the SELECT, the
computation; the patch that changes nothing returns there, before the version is
compared), `CommitClient` / `RejectClient` (the UPDATE with the version in its
WHERE clause, and the audit row), and `AttachCertificate` (the backfill's UPDATE,
which bumps no version). `AtomicClient` is the promise, as for the licence.

`Dossier` has the entites and contacts, which no version protects: a `Begin…`
reads the row, a `Commit…` writes it back. The log is kept as *what it tells*: for
each row and column the value in the last audit row that reports it. Then "the log
is true" is an equation between two tables, `entitesTold[e] = entites[e]`.

`MCClients` has three scenes (clients, entites, contacts) that share no table.

### UserAccount, LoginSession, RateLimit, MCAccounts

`UserAccount` is `lic_users` as administrators and the boot of a web process write
it; each UPDATE sets the columns of its use case, computed from the row read, and
only `token_version` is incremented in place. `LoginSession` adds browsers: a
login is the SELECT (`OpenLogin`), the bcrypt comparison and the write of the
counter, the lockout's audit row, the token; a session is a copy of columns as the
SELECT saw them, compared through `tokenVersion` at each request. Password
changes, resets by an administrator and forgotten passwords (reset, then the mail,
which may fail) are `PasswordNext`. The history variables `wrong`, `handed`,
`crowded`, `contended` say what a user would say: how many wrong passwords were
typed, which password the owner was given, whether anything overlapped. `lockouts`
counts the LOGIN_FAILED_LOCKOUT rows of an account since its last right password,
`silenced` says that a process died before one, `overtaken` that the last right
password was recorded beside another login of the account.

`RateLimit` is the fixed window; its code runs without interruption, so a call is
one action and the module is about time only.

### Referentials, VolumeSnapshot, Listing, MCCatalogue, MCListing

`Referentials` is eight tables at once (`TableOf` says which row is in which): a
form validates, a SELECT reads, one statement writes, and constraints
(`UNIQUE`, foreign keys) refuse. `answered` is what the caller was told of each
row; `disputed` the rows two requests worked on. `VolumeSnapshot` is the monthly
job: month computed, one SELECT, then one INSERT per row under the UNIQUE index,
each of which may fail and be counted; `heldIn` is the history of the volumes
that links really had. `Listing` is the keyset pagination: `ORDER BY … LIMIT n + 1`,
a cursor, separate SELECTs, while transactions insert rows with identities and
instants taken before they commit; and the CSV export (COUNT, then pages).

### Browser, LicenceWizard, EditDialogs, ImportDialog, CreationDialog, TableScreens, AsyncLists, FilteredPages

`Browser` is what pages share: Next.js runs the server actions of a browser one at
a time, so `sending` is a queue whose head is in flight ("sent", "answered",
delivered); a request may be rejected and an answer lost. Nothing disables a
button: `startTransition` is given a function that returns at once, so `pending`
falls before the answer comes. Hence a click may always be repeated, which the
models allow everywhere.

| Module | Component | State |
|---|---|---|
| `LicenceWizard` | `NewLicenceDialog` with `createLicenceAction` and the two checks | step, fields, the entites fetched by an effect whose cleanup marks its request dead (`live`), licences made |
| `EditDialogs` | `LicenceResumeTab`, `ClientInfoTab`, `ClientsTable` with `ClientDialog` | the row on the server (`fiche`), as the page was last rendered (`shown`), the dialog with the values it was opened with |
| `ImportDialog` | the healthcheck dialog of `LicenceResumeTab` with its two use cases | chosen file, preview, panel; the two formats read a volume differently |
| `CreationDialog` | `ClientDialog` in creation | fields, autocompletion from clients-ref, contacts kept in a component that is never unmounted |
| `TableScreens` | thirteen pages of rows | `rows` on the server, `seen` on the page, the open `modal`; each page is *data*: which fields each of its forms sends, what becomes of an empty one, where its `open` state lives, whether it looks at the answer |
| `AsyncLists` | `AuditHistoryTable`, `RenewalsList`, `NotificationsList`, `NotificationsBell` | per list its items, cursor and filter as the answers left them; the history goes by identity, the others by an instant with microseconds and a cursor cut to the millisecond (`AfterCursor`, `CutToMs`) |
| `FilteredPages` | `ClientsTable`, `LicencesTable`, volumes, files with their server pages | the history of the tab (`visits`, `here`), the filter select, the rows |

In these modules the server is what the page can see of it: any request may be
refused (the rules that refuse are in the modules above), and other users change
the rows at any moment.

### DemoData, MCScreens

`DemoData` is the purge (one TRUNCATE) and the reload: a chain of seeds, each
looking whether its table has rows, then looping over what it read; each INSERT
commits alone and may be refused by a foreign key. `ReloadStep` is one statement.
`MCScreens` composes the browser modules and `DemoData` as *scenes*: each initial
state chooses one, and only its variables move.

## 4. The runs

| Run | Question | Instance and why it is enough |
|---|---|---|
| `renewal` | do concurrent requests, renewals and jobs keep the licence's lock, its audit and its period right, does it behave as atomic, do the jobs get their work done and never propose twice? | one licence, because every conflict is between two writers of one row. Scene "requests": two sessions, one renouvellement, one expire run, days 0 to 2. Scene "jobs": one session, two renouvellements (a second is needed to be wrong), both jobs, one death anywhere, days 0 to 3, so that a job that failed once still has a night. `MaxVersion 2` lets a third write meet two earlier ones. |
| `lic_file` | is a generated file current, what does the banner say, do removed rows stay removed? | two sessions (one edits, one generates, or both generate), one article, one product, one liaison row, two contract changes, one failure |
| `import` | is what the history says of an import what it wrote, does a quiet import keep the contract, and does it end? | a file of two entries of each kind (attached, unknown, refused, without volume), one session beside it, two contract changes, one failure: an entry that throws or a death |
| `pki` | do CA, certificates, files and log agree, and is every client certified in the end? | two sessions (conflicts are pairwise), two clients, two CAs, three CA changes: install, delete, install another |
| `alerts` | one after the other: nobody twice a day | two runs, two licences of one client, two users, two days, one edit, one failure |
| `alerts_overlap` | runs at once: nobody left out; execution rows right and closed | two runs, one configuration with both thresholds, one edit, one failure |
| `clients` | lock, log, atomicity of clients; names, log, deletions of entites and contacts | two clients, two codes, two sessions, three patches (malformed, a name, a field), versions to 2; one owner with two entites, one contact, two names, two sessions |
| `accounts` | sessions, lockouts, the log of accounts, the rate limit | scenes: two browsers log in to one account with right and wrong passwords, threshold 2, three instants; its passwords change meanwhile; two administrators and a boot, four identities; one key, two calls a window, seven instants: three windows |
| `catalogue` | reference tables, snapshots, lists by identity | one scene per table with the tables it refers to, two rows and two editors each; two links and two executions over two months; four rows, pages of two |
| `screens` | pages and reload | eight scenes: wizard (two clients, an entite each, one article, a failure), edit (three screens, two fields), import (four files, two keys, both formats), creation (two codes, two contacts), table (thirteen pages, two rows and one of a part, two changes by others), list (three places, three rows committed in any order, the oldest two of the notifications in one millisecond, those of the renewals in three, pages of two), walk (four pages, three rows, pages of one, three visits), demo (two clients, two reloads, a purge, a failure) |
| `renewed_once`, `listing_skips` | refutations | the smallest instance that shows each (section 7) |

Bounds, all CONSTANTS: `MaxDay`, `MaxClock`, `MaxNow`, `MaxMonth`, `MaxInstant` stop
a clock; `MaxVersion`, `MaxClientVersion`, `MaxFailed`, `MaxTokenVersion` stop
requests from starting on a row at that value (started ones finish, jobs go on);
`MaxEdit`, `MaxChange`, `MaxMoves`, `MaxMoved`, `MaxUpdates` count changes by
others; `MaxFault`, `MaxFailures`, `MaxLost` count failing statements and deaths;
`MaxRows`, `MaxEntries`, `MaxTagged`, `MaxVisits`, `MaxCopies` count rows;
`PerMs = 2` scales a millisecond down to two instants;
`MaxSending` counts requests that wait. `Threshold = {1}` is enough in the alert
runs since thresholds are only compared with a level.

The MC modules narrow three instances further, each by a named operator with its
reason: `OfRequests`/`OfJobs`, `OnlyAda`/`OnlyAdmins`, `OfTable`/`OfFamily`, and in
`MCScreens` `FewRequests`, `OneForm`, `FewDrafts`, `FewRows`, `FewChanges`: what they cut is a third
request at once, or a second one together with a lost answer; where three rows of a
list exist, also the second request, the lost answer and the bell (which shows one row).

SYMMETRY permutes users, licences, runs in `alerts`; clients, sessions, entites
and names in `clients`; editors and executions in `catalogue`: no liveness is
checked there, and no property or bound tells these values apart.

`CHECK_DEADLOCK FALSE` appears where the system really may stop once nobody starts
a request or a run and the days modelled are over: `pki`, the alert runs,
`clients`, `accounts`, `catalogue`, `listing_skips`, `screens`. The others check for
deadlock; they always have a job or a request to start.

### What the properties say

Several invariants are conjunctions of named parts, so that a component is one
line of a cfg; the parts carry the comments.

| Property | Parts | Says |
|---|---|---|
| `StaleWriteRefused`, `StaleClientWriteRefused` | | a transaction whose version check passes holds the row as it is in the table (rule L4) |
| `LicencesAreAtomic`, `ClientsAtomic` | | refinement of `AtomicLicence`, `AtomicClient` |
| `AuditExact` | `AuditAccountsForWrites`, `AuditOnePerWrite` | each version of a licence has exactly one audit row, or is owed one by a run in progress (as long as no run has died) |
| `ValidatedPeriodApplied` | | a renouvellement that reads VALIDE shows the period its licence got, even if it was edited while being validated |
| `ExpireLeftOnlyByRenewal` | | an expired licence comes back only through the validation of one of its renouvellements, with that period |
| `OneProposalPerLicence`, `OverdueExpires`, `JobsPropose` | | the jobs: no second proposal; what is overdue expires; what is eligible is proposed |
| `QuietGenerationFresh`, `EventuallyFresh` | | the file and its banner |
| `ImportExact` | `ErreurWroteNothing`, `WrittenVolumesTraced`, `RemovalFinal` and types | what the history says of an import is what it wrote; a removed row stays removed |
| `QuietImportKeepsContract`, `ImportEndsLogged` | | contract volumes survive an import unless edited meanwhile; an import that is not killed is logged |
| `PkiLogExact` | `AuditTellsCA`, `CertificatesAudited` | the CA installed is the one of the last INSTALLED row, with nothing but deletions logged after it; without a CA the last row is a deletion; if nothing conflicting overlapped the last row alone tells; and each certificate is in the log |
| `QuietTrust` | `OneTrust`, `IssuedOnce` | if nothing conflicting overlapped, one CA signed everything and nobody is certified twice |
| `EventuallyCertified` | | repeated backfills certify everyone under a CA that stays |
| `NotificationsExact`, `SuccessIsTrue`, `RunsEnd` | `OncePerDay`; `SuccessMeansNotified`, `LastExecutionSucceeded` | alerts and their runs |
| `ClientsExact`, `ResilieFinal` | `CodesUnique`, `ClientAuditExact`, `LogTellsStatut` and types | rule L3 on clients; the last statut the log tells is that of the row |
| `DossierExact`, `OnlyEditsUndoToggles` | `EntiteNamesUnique`, `QuietLogTellsRow`, `ContactGoneIffAudited` | two toggles that overlap still agree with the log; only a stale edit undoes one |
| `AccountsExact` | `UsersUnique`, `LogTellsAccount` | |
| `SessionsProved` | `LiveSessionProved`, `RevocationsTold`, `QuietPasswordKnown` | a reset that commits between the SELECT of a login and its token ends that session too |
| `LockoutExact`, `QuietLockoutHolds` | `QuietCounterExact`, `LockoutLogged`, `QuietLoggedOnce` | since the last right password, counters written back late never jump over the threshold unlogged, unless that right password itself crossed another login; logins one by one are counted one by one, reach the threshold with one row, and are locked out for the window |
| `TwiceAtMost` | | among any `2 * MaxCalls + 1` calls let through, two are more than a window apart |
| `RefsExact`, `OnlyStaleEditsReactivate` | `RefCodesUnique`, `NothingOrphan`, `QuietAnswerHolds` | |
| `SnapshotsExact` | `OneSnapshotPerMonth`, `SnapshotWasHeld`, `CountedMeansKept` | a snapshot is no mixture of two updates |
| `PagesExact` | `NothingSkipped`, `NothingTwice`, `ExportGapless`, `ExportBounded` | for lists by identity; by instant `NothingSkipped` fails |
| `WizardExact` | `SettledEntite`, `NothingUntold`, `RecapWarns` | |
| `DialogsExact` | `EditsExact`, `PreviewIsKept`, `PanelTellsImport`, `CreationExact`, `TablesExact` | the last one: `PageCurrent`, `RevealedIsCurrent`, `TypedIsWritten` |
| `ListsExact` | `ListsUnbroken`, `ReadIsRead`, `UnreadExact`, `DetailIsOwn` | what a list may lack is what came late (`late`) and, by instant, what shares a millisecond with a row above it (`PassedOver`) |
| `WalksExact` | `PreviousIsNearer`, `WalkSkipsNothing` | pages of a URL that lead to each other skip nothing |
| `ReloadsExact` | `FreshReloadComplete`, `ReloadFillsLicences`, `LicencePerClient` | |

Each has a mutant in `PROJECT.json`: a definition of the model changed the way a
plausible bug would change the code, for which TLC must report the property.

## 5. Fairness

- `MCFairness` (`renewal`): weak fairness of each statement of the jobs that the
  scene runs. `worker.ts` schedules them every night and `run-job-now` restarts
  them; a handler in progress is a running promise. Deaths are not fair and users
  owe nothing, so `OverdueExpires` holds because the job does the work.
- `RequestFairness` (`lic_file`): a request that has started runs on; and somebody
  generates the file whenever the page does not say "fresh" (`FollowBanner`).
  That second half is what the banner asks of people, and the property says so.
- `FairImportSpec`, `RunsOn` in `Pki`, `FairSpec` in `CheckAlerts`: a request or a
  handler that is not killed goes on. `Pki` adds that an administrator starts the
  backfill again while the page counts clients without a certificate (strong
  fairness: the button is only there when a CA is, and the CA comes and goes).

The other runs check safety only: no page, administrator or reload owes the next
step, and the code waits for nothing but its own statements.

## 6. The proofs

Eight modules `*_proofs` hold the theorems, for any number of rows, sessions,
runs and processes, any inputs and any bounds. No assumption bounds anything: the
constants' assumptions say that inputs are of their types, that a marker such as
`None`, `NoAccount`, `NoRow` or `Never` is no value, that the seeds respect the
unique indexes and foreign keys, that the demonstration has clients and some with
articles, and that a bound is a number; TLC evaluates them in each run. Two
theorems say under which constants they hold: `OnceADay` and `ProposedOnce` for
runs one at a time, `IdentityPagesExact` for lists by identity (by instant the
property is false, section 7).

| Module | Theorem | Says |
|---|---|---|
| `Licence_proofs` | `TypeCorrect` | tables, transactions and runs are typed, references exist |
| | `VersionLock` | `Spec => []StaleWriteRefused`: rule L4 |
| | `LicencesAtomic` | `Spec => LicencesAreAtomic`, the refinement |
| | `ExpiredStaysExpired` | `Spec => ExpireLeftOnlyByRenewal` |
| | `AuditIsExact` | `Spec => []AuditExact`: rule L3, jobs included |
| | `ValidatedIsApplied` | `Spec => []ValidatedPeriodApplied` |
| | `ProposedOnce` | `[]OneProposalPerLicence`, if there is one run of the job at a time |
| `LicenceContent_proofs` | `ContentTypeCorrect`, `FreshFiles` | a file generated in peace is the contract, and the banner says so |
| | `RemovedStaysRemoved`, `ImportsAreExact` | an import is what the history says of it, and brings nothing removed back |
| | `QuietImportsKeepContract` | an import alters the contract only if another request crossed it |
| `Clients_proofs` | `ClientTypeCorrect`, `ClientLock`, `ClientRefinement` | as for the licence |
| | `ClientResilieFinal` | a terminated client stays so |
| | `ClientsRight` | `[]ClientsExact`; its parts are `ClientCodesUnique`, `ClientAudited`, `ClientLogTells` |
| | `DossiersAreExact`, `TogglesStand` | entites and contacts: names, log, deletions, toggles that overlap |
| `Pki_proofs` | `PkiTypeCorrect`, `PkiLogIsExact` | the log tells the CA, whatever deletions find nothing to delete, and each certificate |
| | `QuietIsTrusted` | if nothing conflicting overlapped, one CA signed everything |
| `CheckAlerts_proofs` | `AlertTypeCorrect`, `OnceADay` | runs one at a time notify nobody twice a day |
| | `SuccessTold` | SUCCESS means notified, even when runs overlap |
| `Accounts_proofs` | `PortalTypeCorrect`, `SessionsAreProved`, `AccountsAreExact` | sessions, passwords, accounts and their log |
| | `LockoutIsExact`, `LockoutLasts` | since the last right password, a threshold reached is logged, once where no two logins race; a lockout lasts where none race |
| | `RateIsLimited` | at most twice the maximum in any window's time |
| `Catalogue_proofs` | `ReferencesAreExact`, `EditsKeepActive` | codes, references, answers; who may change the activation of a row |
| | `SnapshotsAreExact` | one snapshot a month, of volumes really held |
| | `IdentityPagesExact` | pages by identity skip nothing and repeat nothing |
| `Screens_proofs` | `DemoReloadsExact` | a reload does what it says unless something crosses it |
| | `WalksAreExact` | pages filtered by their URL skip nothing and repeat nothing |
| | `WizardIsExact` | the wizard: no entite of another client, nothing untold, a recap that warns |
| | `ListsAreExact` | lists fetched bit by bit: no gap (save late rows and those of one millisecond), no false "read", no wrong count, if one waits |

Almost none of these properties is inductive. What had to be added:

**Licences.** `Inv == TypeOK /\ References /\ Snapshots /\ Patches`.
`StaleWriteRefused` only speaks of transactions whose expected version *equals*
the table's; it says nothing of one whose snapshot has an older version that will
be reached. `Snapshots` says that what a transaction read has a version at most
the table's, and is the table's row when the versions are equal. It is preserved
because no write leaves a row's version as it was, the expire job's included.
`References` makes `licences[l].version` a field of something. `Patches` says that
the row a transaction will write differs from the row it read only as its use
case allows: this turns a commit into one step of `AtomicLicence`, since read =
current by `Snapshots`. Every other step leaves `licences` alone, a stutter.

**The log of licences.** `AuditInv == OwedExact /\ OnePerWrite /\ AllAccounted`:
what an expire run still owes is a write that happened, is not in the log, and is
owed by no other run. Without the last two parts, a run could log a write twice.
`ValidatedIsApplied` needs that an open transaction writes the status of its
operation (`RequestsWriteStatus`), `ProposedOnce` that what a run still has to
propose has no proposal (`TodoFresh`).

**Clients.** `ClientIInv == ClientTypeOK /\ WritesOpen /\ CodesUnique /\
ClientAuditExact /\ LogTellsStatut`. `WritesOpen` is to clients what `Snapshots`
is to licences, with one difference: the backfill writes certificate columns
without a version, so what the lock protects is the other columns.

**Contract and file.** `GenerationInv` follows a generation whose `since` is still
`edits`: whatever it has read by its stage (dates, articles, the three parts of
the hash) is what the tables hold, so that the last of its six steps stores the hash
of the contract its file was made from. A generation crossed by an edit owes
nothing. `LiaisonInv` says that what is attached was added, that what was removed
is not attached, and that its identity is not used again: a late UPDATE then finds no
row to write. `ImportInv` adds, per import, that one that wrote volumes has counted
them, and that the row it is about to write has the contract volume it read, unless
`edits` moved.

**Entites, contacts.** `DossierInv`: two requests open on a row have left it in
`overlapped`, and what a request on any other row has read is the row. So a commit writes
a difference between the row and itself, and the log tells it. For the toggles
this is not enough, as toggles may overlap: a toggle writes one column, the
contrary of what it read, and logs that very value, so the two agree whatever
it read; only an edit writes `actif` without logging it.

**Reference tables.** The same shape with `disputed`, plus what the constraints need: a
request computed a row with the code it read (`EditorOK`), so an UPDATE cannot
collide with another code; an article keeps its product; and a DELETE leaves no
row that refers to it, since the foreign key looks at its commit, not at the
check that ran before.

**Pages by identity.** `ListInv`: identities are unique over what is listed, open or
already seen, and the reader has seen each row that is due on his side of the
cursor, and only rows on that side. A page then is the first rows beyond the cursor
(`PageById`); its last row becomes the cursor (`TurnPage`). That a set of numbers has a
least element is all the induction this needs, and the library gives it
(`WFMin`). By instant the same argument fails at one place only: two rows of
one millisecond are on no side of the cursor, which is how `NothingSkipped` breaks.

**Reload.** The seeds are a chain of loops in a fixed order; `Rank` numbers the stages.
For a reload that nothing runs beside, `Filling` says what its loops have ensured
whatever was there before (clients, licences, articles of each licence); `LoadedAll`
that, if the base was purged, each table holds exactly what the stages so far load;
`Knows` that what it looked up is what the base holds. For one that ended well,
`Settled` keeps these facts: the reloads after it only pass the loops. `Alone` makes of
"quiet" that nobody else writes, which is why each of its INSERTs finds what it
refers to. `NotYetLicensed` carries `LicencePerClient`: the clients a reload has still
to give a licence have none.

**Pages of a URL.** `WalkInv` follows the history of the browser: each entry shows
rows between its cursor and that of the next one, and misses none there whose tag
was the same throughout (`EntryOK`). `PreviousIsNearer` is a part of it, since the
entry before is where a walk takes up its cursor. Least and greatest elements are
again all the induction there is.

**Wizard.** `WizardInv == LicencesOK(made) /\ Showing(wizard, sending, made)`, in terms
of the three parts of the state, since a click alters one of them and the effects of
React another. Only the first request has been begun (`QueueOK`), and what a request
holds follows from how far it has come (`RequestOK`). What no cleanup cancelled was
asked for what the wizard shows (`ListsFor`, `ChecksFor`); when no list is on its way
the entites shown fit the client (`Fits`), and the recap warns as of its last check
(`Warned`). `Creating` says of the licence under way that each article asked is
attached, has still its turn, or is among the missing. `RendersOK` treats the effects
and their cleanups once, for every handler that re-renders.

**Lists fetched bit by bit.** `FeedsInv`, in terms of the rows, the lists, the queue and
the two histories, since a step changes the rows (`Moves`: new ones on top, open ones
closed, closed ones gone) or the browser, never both. `Covers` says that items hold
every row of a filter between their first and their last, or to the end; `Moves`
keeps it, since no row enters a range that was read, save the renewals decided meanwhile
(`Vague`, exempted by the property until they are fetched again). A page that comes
back may only be appended if it was asked for where the list still ends: for the
lists whose user waits, `Calm` says that their one request was made of what they show
(`OneAsk`, `MadeOf`), and `CoversJoined` joins the two. Where the cursor is an instant,
the page does not begin right under the last row: what lies between is of its
millisecond (`CursorCuts`), hence `PassedOver`; and a row committed late enters a range
that was read, hence `late`. The count is the other half:
between a "read" on the server and its answer the list shows one row too many,
and `Counts` says which. `AllTold` holds for all lists: what a request carries as read
was read, so even a stale answer tells no lie about that. That the rows can be
sorted (`SortedExists`), which gives the `CHOOSE` of a page its value, is shown by a
least size without an order.

**PKI.** What the log tells of the CA (`ToldInLog`, without the undisturbed part) is
inductive: an installation ends the log with its own row; a deletion whose DELETE
matched leaves no CA and a deletion as last row; one whose DELETE matched nothing
leaves the CA, and its row comes after the last installation, which is all
`LastInstalled` asks. `LogInv` adds that a `.lic` in the making uses a certificate
that was issued. `QuietInv` says, as long as nothing conflicting has overlapped,
which pairs of requests cannot be open together (`Apart`), and that what an open
request has read still holds (`ReadsHold`): then its commit changes the state as if
it read and wrote at once, its DELETE matches, and the last row alone tells
(`LastRowTells`).

**Alerts.** `Prepared` types what a run has read by its progress. `DayInv` (one run
at a time): no other run is between its check and its INSERT, nothing is dated
tomorrow, and what is about to be inserted was not sent today. A check made before
midnight is for a day that is over, and the INSERT takes the new one. `OwingInv`
(runs may overlap): each notification a run owes is told, still to be looked at, or
about to be inserted; `LinkedIsOver` says the last execution is closed.

**Snapshots.** `HeldInv`: the volumes a run has read and not yet inserted were held
together by their link, in the month of the run or after. It keeps
`SnapshotWasHeld` through inserts made long after the SELECT.

**Accounts.** Lemmas first say which *columns* each step may write (a login the
counters, a password request the secrets, an administrator names, roles and
flags), so that each invariant is proved against three kinds of steps, not
twenty. `SecretInv`: what a login read, or a session carries, has a version at most the
row's, and the row's password when the versions are equal (`Proves`); versions only
grow. `QuietInv`: two requests open on one account have left it in `contended`, a
mail about to leave holds the password of the account, an update the names it
read, unless it is there. `CounterInv`: a login that compares holds the counter of the
row, which is not locked out, unless another login overlapped it; one that read a
counter at the threshold comes after the one that logged it. The last part is why
a lockout is logged even when logins overwrite each other's counts; it holds from one
right password to the next, since `recordSuccess` puts the counter to zero under the
feet of those that overlap it (`overtaken`). For accounts that no two logins ever
shared, the rows of the log, written, due or lost, are one from the threshold on and
none below.

**Rate limit.** `Limited`: the calls that a bucket let through are the last ones,
its window starts with the first of them, and that one came more than a window
after the call `MaxCalls` before it. The next call either joins the bucket or opens
one whose start is a window further.

Proved by `tlapm M.tla` with Z3, Zenon and, for the temporal steps, LS4.

## 7. Where the code and its comments disagree

Two are runs; `PROJECT.json` quotes the lines.

| Run | Statement | What happens |
|---|---|---|
| `renewed_once` | "1 tx → 1 licence à jour + 1 renouvellement VALIDE" | the licence is read after the renouvellement: of two validations that read EN_COURS, the second reads the licence after the first committed, so its version check passes; the licence is renewed and audited twice |
| `listing_skips` | a paginated list shows every row | the cursor is in milliseconds (a JavaScript `Date`), the column in microseconds: rows of the cursor's millisecond are skipped. The lists of notifications and renewals page that way, which is why `ListsUnbroken` exempts such rows |

The modules state the others at their end; TLC refutes each of them. To see one,
put it in place of the properties of the instance named, without SYMMETRY.

| Statement (module) | Instance | What happens |
|---|---|---|
| `TerminalStatusKept` (LicenceLifecycle) | `renewed_once.cfg` | a decision that read EN_COURS writes its status over a terminal one |
| `AuditMandatory` (LicenceLifecycle) | `renewal.cfg` | an expire run that dies after its UPDATE leaves expired licences out of the log for good |
| `ProposedOnlyWhenNoneOpen` (LicenceLifecycle) | `renewal.cfg` | a renouvellement is created between the job's SELECT and its INSERT |
| `ProposalDecided` (LicenceLifecycle) | `PersistentSpec` | "l'admin doit le passer en EN_COURS": no use case does, and none of the others accepts CREE; the job then proposes nothing more |
| `FreshFileIsCurrent` (LicenceContent) | `lic_file.cfg` | a change between content and hash is in the hash only: the page says fresh |
| `HistoryTellsRemovals` (LicenceContent) | `lic_file.cfg` | the history of a licence loses the audit rows of what was removed |
| `ImportKeepsContract` (HealthcheckImport) | `import.cfg`, `MCOneEntry`, `MaxEdit = 3` | an import writes back the contract volume it read before a user changed it |
| `UpdatedCountEffective` (HealthcheckImport) | `import.cfg` | an entry counts as updated although its row was removed before the UPDATE |
| `OutOfContractImported` (HealthcheckImport) | `import.cfg`, `MCOneEntry` | an import of which every article is out of contract is logged ERREUR |
| `OutOfContractTrue` (HealthcheckImport) | `import.cfg`, `MCOneEntry`, `MCSharedCode` | of two articles with one code, the attached one is reported as not attached |
| `CaNeverReplaced`, `DeletedOnce`, `DeletionBlockedByLic`, `DeletionInvalidatesCertificates` (Pki) | `pki.cfg` | two installations overlap, the second replaces the first (`upsertMany` overwrites) and its key is lost; of two deletions that both passed the re-check, the second deletes nothing and logs CA_DELETED again, even after a new CA was installed; a file is logged after the re-check of a deletion; a client created beside a deletion keeps its certificate, and the backfill skips it |
| `EveryLicenceNotified` (CheckAlerts) | `alerts.cfg` | the duplicate check ignores the licence: a client's second licence is skipped |
| `OnlyAdminsNotified` (CheckAlerts) | `alerts.cfg`, `Admin = {}` | every active user is notified, whatever the role |
| `OncePerDay` (CheckAlerts) | `alerts_overlap.cfg` | a manual run beside the scheduled one notifies twice |
| `LogTellsEntite`, `NoEditAfterDeletion`, `HistoryTellsDeletions` (Dossier) | `clients.cfg` | an edit writes an old flag back and reports the name only; an edit of a deleted contact is logged; the deletion is not in the client's history |
| `SadminRemains`, `LogTellsRole` (UserAccount) | `accounts.cfg` | two administrators deactivate each other; a rename undoes a change of role |
| `LockoutHolds`, `LoggedOnce` (LoginSession) | `accounts.cfg` | "lockout 60 min après 5 échecs": a login that read the counter earlier overwrites a lockout, or resets it; "émis UNIQUEMENT … pour la première fois": two logins that both read 4 both write 5 and both log it. A lockout that one more failure starts again after its window has no row of its own: the counter is past 5, and the comment promises none |
| `SessionRoleCurrent`, `SessionAccountActive` (LoginSession) | `accounts.cfg` | a token keeps the old role, and lives on when its account is deactivated |
| `OnceAtMost` (RateLimit) | `accounts.cfg` | the end of one window and the start of the next let twice as many through |
| `EditKeepsActif`, `AnsweredRowExists` (Referentials) | `catalogue.cfg` | a stale edit reactivates a row; an edit of a deleted row answers success |
| `SuccessMeansComplete`, `SnapshotOfItsMonth` (VolumeSnapshot) | `catalogue.cfg` | failed inserts end in SUCCESS; the month turns before the SELECT |
| `ExportComplete` (Listing) | `catalogue.cfg` | rows inserted while the export runs push the oldest out |

The pages have their own, seen with the scenes of `MCScreens`:

| Statement | What happens |
|---|---|
| `EntiteOfClient`, `OneCreationAtATime`, `ProduitOfArticle`, `LockedClientUsable` (LicenceWizard) | the client is changed while the entite is still the old one's; two clicks, two licences; a produit that could not be attached is not told; the wizard on a client's page, closed and opened again, has no entite |
| `EditKeepsOthers`, `StatusDialogOpensCurrent`, `AnswerClosesItsOwn` (EditDialogs) | a page rendered under an open form gives it the new version: its old values pass the lock |
| `PreviewIsOfDialog`, `PreviewTellsBefore`, `ImportClosesItsOwn`, `PanelTellsEveryImport` (ImportDialog; four files, `MaxImports = 2`, `MaxUpdates = 1`, `MaxSending = 2`, `MaxLost = 1`) | an analysis asked for in a dialog since closed is shown by the next one; volumes announced are not those of the import |
| `ContactOfOneClient`, `NameOfCode`, `RefusalMeansNotCreated`, `OpensWithoutRefusal` (CreationDialog; both codes in `KnownName`) | the contacts of a client are created again with the next one; a second code keeps the first one's name |
| `RefusalShown`, `RevealedUntilNoted`, `AnswerClosesItsOwnDialog`, `ToggleDoesWhatItSays`, `EmptiedIsWritten`, `UntouchedKept`, `ArticleHasItsProduit` (TableScreens; one page, `MaxMoves = 2`, `MaxSending = 2`, `MaxLost = 1`) | a refused request closes its dialog; a password is replaced before it was noted; a button pressed twice does the contrary; an emptied field is not written |
| `ShownOnce`, `ReadStaysRead` (AsyncLists; `MaxEntries = 2`, pages of one) | "Charger plus" clicked twice appends a page twice; an answer restores a row as unread |
| `PreviousLeads`, `FormTellsFilter`, `LoadedFormKeepsFilter`, `ForwardSkipsNothing`, `EveryFileShown` (FilteredPages) | a tab opened on a cursor has nothing behind it; the select shows a filter that is not applied |
| `ReloadRepairs`, `LicencePerClientAlways` (DemoData) | a reload on a half-loaded base ends well and leaves tables half empty; two reloads at once |

Seen while reading and outside the models: the trend of a licence is read from
dates as text (`get-volume-trends.usecase.ts:167`; its comment, 136-137, says the
three last points, the code takes two); the purge restarts a sequence after its
TRUNCATE (`purge-demo.ts:61`); the initial administrator is not inserted when its
matricule is that of a deactivated account; a contact without a name is dropped
in silence (`ClientDialog.tsx:153`); the audit page's period and entity only apply
to its export, whose last day ends at its midnight.

## 8. What is only model-checked, and what is not modelled

**Only model-checked.** Liveness (`OverdueExpires`, `JobsPropose`,
`EventuallyFresh`, `ImportEndsLogged`, `EventuallyCertified`, `RunsEnd`): the proof
system does not treat fairness and ENABLED. Of the pages, the action property
`DialogsExact` (with `TablesExact` in it): its requests go through the same queue as
those of the wizard and of the lists, whose proofs show the way; next in line.

**Left out of modelled components.** The notifications that expire-licences and
auto-renew-licences send at their end, one INSERT per user after all their other
statements; the names printed in a `.lic`; wording, formats, signatures and key
generation; the import's dry run, which writes nothing; pg-boss's own queue (the
worker's schedule is the order in which runs may start, which is any). Rows the
system never deletes are never deleted here.

**Not modelled.** Each such component has its reason in `PROJECT.json`. In short:

- *pure functions*: AES, RSA and X.509 wrappers, Zod schemas, error catalogue,
  translations, bricks of the pages – no state;
- *reads*: dashboard, reports, statistics, CSV texts – no change of state, and the
  lists they share are `Listing`;
- *one writer, one row*: the settings forms (general, SMTP), the profile page – each
  button is an operation modelled on the server or overwrites its own value;
- *wiring and tooling*: composition root, migrations, reference seeds, logger,
  configuration, packaging, CI, documentation;
- *external*: PostgreSQL, pg-boss, Auth.js, drizzle, SMTP – what the code expects of
  them is in the actions that use them.

The map covers about 31 % of the implementation's lines; of the rest, most is
markup, texts, schemas and seed data.
