---------------------------- MODULE Screens_proofs ----------------------------
(***************************************************************************)
(* Proofs about the pages in a browser, and the reload of the              *)
(* demonstration data:                                                     *)
(*  - DemoData: a reload on a purged base, which no other reload or purge  *)
(*    crosses, loads every table, for any seed data and any sequence of    *)
(*    purges, reloads, failures and deaths;                                *)
(*  - FilteredPages: pages that lead to each other skip nothing and repeat *)
(*    nothing, for any rows, page length and history of the tab;           *)
(*  - LicenceWizard: the wizard creates what its last step shows and tells *)
(*    what it could not do, for any queue of requests;                     *)
(*  - AsyncLists: a list fetched bit by bit shows each row between its     *)
(*    first and its last and counts what is not read, if its user waits,   *)
(*    for any rows, page length and changes by others meanwhile.           *)
(***************************************************************************)
EXTENDS DemoData, FilteredPages, LicenceWizard, AsyncLists,
        FiniteSetTheorems, WellFoundedInduction, TLAPS

-----------------------------------------------------------------------------
(* The invariant of the reload of the demonstration. *)

(* The order of the loops of a reload.                                     *)
Stage ==
  {"phase4", "clients", "branches", "contacts", "phase5", "licences", "renewals", "phase6",
   "backfill", "links", "snapshots", "phase7", "history", "alerts", "notices", "files", "done"}

Rank(at) ==
  CASE at = "phase4" -> 1 [] at = "clients" -> 2 [] at = "branches" -> 3 [] at = "contacts" -> 4
    [] at = "phase5" -> 5 [] at = "licences" -> 6 [] at = "renewals" -> 7 [] at = "phase6" -> 8
    [] at = "backfill" -> 9 [] at = "links" -> 10 [] at = "snapshots" -> 11 [] at = "phase7" -> 12
    [] at = "history" -> 13 [] at = "alerts" -> 14 [] at = "notices" -> 15 [] at = "files" -> 16
    [] at = "done" -> 17 [] OTHER -> 0

LEMMA Ranks ==
  /\ Rank("phase4") = 1 /\ Rank("clients") = 2 /\ Rank("branches") = 3 /\ Rank("contacts") = 4
  /\ Rank("phase5") = 5 /\ Rank("licences") = 6 /\ Rank("renewals") = 7 /\ Rank("phase6") = 8
  /\ Rank("backfill") = 9 /\ Rank("links") = 10 /\ Rank("snapshots") = 11 /\ Rank("phase7") = 12
  /\ Rank("history") = 13 /\ Rank("alerts") = 14 /\ Rank("notices") = 15 /\ Rank("files") = 16
  /\ Rank("done") = 17
BY DEF Rank

RunShape(run) ==
  /\ run = [at |-> run.at, todo |-> run.todo, known |-> run.known,
            fresh |-> run.fresh, quiet |-> run.quiet]
  /\ run.at \in Stage \cup {"failed"}
  /\ run.fresh \in BOOLEAN /\ run.quiet \in BOOLEAN

(* What is left to load is of the kind the loop loads.                     *)
TodoOK(run) ==
  /\ run.at = "clients" => run.todo \subseteq DemoCode
  /\ run.at = "backfill" => \A link \in run.todo : \E l, a : link = <<l, a>> /\ a \in Rich
  /\ run.at \in {"branches", "alerts"} => \A row \in run.todo : row.code \in Pilot
  /\ run.at = "notices" => run.todo \subseteq Notice
  /\ run.at \in {"renewals", "files"} => \A l \in run.todo : l.of.code \in Pilot

RunOK(run) == run = NotLoading \/ (RunShape(run) /\ TodoOK(run))

(* Nothing runs beside a quiet reload, nor two where nothing overlapped.   *)
Alone ==
  \A p, q \in Reload : Loading(p) /\ Loading(q) /\ (reloads[p].quiet \/ ~overlapped) => p = q

OnePerClient == \A l, m \in granted : l.of = m.of => l = m

Licensed == {l.of : l \in granted}

(* The clients a reload has still to give a licence have none.             *)
NotYetLicensed ==
  ~overlapped =>
    /\ OnePerClient
    /\ \A q \in Reload : reloads[q].at = "licences" => reloads[q].todo \cap Licensed = {}

(* What a quiet reload has reached, whatever it found.                     *)
Filling(run) ==
  /\ run.at = "clients" => \A code \in DemoCode \ run.todo : \E r \in seeded : r.code = code
  /\ Rank(run.at) > Rank("clients") => seeded # {}
  /\ run.at = "licences" => seeded \subseteq run.todo \cup Licensed
  /\ Rank(run.at) > Rank("licences") => granted # {}
  /\ run.at = "links" => granted \subseteq run.todo \cup WithArticles
  /\ run.at = "backfill" => (granted \ WithArticles) \X Rich \subseteq run.todo
  /\ Rank(run.at) > Rank("links") => granted \subseteq WithArticles

(* What the loop loads, as far as the reload has come.                     *)
Loaded(run, loop, all) ==
  IF Rank(run.at) < Rank(loop) THEN {} ELSE IF run.at = loop THEN all \ run.todo ELSE all

OfPilot(rows) == {l \in rows : l.of.code \in Pilot}

(* A quiet reload of an empty base has loaded all it has passed, and       *)
(* nothing else is there.                                                  *)
LoadedAll(run) ==
  /\ run.at # "backfill"
  /\ {r.code : r \in seeded} = Loaded(run, "clients", DemoCode)
  /\ fiches = ({"branches"} \X Loaded(run, "branches", Piloted(seeded)))
                \cup ({"contacts"} \X Loaded(run, "contacts", seeded))
  /\ Licensed = Loaded(run, "licences", seeded) /\ OnePerClient
  /\ renewals = Loaded(run, "renewals", OfPilot(granted))
  /\ given = Loaded(run, "links", granted) \X Rich
  /\ tracked = Loaded(run, "snapshots", granted)
  /\ {a.of : a \in alerts} = Loaded(run, "alerts", Piloted(seeded))
  /\ {n[1] : n \in notices} = Loaded(run, "notices", Notice)
  /\ files = Loaded(run, "files", OfPilot(granted))

Knows(run) ==
  /\ run.at = "phase4" => run.known = {}
  /\ run.at \in {"clients", "branches"} => run.known = seeded
  /\ run.at = "licences" => run.known = granted
  /\ run.at = "links" => run.known = granted \ run.todo

Progress(run) ==
  /\ Filling(run)
  /\ run.fresh => LoadedAll(run) /\ Knows(run)

(* Where a quiet reload ended well, those after it pass the loops that     *)
(* would create anything.                                                  *)
Passing == {"phase4", "phase5", "phase6", "backfill", "phase7", "history", "alerts", "notices", "files"}

Settled(run) ==
  /\ seeded # {} /\ granted # {} /\ granted \subseteq WithArticles
  /\ run.fresh => Complete
  /\ \A p \in Reload : Loading(p) => reloads[p].at \in Passing

DemoInv ==
  /\ DemoTypeOK /\ IsFiniteSet(granted) /\ era \in 0 .. MaxPurges /\ overlapped \in BOOLEAN
  /\ reloads = [q \in Reload |-> reloads[q]]
  /\ \A q \in Reload : RunOK(reloads[q])
  /\ Alone
  /\ NotYetLicensed
  /\ \A q \in Reload : Loading(q) /\ reloads[q].quiet => Progress(reloads[q])
  /\ \A q \in Reload : reloads[q].at = "done" /\ reloads[q].quiet => Settled(reloads[q])

LEMMA DemoInvInitially ==
  ASSUME DemoInit
  PROVE  DemoInv
<1>1. \A q \in Reload : reloads[q] = NotLoading /\ reloads[q].at = "idle"
  BY DEF DemoInit, NotLoading
<1>2. DemoTypeOK /\ IsFiniteSet(granted) /\ era \in 0 .. MaxPurges /\ overlapped \in BOOLEAN
  <2>1. DemoTypeOK
    BY DEF DemoInit, DemoTypeOK
  <2>2. IsFiniteSet(granted)
    BY FS_EmptySet DEF DemoInit
  <2>3. era \in 0 .. MaxPurges
    BY DemoAssumption DEF DemoInit
  <2> QED
    BY <2>1, <2>2, <2>3 DEF DemoInit
<1>3. Alone /\ \A q \in Reload : ~ Loading(q)
  BY <1>1 DEF Alone, Loading
<1>4. NotYetLicensed
  BY <1>1 DEF DemoInit, NotYetLicensed, OnePerClient
<1>5. reloads = [q \in Reload |-> reloads[q]]
  BY DEF DemoInit
<1> QED
  BY <1>1, <1>2, <1>3, <1>4, <1>5 DEF DemoInv, RunOK

LEMMA DemoInvExact ==
  ASSUME DemoInv
  PROVE  ReloadsExact
<1>1. FreshReloadComplete
  BY DEF DemoInv, FreshReloadComplete, Settled
<1>2. ReloadFillsLicences
  BY DEF DemoInv, ReloadFillsLicences, Settled, WithArticles
<1>3. LicencePerClient
  BY DEF DemoInv, LicencePerClient, NotYetLicensed, OnePerClient
<1> QED
  BY <1>1, <1>2, <1>3 DEF DemoInv, ReloadsExact

-----------------------------------------------------------------------------
(* A step of one reload. *)

(* The reload moved, and no other.                                         *)
Moved(q) ==
  /\ Loading(q) /\ RunShape(reloads[q]) /\ TodoOK(reloads[q])
  /\ era' = era /\ overlapped' = overlapped
  /\ reloads' = [p \in Reload |-> IF p = q THEN reloads'[q] ELSE reloads[p]]
  /\ RunShape(reloads'[q])
  /\ reloads'[q].fresh = reloads[q].fresh /\ reloads'[q].quiet = reloads[q].quiet

(* All is there, or was.                                                   *)
FullBase == seeded # {} /\ granted # {} /\ granted \subseteq WithArticles

(* What a step of a reload has to keep, for the invariant to be kept.      *)
Kept(q) ==
  /\ Moved(q)
  /\ TodoOK(reloads'[q])
  /\ DemoTypeOK' /\ IsFiniteSet(granted')
  /\ NotYetLicensed'
  /\ reloads[q].quiet /\ reloads'[q].at # "failed" => Progress(reloads[q])'
  /\ reloads[q].quiet /\ reloads'[q].at = "done" => FullBase' /\ (reloads[q].fresh => Complete')
  /\ FullBase /\ reloads[q].at \in Passing =>
       /\ FullBase' /\ (Complete => Complete')
       /\ reloads'[q].at \in Passing \cup {"done", "failed"}

LEMMA KeptIsEnough ==
  ASSUME DemoInv, NEW q \in Reload, Kept(q)
  PROVE  DemoInv'
<1>1. /\ \A p \in Reload \ {q} : reloads'[p] = reloads[p]
      /\ reloads' = [p \in Reload |-> reloads'[p]]
      /\ Loading(q)
  BY DEF Kept, Moved
<1>2. \A p \in Reload : Loading(p)' => Loading(p)
  BY <1>1 DEF Loading
<1>3. \A p \in Reload : RunOK(reloads[p])'
  BY <1>1 DEF DemoInv, RunOK, Kept, Moved, TodoOK, RunShape
<1>4. \A p \in Reload : reloads'[p].quiet = reloads[p].quiet
  BY <1>1 DEF Kept, Moved
<1>5. Alone'
  <2> SUFFICES ASSUME NEW p \in Reload, NEW r \in Reload,
                      Loading(p)', Loading(r)', reloads'[p].quiet \/ ~ overlapped'
               PROVE  p = r
    BY DEF Alone
  <2>1. Loading(p) /\ Loading(r) /\ (reloads[p].quiet \/ ~ overlapped)
    BY <1>2, <1>4 DEF Kept, Moved
  <2> QED
    BY <2>1 DEF DemoInv, Alone
<1>6. ASSUME NEW p \in Reload, Loading(p)', reloads'[p].quiet
      PROVE  Progress(reloads[p])'
  <2>1. p = q
    BY <1>1, <1>2, <1>4, <1>6 DEF DemoInv, Alone
  <2>2. reloads'[q].at # "failed"
    BY <1>6, <2>1 DEF Loading
  <2> QED
    BY <1>6, <2>1, <2>2 DEF Kept, Moved
<1>7. ASSUME NEW d \in Reload, reloads'[d].at = "done", reloads'[d].quiet
      PROVE  Settled(reloads[d])'
  <2>1. CASE d = q
    <3>2. FullBase' /\ (reloads'[q].fresh => Complete')
      BY <1>7, <2>1 DEF Kept, Moved
    <3>3. ASSUME NEW p \in Reload, Loading(p)' PROVE FALSE
      <4>1. Loading(p) /\ p # q
        BY <1>2, <1>7, <2>1, <3>3 DEF Loading
      <4>2. reloads[q].quiet
        BY <1>7, <2>1 DEF Kept, Moved
      <4> QED
        BY <1>1, <4>1, <4>2 DEF DemoInv, Alone
    <3> QED
      BY <2>1, <3>2, <3>3 DEF Settled, FullBase
  <2>2. CASE d # q
    <3>1. reloads'[d] = reloads[d] /\ Settled(reloads[d])
      BY <1>1, <1>7, <2>2 DEF DemoInv
    <3>2. FullBase /\ reloads[q].at \in Passing
      BY <1>1, <3>1 DEF Settled, FullBase
    <3>3. FullBase' /\ (Complete => Complete') /\ reloads'[q].at \in Passing \cup {"done", "failed"}
      BY <3>2 DEF Kept
    <3>4. ASSUME NEW p \in Reload, Loading(p)' PROVE reloads'[p].at \in Passing
      <4>1. CASE p = q
        BY <3>3, <3>4, <4>1 DEF Loading
      <4>2. CASE p # q
        BY <1>1, <1>2, <3>1, <3>4, <4>2 DEF Settled
      <4> QED
        BY <4>1, <4>2
    <3> QED
      BY <3>1, <3>3, <3>4 DEF Settled, FullBase
  <2> QED
    BY <2>1, <2>2
<1>8. DemoTypeOK' /\ IsFiniteSet(granted)' /\ era' \in 0 .. MaxPurges /\ overlapped' \in BOOLEAN
  BY DEF DemoInv, Kept, Moved
<1> QED
  BY <1>1, <1>3, <1>5, <1>6, <1>7, <1>8 DEF DemoInv, Kept

LEMMA RunIs ==
  ASSUME DemoInv, NEW q \in Reload, reloads[q].at \in Stage
  PROVE  RunShape(reloads[q]) /\ TodoOK(reloads[q]) /\ reloads[q] # NotLoading
<1>1. reloads[q].at # "idle"
  BY DEF Stage
<1> QED
  BY <1>1 DEF DemoInv, RunOK, NotLoading

(* The three ways a reload moves.                                          *)
LEMMA LoopOverMoves ==
  ASSUME DemoInv, NEW q \in Reload, reloads[q].at \in Stage \ {"done"},
         NEW at \in Stage, NEW todo, LoopOver(q, at, todo), UNCHANGED <<era, overlapped>>
  PROVE  /\ Moved(q)
         /\ reloads'[q].at = at /\ reloads'[q].todo = todo /\ reloads'[q].known = reloads[q].known
<1>1. RunShape(reloads[q]) /\ TodoOK(reloads[q]) /\ reloads = [p \in Reload |-> reloads[p]]
  BY RunIs DEF DemoInv
<1>2. /\ reloads' = [p \in Reload |-> IF p = q THEN reloads'[q] ELSE reloads[p]]
      /\ reloads'[q] = [at |-> at, todo |-> todo, known |-> reloads[q].known,
                        fresh |-> reloads[q].fresh, quiet |-> reloads[q].quiet]
  BY <1>1 DEF LoopOver, RunShape
<1>3. Loading(q)
  BY DEF Loading, Stage
<1> QED
  BY <1>1, <1>2, <1>3 DEF Moved, RunShape

LEMMA AdvanceMoves ==
  ASSUME DemoInv, NEW q \in Reload, reloads[q].at \in Stage \ {"done"},
         NEW x, NEW new, Advance(q, x, new), UNCHANGED <<era, overlapped>>
  PROVE  /\ Moved(q)
         /\ reloads'[q].at = reloads[q].at /\ reloads'[q].todo = reloads[q].todo \ {x}
         /\ reloads'[q].known = reloads[q].known \cup new
<1>1. RunShape(reloads[q]) /\ TodoOK(reloads[q]) /\ reloads = [p \in Reload |-> reloads[p]]
  BY RunIs DEF DemoInv
<1>2. /\ reloads' = [p \in Reload |-> IF p = q THEN reloads'[q] ELSE reloads[p]]
      /\ reloads'[q] = [at |-> reloads[q].at, todo |-> reloads[q].todo \ {x},
                        known |-> reloads[q].known \cup new,
                        fresh |-> reloads[q].fresh, quiet |-> reloads[q].quiet]
  BY <1>1 DEF Advance, RunShape
<1>3. Loading(q)
  BY DEF Loading, Stage
<1> QED
  BY <1>1, <1>2, <1>3 DEF Moved, RunShape

LEMMA StrikeMoves ==
  ASSUME DemoInv, NEW q \in Reload, reloads[q].at \in Stage \ {"done"},
         NEW x, Advance(q, x, {}), UNCHANGED <<era, overlapped>>
  PROVE  /\ Moved(q)
         /\ reloads'[q].at = reloads[q].at /\ reloads'[q].todo = reloads[q].todo \ {x}
         /\ reloads'[q].known = reloads[q].known
<1> DEFINE none == {}
<1>1. Advance(q, x, none)
  OBVIOUS
<1> HIDE DEF none
<1>2. /\ Moved(q)
      /\ reloads'[q].at = reloads[q].at /\ reloads'[q].todo = reloads[q].todo \ {x}
      /\ reloads'[q].known = reloads[q].known \cup none
  BY <1>1, AdvanceMoves
<1> QED
  BY <1>2 DEF none

LEMMA RestartMoves ==
  ASSUME DemoInv, NEW q \in Reload, reloads[q].at \in Stage \ {"done"},
         NEW at \in Stage, NEW todo, UNCHANGED <<era, overlapped>>,
         reloads' = [reloads EXCEPT ![q].at = at, ![q].todo = todo, ![q].known = {}]
  PROVE  /\ Moved(q)
         /\ reloads'[q].at = at /\ reloads'[q].todo = todo /\ reloads'[q].known = {}
<1>1. RunShape(reloads[q]) /\ TodoOK(reloads[q]) /\ reloads = [p \in Reload |-> reloads[p]]
  BY RunIs DEF DemoInv
<1>2. /\ reloads' = [p \in Reload |-> IF p = q THEN reloads'[q] ELSE reloads[p]]
      /\ reloads'[q] = [at |-> at, todo |-> todo, known |-> {},
                        fresh |-> reloads[q].fresh, quiet |-> reloads[q].quiet]
  BY <1>1 DEF RunShape
<1>3. Loading(q)
  BY DEF Loading, Stage
<1> QED
  BY <1>1, <1>2, <1>3 DEF Moved, RunShape

(* No row changes, and no reload comes to give licences.                   *)
LEMMA BaseKept ==
  ASSUME DemoInv, NEW q \in Reload, Moved(q), UNCHANGED base,
         reloads'[q].at = "licences" => reloads[q].at = "licences"
                                        /\ reloads'[q].todo \subseteq reloads[q].todo
  PROVE  /\ DemoTypeOK' /\ IsFiniteSet(granted') /\ NotYetLicensed'
         /\ seeded' = seeded /\ fiches' = fiches /\ granted' = granted /\ renewals' = renewals
         /\ given' = given /\ tracked' = tracked /\ alerts' = alerts /\ notices' = notices
         /\ files' = files /\ WithArticles' = WithArticles /\ Licensed' = Licensed
         /\ FullBase' = FullBase /\ Complete' = Complete
<1>1. /\ seeded' = seeded /\ fiches' = fiches /\ granted' = granted /\ renewals' = renewals
      /\ given' = given /\ tracked' = tracked /\ alerts' = alerts /\ notices' = notices
      /\ files' = files
  BY DEF base
<1>2. WithArticles' = WithArticles /\ Licensed' = Licensed
  BY <1>1 DEF WithArticles, Licensed
<1>3. FullBase' = FullBase /\ Complete' = Complete
  BY <1>1, <1>2 DEF FullBase, Complete, Piloted
<1>4. DemoTypeOK' /\ IsFiniteSet(granted')
  BY <1>1 DEF DemoInv, DemoTypeOK
<1>5. \A p \in Reload : reloads'[p].at = "licences" =>
        reloads[p].at = "licences" /\ reloads'[p].todo \subseteq reloads[p].todo
  BY DEF Moved
<1>6. NotYetLicensed'
  BY <1>1, <1>2, <1>5 DEF DemoInv, NotYetLicensed, OnePerClient, Moved
<1> QED
  BY <1>1, <1>2, <1>3, <1>4, <1>6

(* A reload that breaks off leaves what is there.                          *)
LEMMA StepFailsKeeps ==
  ASSUME DemoInv, NEW q \in Reload, reloads[q].at \in Stage \ {"done"},
         StepFails(q), UNCHANGED <<era, overlapped>>
  PROVE  DemoInv'
<1>1. RunShape(reloads[q]) /\ TodoOK(reloads[q]) /\ reloads = [p \in Reload |-> reloads[p]]
  BY RunIs DEF DemoInv
<1>2. /\ reloads' = [p \in Reload |-> IF p = q THEN reloads'[q] ELSE reloads[p]]
      /\ reloads'[q] = [at |-> "failed", todo |-> reloads[q].todo, known |-> reloads[q].known,
                        fresh |-> reloads[q].fresh, quiet |-> reloads[q].quiet]
      /\ UNCHANGED base
  BY <1>1 DEF StepFails, RunShape
<1>3. Loading(q)
  BY DEF Loading, Stage
<1>4. Moved(q)
  BY <1>1, <1>2, <1>3 DEF Moved, RunShape
<1>5. TodoOK(reloads'[q]) /\ reloads'[q].at = "failed"
  BY <1>2 DEF TodoOK
<1>6. Kept(q)
  BY <1>2, <1>4, <1>5, BaseKept DEF Kept
<1> QED
  BY <1>6, KeptIsEnough

(* A reload goes on to the next loop.                                      *)
LEMMA TurnKeeps ==
  ASSUME DemoInv, NEW q \in Reload, Moved(q), UNCHANGED base, TodoOK(reloads'[q]),
         reloads'[q].at # "licences",
         reloads[q].quiet => Progress(reloads[q])',
         reloads[q].quiet /\ reloads'[q].at = "done" => FullBase /\ (reloads[q].fresh => Complete),
         FullBase /\ reloads[q].at \in Passing => reloads'[q].at \in Passing \cup {"done"}
  PROVE  DemoInv'
<1>1. Kept(q)
  BY BaseKept DEF Kept
<1> QED
  BY <1>1, KeptIsEnough

LEMMA ProgressOf ==
  ASSUME DemoInv, NEW q \in Reload, Loading(q), reloads[q].quiet
  PROVE  /\ Filling(reloads[q])
         /\ reloads[q].fresh => LoadedAll(reloads[q]) /\ Knows(reloads[q])
BY DEF DemoInv, Progress

LEMMA Phase4Keeps ==
  ASSUME DemoInv, NEW q \in Reload, Phase4(q), UNCHANGED <<era, overlapped>>
  PROVE  DemoInv'
<1> DEFINE next == IF seeded # {} THEN "phase5" ELSE "clients"
           todo == IF seeded # {} THEN {} ELSE DemoCode
<1>1. reloads[q].at = "phase4" /\ UNCHANGED base /\ LoopOver(q, next, todo)
  BY DEF Phase4
<1>2. /\ Moved(q)
      /\ reloads'[q].at = next /\ reloads'[q].todo = todo /\ reloads'[q].known = reloads[q].known
  BY <1>1, LoopOverMoves DEF Stage
<1>3. TodoOK(reloads'[q])
  BY <1>2 DEF TodoOK
<1>4. ASSUME reloads[q].quiet PROVE Progress(reloads[q])'
  <2>1. /\ Filling(reloads[q])
        /\ reloads[q].fresh => LoadedAll(reloads[q]) /\ Knows(reloads[q])
    BY <1>2, <1>4, ProgressOf DEF Moved
  <2>2. Filling(reloads[q])'
    BY <1>1, <1>2, <2>1, Ranks DEF Filling, base
  <2>3. ASSUME reloads[q].fresh PROVE (LoadedAll(reloads[q]) /\ Knows(reloads[q]))'
    <3>1. seeded = {}
      BY <1>1, <2>1, <2>3, Ranks DEF LoadedAll, Loaded
    <3> QED
      BY <1>1, <1>2, <2>1, <2>3, <3>1, BaseKept, Ranks DEF LoadedAll, Loaded, Knows, Piloted, OfPilot, OnePerClient
  <2> QED
    BY <1>2, <2>2, <2>3 DEF Progress, Moved
<1>5. FullBase => reloads'[q].at = "phase5"
  BY <1>2 DEF FullBase
<1> QED
  BY <1>1, <1>2, <1>3, <1>4, <1>5, TurnKeeps DEF Passing

LEMMA EndClientsKeeps ==
  ASSUME DemoInv, NEW q \in Reload, EndClients(q), UNCHANGED <<era, overlapped>>
  PROVE  DemoInv'
<1> DEFINE todo == Piloted(reloads[q].known)
<1>1. reloads[q].at = "clients" /\ reloads[q].todo = {} /\ UNCHANGED base
      /\ LoopOver(q, "branches", todo)
  BY DEF EndClients, LoopEnded
<1>2. /\ Moved(q)
      /\ reloads'[q].at = "branches" /\ reloads'[q].todo = todo
      /\ reloads'[q].known = reloads[q].known
  BY <1>1, LoopOverMoves DEF Stage
<1>3. TodoOK(reloads'[q])
  BY <1>2 DEF TodoOK, Piloted
<1>4. ASSUME reloads[q].quiet PROVE Progress(reloads[q])'
  <2>1. /\ Filling(reloads[q])
        /\ reloads[q].fresh => LoadedAll(reloads[q]) /\ Knows(reloads[q])
    BY <1>2, <1>4, ProgressOf DEF Moved
  <2>2. Filling(reloads[q])'
    BY <1>1, <1>2, <2>1, Ranks, DemoAssumption DEF Filling, base
  <2>3. ASSUME reloads[q].fresh PROVE (LoadedAll(reloads[q]) /\ Knows(reloads[q]))'
    BY <1>1, <1>2, <2>1, <2>3, BaseKept, Ranks DEF LoadedAll, Loaded, Knows, Piloted, OfPilot, OnePerClient
  <2> QED
    BY <1>2, <2>2, <2>3 DEF Progress, Moved
<1> QED
  BY <1>1, <1>2, <1>3, <1>4, TurnKeeps DEF Passing

LEMMA EndBranchesKeeps ==
  ASSUME DemoInv, NEW q \in Reload, EndBranches(q), UNCHANGED <<era, overlapped>>
  PROVE  DemoInv'
<1> DEFINE todo == reloads[q].known \cap seeded
<1>1. reloads[q].at = "branches" /\ reloads[q].todo = {} /\ UNCHANGED base
      /\ LoopOver(q, "contacts", todo)
  BY DEF EndBranches, LoopEnded
<1>2. /\ Moved(q)
      /\ reloads'[q].at = "contacts" /\ reloads'[q].todo = todo
      /\ reloads'[q].known = reloads[q].known
  BY <1>1, LoopOverMoves DEF Stage
<1>3. TodoOK(reloads'[q])
  BY <1>2 DEF TodoOK
<1>4. ASSUME reloads[q].quiet PROVE Progress(reloads[q])'
  <2>1. /\ Filling(reloads[q])
        /\ reloads[q].fresh => LoadedAll(reloads[q]) /\ Knows(reloads[q])
    BY <1>2, <1>4, ProgressOf DEF Moved
  <2>2. Filling(reloads[q])'
    BY <1>1, <1>2, <2>1, BaseKept, Ranks DEF Filling
  <2>3. ASSUME reloads[q].fresh PROVE (LoadedAll(reloads[q]) /\ Knows(reloads[q]))'
    BY <1>1, <1>2, <2>1, <2>3, BaseKept, Ranks
       DEF LoadedAll, Loaded, Knows, Piloted, OfPilot, OnePerClient
  <2> QED
    BY <1>2, <2>2, <2>3 DEF Progress, Moved
<1> QED
  BY <1>1, <1>2, <1>3, <1>4, TurnKeeps DEF Passing

LEMMA EndContactsKeeps ==
  ASSUME DemoInv, NEW q \in Reload, EndContacts(q), UNCHANGED <<era, overlapped>>
  PROVE  DemoInv'
<1>1. reloads[q].at = "contacts" /\ reloads[q].todo = {} /\ UNCHANGED base
      /\ LoopOver(q, "phase5", {})
  BY DEF EndContacts, LoopEnded
<1>2. /\ Moved(q)
      /\ reloads'[q].at = "phase5" /\ reloads'[q].todo = {}
      /\ reloads'[q].known = reloads[q].known
  BY <1>1, LoopOverMoves DEF Stage
<1>3. TodoOK(reloads'[q])
  BY <1>2 DEF TodoOK
<1>4. ASSUME reloads[q].quiet PROVE Progress(reloads[q])'
  <2>1. /\ Filling(reloads[q])
        /\ reloads[q].fresh => LoadedAll(reloads[q]) /\ Knows(reloads[q])
    BY <1>2, <1>4, ProgressOf DEF Moved
  <2>2. Filling(reloads[q])'
    BY <1>1, <1>2, <2>1, BaseKept, Ranks DEF Filling
  <2>3. ASSUME reloads[q].fresh PROVE (LoadedAll(reloads[q]) /\ Knows(reloads[q]))'
    BY <1>1, <1>2, <2>1, <2>3, BaseKept, Ranks
       DEF LoadedAll, Loaded, Knows, Piloted, OfPilot, OnePerClient
  <2> QED
    BY <1>2, <2>2, <2>3 DEF Progress, Moved
<1> QED
  BY <1>1, <1>2, <1>3, <1>4, TurnKeeps DEF Passing

LEMMA EndLicencesKeeps ==
  ASSUME DemoInv, NEW q \in Reload, EndLicences(q), UNCHANGED <<era, overlapped>>
  PROVE  DemoInv'
<1> DEFINE todo == {l \in reloads[q].known : l.of.code \in Pilot}
<1>1. reloads[q].at = "licences" /\ reloads[q].todo = {} /\ UNCHANGED base
      /\ LoopOver(q, "renewals", todo)
  BY DEF EndLicences, LoopEnded
<1>2. /\ Moved(q)
      /\ reloads'[q].at = "renewals" /\ reloads'[q].todo = todo
      /\ reloads'[q].known = reloads[q].known
  BY <1>1, LoopOverMoves DEF Stage
<1>3. TodoOK(reloads'[q])
  BY <1>2 DEF TodoOK
<1>4. ASSUME reloads[q].quiet PROVE Progress(reloads[q])'
  <2>1. /\ Filling(reloads[q])
        /\ reloads[q].fresh => LoadedAll(reloads[q]) /\ Knows(reloads[q])
    BY <1>2, <1>4, ProgressOf DEF Moved
  <2>2. Filling(reloads[q])'
    BY <1>1, <1>2, <2>1, BaseKept, Ranks DEF Filling, Licensed
  <2>3. ASSUME reloads[q].fresh PROVE (LoadedAll(reloads[q]) /\ Knows(reloads[q]))'
    BY <1>1, <1>2, <2>1, <2>3, BaseKept, Ranks
       DEF LoadedAll, Loaded, Knows, Piloted, OfPilot, OnePerClient
  <2> QED
    BY <1>2, <2>2, <2>3 DEF Progress, Moved
<1> QED
  BY <1>1, <1>2, <1>3, <1>4, TurnKeeps DEF Passing

LEMMA EndRenewalsKeeps ==
  ASSUME DemoInv, NEW q \in Reload, EndRenewals(q), UNCHANGED <<era, overlapped>>
  PROVE  DemoInv'
<1>1. reloads[q].at = "renewals" /\ reloads[q].todo = {} /\ UNCHANGED base
      /\ LoopOver(q, "phase6", {})
  BY DEF EndRenewals, LoopEnded
<1>2. /\ Moved(q)
      /\ reloads'[q].at = "phase6" /\ reloads'[q].todo = {}
      /\ reloads'[q].known = reloads[q].known
  BY <1>1, LoopOverMoves DEF Stage
<1>3. TodoOK(reloads'[q])
  BY <1>2 DEF TodoOK
<1>4. ASSUME reloads[q].quiet PROVE Progress(reloads[q])'
  <2>1. /\ Filling(reloads[q])
        /\ reloads[q].fresh => LoadedAll(reloads[q]) /\ Knows(reloads[q])
    BY <1>2, <1>4, ProgressOf DEF Moved
  <2>2. Filling(reloads[q])'
    BY <1>1, <1>2, <2>1, BaseKept, Ranks DEF Filling
  <2>3. ASSUME reloads[q].fresh PROVE (LoadedAll(reloads[q]) /\ Knows(reloads[q]))'
    BY <1>1, <1>2, <2>1, <2>3, BaseKept, Ranks
       DEF LoadedAll, Loaded, Knows, Piloted, OfPilot, OnePerClient
  <2> QED
    BY <1>2, <2>2, <2>3 DEF Progress, Moved
<1> QED
  BY <1>1, <1>2, <1>3, <1>4, TurnKeeps DEF Passing

LEMMA EndLinksKeeps ==
  ASSUME DemoInv, NEW q \in Reload, EndLinks(q), UNCHANGED <<era, overlapped>>
  PROVE  DemoInv'
<1> DEFINE todo == reloads[q].known
<1>1. reloads[q].at = "links" /\ reloads[q].todo = {} /\ UNCHANGED base
      /\ LoopOver(q, "snapshots", todo)
  BY DEF EndLinks, LoopEnded
<1>2. /\ Moved(q)
      /\ reloads'[q].at = "snapshots" /\ reloads'[q].todo = todo
      /\ reloads'[q].known = reloads[q].known
  BY <1>1, LoopOverMoves DEF Stage
<1>3. TodoOK(reloads'[q])
  BY <1>2 DEF TodoOK
<1>4. ASSUME reloads[q].quiet PROVE Progress(reloads[q])'
  <2>1. /\ Filling(reloads[q])
        /\ reloads[q].fresh => LoadedAll(reloads[q]) /\ Knows(reloads[q])
    BY <1>2, <1>4, ProgressOf DEF Moved
  <2>2. Filling(reloads[q])'
    BY <1>1, <1>2, <2>1, BaseKept, Ranks DEF Filling
  <2>3. ASSUME reloads[q].fresh PROVE (LoadedAll(reloads[q]) /\ Knows(reloads[q]))'
    BY <1>1, <1>2, <2>1, <2>3, BaseKept, Ranks
       DEF LoadedAll, Loaded, Knows, Piloted, OfPilot, OnePerClient
  <2> QED
    BY <1>2, <2>2, <2>3 DEF Progress, Moved
<1> QED
  BY <1>1, <1>2, <1>3, <1>4, TurnKeeps DEF Passing

LEMMA Phase7Keeps ==
  ASSUME DemoInv, NEW q \in Reload, Phase7(q), UNCHANGED <<era, overlapped>>
  PROVE  DemoInv'
<1> DEFINE todo == IF tracked # {} THEN {} ELSE WithArticles
<1>1. reloads[q].at = "phase7" /\ UNCHANGED base
      /\ LoopOver(q, "history", todo)
  BY DEF Phase7
<1>2. /\ Moved(q)
      /\ reloads'[q].at = "history" /\ reloads'[q].todo = todo
      /\ reloads'[q].known = reloads[q].known
  BY <1>1, LoopOverMoves DEF Stage
<1>3. TodoOK(reloads'[q])
  BY <1>2 DEF TodoOK
<1>4. ASSUME reloads[q].quiet PROVE Progress(reloads[q])'
  <2>1. /\ Filling(reloads[q])
        /\ reloads[q].fresh => LoadedAll(reloads[q]) /\ Knows(reloads[q])
    BY <1>2, <1>4, ProgressOf DEF Moved
  <2>2. Filling(reloads[q])'
    BY <1>1, <1>2, <2>1, BaseKept, Ranks DEF Filling
  <2>3. ASSUME reloads[q].fresh PROVE (LoadedAll(reloads[q]) /\ Knows(reloads[q]))'
    BY <1>1, <1>2, <2>1, <2>3, BaseKept, Ranks
       DEF LoadedAll, Loaded, Knows, Piloted, OfPilot, OnePerClient
  <2> QED
    BY <1>2, <2>2, <2>3 DEF Progress, Moved
<1> QED
  BY <1>1, <1>2, <1>3, <1>4, TurnKeeps DEF Passing

LEMMA EndHistoryKeeps ==
  ASSUME DemoInv, NEW q \in Reload, EndHistory(q), UNCHANGED <<era, overlapped>>
  PROVE  DemoInv'
<1> DEFINE todo == Piloted(seeded)
<1>1. reloads[q].at = "history" /\ reloads[q].todo = {} /\ UNCHANGED base
      /\ LoopOver(q, "alerts", todo)
  BY DEF EndHistory, LoopEnded
<1>2. /\ Moved(q)
      /\ reloads'[q].at = "alerts" /\ reloads'[q].todo = todo
      /\ reloads'[q].known = reloads[q].known
  BY <1>1, LoopOverMoves DEF Stage
<1>3. TodoOK(reloads'[q])
  BY <1>2 DEF TodoOK, Piloted
<1>4. ASSUME reloads[q].quiet PROVE Progress(reloads[q])'
  <2>1. /\ Filling(reloads[q])
        /\ reloads[q].fresh => LoadedAll(reloads[q]) /\ Knows(reloads[q])
    BY <1>2, <1>4, ProgressOf DEF Moved
  <2>2. Filling(reloads[q])'
    BY <1>1, <1>2, <2>1, BaseKept, Ranks DEF Filling
  <2>3. ASSUME reloads[q].fresh PROVE (LoadedAll(reloads[q]) /\ Knows(reloads[q]))'
    BY <1>1, <1>2, <2>1, <2>3, BaseKept, Ranks
       DEF LoadedAll, Loaded, Knows, Piloted, OfPilot, OnePerClient
  <2> QED
    BY <1>2, <2>2, <2>3 DEF Progress, Moved
<1> QED
  BY <1>1, <1>2, <1>3, <1>4, TurnKeeps DEF Passing

LEMMA EndAlertsKeeps ==
  ASSUME DemoInv, NEW q \in Reload, EndAlerts(q), UNCHANGED <<era, overlapped>>
  PROVE  DemoInv'
<1> DEFINE todo == IF notices # {} THEN {} ELSE Notice
<1>1. reloads[q].at = "alerts" /\ reloads[q].todo = {} /\ UNCHANGED base
      /\ LoopOver(q, "notices", todo)
  BY DEF EndAlerts, LoopEnded
<1>2. /\ Moved(q)
      /\ reloads'[q].at = "notices" /\ reloads'[q].todo = todo
      /\ reloads'[q].known = reloads[q].known
  BY <1>1, LoopOverMoves DEF Stage
<1>3. TodoOK(reloads'[q])
  BY <1>2 DEF TodoOK
<1>4. ASSUME reloads[q].quiet PROVE Progress(reloads[q])'
  <2>1. /\ Filling(reloads[q])
        /\ reloads[q].fresh => LoadedAll(reloads[q]) /\ Knows(reloads[q])
    BY <1>2, <1>4, ProgressOf DEF Moved
  <2>2. Filling(reloads[q])'
    BY <1>1, <1>2, <2>1, BaseKept, Ranks DEF Filling
  <2>3. ASSUME reloads[q].fresh PROVE (LoadedAll(reloads[q]) /\ Knows(reloads[q]))'
    <3>1. {n[1] : n \in notices} = {} /\ notices = {} /\ todo = Notice
      BY <1>1, <2>1, <2>3, Ranks DEF LoadedAll, Loaded
    <3> QED
      BY <1>1, <1>2, <2>1, <2>3, <3>1, BaseKept, Ranks
         DEF LoadedAll, Loaded, Knows, Piloted, OfPilot, OnePerClient
  <2> QED
    BY <1>2, <2>2, <2>3 DEF Progress, Moved
<1> QED
  BY <1>1, <1>2, <1>3, <1>4, TurnKeeps DEF Passing

LEMMA EndNoticesKeeps ==
  ASSUME DemoInv, NEW q \in Reload, EndNotices(q), UNCHANGED <<era, overlapped>>
  PROVE  DemoInv'
<1> DEFINE todo == IF files # {} THEN {} ELSE {l \in LicencesByCode : l.of.code \in Pilot}
<1>1. reloads[q].at = "notices" /\ reloads[q].todo = {} /\ UNCHANGED base
      /\ LoopOver(q, "files", todo)
  BY DEF EndNotices, LoopEnded
<1>2. /\ Moved(q)
      /\ reloads'[q].at = "files" /\ reloads'[q].todo = todo
      /\ reloads'[q].known = reloads[q].known
  BY <1>1, LoopOverMoves DEF Stage
<1>3. TodoOK(reloads'[q])
  BY <1>2 DEF TodoOK
<1>4. ASSUME reloads[q].quiet PROVE Progress(reloads[q])'
  <2>1. /\ Filling(reloads[q])
        /\ reloads[q].fresh => LoadedAll(reloads[q]) /\ Knows(reloads[q])
    BY <1>2, <1>4, ProgressOf DEF Moved
  <2>2. Filling(reloads[q])'
    BY <1>1, <1>2, <2>1, BaseKept, Ranks DEF Filling
  <2>3. ASSUME reloads[q].fresh PROVE (LoadedAll(reloads[q]) /\ Knows(reloads[q]))'
    <3>1. files = {} /\ OnePerClient
      BY <1>1, <2>1, <2>3, Ranks DEF LoadedAll, Loaded
    <3>2. LicencesByCode = granted
      <4>1. ASSUME NEW l \in granted PROVE (CHOOSE m \in granted : m.of = l.of) = l
        BY <3>1 DEF OnePerClient
      <4> QED
        BY <4>1 DEF LicencesByCode
    <3>3. todo = OfPilot(granted)
      BY <3>1, <3>2 DEF OfPilot
    <3> HIDE DEF todo
    <3> QED
      BY <1>1, <1>2, <2>1, <2>3, <3>1, <3>3, BaseKept, Ranks
         DEF LoadedAll, Loaded, Knows, Piloted, OfPilot, OnePerClient
  <2> QED
    BY <1>2, <2>2, <2>3 DEF Progress, Moved
<1> QED
  BY <1>1, <1>2, <1>3, <1>4, TurnKeeps DEF Passing

LEMMA EndReloadKeeps ==
  ASSUME DemoInv, NEW q \in Reload, EndReload(q), UNCHANGED <<era, overlapped>>
  PROVE  DemoInv'
<1>1. reloads[q].at = "files" /\ reloads[q].todo = {} /\ UNCHANGED base
      /\ LoopOver(q, "done", {})
  BY DEF EndReload, LoopEnded
<1>2. /\ Moved(q)
      /\ reloads'[q].at = "done" /\ reloads'[q].todo = {}
      /\ reloads'[q].known = reloads[q].known
  BY <1>1, LoopOverMoves DEF Stage
<1>3. TodoOK(reloads'[q])
  BY <1>2 DEF TodoOK
<1>4. ASSUME reloads[q].quiet PROVE Progress(reloads[q])'
  <2>1. /\ Filling(reloads[q])
        /\ reloads[q].fresh => LoadedAll(reloads[q]) /\ Knows(reloads[q])
    BY <1>2, <1>4, ProgressOf DEF Moved
  <2>2. Filling(reloads[q])'
    BY <1>1, <1>2, <2>1, BaseKept, Ranks DEF Filling
  <2>3. ASSUME reloads[q].fresh PROVE (LoadedAll(reloads[q]) /\ Knows(reloads[q]))'
    BY <1>1, <1>2, <2>1, <2>3, BaseKept, Ranks
       DEF LoadedAll, Loaded, Knows, Piloted, OfPilot, OnePerClient
  <2> QED
    BY <1>2, <2>2, <2>3 DEF Progress, Moved
<1>5. ASSUME reloads[q].quiet PROVE FullBase /\ (reloads[q].fresh => Complete)
  <2>1. /\ Filling(reloads[q])
        /\ reloads[q].fresh => LoadedAll(reloads[q]) /\ Knows(reloads[q])
    BY <1>2, <1>5, ProgressOf DEF Moved
  <2>2. FullBase
    BY <1>1, <2>1, Ranks DEF Filling, FullBase
  <2>3. ASSUME reloads[q].fresh PROVE Complete
    <3>1. /\ {r.code : r \in seeded} = DemoCode
          /\ fiches = ({"branches"} \X Piloted(seeded)) \cup ({"contacts"} \X seeded)
          /\ Licensed = seeded
      BY <1>1, <2>1, <2>3, Ranks DEF LoadedAll, Loaded
    <3>2. /\ renewals = OfPilot(granted) /\ files = OfPilot(granted)
          /\ given = granted \X Rich /\ tracked = granted
      BY <1>1, <2>1, <2>3, Ranks DEF LoadedAll, Loaded
    <3>3. /\ {a.of : a \in alerts} = Piloted(seeded)
          /\ {n[1] : n \in notices} = Notice
      BY <1>1, <2>1, <2>3, Ranks DEF LoadedAll, Loaded
    <3>4. fiches = ({"contacts"} \X seeded) \cup ({"branches"} \X Piloted(seeded))
      BY <3>1
    <3> QED
      BY <3>1, <3>2, <3>3, <3>4 DEF Complete, Licensed, OfPilot
  <2> QED
    BY <2>2, <2>3
<1> QED
  BY <1>1, <1>2, <1>3, <1>4, <1>5, TurnKeeps DEF Passing

LEMMA EndLiaisonsKeeps ==
  ASSUME DemoInv, NEW q \in Reload, EndLiaisons(q), UNCHANGED <<era, overlapped>>
  PROVE  DemoInv'
<1>1. reloads[q].at \in {"snapshots", "backfill"} /\ reloads[q].todo = {} /\ UNCHANGED base
      /\ LoopOver(q, "phase7", {})
  BY DEF EndLiaisons, LoopEnded
<1>2. /\ Moved(q)
      /\ reloads'[q].at = "phase7" /\ reloads'[q].todo = {}
      /\ reloads'[q].known = reloads[q].known
  BY <1>1, LoopOverMoves DEF Stage
<1>3. TodoOK(reloads'[q])
  BY <1>2 DEF TodoOK
<1>4. ASSUME reloads[q].quiet PROVE Progress(reloads[q])'
  <2>1. /\ Filling(reloads[q])
        /\ reloads[q].fresh => LoadedAll(reloads[q]) /\ Knows(reloads[q])
    BY <1>2, <1>4, ProgressOf DEF Moved
  <2>0. granted \subseteq WithArticles
    <3>1. CASE reloads[q].at = "snapshots"
      BY <2>1, <3>1, Ranks DEF Filling
    <3>2. CASE reloads[q].at = "backfill"
      <4>1. (granted \ WithArticles) \X Rich = {}
        BY <1>1, <2>1, <3>2 DEF Filling
      <4>2. PICK a \in Rich : TRUE
        BY DemoAssumption
      <4>3. ASSUME NEW l \in granted, l \notin WithArticles PROVE FALSE
        <5>1. <<l, a>> \in (granted \ WithArticles) \X Rich
          BY <4>2, <4>3
        <5> QED
          BY <4>1, <5>1
      <4> QED
        BY <4>3
    <3> QED
      BY <1>1, <3>1, <3>2
  <2>2. Filling(reloads[q])'
    BY <1>1, <1>2, <2>0, <2>1, BaseKept, Ranks DEF Filling
  <2>3. ASSUME reloads[q].fresh PROVE (LoadedAll(reloads[q]) /\ Knows(reloads[q]))'
    BY <1>1, <1>2, <2>1, <2>3, BaseKept, Ranks
       DEF LoadedAll, Loaded, Knows, Piloted, OfPilot, OnePerClient
  <2> QED
    BY <1>2, <2>2, <2>3 DEF Progress, Moved
<1> QED
  BY <1>1, <1>2, <1>3, <1>4, TurnKeeps DEF Passing

LEMMA Phase5Keeps ==
  ASSUME DemoInv, NEW q \in Reload, Phase5(q), UNCHANGED <<era, overlapped>>
  PROVE  DemoInv'
<1>1. reloads[q].at = "phase5" /\ UNCHANGED base
  BY DEF Phase5
<1>2. CASE granted # {} \/ seeded = {}
  <2>1. LoopOver(q, "phase6", {})
    BY <1>2 DEF Phase5
  <2>2. /\ Moved(q)
        /\ reloads'[q].at = "phase6" /\ reloads'[q].todo = {} /\ reloads'[q].known = reloads[q].known
    BY <1>1, <2>1, LoopOverMoves DEF Stage
  <2>3. TodoOK(reloads'[q])
    BY <2>2 DEF TodoOK
  <2>4. ASSUME reloads[q].quiet PROVE Progress(reloads[q])'
    <3>1. /\ Filling(reloads[q])
          /\ reloads[q].fresh => LoadedAll(reloads[q]) /\ Knows(reloads[q])
      BY <2>2, <2>4, ProgressOf DEF Moved
    <3>2. seeded # {} /\ granted # {}
      BY <1>1, <1>2, <3>1, Ranks DEF Filling
    <3>3. Filling(reloads[q])'
      BY <1>1, <2>2, <3>1, <3>2, BaseKept, Ranks DEF Filling
    <3>4. ~ reloads[q].fresh
      BY <1>1, <3>1, <3>2, Ranks DEF LoadedAll, Loaded, Licensed
    <3> QED
      BY <2>2, <3>3, <3>4 DEF Progress, Moved
  <2> QED
    BY <1>1, <2>2, <2>3, <2>4, TurnKeeps DEF Passing
<1>3. CASE ~ (granted # {} \/ seeded = {})
  <2>1. reloads' = [reloads EXCEPT ![q].at = "licences", ![q].todo = seeded, ![q].known = {}]
    BY <1>3 DEF Phase5
  <2>2. /\ Moved(q)
        /\ reloads'[q].at = "licences" /\ reloads'[q].todo = seeded /\ reloads'[q].known = {}
    BY <1>1, <2>1, RestartMoves DEF Stage
  <2>3. TodoOK(reloads'[q])
    BY <2>2 DEF TodoOK
  <2>4. /\ seeded' = seeded /\ fiches' = fiches /\ granted' = granted /\ renewals' = renewals
        /\ given' = given /\ tracked' = tracked /\ alerts' = alerts /\ notices' = notices
        /\ files' = files /\ WithArticles' = WithArticles /\ Licensed' = Licensed
        /\ Licensed = {} /\ granted = {}
    BY <1>1, <1>3 DEF base, WithArticles, Licensed
  <2>5. NotYetLicensed' /\ DemoTypeOK' /\ IsFiniteSet(granted')
    BY <2>4 DEF NotYetLicensed, OnePerClient, DemoInv, DemoTypeOK
  <2>6. ASSUME reloads[q].quiet PROVE Progress(reloads[q])'
    <3>1. /\ Filling(reloads[q])
          /\ reloads[q].fresh => LoadedAll(reloads[q]) /\ Knows(reloads[q])
      BY <2>2, <2>6, ProgressOf DEF Moved
    <3>2. Filling(reloads[q])'
      BY <1>1, <2>2, <2>4, <3>1, Ranks DEF Filling
    <3>3. ASSUME reloads[q].fresh PROVE (LoadedAll(reloads[q]) /\ Knows(reloads[q]))'
      BY <1>1, <2>2, <2>4, <3>1, <3>3, Ranks
         DEF LoadedAll, Loaded, Knows, Piloted, OfPilot, OnePerClient
    <3> QED
      BY <2>2, <3>2, <3>3 DEF Progress, Moved
  <2>7. ~ FullBase
    BY <2>4 DEF FullBase
  <2>8. Kept(q)
    BY <2>2, <2>3, <2>5, <2>6, <2>7 DEF Kept
  <2> QED
    BY <2>8, KeptIsEnough
<1> QED
  BY <1>2, <1>3

LEMMA Phase6Keeps ==
  ASSUME DemoInv, NEW q \in Reload, Phase6(q), UNCHANGED <<era, overlapped>>
  PROVE  DemoInv'
<1>1. reloads[q].at = "phase6" /\ UNCHANGED base
  BY DEF Phase6
<1>2. CASE given # {}
  <2> DEFINE todo == (granted \ WithArticles) \X Rich
  <2>1. LoopOver(q, "backfill", todo)
    BY <1>2 DEF Phase6
  <2>2. /\ Moved(q)
        /\ reloads'[q].at = "backfill" /\ reloads'[q].todo = todo
        /\ reloads'[q].known = reloads[q].known
    BY <1>1, <2>1, LoopOverMoves DEF Stage
  <2>3. TodoOK(reloads'[q])
    BY <2>2 DEF TodoOK
  <2>4. ASSUME reloads[q].quiet PROVE Progress(reloads[q])'
    <3>1. /\ Filling(reloads[q])
          /\ reloads[q].fresh => LoadedAll(reloads[q]) /\ Knows(reloads[q])
      BY <2>2, <2>4, ProgressOf DEF Moved
    <3>2. Filling(reloads[q])'
      BY <1>1, <2>2, <3>1, BaseKept, Ranks DEF Filling
    <3>3. ~ reloads[q].fresh
      BY <1>1, <1>2, <3>1, Ranks DEF LoadedAll, Loaded
    <3> QED
      BY <2>2, <3>2, <3>3 DEF Progress, Moved
  <2> QED
    BY <1>1, <2>2, <2>3, <2>4, TurnKeeps DEF Passing
<1>3. CASE given = {} /\ granted = {}
  <2>1. LoopOver(q, "phase7", {})
    BY <1>3 DEF Phase6
  <2>2. /\ Moved(q)
        /\ reloads'[q].at = "phase7" /\ reloads'[q].todo = {} /\ reloads'[q].known = reloads[q].known
    BY <1>1, <2>1, LoopOverMoves DEF Stage
  <2>3. TodoOK(reloads'[q])
    BY <2>2 DEF TodoOK
  <2>4. ~ reloads[q].quiet
    <3>1. SUFFICES ASSUME reloads[q].quiet PROVE FALSE
      OBVIOUS
    <3>2. Filling(reloads[q])
      BY <2>2, <3>1, ProgressOf DEF Moved
    <3> QED
      BY <1>1, <1>3, <3>2, Ranks DEF Filling
  <2> QED
    BY <1>1, <2>2, <2>3, <2>4, TurnKeeps DEF Passing
<1>4. CASE given = {} /\ granted # {}
  <2>1. reloads' = [reloads EXCEPT ![q].at = "links", ![q].todo = granted, ![q].known = {}]
    BY <1>4 DEF Phase6
  <2>2. /\ Moved(q)
        /\ reloads'[q].at = "links" /\ reloads'[q].todo = granted /\ reloads'[q].known = {}
    BY <1>1, <2>1, RestartMoves DEF Stage
  <2>3. TodoOK(reloads'[q])
    BY <2>2 DEF TodoOK
  <2>4. ASSUME reloads[q].quiet PROVE Progress(reloads[q])'
    <3>1. /\ Filling(reloads[q])
          /\ reloads[q].fresh => LoadedAll(reloads[q]) /\ Knows(reloads[q])
      BY <2>2, <2>4, ProgressOf DEF Moved
    <3>2. Filling(reloads[q])'
      BY <1>1, <1>4, <2>2, <3>1, BaseKept, Ranks DEF Filling
    <3>3. ASSUME reloads[q].fresh PROVE (LoadedAll(reloads[q]) /\ Knows(reloads[q]))'
      BY <1>1, <1>4, <2>2, <3>1, <3>3, BaseKept, Ranks
         DEF LoadedAll, Loaded, Knows, Piloted, OfPilot, OnePerClient
    <3> QED
      BY <2>2, <3>2, <3>3 DEF Progress, Moved
  <2>5. ~ FullBase
    BY <1>4 DEF FullBase, WithArticles
  <2> QED
    BY <1>1, <2>2, <2>3, <2>4, <2>5, TurnKeeps DEF Passing
<1> QED
  BY <1>2, <1>3, <1>4

-----------------------------------------------------------------------------
(* A loop loads a row. *)

LEMMA NextRowIsLeft ==
  ASSUME NEW q, NEW x \in NextRow(q)
  PROVE  x \in reloads[q].todo
BY DEF NextRow

(* Nobody is given a licence.                                              *)
LEMMA LicencesStay ==
  ASSUME DemoInv, NEW q \in Reload, Moved(q), granted' = granted,
         reloads'[q].at # "licences"
  PROVE  NotYetLicensed' /\ IsFiniteSet(granted') /\ Licensed' = Licensed
         /\ (OnePerClient => OnePerClient')
<1>1. Licensed' = Licensed
  BY DEF Licensed
<1>2. \A p \in Reload : reloads'[p].at = "licences" => reloads'[p] = reloads[p]
  BY DEF Moved
<1> QED
  BY <1>1, <1>2 DEF DemoInv, NotYetLicensed, OnePerClient, Moved

LEMMA SeedClientKeeps ==
  ASSUME DemoInv, NEW q \in Reload, SeedClient(q), UNCHANGED <<era, overlapped>>
  PROVE  DemoInv'
<1>1. reloads[q].at = "clients"
  BY DEF SeedClient
<1>2. PICK code \in NextRow(q) :
        LET row == [code |-> code, era |-> era]
        IN  IF \E r \in seeded : r.code = code THEN StepFails(q)
            ELSE /\ seeded' = seeded \cup {row}
                 /\ Advance(q, code, {row})
                 /\ UNCHANGED <<fiches, granted, renewals, given, tracked, alerts, notices, files>>
  BY DEF SeedClient
<1> DEFINE row == [code |-> code, era |-> era]
<1>3. CASE \E r \in seeded : r.code = code
  BY <1>1, <1>2, <1>3, StepFailsKeeps DEF Stage
<1>4. CASE ~ \E r \in seeded : r.code = code
  <2>1. /\ seeded' = seeded \cup {row} /\ Advance(q, code, {row})
        /\ UNCHANGED <<fiches, granted, renewals, given, tracked, alerts, notices, files>>
    BY <1>2, <1>4
  <2>2. /\ Moved(q)
        /\ reloads'[q].at = "clients" /\ reloads'[q].todo = reloads[q].todo \ {code}
        /\ reloads'[q].known = reloads[q].known \cup {row}
    BY <1>1, <2>1, AdvanceMoves DEF Stage
  <2>3. code \in reloads[q].todo /\ reloads[q].todo \subseteq DemoCode /\ TodoOK(reloads'[q])
    BY <1>1, <2>2, NextRowIsLeft DEF Moved, TodoOK
  <2>4. DemoTypeOK'
    BY <2>1, <2>3 DEF DemoInv, DemoTypeOK, ClientSeed
  <2>5. NotYetLicensed' /\ IsFiniteSet(granted') /\ Licensed' = Licensed
        /\ (OnePerClient => OnePerClient')
    BY <2>1, <2>2, LicencesStay
  <2> row.code = code
    OBVIOUS
  <2> HIDE DEF row
  <2>6. ASSUME reloads[q].quiet PROVE Progress(reloads[q])'
    <3>1. /\ Filling(reloads[q])
          /\ reloads[q].fresh => LoadedAll(reloads[q]) /\ Knows(reloads[q])
      BY <2>2, <2>6, ProgressOf DEF Moved
    <3>2. Filling(reloads[q])'
      <4>1. \A c \in DemoCode \ reloads'[q].todo : \E r \in seeded' : r.code = c
        BY <1>1, <2>1, <2>2, <3>1 DEF Filling
      <4> QED
        BY <2>2, <4>1, Ranks DEF Filling
    <3>3. ASSUME reloads[q].fresh PROVE (LoadedAll(reloads[q]) /\ Knows(reloads[q]))'
      <4>1. {r.code : r \in seeded} = DemoCode \ reloads[q].todo /\ reloads[q].known = seeded
        BY <1>1, <3>1, <3>3, Ranks DEF LoadedAll, Loaded, Knows
      <4>2. {r.code : r \in seeded'} = {r.code : r \in seeded} \cup {code}
        BY <2>1
      <4>3. {r.code : r \in seeded'} = DemoCode \ reloads'[q].todo /\ reloads'[q].known = seeded'
        BY <2>1, <2>2, <2>3, <4>1, <4>2
      <4> QED
        BY <1>1, <2>1, <2>2, <2>5, <3>1, <3>3, <4>3, Ranks DEF LoadedAll, Loaded, Knows
    <3> QED
      BY <2>2, <3>2, <3>3 DEF Progress, Moved
  <2>7. Kept(q)
    BY <1>1, <2>2, <2>3, <2>4, <2>5, <2>6 DEF Kept, Passing
  <2> QED
    BY <2>7, KeptIsEnough
<1> QED
  BY <1>3, <1>4

LEMMA SeedFicheKeeps ==
  ASSUME DemoInv, NEW q \in Reload, NEW at \in {"branches", "contacts"}, SeedFiche(q, at),
         UNCHANGED <<era, overlapped>>
  PROVE  DemoInv'
<1>1. reloads[q].at = at
  BY DEF SeedFiche
<1>2. PICK row \in NextRow(q) :
        IF ~Referable(seeded, row) THEN StepFails(q)
        ELSE /\ fiches' = fiches \cup {<<at, row>>}
             /\ Advance(q, row, {})
             /\ UNCHANGED <<seeded, granted, renewals, given, tracked, alerts, notices, files>>
  BY DEF SeedFiche
<1>3. CASE ~ Referable(seeded, row)
  BY <1>1, <1>2, <1>3, StepFailsKeeps DEF Stage
<1>4. CASE Referable(seeded, row)
  <2>1. /\ fiches' = fiches \cup {<<at, row>>} /\ Advance(q, row, {}) /\ row \in seeded
        /\ UNCHANGED <<seeded, granted, renewals, given, tracked, alerts, notices, files>>
    BY <1>2, <1>4 DEF Referable
  <2>2. /\ Moved(q)
        /\ reloads'[q].at = at /\ reloads'[q].todo = reloads[q].todo \ {row}
        /\ reloads'[q].known = reloads[q].known
    <3>1. reloads[q].at \in Stage \ {"done"}
      BY <1>1 DEF Stage
    <3> QED
      BY <1>1, <2>1, <3>1, StrikeMoves
  <2>3. row \in reloads[q].todo /\ TodoOK(reloads'[q])
        /\ (at = "branches" => row \in Piloted(seeded))
    BY <1>1, <2>1, <2>2, NextRowIsLeft DEF Moved, TodoOK, Piloted
  <2>4. DemoTypeOK'
    BY <2>1 DEF DemoInv, DemoTypeOK
  <2>5. NotYetLicensed' /\ IsFiniteSet(granted') /\ Licensed' = Licensed
        /\ (OnePerClient => OnePerClient')
    BY <2>1, <2>2, LicencesStay
  <2>6. ASSUME reloads[q].quiet PROVE Progress(reloads[q])'
    <3>1. /\ Filling(reloads[q])
          /\ reloads[q].fresh => LoadedAll(reloads[q]) /\ Knows(reloads[q])
      BY <2>2, <2>6, ProgressOf DEF Moved
    <3>2. Filling(reloads[q])'
      BY <1>1, <2>1, <2>2, <3>1, Ranks DEF Filling
    <3>3. ASSUME reloads[q].fresh PROVE (LoadedAll(reloads[q]) /\ Knows(reloads[q]))'
      <4>1. CASE at = "branches"
        <5>1. fiches = {"branches"} \X (Piloted(seeded) \ reloads[q].todo)
          BY <1>1, <3>1, <3>3, <4>1, Ranks DEF LoadedAll, Loaded
        <5>2. fiches' = {"branches"} \X (Piloted(seeded) \ reloads'[q].todo)
          BY <2>1, <2>2, <2>3, <4>1, <5>1
        <5> QED
          BY <1>1, <2>1, <2>2, <2>5, <3>1, <3>3, <4>1, <5>2, Ranks
             DEF LoadedAll, Loaded, Knows, Piloted
      <4>2. CASE at = "contacts"
        <5>1. fiches = ({"branches"} \X Piloted(seeded))
                         \cup ({"contacts"} \X (seeded \ reloads[q].todo))
          BY <1>1, <3>1, <3>3, <4>2, Ranks DEF LoadedAll, Loaded
        <5>2. fiches' = ({"branches"} \X Piloted(seeded))
                          \cup ({"contacts"} \X (seeded \ reloads'[q].todo))
          BY <2>1, <2>2, <2>3, <4>2, <5>1
        <5> QED
          BY <1>1, <2>1, <2>2, <2>5, <3>1, <3>3, <4>2, <5>2, Ranks
             DEF LoadedAll, Loaded, Knows, Piloted
      <4> QED
        BY <4>1, <4>2
    <3> QED
      BY <2>2, <3>2, <3>3 DEF Progress, Moved
  <2>7. Kept(q)
    BY <1>1, <2>2, <2>3, <2>4, <2>5, <2>6 DEF Kept, Passing
  <2> QED
    BY <2>7, KeptIsEnough
<1> QED
  BY <1>3, <1>4

LEMMA SeedLicenceKeeps ==
  ASSUME DemoInv, NEW q \in Reload, SeedLicence(q), UNCHANGED <<era, overlapped>>
  PROVE  DemoInv'
<1>1. reloads[q].at = "licences"
  BY DEF SeedLicence
<1>2. PICK row \in NextRow(q) :
        LET licence == [of |-> row, no |-> CopyNo({l \in granted : l.of = row})]
        IN  IF ~Referable(seeded, row) THEN StepFails(q)
            ELSE /\ licence.no <= MaxCopies
                 /\ granted' = granted \cup {licence}
                 /\ Advance(q, row, {licence})
                 /\ UNCHANGED <<seeded, fiches, renewals, given, tracked, alerts, notices, files>>
  BY DEF SeedLicence
<1> DEFINE licence == [of |-> row, no |-> CopyNo({l \in granted : l.of = row})]
<1>3. CASE ~ Referable(seeded, row)
  BY <1>1, <1>2, <1>3, StepFailsKeeps DEF Stage
<1>4. CASE Referable(seeded, row)
  <2>1. /\ granted' = granted \cup {licence} /\ Advance(q, row, {licence}) /\ row \in seeded
        /\ licence.no <= MaxCopies
        /\ UNCHANGED <<seeded, fiches, renewals, given, tracked, alerts, notices, files>>
    BY <1>2, <1>4 DEF Referable
  <2>2. /\ Moved(q)
        /\ reloads'[q].at = "licences" /\ reloads'[q].todo = reloads[q].todo \ {row}
        /\ reloads'[q].known = reloads[q].known \cup {licence}
    BY <1>1, <2>1, AdvanceMoves DEF Stage
  <2>3. row \in reloads[q].todo /\ TodoOK(reloads'[q])
    BY <2>2, NextRowIsLeft DEF TodoOK
  <2>4. licence \in LicenceSeed /\ licence.of = row
    <3>1. CopyNo({l \in granted : l.of = row}) \in Nat \ {0}
      <4>1. {l \in granted : l.of = row} \in SUBSET granted /\ IsFiniteSet(granted)
        BY DEF DemoInv
      <4>2. Cardinality({l \in granted : l.of = row}) \in Nat
        BY <4>1, FS_Subset, FS_CardinalityType
      <4> QED
        BY <4>2 DEF CopyNo
    <3>2. row \in ClientSeed
      BY <2>1 DEF DemoInv, DemoTypeOK
    <3> QED
      BY <2>1, <3>1, <3>2, DemoAssumption DEF LicenceSeed
  <2> HIDE DEF licence
  <2>5. DemoTypeOK'
    BY <2>1, <2>4 DEF DemoInv, DemoTypeOK
  <2>6. IsFiniteSet(granted')
    BY <2>1, FS_AddElement DEF DemoInv
  <2>7. Licensed' = Licensed \cup {row}
    BY <2>1, <2>4 DEF Licensed
  <2>8. row \notin Licensed /\ OnePerClient => OnePerClient'
    BY <2>1, <2>4 DEF Licensed, OnePerClient
  <2>9. NotYetLicensed'
    <3> SUFFICES ASSUME ~ overlapped' PROVE OnePerClient' /\ \A p \in Reload :
                   reloads'[p].at = "licences" => reloads'[p].todo \cap Licensed' = {}
      BY DEF NotYetLicensed
    <3>1. ~ overlapped /\ OnePerClient /\ reloads[q].todo \cap Licensed = {}
      BY <1>1, <2>2 DEF Moved, DemoInv, NotYetLicensed
    <3>2. OnePerClient'
      BY <2>3, <2>8, <3>1
    <3>3. ASSUME NEW p \in Reload, reloads'[p].at = "licences"
          PROVE  reloads'[p].todo \cap Licensed' = {}
      <4>1. CASE p = q
        BY <2>2, <2>7, <3>1, <4>1
      <4>2. CASE p # q
        <5>1. reloads[p].at = "licences"
          BY <2>2, <3>3, <4>2 DEF Moved
        <5>2. Loading(p) /\ Loading(q)
          BY <2>2, <5>1 DEF Loading, Moved
        <5> QED
          BY <3>1, <4>2, <5>2 DEF DemoInv, Alone
      <4> QED
        BY <4>1, <4>2
    <3> QED
      BY <3>2, <3>3
  <2>10. ASSUME reloads[q].quiet PROVE Progress(reloads[q])'
    <3>1. /\ Filling(reloads[q])
          /\ reloads[q].fresh => LoadedAll(reloads[q]) /\ Knows(reloads[q])
      BY <2>2, <2>10, ProgressOf DEF Moved
    <3>2. Filling(reloads[q])'
      BY <1>1, <2>1, <2>2, <2>7, <3>1, Ranks DEF Filling
    <3>3. ASSUME reloads[q].fresh PROVE (LoadedAll(reloads[q]) /\ Knows(reloads[q]))'
      <4>1. Licensed = seeded \ reloads[q].todo /\ reloads[q].known = granted /\ OnePerClient
        BY <1>1, <3>1, <3>3, Ranks DEF LoadedAll, Loaded, Knows
      <4>2. Licensed' = seeded \ reloads'[q].todo /\ reloads'[q].known = granted' /\ OnePerClient'
        BY <2>1, <2>2, <2>3, <2>7, <2>8, <4>1
      <4> QED
        BY <1>1, <2>1, <2>2, <3>1, <3>3, <4>2, Ranks DEF LoadedAll, Loaded, Knows, Piloted
    <3> QED
      BY <2>2, <3>2, <3>3 DEF Progress, Moved
  <2>11. Kept(q)
    BY <1>1, <2>2, <2>3, <2>5, <2>6, <2>9, <2>10 DEF Kept, Passing
  <2> QED
    BY <2>11, KeptIsEnough
<1> QED
  BY <1>3, <1>4

LEMMA SeedRenewalKeeps ==
  ASSUME DemoInv, NEW q \in Reload, SeedRenewal(q), UNCHANGED <<era, overlapped>>
  PROVE  DemoInv'
<1>1. reloads[q].at = "renewals"
  BY DEF SeedRenewal
<1>2. PICK l \in NextRow(q) :
        IF ~Referable(granted, l) THEN StepFails(q)
        ELSE /\ renewals' = renewals \cup {l}
             /\ Advance(q, l, {})
             /\ UNCHANGED <<seeded, fiches, granted, given, tracked, alerts, notices, files>>
  BY DEF SeedRenewal
<1>3. CASE ~ Referable(granted, l)
  BY <1>1, <1>2, <1>3, StepFailsKeeps DEF Stage
<1>4. CASE Referable(granted, l)
  <2>1. /\ renewals' = renewals \cup {l} /\ Advance(q, l, {}) /\ l \in granted
        /\ UNCHANGED <<seeded, fiches, granted, given, tracked, alerts, notices, files>>
    BY <1>2, <1>4 DEF Referable
  <2>2. /\ Moved(q)
        /\ reloads'[q].at = "renewals" /\ reloads'[q].todo = reloads[q].todo \ {l}
        /\ reloads'[q].known = reloads[q].known
    BY <1>1, <2>1, StrikeMoves DEF Stage
  <2>3. l \in reloads[q].todo /\ TodoOK(reloads'[q]) /\ l \in OfPilot(granted)
    BY <1>1, <2>1, <2>2, NextRowIsLeft DEF Moved, TodoOK, OfPilot
  <2>4. DemoTypeOK'
    BY <2>1 DEF DemoInv, DemoTypeOK
  <2>5. NotYetLicensed' /\ IsFiniteSet(granted') /\ Licensed' = Licensed
        /\ (OnePerClient => OnePerClient')
    BY <2>1, <2>2, LicencesStay
  <2>6. ASSUME reloads[q].quiet PROVE Progress(reloads[q])'
    <3>1. /\ Filling(reloads[q])
          /\ reloads[q].fresh => LoadedAll(reloads[q]) /\ Knows(reloads[q])
      BY <2>2, <2>6, ProgressOf DEF Moved
    <3>2. Filling(reloads[q])'
      BY <1>1, <2>1, <2>2, <3>1, Ranks DEF Filling
    <3>3. ASSUME reloads[q].fresh PROVE (LoadedAll(reloads[q]) /\ Knows(reloads[q]))'
      <4>1. renewals = OfPilot(granted) \ reloads[q].todo
        BY <1>1, <3>1, <3>3, Ranks DEF LoadedAll, Loaded
      <4>2. renewals' = OfPilot(granted) \ reloads'[q].todo
        BY <2>1, <2>2, <2>3, <4>1
      <4> QED
        BY <1>1, <2>1, <2>2, <2>5, <3>1, <3>3, <4>2, Ranks
           DEF LoadedAll, Loaded, Knows, Piloted, OfPilot
    <3> QED
      BY <2>2, <3>2, <3>3 DEF Progress, Moved
  <2>7. Kept(q)
    BY <1>1, <2>2, <2>3, <2>4, <2>5, <2>6 DEF Kept, Passing
  <2> QED
    BY <2>7, KeptIsEnough
<1> QED
  BY <1>3, <1>4

LEMMA SeedLinksKeeps ==
  ASSUME DemoInv, NEW q \in Reload, SeedLinks(q), UNCHANGED <<era, overlapped>>
  PROVE  DemoInv'
<1>1. reloads[q].at = "links"
  BY DEF SeedLinks
<1>2. PICK l \in NextRow(q) :
        IF ~Referable(granted, l) \/ l \in WithArticles THEN StepFails(q)
        ELSE /\ given' = given \cup ({l} \X Rich)
             /\ Advance(q, l, {l})
             /\ UNCHANGED <<seeded, fiches, granted, renewals, tracked, alerts, notices, files>>
  BY DEF SeedLinks
<1>3. CASE ~ Referable(granted, l) \/ l \in WithArticles
  BY <1>1, <1>2, <1>3, StepFailsKeeps DEF Stage
<1>4. CASE ~ (~ Referable(granted, l) \/ l \in WithArticles)
  <2>1. /\ given' = given \cup ({l} \X Rich) /\ Advance(q, l, {l}) /\ l \in granted
        /\ UNCHANGED <<seeded, fiches, granted, renewals, tracked, alerts, notices, files>>
    BY <1>2, <1>4 DEF Referable
  <2>2. /\ Moved(q)
        /\ reloads'[q].at = "links" /\ reloads'[q].todo = reloads[q].todo \ {l}
        /\ reloads'[q].known = reloads[q].known \cup {l}
    BY <1>1, <2>1, AdvanceMoves DEF Stage
  <2>3. l \in reloads[q].todo /\ TodoOK(reloads'[q])
    BY <2>2, NextRowIsLeft DEF TodoOK
  <2>4. DemoTypeOK'
    BY <2>1 DEF DemoInv, DemoTypeOK
  <2>5. NotYetLicensed' /\ IsFiniteSet(granted') /\ Licensed' = Licensed
        /\ (OnePerClient => OnePerClient')
    BY <2>1, <2>2, LicencesStay
  <2>6. ASSUME reloads[q].quiet PROVE Progress(reloads[q])'
    <3>1. /\ Filling(reloads[q])
          /\ reloads[q].fresh => LoadedAll(reloads[q]) /\ Knows(reloads[q])
      BY <2>2, <2>6, ProgressOf DEF Moved
    <3>2. Filling(reloads[q])'
      <4>1. WithArticles \cup {l} \subseteq WithArticles'
        BY <2>1, DemoAssumption DEF WithArticles
      <4> QED
        BY <1>1, <2>1, <2>2, <3>1, <4>1, Ranks DEF Filling
    <3>3. ASSUME reloads[q].fresh PROVE (LoadedAll(reloads[q]) /\ Knows(reloads[q]))'
      <4>1. given = (granted \ reloads[q].todo) \X Rich /\ reloads[q].known = granted \ reloads[q].todo
        BY <1>1, <3>1, <3>3, Ranks DEF LoadedAll, Loaded, Knows
      <4>2. given' = (granted \ reloads'[q].todo) \X Rich /\ reloads'[q].known = granted \ reloads'[q].todo
        BY <2>1, <2>2, <2>3, <4>1
      <4>3. Knows(reloads[q])'
        BY <2>1, <2>2, <4>2 DEF Knows
      <4>4. LoadedAll(reloads[q])'
        BY <1>1, <2>1, <2>2, <2>5, <3>1, <3>3, <4>2, Ranks
           DEF LoadedAll, Loaded, Piloted, OfPilot
      <4> QED
        BY <4>3, <4>4
    <3> QED
      BY <2>2, <3>2, <3>3 DEF Progress, Moved
  <2>7. Kept(q)
    BY <1>1, <2>2, <2>3, <2>4, <2>5, <2>6 DEF Kept, Passing
  <2> QED
    BY <2>7, KeptIsEnough
<1> QED
  BY <1>3, <1>4

LEMMA SeedSnapshotsKeeps ==
  ASSUME DemoInv, NEW q \in Reload, SeedSnapshots(q), UNCHANGED <<era, overlapped>>
  PROVE  DemoInv'
<1>1. reloads[q].at = "snapshots"
  BY DEF SeedSnapshots
<1>2. PICK l \in NextRow(q) :
        IF ~Referable(granted, l) \/ l \in tracked THEN StepFails(q)
        ELSE /\ tracked' = tracked \cup {l}
             /\ Advance(q, l, {})
             /\ UNCHANGED <<seeded, fiches, granted, renewals, given, alerts, notices, files>>
  BY DEF SeedSnapshots
<1>3. CASE ~ Referable(granted, l) \/ l \in tracked
  BY <1>1, <1>2, <1>3, StepFailsKeeps DEF Stage
<1>4. CASE ~ (~ Referable(granted, l) \/ l \in tracked)
  <2>1. /\ tracked' = tracked \cup {l} /\ Advance(q, l, {}) /\ l \in granted
        /\ UNCHANGED <<seeded, fiches, granted, renewals, given, alerts, notices, files>>
    BY <1>2, <1>4 DEF Referable
  <2>2. /\ Moved(q)
        /\ reloads'[q].at = "snapshots" /\ reloads'[q].todo = reloads[q].todo \ {l}
        /\ reloads'[q].known = reloads[q].known
    BY <1>1, <2>1, StrikeMoves DEF Stage
  <2>3. l \in reloads[q].todo /\ TodoOK(reloads'[q])
    BY <2>2, NextRowIsLeft DEF TodoOK
  <2>4. DemoTypeOK' /\ WithArticles' = WithArticles
    BY <2>1 DEF DemoInv, DemoTypeOK, WithArticles
  <2>5. NotYetLicensed' /\ IsFiniteSet(granted') /\ Licensed' = Licensed
        /\ (OnePerClient => OnePerClient')
    BY <2>1, <2>2, LicencesStay
  <2>6. ASSUME reloads[q].quiet PROVE Progress(reloads[q])'
    <3>1. /\ Filling(reloads[q])
          /\ reloads[q].fresh => LoadedAll(reloads[q]) /\ Knows(reloads[q])
      BY <2>2, <2>6, ProgressOf DEF Moved
    <3>2. Filling(reloads[q])'
      BY <1>1, <2>1, <2>2, <2>4, <3>1, Ranks DEF Filling
    <3>3. ASSUME reloads[q].fresh PROVE (LoadedAll(reloads[q]) /\ Knows(reloads[q]))'
      <4>1. tracked = granted \ reloads[q].todo
        BY <1>1, <3>1, <3>3, Ranks DEF LoadedAll, Loaded
      <4>2. tracked' = granted \ reloads'[q].todo
        BY <2>1, <2>2, <2>3, <4>1
      <4> QED
        BY <1>1, <2>1, <2>2, <2>5, <3>1, <3>3, <4>2, Ranks
           DEF LoadedAll, Loaded, Knows, Piloted, OfPilot
    <3> QED
      BY <2>2, <3>2, <3>3 DEF Progress, Moved
  <2>7. Kept(q)
    BY <1>1, <2>2, <2>3, <2>4, <2>5, <2>6 DEF Kept, Passing
  <2> QED
    BY <2>7, KeptIsEnough
<1> QED
  BY <1>3, <1>4

LEMMA BackfillKeeps ==
  ASSUME DemoInv, NEW q \in Reload, Backfill(q), UNCHANGED <<era, overlapped>>
  PROVE  DemoInv'
<1>1. reloads[q].at = "backfill"
  BY DEF Backfill
<1>2. PICK link \in NextRow(q) :
        IF ~Referable(granted, link[1]) THEN StepFails(q)
        ELSE /\ given' = given \cup {link}
             /\ Advance(q, link, {})
             /\ UNCHANGED <<seeded, fiches, granted, renewals, tracked, alerts, notices, files>>
  BY DEF Backfill
<1>3. CASE ~ Referable(granted, link[1])
  BY <1>1, <1>2, <1>3, StepFailsKeeps DEF Stage
<1>4. CASE Referable(granted, link[1])
  <2>1. /\ given' = given \cup {link} /\ Advance(q, link, {}) /\ link[1] \in granted
        /\ UNCHANGED <<seeded, fiches, granted, renewals, tracked, alerts, notices, files>>
    BY <1>2, <1>4 DEF Referable
  <2>2. /\ Moved(q)
        /\ reloads'[q].at = "backfill" /\ reloads'[q].todo = reloads[q].todo \ {link}
        /\ reloads'[q].known = reloads[q].known
    BY <1>1, <2>1, StrikeMoves DEF Stage
  <2>3. /\ TodoOK(reloads[q]) /\ TodoOK(reloads'[q])
        /\ link \in granted \X Rich
    <3>1. link \in reloads[q].todo /\ TodoOK(reloads[q])
      BY <2>2, NextRowIsLeft DEF Moved
    <3>2. \A k \in reloads[q].todo : \E l, a : k = <<l, a>> /\ a \in Rich
      BY <1>1, <3>1 DEF TodoOK
    <3>3. PICK l, a : link = <<l, a>> /\ a \in Rich
      BY <3>1, <3>2
    <3> QED
      BY <2>1, <2>2, <3>1, <3>2, <3>3 DEF TodoOK
  <2>4. DemoTypeOK' /\ WithArticles \subseteq WithArticles'
    BY <2>1, <2>3 DEF DemoInv, DemoTypeOK, WithArticles
  <2>5. NotYetLicensed' /\ IsFiniteSet(granted') /\ Licensed' = Licensed
    BY <2>1, <2>2, LicencesStay
  <2>6. link[1] \in WithArticles'
    BY <2>1, <2>3 DEF WithArticles
  <2>7. ASSUME reloads[q].quiet PROVE Progress(reloads[q])'
    <3>1. /\ Filling(reloads[q])
          /\ reloads[q].fresh => LoadedAll(reloads[q]) /\ Knows(reloads[q])
      BY <2>2, <2>7, ProgressOf DEF Moved
    <3>2. (granted' \ WithArticles') \X Rich \subseteq reloads'[q].todo
      <4>1. ASSUME NEW l \in granted \ WithArticles', NEW a \in Rich
            PROVE  <<l, a>> \in reloads'[q].todo
        <5>1. <<l, a>> \in (granted \ WithArticles) \X Rich /\ <<l, a>> # link
          BY <2>4, <2>6, <4>1
        <5> QED
          BY <1>1, <2>2, <3>1, <5>1 DEF Filling
      <4> QED
        BY <2>1, <4>1
    <3>3. Filling(reloads[q])'
      BY <1>1, <2>1, <2>2, <3>1, <3>2, Ranks DEF Filling
    <3>4. ~ reloads[q].fresh
      BY <1>1, <3>1 DEF LoadedAll
    <3> QED
      BY <2>2, <3>3, <3>4 DEF Progress, Moved
  <2>8. ASSUME FullBase PROVE FullBase' /\ (Complete => Complete')
    <3>1. FullBase'
      BY <2>1, <2>4, <2>8 DEF FullBase
    <3>2. ASSUME Complete PROVE Complete'
      <4>1. given' = granted \X Rich
        BY <2>1, <2>3, <3>2 DEF Complete
      <4> QED
        BY <2>1, <3>2, <4>1 DEF Complete, Piloted
    <3> QED
      BY <3>1, <3>2
  <2>9. Kept(q)
    BY <1>1, <2>2, <2>3, <2>4, <2>5, <2>7, <2>8 DEF Kept, Passing
  <2> QED
    BY <2>9, KeptIsEnough
<1> QED
  BY <1>3, <1>4

LEMMA SeedHistoryKeeps ==
  ASSUME DemoInv, NEW q \in Reload, SeedHistory(q), UNCHANGED <<era, overlapped>>
  PROVE  DemoInv'
<1>1. reloads[q].at = "history"
  BY DEF SeedHistory
<1>2. PICK l \in NextRow(q) :
        IF ~Referable(granted, l) THEN StepFails(q)
        ELSE /\ tracked' = tracked \cup {l}
             /\ Advance(q, l, {})
             /\ UNCHANGED <<seeded, fiches, granted, renewals, given, alerts, notices, files>>
  BY DEF SeedHistory
<1>3. CASE ~ Referable(granted, l)
  BY <1>1, <1>2, <1>3, StepFailsKeeps DEF Stage
<1>4. CASE Referable(granted, l)
  <2>1. /\ tracked' = tracked \cup {l} /\ Advance(q, l, {}) /\ l \in granted
        /\ UNCHANGED <<seeded, fiches, granted, renewals, given, alerts, notices, files>>
    BY <1>2, <1>4 DEF Referable
  <2>2. /\ Moved(q)
        /\ reloads'[q].at = "history" /\ reloads'[q].todo = reloads[q].todo \ {l}
        /\ reloads'[q].known = reloads[q].known
    BY <1>1, <2>1, StrikeMoves DEF Stage
  <2>3. TodoOK(reloads'[q])
    BY <2>2 DEF TodoOK
  <2>4. DemoTypeOK' /\ WithArticles' = WithArticles
    BY <2>1 DEF DemoInv, DemoTypeOK, WithArticles
  <2>5. NotYetLicensed' /\ IsFiniteSet(granted') /\ Licensed' = Licensed
        /\ (OnePerClient => OnePerClient')
    BY <2>1, <2>2, LicencesStay
  <2>6. ASSUME reloads[q].quiet PROVE Progress(reloads[q])'
    <3>1. /\ Filling(reloads[q])
          /\ reloads[q].fresh => LoadedAll(reloads[q]) /\ Knows(reloads[q])
      BY <2>2, <2>6, ProgressOf DEF Moved
    <3>2. Filling(reloads[q])'
      BY <1>1, <2>1, <2>2, <2>4, <3>1, Ranks DEF Filling
    <3>3. ASSUME reloads[q].fresh PROVE (LoadedAll(reloads[q]) /\ Knows(reloads[q]))'
      <4>1. tracked' = granted
        BY <1>1, <2>1, <3>1, <3>3, Ranks DEF LoadedAll, Loaded
      <4> QED
        BY <1>1, <2>1, <2>2, <2>5, <3>1, <3>3, <4>1, Ranks
           DEF LoadedAll, Loaded, Knows, Piloted, OfPilot
    <3> QED
      BY <2>2, <3>2, <3>3 DEF Progress, Moved
  <2>7. FullBase => FullBase' /\ (Complete => Complete')
    BY <2>1, <2>4 DEF FullBase, Complete, Piloted
  <2>8. Kept(q)
    BY <1>1, <2>2, <2>3, <2>4, <2>5, <2>6, <2>7 DEF Kept, Passing
  <2> QED
    BY <2>8, KeptIsEnough
<1> QED
  BY <1>3, <1>4

LEMMA SeedAlertKeeps ==
  ASSUME DemoInv, NEW q \in Reload, SeedAlert(q), UNCHANGED <<era, overlapped>>
  PROVE  DemoInv'
<1>1. reloads[q].at = "alerts"
  BY DEF SeedAlert
<1>2. PICK row \in NextRow(q) :
        LET alert == [of |-> row, no |-> CopyNo(AlertsOf(row))]
            twin  == \E p \in Reload \ {q} : reloads[p].at = "alerts"
        IN  IF ~Referable(seeded, row) THEN StepFails(q)
            ELSE /\ Advance(q, row, {})
                 /\ \/ AlertsOf(row) # {} /\ UNCHANGED alerts
                    \/ /\ AlertsOf(row) = {} \/ (twin /\ alert.no <= MaxCopies)
                       /\ alerts' = alerts \cup {alert}
                 /\ UNCHANGED <<seeded, fiches, granted, renewals, given, tracked, notices, files>>
  BY DEF SeedAlert
<1> DEFINE alert == [of |-> row, no |-> CopyNo(AlertsOf(row))]
<1>3. CASE ~ Referable(seeded, row)
  BY <1>1, <1>2, <1>3, StepFailsKeeps DEF Stage
<1>4. CASE Referable(seeded, row)
  <2>1. /\ Advance(q, row, {}) /\ row \in seeded
        /\ alerts' = alerts \cup {alert} \/ (alerts' = alerts /\ AlertsOf(row) # {})
        /\ UNCHANGED <<seeded, fiches, granted, renewals, given, tracked, notices, files>>
    BY <1>2, <1>4 DEF Referable
  <2>2. /\ Moved(q)
        /\ reloads'[q].at = "alerts" /\ reloads'[q].todo = reloads[q].todo \ {row}
        /\ reloads'[q].known = reloads[q].known
    BY <1>1, <2>1, StrikeMoves DEF Stage
  <2>3. TodoOK(reloads'[q]) /\ row \in Piloted(seeded) /\ row \in reloads[q].todo
    BY <1>1, <2>1, <2>2, NextRowIsLeft DEF Moved, TodoOK, Piloted
  <2>4. {a.of : a \in alerts'} = {a.of : a \in alerts} \cup {row}
    <3>1. alert.of = row
      OBVIOUS
    <3> HIDE DEF alert
    <3> QED
      BY <2>1, <3>1 DEF AlertsOf
  <2>5. DemoTypeOK' /\ WithArticles' = WithArticles
    <3>1. \A a \in alerts' : a.of \in seeded
      BY <2>1, <2>4 DEF DemoInv, DemoTypeOK
    <3> QED
      BY <2>1, <3>1 DEF DemoInv, DemoTypeOK, WithArticles
  <2>6. NotYetLicensed' /\ IsFiniteSet(granted') /\ Licensed' = Licensed
        /\ (OnePerClient => OnePerClient')
    BY <2>1, <2>2, LicencesStay
  <2> HIDE DEF alert
  <2>7. ASSUME reloads[q].quiet PROVE Progress(reloads[q])'
    <3>1. /\ Filling(reloads[q])
          /\ reloads[q].fresh => LoadedAll(reloads[q]) /\ Knows(reloads[q])
      BY <2>2, <2>7, ProgressOf DEF Moved
    <3>2. Filling(reloads[q])'
      BY <1>1, <2>1, <2>2, <2>5, <3>1, Ranks DEF Filling
    <3>3. ASSUME reloads[q].fresh PROVE (LoadedAll(reloads[q]) /\ Knows(reloads[q]))'
      <4>1. {a.of : a \in alerts} = Piloted(seeded) \ reloads[q].todo
        BY <1>1, <3>1, <3>3, Ranks DEF LoadedAll, Loaded
      <4>2. {a.of : a \in alerts'} = Piloted(seeded) \ reloads'[q].todo
        BY <2>2, <2>3, <2>4, <4>1
      <4>3. LoadedAll(reloads[q])'
        <5>1. UNCHANGED <<seeded, fiches, granted, renewals, given, tracked, notices, files>>
          BY <2>1
        <5>2. {a.of : a \in alerts'} = Loaded(reloads[q], "alerts", Piloted(seeded))'
          BY <2>2, <4>2, <5>1, Ranks DEF Loaded, Piloted
        <5> QED
          BY <1>1, <2>2, <2>6, <3>1, <3>3, <5>1, <5>2, Ranks
             DEF LoadedAll, Loaded, Piloted, OfPilot
      <4>4. Knows(reloads[q])'
        BY <2>2 DEF Knows
      <4> QED
        BY <4>3, <4>4
    <3> QED
      BY <2>2, <3>2, <3>3 DEF Progress, Moved
  <2>8. FullBase => FullBase' /\ (Complete => Complete')
    <3>1. Complete => {a.of : a \in alerts'} = Piloted(seeded)
      BY <2>3, <2>4 DEF Complete
    <3>2. Complete => Complete'
      BY <2>1, <3>1 DEF Complete, Piloted
    <3> QED
      BY <2>1, <2>5, <3>2 DEF FullBase
  <2>9. Kept(q)
    BY <1>1, <2>2, <2>3, <2>5, <2>6, <2>7, <2>8 DEF Kept, Passing
  <2> QED
    BY <2>9, KeptIsEnough
<1> QED
  BY <1>3, <1>4

LEMMA SeedNoticeKeeps ==
  ASSUME DemoInv, NEW q \in Reload, SeedNotice(q), UNCHANGED <<era, overlapped>>
  PROVE  DemoInv'
<1>1. reloads[q].at = "notices"
  BY DEF SeedNotice
<1>2. PICK n \in NextRow(q) :
        LET copy == <<n, CopyNo({m \in notices : m[1] = n})>>
        IN  /\ copy[2] <= MaxCopies
            /\ notices' = notices \cup {copy}
            /\ Advance(q, n, {})
            /\ UNCHANGED <<seeded, fiches, granted, renewals, given, tracked, alerts, files>>
  BY DEF SeedNotice
<1> DEFINE copy == <<n, CopyNo({m \in notices : m[1] = n})>>
<1>3. /\ notices' = notices \cup {copy} /\ Advance(q, n, {}) /\ copy[1] = n
      /\ UNCHANGED <<seeded, fiches, granted, renewals, given, tracked, alerts, files>>
  BY <1>2
<1> HIDE DEF copy
<1>4. /\ Moved(q)
      /\ reloads'[q].at = "notices" /\ reloads'[q].todo = reloads[q].todo \ {n}
      /\ reloads'[q].known = reloads[q].known
  BY <1>1, <1>3, StrikeMoves DEF Stage
<1>5. TodoOK(reloads'[q]) /\ n \in Notice /\ n \in reloads[q].todo
  BY <1>1, <1>4, NextRowIsLeft DEF Moved, TodoOK
<1>6. {m[1] : m \in notices'} = {m[1] : m \in notices} \cup {n}
  BY <1>3
<1>7. DemoTypeOK' /\ WithArticles' = WithArticles
  BY <1>3, <1>5 DEF DemoInv, DemoTypeOK, WithArticles
<1>8. NotYetLicensed' /\ IsFiniteSet(granted') /\ Licensed' = Licensed
      /\ (OnePerClient => OnePerClient')
  BY <1>3, <1>4, LicencesStay
<1>9. ASSUME reloads[q].quiet PROVE Progress(reloads[q])'
  <2>1. /\ Filling(reloads[q])
        /\ reloads[q].fresh => LoadedAll(reloads[q]) /\ Knows(reloads[q])
    BY <1>4, <1>9, ProgressOf DEF Moved
  <2>2. Filling(reloads[q])'
    BY <1>1, <1>3, <1>4, <1>7, <2>1, Ranks DEF Filling
  <2>3. ASSUME reloads[q].fresh PROVE (LoadedAll(reloads[q]) /\ Knows(reloads[q]))'
    <3>1. {m[1] : m \in notices} = Notice \ reloads[q].todo
      BY <1>1, <2>1, <2>3, Ranks DEF LoadedAll, Loaded
    <3>2. {m[1] : m \in notices'} = Notice \ reloads'[q].todo
      BY <1>4, <1>5, <1>6, <3>1
    <3>3. LoadedAll(reloads[q])'
      BY <1>1, <1>3, <1>4, <1>8, <2>1, <2>3, <3>2, Ranks
         DEF LoadedAll, Loaded, Piloted, OfPilot
    <3>4. Knows(reloads[q])'
      BY <1>4 DEF Knows
    <3> QED
      BY <3>3, <3>4
  <2> QED
    BY <1>4, <2>2, <2>3 DEF Progress, Moved
<1>10. FullBase => FullBase' /\ (Complete => Complete')
  <2>1. Complete => {m[1] : m \in notices'} = Notice
    BY <1>5, <1>6 DEF Complete
  <2>2. Complete => Complete'
    BY <1>3, <2>1 DEF Complete, Piloted
  <2> QED
    BY <1>3, <1>7, <2>2 DEF FullBase
<1>11. Kept(q)
  BY <1>1, <1>4, <1>5, <1>7, <1>8, <1>9, <1>10 DEF Kept, Passing
<1> QED
  BY <1>11, KeptIsEnough

LEMMA SeedFileKeeps ==
  ASSUME DemoInv, NEW q \in Reload, SeedFile(q), UNCHANGED <<era, overlapped>>
  PROVE  DemoInv'
<1>1. reloads[q].at = "files"
  BY DEF SeedFile
<1>2. PICK l \in NextRow(q) :
        IF ~Referable(granted, l) THEN StepFails(q)
        ELSE /\ files' = files \cup {l}
             /\ Advance(q, l, {})
             /\ UNCHANGED <<seeded, fiches, granted, renewals, given, tracked, alerts, notices>>
  BY DEF SeedFile
<1>3. CASE ~ Referable(granted, l)
  BY <1>1, <1>2, <1>3, StepFailsKeeps DEF Stage
<1>4. CASE Referable(granted, l)
  <2>1. /\ files' = files \cup {l} /\ Advance(q, l, {}) /\ l \in granted
        /\ UNCHANGED <<seeded, fiches, granted, renewals, given, tracked, alerts, notices>>
    BY <1>2, <1>4 DEF Referable
  <2>2. /\ Moved(q)
        /\ reloads'[q].at = "files" /\ reloads'[q].todo = reloads[q].todo \ {l}
        /\ reloads'[q].known = reloads[q].known
    BY <1>1, <2>1, StrikeMoves DEF Stage
  <2>3. TodoOK(reloads'[q]) /\ l \in OfPilot(granted) /\ l \in reloads[q].todo
    BY <1>1, <2>1, <2>2, NextRowIsLeft DEF Moved, TodoOK, OfPilot
  <2>4. DemoTypeOK' /\ WithArticles' = WithArticles
    BY <2>1 DEF DemoInv, DemoTypeOK, WithArticles
  <2>5. NotYetLicensed' /\ IsFiniteSet(granted') /\ Licensed' = Licensed
        /\ (OnePerClient => OnePerClient')
    BY <2>1, <2>2, LicencesStay
  <2>6. ASSUME reloads[q].quiet PROVE Progress(reloads[q])'
    <3>1. /\ Filling(reloads[q])
          /\ reloads[q].fresh => LoadedAll(reloads[q]) /\ Knows(reloads[q])
      BY <2>2, <2>6, ProgressOf DEF Moved
    <3>2. Filling(reloads[q])'
      BY <1>1, <2>1, <2>2, <2>4, <3>1, Ranks DEF Filling
    <3>3. ASSUME reloads[q].fresh PROVE (LoadedAll(reloads[q]) /\ Knows(reloads[q]))'
      <4>1. files = OfPilot(granted) \ reloads[q].todo
        BY <1>1, <3>1, <3>3, Ranks DEF LoadedAll, Loaded
      <4>2. files' = OfPilot(granted) \ reloads'[q].todo
        BY <2>1, <2>2, <2>3, <4>1
      <4> QED
        BY <1>1, <2>1, <2>2, <2>5, <3>1, <3>3, <4>2, Ranks
           DEF LoadedAll, Loaded, Knows, Piloted, OfPilot
    <3> QED
      BY <2>2, <3>2, <3>3 DEF Progress, Moved
  <2>7. FullBase => FullBase' /\ (Complete => Complete')
    <3>1. Complete => files' = files
      BY <2>1, <2>3 DEF Complete, OfPilot
    <3>2. Complete => Complete'
      BY <2>1, <3>1 DEF Complete, Piloted
    <3> QED
      BY <2>1, <2>4, <3>2 DEF FullBase
  <2>8. Kept(q)
    BY <1>1, <2>2, <2>3, <2>4, <2>5, <2>6, <2>7 DEF Kept, Passing
  <2> QED
    BY <2>8, KeptIsEnough
<1> QED
  BY <1>3, <1>4

-----------------------------------------------------------------------------
(* Reloads are launched, the base is purged. *)

LEMMA LaunchReloadKeeps ==
  ASSUME DemoInv, NEW q \in Reload, LaunchReload(q)
  PROVE  DemoInv'
<1> DEFINE alone == \A p \in Reload : ~Loading(p)
<1>1. /\ ~ Loading(q) /\ UNCHANGED <<era, base>>
      /\ reloads' = [p \in Reload |->
           IF p = q THEN [at |-> "phase4", todo |-> {}, known |-> {},
                          fresh |-> EmptyBase, quiet |-> alone]
           ELSE IF Loading(p) THEN [reloads[p] EXCEPT !.quiet = FALSE]
           ELSE reloads[p]]
      /\ overlapped' = (overlapped \/ ~alone)
  BY DEF LaunchReload
<1>2. /\ reloads' = [p \in Reload |-> reloads'[p]]
      /\ reloads'[q] = [at |-> "phase4", todo |-> {}, known |-> {},
                        fresh |-> EmptyBase, quiet |-> alone]
      /\ \A p \in Reload \ {q} : reloads'[p] = IF Loading(p) THEN [reloads[p] EXCEPT !.quiet = FALSE]
                                               ELSE reloads[p]
  BY <1>1
<1>3. /\ EmptyBase \in BOOLEAN /\ alone \in BOOLEAN
      /\ reloads'[q].at = "phase4" /\ reloads'[q].known = {}
      /\ (reloads'[q].quiet => alone) /\ (reloads'[q].fresh => EmptyBase)
  <2>1. EmptyBase \in BOOLEAN
    BY DEF EmptyBase
  <2>2. alone \in BOOLEAN
    OBVIOUS
  <2> HIDE DEF alone
  <2>3. /\ reloads'[q].at = "phase4" /\ reloads'[q].known = {}
        /\ reloads'[q].quiet = alone /\ reloads'[q].fresh = EmptyBase
    BY <1>2
  <2> QED
    BY <2>1, <2>2, <2>3
<1>4. /\ RunShape(reloads'[q]) /\ TodoOK(reloads'[q]) /\ Loading(q)'
  BY <1>2, <1>3 DEF RunShape, TodoOK, Stage, Loading
<1>5. /\ seeded' = seeded /\ fiches' = fiches /\ granted' = granted /\ renewals' = renewals
      /\ given' = given /\ tracked' = tracked /\ alerts' = alerts /\ notices' = notices
      /\ files' = files /\ WithArticles' = WithArticles /\ Licensed' = Licensed
      /\ Complete' = Complete
  BY <1>1 DEF base, WithArticles, Licensed, Complete, Piloted
<1> HIDE DEF alone
<1>6. ASSUME NEW p \in Reload \ {q}
      PROVE  /\ RunOK(reloads'[p]) /\ (Loading(p)' <=> Loading(p)) /\ reloads'[p].at = reloads[p].at
             /\ Loading(p) => ~ reloads'[p].quiet /\ reloads'[p].todo = reloads[p].todo
             /\ ~ Loading(p) => reloads'[p] = reloads[p]
  <2>1. CASE Loading(p)
    <3>1. RunShape(reloads[p]) /\ TodoOK(reloads[p])
      BY <2>1 DEF Loading, NotLoading, DemoInv, RunOK
    <3>2. reloads'[p] = [at |-> reloads[p].at, todo |-> reloads[p].todo, known |-> reloads[p].known,
                         fresh |-> reloads[p].fresh, quiet |-> FALSE]
      BY <1>2, <2>1, <3>1 DEF RunShape
    <3>3. RunShape(reloads'[p]) /\ TodoOK(reloads'[p])
      BY <3>1, <3>2 DEF RunShape, TodoOK
    <3> QED
      BY <2>1, <3>2, <3>3 DEF RunOK, Loading
  <2>2. CASE ~ Loading(p)
    BY <1>2, <2>2 DEF DemoInv, Loading
  <2> QED
    BY <2>1, <2>2
<1>7. Alone'
  <2> SUFFICES ASSUME NEW p \in Reload, NEW r \in Reload,
                      Loading(p)', Loading(r)', reloads'[p].quiet \/ ~ overlapped'
               PROVE  p = r
    BY DEF Alone
  <2>1. CASE overlapped'
    <3>1. p = q
      BY <1>6, <2>1
    <3>2. r # q => Loading(r)
      BY <1>6
    <3> QED
      BY <1>3, <2>1, <3>1, <3>2 DEF alone
  <2>2. CASE ~ overlapped'
    <3>1. \A s \in Reload : ~ Loading(s)
      BY <1>1, <2>2 DEF alone
    <3> QED
      BY <1>6, <3>1
  <2> QED
    BY <2>1, <2>2
<1>8. NotYetLicensed'
  <2>1. \A p \in Reload : reloads'[p].at = "licences" =>
          reloads[p].at = "licences" /\ reloads'[p].todo = reloads[p].todo
    BY <1>3, <1>6 DEF Loading
  <2>2. ~ overlapped' => ~ overlapped
    BY <1>1
  <2> QED
    BY <1>5, <2>1, <2>2 DEF DemoInv, NotYetLicensed, OnePerClient
<1>9. ASSUME NEW p \in Reload, Loading(p)', reloads'[p].quiet PROVE Progress(reloads[p])'
  <2>1. p = q
    BY <1>6, <1>9
  <2>2. Filling(reloads[q])'
    BY <1>3, Ranks DEF Filling
  <2>3. ASSUME reloads'[q].fresh PROVE (LoadedAll(reloads[q]) /\ Knows(reloads[q]))'
    <3>1. /\ seeded = {} /\ fiches = {} /\ granted = {} /\ renewals = {} /\ given = {}
          /\ tracked = {} /\ alerts = {} /\ notices = {} /\ files = {}
      BY <1>3, <2>3 DEF EmptyBase, base
    <3> QED
      BY <1>3, <1>5, <3>1, Ranks DEF LoadedAll, Loaded, Knows, Licensed, OnePerClient
  <2> QED
    BY <2>1, <2>2, <2>3 DEF Progress
<1>10. ASSUME NEW d \in Reload, reloads'[d].at = "done", reloads'[d].quiet
       PROVE  Settled(reloads[d])'
  <2>1. d # q /\ ~ Loading(d) /\ reloads'[d] = reloads[d]
    BY <1>3, <1>6, <1>10 DEF Loading
  <2>2. Settled(reloads[d])
    BY <1>10, <2>1 DEF DemoInv
  <2>3. \A p \in Reload : Loading(p)' => reloads'[p].at \in Passing
    BY <1>3, <1>6, <2>2 DEF Settled, Passing
  <2> QED
    BY <1>5, <2>1, <2>2, <2>3 DEF Settled
<1>11. \A p \in Reload : RunOK(reloads[p])'
  BY <1>4, <1>6 DEF RunOK
<1>12. DemoTypeOK' /\ IsFiniteSet(granted)' /\ era' \in 0 .. MaxPurges /\ overlapped' \in BOOLEAN
  BY <1>1, <1>5 DEF DemoInv, DemoTypeOK
<1> QED
  BY <1>2, <1>7, <1>8, <1>9, <1>10, <1>11, <1>12 DEF DemoInv

LEMMA PurgeKeeps ==
  ASSUME DemoInv, Purge
  PROVE  DemoInv'
<1> DEFINE beside == \E q \in Reload : Loading(q)
<1>1. /\ era < MaxPurges /\ era' = era + 1
      /\ seeded' = {} /\ fiches' = {} /\ granted' = {} /\ renewals' = {} /\ given' = {}
      /\ tracked' = {} /\ alerts' = {} /\ notices' = {} /\ files' = {}
      /\ reloads' = [q \in Reload |-> IF Loading(q) THEN [reloads[q] EXCEPT !.quiet = FALSE]
                                      ELSE NotLoading]
      /\ overlapped' = beside
  BY DEF Purge
<1>2. ASSUME NEW p \in Reload
      PROVE  /\ RunOK(reloads'[p]) /\ (Loading(p)' <=> Loading(p)) /\ reloads'[p].at # "done"
             /\ Loading(p) => ~ reloads'[p].quiet
             /\ reloads'[p].at = "licences" => Loading(p)
  <2>1. CASE Loading(p)
    <3>1. RunShape(reloads[p]) /\ TodoOK(reloads[p])
      BY <2>1 DEF Loading, NotLoading, DemoInv, RunOK
    <3>2. reloads'[p] = [at |-> reloads[p].at, todo |-> reloads[p].todo, known |-> reloads[p].known,
                         fresh |-> reloads[p].fresh, quiet |-> FALSE]
      BY <1>1, <2>1, <3>1 DEF RunShape
    <3>3. RunShape(reloads'[p]) /\ TodoOK(reloads'[p])
      BY <3>1, <3>2 DEF RunShape, TodoOK
    <3> QED
      BY <2>1, <3>2, <3>3 DEF RunOK, Loading
  <2>2. CASE ~ Loading(p)
    BY <1>1, <2>2 DEF RunOK, Loading, NotLoading
  <2> QED
    BY <2>1, <2>2
<1>3. reloads' = [p \in Reload |-> reloads'[p]]
  BY <1>1
<1> HIDE DEF beside
<1>4. Alone'
  BY <1>1, <1>2 DEF Alone, beside
<1>5. NotYetLicensed'
  BY <1>1, <1>2 DEF NotYetLicensed, OnePerClient, beside
<1>6. DemoTypeOK' /\ IsFiniteSet(granted)'
  BY <1>1, FS_EmptySet DEF DemoTypeOK
<1>7. era' \in 0 .. MaxPurges /\ overlapped' \in BOOLEAN
  BY <1>1, DemoAssumption DEF DemoInv, beside
<1> QED
  BY <1>2, <1>3, <1>4, <1>5, <1>6, <1>7 DEF DemoInv

LEMMA ReloadFailsKeeps ==
  ASSUME DemoInv, NEW q \in Reload, ReloadFails(q)
  PROVE  DemoInv'
<1>1. Loading(q) /\ StepFails(q) /\ UNCHANGED <<era, overlapped>>
  BY DEF ReloadFails
<1>2. reloads[q].at \in Stage \ {"done"}
  BY <1>1 DEF Loading, DemoInv, RunOK, NotLoading, RunShape
<1> QED
  BY <1>1, <1>2, StepFailsKeeps

LEMMA ReloadStepKeeps ==
  ASSUME DemoInv, NEW q \in Reload, ReloadStep(q)
  PROVE  DemoInv'
<1>1. UNCHANGED <<era, overlapped>>
  BY DEF ReloadStep
<1>2. CASE Phase4(q) \/ SeedClient(q) \/ EndClients(q) \/ EndBranches(q) \/ EndContacts(q)
  BY <1>1, <1>2, Phase4Keeps, SeedClientKeeps, EndClientsKeeps, EndBranchesKeeps, EndContactsKeeps
<1>3. CASE SeedFiche(q, "branches") \/ SeedFiche(q, "contacts")
  BY <1>1, <1>3, SeedFicheKeeps
<1>4. CASE Phase5(q) \/ SeedLicence(q) \/ EndLicences(q) \/ SeedRenewal(q) \/ EndRenewals(q)
  BY <1>1, <1>4, Phase5Keeps, SeedLicenceKeeps, EndLicencesKeeps, SeedRenewalKeeps, EndRenewalsKeeps
<1>5. CASE Phase6(q) \/ SeedLinks(q) \/ EndLinks(q) \/ SeedSnapshots(q)
  BY <1>1, <1>5, Phase6Keeps, SeedLinksKeeps, EndLinksKeeps, SeedSnapshotsKeeps
<1>6. CASE Backfill(q) \/ EndLiaisons(q) \/ Phase7(q) \/ SeedHistory(q) \/ EndHistory(q)
  BY <1>1, <1>6, BackfillKeeps, EndLiaisonsKeeps, Phase7Keeps, SeedHistoryKeeps, EndHistoryKeeps
<1>7. CASE SeedAlert(q) \/ EndAlerts(q) \/ SeedNotice(q) \/ EndNotices(q)
  BY <1>1, <1>7, SeedAlertKeeps, EndAlertsKeeps, SeedNoticeKeeps, EndNoticesKeeps
<1>8. CASE SeedFile(q) \/ EndReload(q)
  BY <1>1, <1>8, SeedFileKeeps, EndReloadKeeps
<1> QED
  BY <1>2, <1>3, <1>4, <1>5, <1>6, <1>7, <1>8 DEF ReloadStep

(* A reload of the demonstration that nothing ran beside and that ended    *)
(* well has loaded everything if the base was purged before, and in any    *)
(* case leaves no licence without articles; a client has two licences of   *)
(* the demonstration only where reloads or a purge overlapped; and rows    *)
(* only refer to rows that are there, wherever a reload broke off          *)
(* (reload-demo.ts, purge-demo.ts, the seeds of phases 4 to 10).           *)
THEOREM DemoReloadsExact == DemoSpec => []ReloadsExact
<1>1. DemoInit => DemoInv
  BY DemoInvInitially
<1>2. DemoInv /\ [DemoNext]_demoVars => DemoInv'
  <2> SUFFICES ASSUME DemoInv, [DemoNext]_demoVars PROVE DemoInv'
    OBVIOUS
  <2>1. ASSUME NEW q \in Reload, LaunchReload(q) PROVE DemoInv'
    BY <2>1, LaunchReloadKeeps
  <2>2. ASSUME NEW q \in Reload, ReloadStep(q) PROVE DemoInv'
    BY <2>2, ReloadStepKeeps
  <2>3. ASSUME NEW q \in Reload, ReloadFails(q) PROVE DemoInv'
    BY <2>3, ReloadFailsKeeps
  <2>4. CASE Purge
    BY <2>4, PurgeKeeps
  <2>5. CASE UNCHANGED demoVars
    <3>1. /\ seeded' = seeded /\ fiches' = fiches /\ granted' = granted /\ renewals' = renewals
          /\ given' = given /\ tracked' = tracked /\ alerts' = alerts /\ notices' = notices
          /\ files' = files /\ reloads' = reloads /\ era' = era /\ overlapped' = overlapped
      BY <2>5 DEF demoVars, base
    <3>2. DemoTypeOK' /\ WithArticles' = WithArticles /\ Licensed' = Licensed
          /\ Complete' = Complete /\ NotYetLicensed' /\ Alone'
      BY <3>1 DEF DemoInv, DemoTypeOK, WithArticles, Licensed, Complete, Piloted, NotYetLicensed,
                  OnePerClient, Alone, Loading
    <3>3. \A q \in Reload : Loading(q)' /\ reloads'[q].quiet => Progress(reloads[q])'
      BY <3>1, <3>2 DEF DemoInv, Loading, Progress, Filling, LoadedAll, Loaded, Knows, Piloted,
                        OfPilot, OnePerClient
    <3>4. \A q \in Reload : reloads'[q].at = "done" /\ reloads'[q].quiet => Settled(reloads[q])'
      BY <3>1, <3>2 DEF DemoInv, Settled, Loading
    <3> QED
      BY <3>1, <3>2, <3>3, <3>4 DEF DemoInv
  <2> QED
    BY <2>1, <2>2, <2>3, <2>4, <2>5 DEF DemoNext
<1>3. DemoInv => ReloadsExact
  BY DemoInvExact
<1> QED
  BY <1>1, <1>2, <1>3, PTL DEF DemoSpec


-----------------------------------------------------------------------------
(* The pages filtered by their URL. *)

(* A non-empty set of naturals has a least element, and a greatest one if  *)
(* it has a bound.                                                         *)
LEMMA LeastNatural ==
  ASSUME NEW S \in SUBSET Nat, S # {}
  PROVE  \E n \in S : \A m \in S : n <= m
<1> DEFINE Below == OpToRel(<, Nat)
<1>1. IsWellFoundedOn(Below, Nat)
  BY NatLessThanWellFounded
<1>2. \A m, n \in Nat : m < n => <<m, n>> \in Below
  BY DEF OpToRel
<1> HIDE DEF Below
<1>3. PICK n \in S : \A m \in S : ~ (<<m, n>> \in Below)
  BY <1>1, WFMin
<1>4. ASSUME NEW m \in S PROVE n <= m
  <2>1. ~ (m < n)
    BY <1>2, <1>3
  <2> QED
    BY <2>1
<1> QED
  BY <1>4

LEMMA GreatestNatural ==
  ASSUME NEW n \in Nat, NEW S \in SUBSET (1 .. n), S # {}
  PROVE  \E m \in S : \A k \in S : k <= m
<1> DEFINE T == {n - k : k \in S}
<1>0. \A k \in S : k \in Nat /\ k <= n
  OBVIOUS
<1>1. T \in SUBSET Nat /\ T # {}
  <2>1. \A k \in S : n - k \in Nat
    BY <1>0
  <2> QED
    BY <2>1
<1>2. PICK t \in T : \A u \in T : t <= u
  <2> HIDE DEF T
  <2> QED
    BY <1>1, LeastNatural
<1>3. PICK m \in S : t = n - m
  BY <1>2
<1>4. \A k \in S : n - m <= n - k
  BY <1>2, <1>3
<1> QED
  BY <1>0, <1>4

-----------------------------------------------------------------------------
(* The rows of a page are the newest of some rows; the cursor is the       *)
(* oldest of them, if there are more.                                      *)
LEMMA PageRows ==
  ASSUME NEW n \in Nat, NEW R \in SUBSET (1 .. n)
  PROVE  /\ NewestOf(R) \subseteq R
         /\ CursorAfter(R) \in Nat
         /\ CursorAfter(R) = 0 => NewestOf(R) = R
         /\ CursorAfter(R) # 0 =>
              /\ CursorAfter(R) \in NewestOf(R)
              /\ \A r \in NewestOf(R) : r >= CursorAfter(R)
              /\ \A r \in R : r >= CursorAfter(R) => r \in NewestOf(R)
<1>1. NewestOf(R) \subseteq R
  BY DEF NewestOf
<1>4. \A r \in R : r \in Nat /\ r >= 1 /\ r <= n
  OBVIOUS
<1>2. CASE NewestOf(R) = R
  <2>1. CursorAfter(R) = 0
    BY <1>2 DEF CursorAfter
  <2> QED
    BY <1>2, <2>1
<1>3. CASE NewestOf(R) # R
  <2>1. PICK top \in R : \A r \in R : r <= top
    BY <1>1, <1>3, GreatestNatural
  <2>2. {s \in R : s > top} = {}
    <3>1. \A s \in R : ~ (s > top)
      BY <1>4, <2>1
    <3> QED
      BY <3>1
  <2>3. top \in NewestOf(R)
    BY <2>1, <2>2, FS_EmptySet, FilteredAssumption DEF NewestOf
  <2> DEFINE c == OldestOf(NewestOf(R))
  <2>4. c \in NewestOf(R) /\ \A r \in NewestOf(R) : c <= r
    <3>1. NewestOf(R) \in SUBSET Nat
      BY <1>1, <1>4
    <3>2. \E r \in NewestOf(R) : \A s \in NewestOf(R) : r <= s
      BY <2>3, <3>1, LeastNatural
    <3> QED
      BY <3>2 DEF OldestOf
  <2>5. CursorAfter(R) = c
    BY <1>3 DEF CursorAfter
  <2> HIDE DEF c
  <2>6. c \in 1 .. n
    BY <1>1, <2>4
  <2>7. ASSUME NEW r \in R, r >= c PROVE r \in NewestOf(R)
    <3> DEFINE A == {s \in R : s > r}
               C == {s \in R : s > c}
    <3>1. IsFiniteSet(C)
      <4>1. C \subseteq R
        OBVIOUS
      <4>2. IsFiniteSet(R)
        <5>1. IsFiniteSet(1 .. n) /\ R \subseteq 1 .. n
          BY FS_Interval
        <5> QED
          BY <5>1, FS_Subset
      <4> HIDE DEF C
      <4> QED
        BY <4>1, <4>2, FS_Subset
    <3>2. A \subseteq C
      <4>1. \A s \in R : s > r => s > c
        BY <1>4, <2>6, <2>7
      <4> QED
        BY <4>1
    <3>3. Cardinality(A) <= Cardinality(C) /\ Cardinality(A) \in Nat /\ Cardinality(C) \in Nat
      <4> HIDE DEF A, C
      <4> QED
        BY <3>1, <3>2, FS_Subset, FS_CardinalityType
    <3>4. Cardinality(C) < PerPage
      BY <2>4 DEF NewestOf
    <3>5. Cardinality(A) < PerPage
      <4> HIDE DEF A, C
      <4> QED
        BY <3>3, <3>4, FilteredAssumption
    <3> QED
      BY <3>5 DEF NewestOf
  <2> QED
    BY <1>1, <2>4, <2>5, <2>6, <2>7
<1> QED
  BY <1>2, <1>3

-----------------------------------------------------------------------------
Entry == [filter : Filter, cursor : Nat, load : Nat, page : [rows : SUBSET Nat, next : Nat]]

IsMatch(r, filter) == filter = NoFilter \/ tagged[r] = filter

(* What an entry of the history shows lies between its cursor and the next *)
(* one, and misses no row there whose tag never changed.                   *)
EntryOK(v) ==
  /\ ~Paged => v.cursor = 0 /\ v.page.next = 0
  /\ \A r \in v.page.rows : (v.cursor # 0 => r < v.cursor) /\ r >= v.page.next
  /\ v.page.next # 0 => v.page.next \in v.page.rows
  /\ walkPage # "files" =>
       \A r \in steady :
         /\ IsMatch(r, v.filter) /\ (v.cursor = 0 \/ r < v.cursor) /\ r >= v.page.next
         => r \in v.page.rows

TaggedOK ==
  /\ walkPage \in {"clients", "licences", "volumes", "files"}
  /\ tagged \in Seq(Tag) /\ steady \subseteq DOMAIN tagged /\ offered \subseteq Tag

WalkTypeOK ==
  /\ TaggedOK
  /\ visits \in Seq(Entry) /\ here \in DOMAIN visits /\ choice \in Filter

WalkInv ==
  /\ WalkTypeOK
  /\ PreviousIsNearer
  /\ \A i \in DOMAIN visits : EntryOK(visits[i])

LEMMA RenderedOK ==
  ASSUME TaggedOK, NEW f \in Filter, NEW c \in Nat, NEW l \in Nat, ~Paged => c = 0
  PROVE  Visit(f, c, l) \in Entry /\ EntryOK(Visit(f, c, l))
<1> DEFINE B == Before(f, c)
           n == Len(tagged)
           v == Visit(f, c, l)
<1>1. n \in Nat /\ DOMAIN tagged = 1 .. n
  BY DEF TaggedOK
<1>2. B \subseteq 1 .. n /\ Matches(f) \subseteq 1 .. n
  BY <1>1 DEF Before, Matches
<1>3. \A r \in steady : IsMatch(r, f) => r \in Matches(f)
  BY DEF TaggedOK, IsMatch, Matches
<1>4. \A r \in Matches(f) : (c = 0 \/ r < c) => r \in B
  BY DEF Before
<1>5. \A r \in B : c # 0 => r < c
  BY DEF Before
<1>6. v.filter = f /\ v.cursor = c /\ v.load = l /\ v.page = Rendered(f, c)
  BY DEF Visit
<1>7. CASE Paged
  <2>1. v.page.rows = NewestOf(B) /\ v.page.next = CursorAfter(B)
    BY <1>6, <1>7 DEF Paged, Rendered, ClientsPage, LicencesPage
  <2>2. Rendered(f, c) = [rows |-> NewestOf(B), next |-> CursorAfter(B)]
    BY <1>7 DEF Paged, Rendered, ClientsPage, LicencesPage
  <2> DEFINE R == B
  <2> HIDE DEF B, n, v
  <2>3. /\ NewestOf(B) \subseteq B /\ CursorAfter(B) \in Nat
        /\ CursorAfter(B) = 0 => NewestOf(B) = B
        /\ CursorAfter(B) # 0 =>
              /\ CursorAfter(B) \in NewestOf(B)
              /\ \A r \in NewestOf(B) : r >= CursorAfter(B)
              /\ \A r \in B : r >= CursorAfter(B) => r \in NewestOf(B)
    BY <1>1, <1>2, PageRows
  <2>4. \A r \in B : r \in Nat
    BY <1>1, <1>2
  <2>5. [rows |-> NewestOf(B), next |-> CursorAfter(B)] \in [rows : SUBSET Nat, next : Nat]
    BY <2>3, <2>4
  <2>6. v \in Entry
    BY <2>2, <2>5 DEF v, Visit, Entry
  <2>7. EntryOK(v)
    BY <1>3, <1>4, <1>5, <1>6, <1>7, <2>1, <2>3, <2>4 DEF EntryOK
  <2> QED
    BY <2>6, <2>7 DEF v
<1>8. CASE walkPage = "volumes"
  <2>1. Rendered(f, c) = [rows |-> Matches(f), next |-> 0]
    BY <1>8 DEF Rendered, VolumesPage
  <2>2. ~Paged /\ c = 0
    BY <1>8 DEF Paged
  <2>3. \A r \in Matches(f) : r \in Nat /\ r >= 0
    BY <1>1, <1>2
  <2>4. v \in Entry
    BY <2>1, <2>3 DEF Visit, Entry
  <2>5. EntryOK(v)
    BY <1>3, <1>6, <2>1, <2>2, <2>3 DEF EntryOK
  <2> QED
    BY <2>4, <2>5
<1>9. CASE walkPage = "files"
  <2>1. Rendered(f, c) = [rows |-> NewestOf(Matches(f)), next |-> 0]
    BY <1>9 DEF Rendered, FilesPage
  <2>2. ~Paged /\ c = 0
    BY <1>9 DEF Paged
  <2>3. \A r \in NewestOf(Matches(f)) : r \in Nat /\ r >= 0
    BY <1>1, <1>2 DEF NewestOf
  <2>4. v \in Entry
    BY <2>1, <2>3 DEF Visit, Entry
  <2>5. EntryOK(v)
    BY <1>6, <1>9, <2>1, <2>2, <2>3 DEF EntryOK
  <2> QED
    BY <2>4, <2>5
<1> QED
  BY <1>7, <1>8, <1>9 DEF TaggedOK, Paged

(* The tab goes on in its history, over the same rows.                     *)
LEMMA WalksKeep ==
  ASSUME WalkInv, Walks, visits' \in Seq(Entry), here' \in DOMAIN visits', choice' \in Filter,
         \A i \in DOMAIN visits' : EntryOK(visits'[i]), PreviousIsNearer'
  PROVE  WalkInv'
<1>1. WalkTypeOK'
  BY DEF WalkInv, WalkTypeOK, TaggedOK, Walks
<1>2. \A i \in DOMAIN visits' : EntryOK(visits[i])'
  BY DEF Walks, EntryOK, Paged, IsMatch
<1> QED
  BY <1>1, <1>2 DEF WalkInv

LEMMA GoToKeeps ==
  ASSUME WalkInv, NEW v \in Entry, EntryOK(v), GoTo(v), choice' \in Filter,
         v.cursor # 0 =>
           /\ Current.filter = v.filter
           /\ Current.cursor # 0 => Current.cursor > v.cursor
  PROVE  WalkInv'
<1>1. visits \in Seq(Entry) /\ here \in 1 .. Len(visits)
  BY DEF WalkInv, WalkTypeOK
<1>2. visits' = Append(SubSeq(visits, 1, here), v) /\ here' = here + 1
  BY DEF GoTo
<1>3. /\ visits' \in Seq(Entry) /\ Len(visits') = here + 1
      /\ \A i \in 1 .. here : visits'[i] = visits[i]
      /\ visits'[here + 1] = v
  BY <1>1, <1>2
<1>4. \A i \in DOMAIN visits' : EntryOK(visits'[i])
  BY <1>1, <1>3 DEF WalkInv
<1>5. PreviousIsNearer'
  <2> SUFFICES ASSUME NEW i \in 2 .. Len(visits'), visits'[i].cursor # 0
               PROVE  /\ visits'[i - 1].filter = visits'[i].filter
                      /\ visits'[i - 1].cursor # 0 => visits'[i - 1].cursor > visits'[i].cursor
    BY DEF PreviousIsNearer
  <2>1. CASE i = here + 1
    BY <1>1, <1>3, <2>1 DEF Current
  <2>2. CASE i # here + 1
    <3>1. i \in 2 .. Len(visits) /\ i \in 1 .. here /\ i - 1 \in 1 .. here
      BY <1>1, <1>3, <2>2
    <3> QED
      BY <1>3, <3>1 DEF WalkInv, PreviousIsNearer
  <2> QED
    BY <2>1, <2>2
<1>6. here' \in DOMAIN visits' /\ Walks
  BY <1>1, <1>2, <1>3 DEF GoTo
<1> QED
  BY <1>3, <1>4, <1>5, <1>6, WalksKeep

LEMMA RefetchKeeps ==
  ASSUME WalkInv, Walks, NEW i \in DOMAIN visits, visits' \in {visits, Refetched(i)},
         here' \in DOMAIN visits, choice' \in Filter
  PROVE  WalkInv'
<1>1. visits \in Seq(Entry) /\ DOMAIN visits = 1 .. Len(visits)
  BY DEF WalkInv, WalkTypeOK
<1> DEFINE v == Visit(visits[i].filter, visits[i].cursor, visits[i].load)
<1>2. v \in Entry /\ EntryOK(v)
  <2>1. visits[i] \in Entry /\ EntryOK(visits[i])
    BY <1>1 DEF WalkInv
  <2>2. /\ visits[i].filter \in Filter /\ visits[i].cursor \in Nat /\ visits[i].load \in Nat
        /\ ~Paged => visits[i].cursor = 0
    BY <2>1 DEF Entry, EntryOK
  <2> QED
    BY <2>2, RenderedOK DEF WalkInv, WalkTypeOK
<1>3. CASE visits' = Refetched(i)
  <2>1. [visits[i] EXCEPT !.page = Rendered(visits[i].filter, visits[i].cursor)] = v
    <3>1. \A x \in Entry : \A p : [x EXCEPT !.page = p] =
            [filter |-> x.filter, cursor |-> x.cursor, load |-> x.load, page |-> p]
      BY DEF Entry
    <3>2. visits[i] \in Entry
      BY <1>1
    <3> QED
      BY <3>1, <3>2 DEF Visit
  <2>2. visits' = [visits EXCEPT ![i] = v]
    BY <1>3, <2>1 DEF Refetched
  <2> HIDE DEF v
  <2>3. /\ visits' \in Seq(Entry) /\ DOMAIN visits' = DOMAIN visits /\ Len(visits') = Len(visits)
        /\ \A j \in DOMAIN visits : visits'[j] = IF j = i THEN v ELSE visits[j]
    BY <1>1, <1>2, <2>2
  <2>4. \A j \in DOMAIN visits' : EntryOK(visits'[j])
    BY <1>2, <2>3 DEF WalkInv
  <2>5. v.filter = visits[i].filter /\ v.cursor = visits[i].cursor
    BY DEF v, Visit
  <2>6. \A j \in DOMAIN visits :
          visits'[j].filter = visits[j].filter /\ visits'[j].cursor = visits[j].cursor
    BY <2>3, <2>5
  <2>7. PreviousIsNearer'
    <3>1. \A j \in 2 .. Len(visits) : j \in DOMAIN visits /\ j - 1 \in DOMAIN visits
      BY <1>1
    <3> QED
      BY <2>3, <2>6, <3>1 DEF WalkInv, PreviousIsNearer
  <2> QED
    BY <2>3, <2>4, <2>7, WalksKeep
<1>4. CASE visits' = visits
  BY <1>1, <1>4, WalksKeep DEF WalkInv, PreviousIsNearer
<1> QED
  BY <1>3, <1>4

LEMMA RowsKeep ==
  ASSUME WalkInv, tagged' \in Seq(Tag), steady' \subseteq steady,
         \A r \in steady' : r \in DOMAIN tagged' /\ tagged'[r] = tagged[r],
         UNCHANGED <<walkPage, offered, visits, here, choice>>
  PROVE  WalkInv'
<1>1. WalkTypeOK'
  BY DEF WalkInv, WalkTypeOK, TaggedOK
<1>2. PreviousIsNearer'
  BY DEF WalkInv, PreviousIsNearer
<1>3. \A i \in DOMAIN visits : EntryOK(visits[i])'
  BY DEF WalkInv, EntryOK, Paged, IsMatch
<1> QED
  BY <1>1, <1>2, <1>3 DEF WalkInv

LEMMA PresetOK ==
  ASSUME TaggedOK, NEW f \in Filter
  PROVE  Preset(f) \in Filter
BY DEF TaggedOK, Preset, Filter

LEMMA WalkInitially == WalkInit => WalkInv
<1> SUFFICES ASSUME WalkInit PROVE WalkInv
  OBVIOUS
<1>1. /\ walkPage \in {"clients", "licences", "volumes", "files"}
      /\ tagged \in Seq(Tag) /\ steady = DOMAIN tagged /\ offered \subseteq Tag /\ here = 1
  <2>1. PICK n \in 0 .. MaxTagged : tagged \in [1 .. n -> Tag]
    BY DEF WalkInit
  <2>2. n \in Nat
    BY FilteredAssumption
  <2> QED
    BY <2>1, <2>2, FilteredAssumption DEF WalkInit
<1>2. PICK f \in Filter, c \in {0} \cup (IF Paged THEN DOMAIN tagged ELSE {}) :
        visits = <<Visit(f, c, 1)>> /\ choice = Preset(f)
  BY DEF WalkInit
<1>3. c \in Nat /\ (~Paged => c = 0)
  BY <1>1, <1>2
<1>4. TaggedOK
  BY <1>1 DEF TaggedOK
<1>5. Visit(f, c, 1) \in Entry /\ EntryOK(Visit(f, c, 1))
  BY <1>3, <1>4, RenderedOK
<1>6. visits \in Seq(Entry) /\ Len(visits) = 1 /\ visits[1] = Visit(f, c, 1)
  BY <1>2, <1>5
<1>7. WalkTypeOK
  BY <1>1, <1>2, <1>4, <1>6, PresetOK DEF WalkTypeOK
<1>8. PreviousIsNearer /\ \A i \in DOMAIN visits : EntryOK(visits[i])
  BY <1>5, <1>6 DEF PreviousIsNearer
<1> QED
  BY <1>7, <1>8 DEF WalkInv

LEMMA WalkStep ==
  ASSUME WalkInv, [WalkNext]_walkVars
  PROVE  WalkInv'
<1>1. WalkTypeOK /\ TaggedOK /\ Current \in Entry /\ EntryOK(Current) /\ here \in DOMAIN visits
  BY DEF WalkInv, WalkTypeOK, Current
<1>2. /\ Current.filter \in Filter /\ Current.cursor \in Nat /\ Current.load \in Nat
      /\ Current.page.next \in Nat /\ Current.page.rows \subseteq Nat /\ choice \in Filter
  BY <1>1 DEF Entry, WalkTypeOK
<1>3. NoFilter \in Filter
  BY DEF Filter
<1>4. ASSUME NEW f \in Filter, FillForm(f) PROVE WalkInv'
  BY <1>4, WalksKeep DEF FillForm, WalkInv, WalkTypeOK, PreviousIsNearer
<1>5. CASE SubmitFilter
  <2> DEFINE v == Visit(choice, 0, Current.load + 1)
  <2>1. v \in Entry /\ EntryOK(v)
    BY <1>1, <1>2, RenderedOK
  <2>2. v.cursor = 0
    BY DEF Visit
  <2> QED
    BY <1>2, <1>5, <2>1, <2>2, GoToKeeps DEF SubmitFilter
<1>6. CASE FollowNext
  <2> DEFINE v == Visit(Current.filter, Current.page.next, Current.load)
  <2>1. v \in Entry /\ EntryOK(v)
    BY <1>1, <1>2, RenderedOK DEF EntryOK
  <2>2. v.filter = Current.filter /\ v.cursor = Current.page.next
    BY DEF Visit
  <2>3. Current.cursor # 0 => Current.cursor > Current.page.next
    BY <1>1, <1>2, <1>6 DEF FollowNext, EntryOK
  <2> HIDE DEF v
  <2> QED
    BY <1>2, <1>6, <2>1, <2>2, <2>3, GoToKeeps DEF FollowNext, v
<1>7. CASE FollowFirst
  <2> DEFINE v == Visit(Current.filter, 0, Current.load)
  <2>1. v \in Entry /\ EntryOK(v)
    BY <1>1, <1>2, RenderedOK
  <2>2. v.cursor = 0
    BY DEF Visit
  <2> QED
    BY <1>2, <1>7, <2>1, <2>2, GoToKeeps DEF FollowFirst
<1>8. CASE FollowReset
  <2> DEFINE v == Visit(NoFilter, 0, Current.load)
  <2>1. v \in Entry /\ EntryOK(v)
    BY <1>1, <1>2, <1>3, RenderedOK
  <2>2. v.cursor = 0
    BY DEF Visit
  <2> QED
    BY <1>2, <1>8, <2>1, <2>2, GoToKeeps DEF FollowReset
<1>9. ASSUME NEW i, MoveTo(i) PROVE WalkInv'
  <2>1. i \in DOMAIN visits /\ here' = i /\ Walks /\ visits' \in {visits, Refetched(i)}
    BY <1>9 DEF MoveTo
  <2>2. visits[i].filter \in Filter
    <3>1. visits[i] \in Entry
      BY <1>1, <2>1 DEF WalkTypeOK
    <3> QED
      BY <3>1 DEF Entry
  <2>3. choice' \in Filter
    BY <1>1, <1>2, <1>9, <2>2, PresetOK DEF MoveTo
  <2> QED
    BY <2>1, <2>3, RefetchKeeps
<1>10. CASE ReloadPage \/ Refresh
  BY <1>1, <1>2, <1>10, PresetOK, RefetchKeeps DEF ReloadPage, Refresh
<1>11. ASSUME NEW t \in Tag, WriteRow(t) PROVE WalkInv'
  <2>1. tagged \in Seq(Tag) /\ tagged' = Append(tagged, t) /\ steady \subseteq DOMAIN tagged
    BY <1>1, <1>11 DEF WriteRow, TaggedOK
  <2> QED
    BY <1>11, <2>1, RowsKeep DEF WriteRow
<1>12. ASSUME NEW t \in Tag, NEW r \in DOMAIN tagged, Retag(r, t) PROVE WalkInv'
  <2>1. tagged \in Seq(Tag) /\ tagged' = [tagged EXCEPT ![r] = t] /\ steady \subseteq DOMAIN tagged
    BY <1>1, <1>12 DEF Retag, TaggedOK
  <2> QED
    BY <1>12, <2>1, RowsKeep DEF Retag
<1>13. CASE UNCHANGED walkVars
  BY <1>1, <1>13, RowsKeep DEF walkVars, TaggedOK
<1> QED
  BY <1>4, <1>5, <1>6, <1>7, <1>8, <1>9, <1>10, <1>11, <1>12, <1>13
     DEF WalkNext, PressPrevious, BrowserMoves

-----------------------------------------------------------------------------
(* Entries that lead to each other have one filter, cursors that go down,  *)
(* and leave no gap between them.                                          *)
LEMMA WalkInvSkipsNothing ==
  ASSUME WalkInv
  PROVE  WalkSkipsNothing
<1> SUFFICES ASSUME NEW i \in DOMAIN visits, NEW j \in i .. Len(visits),
                    visits[i].cursor = 0, \A k \in i .. j - 1 : Leads(k)
             PROVE  LET shown == UNION {visits[k].page.rows : k \in i .. j}
                        last == visits[j].page.next
                    IN /\ \A r \in steady :
                            r \in Matches(visits[i].filter) /\ (r >= last \/ last = 0) =>
                              r \in shown \/ walkPage = "files"
                       /\ \A k, l \in i .. j :
                            k < l => visits[k].page.rows \cap visits[l].page.rows = {}
  BY DEF WalkSkipsNothing
<1>1. visits \in Seq(Entry) /\ DOMAIN visits = 1 .. Len(visits) /\ Len(visits) \in Nat
  BY DEF WalkInv, WalkTypeOK
<1>2. i \in Nat /\ j \in Nat /\ 1 <= i /\ i <= j /\ j <= Len(visits)
  BY <1>1
<1>3. \A k \in i .. j : k \in Nat /\ k \in DOMAIN visits /\ EntryOK(visits[k]) /\ visits[k] \in Entry
  BY <1>1, <1>2 DEF WalkInv
<1>4. \A k \in i .. j : k # i =>
        /\ k - 1 \in i .. j /\ visits[k - 1].page.next = visits[k].cursor /\ visits[k].cursor # 0
        /\ visits[k - 1].filter = visits[k].filter
        /\ visits[k - 1].cursor # 0 => visits[k - 1].cursor > visits[k].cursor
  <2> SUFFICES ASSUME NEW k \in i .. j, k # i
               PROVE  /\ k - 1 \in i .. j /\ visits[k - 1].page.next = visits[k].cursor
                      /\ visits[k].cursor # 0 /\ visits[k - 1].filter = visits[k].filter
                      /\ visits[k - 1].cursor # 0 => visits[k - 1].cursor > visits[k].cursor
    OBVIOUS
  <2>1. k - 1 \in i .. j - 1 /\ k - 1 \in i .. j /\ (k - 1) + 1 = k /\ k \in 2 .. Len(visits)
    BY <1>2
  <2>2. Leads(k - 1)
    BY <2>1
  <2>3. visits[k - 1].page.next = visits[k].cursor /\ visits[k].cursor # 0
    BY <2>1, <2>2 DEF Leads
  <2> QED
    BY <2>1, <2>3 DEF WalkInv, PreviousIsNearer
<1>5. \A k \in i .. j : visits[k].cursor \in Nat /\ visits[k].page.next \in Nat /\ visits[k].page.rows \subseteq Nat
  BY <1>3 DEF Entry
<1>6. \A k \in i .. j : visits[k].filter = visits[i].filter
  <2> SUFFICES ASSUME \E k \in i .. j : visits[k].filter # visits[i].filter PROVE FALSE
    OBVIOUS
  <2> DEFINE Bad == {k \in i .. j : visits[k].filter # visits[i].filter}
  <2>1. Bad \in SUBSET Nat /\ Bad # {}
    BY <1>3
  <2>2. PICK k \in Bad : \A m \in Bad : k <= m
    <3> HIDE DEF Bad
    <3> QED
      BY <2>1, LeastNatural
  <2>3. k \in i .. j /\ k # i /\ k \in Nat
    BY <1>3, <2>2
  <2>4. k - 1 \in i .. j /\ visits[k - 1].filter = visits[k].filter
    BY <1>4, <2>3
  <2>5. k - 1 \in Bad
    BY <2>2, <2>4
  <2> QED
    BY <2>2, <2>3, <2>5
<1>7. ASSUME NEW r \in steady, r \in Matches(visits[i].filter),
             r >= visits[j].page.next \/ visits[j].page.next = 0, walkPage # "files"
      PROVE  \E k \in i .. j : r \in visits[k].page.rows
  <2> DEFINE Reach == {k \in i .. j : r >= visits[k].page.next}
  <2>0. r \in Nat
    BY DEF WalkInv, WalkTypeOK, TaggedOK
  <2>1. Reach \in SUBSET Nat /\ Reach # {}
    <3>1. j \in Reach
      BY <1>2, <1>7, <2>0
    <3> QED
      BY <1>3, <3>1
  <2>2. PICK k \in Reach : \A m \in Reach : k <= m
    <3> HIDE DEF Reach
    <3> QED
      BY <2>1, LeastNatural
  <2>3. k \in i .. j /\ r >= visits[k].page.next
    BY <2>2
  <2>4. visits[k].cursor = 0 \/ r < visits[k].cursor
    <3>1. CASE k = i
      BY <3>1
    <3>2. CASE k # i
      <4>1. k - 1 \in i .. j /\ visits[k - 1].page.next = visits[k].cursor
        BY <1>4, <2>3, <3>2
      <4>2. k - 1 \notin Reach
        BY <1>3, <2>2, <2>3
      <4>3. ~ (r >= visits[k - 1].page.next)
        BY <4>1, <4>2
      <4> QED
        BY <1>5, <2>0, <2>3, <4>1, <4>3
    <3> QED
      BY <3>1, <3>2
  <2>5. IsMatch(r, visits[k].filter)
    BY <1>6, <1>7, <2>3 DEF Matches, IsMatch
  <2>6. r \in visits[k].page.rows
    BY <1>3, <1>7, <2>3, <2>4, <2>5 DEF EntryOK
  <2> QED
    BY <2>3, <2>6
<1>8. \A k, l \in i .. j : k < l => visits[l].cursor <= visits[k].page.next /\ visits[l].cursor # 0
  <2> SUFFICES ASSUME NEW k \in i .. j,
                      \E l \in i .. j : k < l /\ ~ (visits[l].cursor <= visits[k].page.next)
               PROVE  FALSE
    <3>1. \A m, l \in i .. j : m < l => l # i
      BY <1>2
    <3>2. \A m, l \in i .. j : m < l => visits[l].cursor # 0
      BY <1>4, <3>1
    <3> QED
      BY <3>2
  <2> DEFINE Bad == {l \in i .. j : k < l /\ ~ (visits[l].cursor <= visits[k].page.next)}
  <2>1. Bad \in SUBSET Nat /\ Bad # {}
    BY <1>3
  <2>2. PICK l \in Bad : \A m \in Bad : l <= m
    <3> HIDE DEF Bad
    <3> QED
      BY <2>1, LeastNatural
  <2>3. l \in i .. j /\ k < l /\ ~ (visits[l].cursor <= visits[k].page.next) /\ l # i
    BY <1>2, <2>2
  <2>4. /\ l - 1 \in i .. j /\ visits[l - 1].page.next = visits[l].cursor
        /\ visits[l - 1].cursor # 0 => visits[l - 1].cursor > visits[l].cursor
    BY <1>4, <2>3
  <2>5. k # l - 1
    BY <1>5, <2>3, <2>4
  <2>6. k < l - 1
    BY <1>3, <2>3, <2>5
  <2>7. l - 1 \notin Bad
    BY <1>3, <2>2, <2>3
  <2>8. visits[l - 1].cursor <= visits[k].page.next
    BY <2>4, <2>6, <2>7
  <2>9. visits[l - 1].cursor # 0
    BY <1>2, <1>3, <1>4, <2>4, <2>6
  <2> QED
    BY <1>5, <2>3, <2>4, <2>8, <2>9
<1>9. \A k, l \in i .. j : k < l => visits[k].page.rows \cap visits[l].page.rows = {}
  <2> SUFFICES ASSUME NEW k \in i .. j, NEW l \in i .. j, k < l,
                      NEW r \in visits[k].page.rows \cap visits[l].page.rows
               PROVE  FALSE
    OBVIOUS
  <2>1. r >= visits[k].page.next
    BY <1>3 DEF EntryOK
  <2>2. visits[l].cursor # 0 /\ visits[l].cursor <= visits[k].page.next
    BY <1>8
  <2>3. r < visits[l].cursor
    BY <1>3, <2>2 DEF EntryOK
  <2>4. r \in Nat
    BY <1>5
  <2> QED
    BY <1>5, <2>1, <2>2, <2>3, <2>4
<1> QED
  BY <1>7, <1>9

(* WalkSkipsNothing and PreviousIsNearer, for any rows, filters and        *)
(* histories: a reader who follows the links from a first page misses no   *)
(* row whose tag never changed, and is shown none twice.                   *)
THEOREM WalksAreExact == WalkSpec => []WalksExact
<1>1. WalkInv => WalksExact
  BY WalkInvSkipsNothing DEF WalksExact, WalkInv
<1> QED
  BY <1>1, WalkInitially, WalkStep, PTL DEF WalkSpec

-----------------------------------------------------------------------------
(* The creation wizard: sequences, and records that grow. *)

(* s is a sequence.                                                        *)
Listed(s) == s \in Seq({s[i] : i \in DOMAIN s})

LEMMA ListedIs ==
  ASSUME NEW S, NEW s \in Seq(S)
  PROVE  Listed(s) /\ Len(s) \in Nat /\ DOMAIN s = 1 .. Len(s)
<1>1. Len(s) \in Nat /\ DOMAIN s = 1 .. Len(s)
  OBVIOUS
<1> QED
  BY <1>1 DEF Listed

LEMMA ListedEmpty == Listed(<<>>) /\ Len(<<>>) = 0 /\ DOMAIN <<>> = {}
<1>1. \A S : <<>> \in Seq(S)
  OBVIOUS
<1> QED
  BY <1>1 DEF Listed

LEMMA ListedAppend ==
  ASSUME NEW s, NEW e, Listed(s)
  PROVE  /\ Listed(Append(s, e)) /\ Len(Append(s, e)) = Len(s) + 1
         /\ DOMAIN s = 1 .. Len(s) /\ Len(s) \in Nat
         /\ \A i \in 1 .. Len(s) : Append(s, e)[i] = s[i]
         /\ Append(s, e)[Len(s) + 1] = e
<1> DEFINE S == {s[i] : i \in DOMAIN s}
<1>1. s \in Seq(S \cup {e}) /\ e \in S \cup {e}
  BY DEF Listed
<1> HIDE DEF S
<1>2. Append(s, e) \in Seq(S \cup {e})
  BY <1>1
<1>3. Len(Append(s, e)) = Len(s) + 1 /\ Append(s, e)[Len(s) + 1] = e
  BY <1>1
<1>4. \A i \in 1 .. Len(s) : Append(s, e)[i] = s[i]
  BY <1>1
<1> QED
  BY <1>1, <1>2, <1>3, <1>4, ListedIs

LEMMA ListedTail ==
  ASSUME NEW s, Listed(s), s # <<>>
  PROVE  /\ Listed(Tail(s)) /\ Len(Tail(s)) = Len(s) - 1
         /\ DOMAIN s = 1 .. Len(s) /\ Len(s) \in Nat \ {0}
         /\ \A i \in 1 .. Len(s) - 1 : Tail(s)[i] = s[i + 1]
<1> DEFINE S == {s[i] : i \in DOMAIN s}
<1>1. s \in Seq(S)
  BY DEF Listed
<1> HIDE DEF S
<1>2. Tail(s) \in Seq(S)
  BY <1>1
<1>3. Len(s) \in Nat \ {0} /\ Len(Tail(s)) = Len(s) - 1
  BY <1>1
<1>4. \A i \in 1 .. Len(s) - 1 : Tail(s)[i] = s[i + 1]
  BY <1>1
<1> QED
  BY <1>1, <1>2, <1>3, <1>4, ListedIs

LEMMA ListedFirst ==
  ASSUME NEW s, Listed(s), s # <<>>, NEW r, NEW k \in DOMAIN s
  PROVE  LET t == [s EXCEPT ![k] = r] IN
         /\ Listed(t) /\ Len(t) = Len(s) /\ t # <<>>
         /\ DOMAIN s = 1 .. Len(s) /\ DOMAIN t = DOMAIN s /\ Len(s) \in Nat \ {0}
         /\ t[k] = r /\ \A i \in DOMAIN s : i # k => t[i] = s[i]
<1> DEFINE S == {s[i] : i \in DOMAIN s}
           t == [s EXCEPT ![k] = r]
<1>1. s \in Seq(S)
  BY DEF Listed
<1> HIDE DEF S
<1>2. t \in Seq(S \cup {r}) /\ Len(t) = Len(s)
  BY <1>1
<1>3. Len(s) \in Nat \ {0} /\ DOMAIN s = 1 .. Len(s)
  BY <1>1
<1>4. DOMAIN t = DOMAIN s /\ t[k] = r /\ \A i \in DOMAIN s : i # k => t[i] = s[i]
  OBVIOUS
<1>5. Listed(t)
  BY <1>2, ListedIs
<1> HIDE DEF t
<1>6. t # <<>>
  BY <1>2, <1>3
<1> QED
  BY <1>2, <1>3, <1>4, <1>5, <1>6 DEF t

LEMMA ListedCancel ==
  ASSUME NEW s, Listed(s), NEW kind
  PROVE  /\ Listed(Cancel(s, kind)) /\ Len(Cancel(s, kind)) = Len(s)
         /\ DOMAIN s = 1 .. Len(s) /\ DOMAIN Cancel(s, kind) = DOMAIN s
<1> DEFINE t == Cancel(s, kind)
           T == {t[i] : i \in DOMAIN t}
<1>1. Len(s) \in Nat /\ DOMAIN s = 1 .. Len(s)
  BY ListedIs DEF Listed
<1>2. DOMAIN t = 1 .. Len(s)
  BY <1>1 DEF Cancel
<1>3. t = [i \in 1 .. Len(s) |-> t[i]]
  BY <1>1 DEF Cancel
<1> HIDE DEF t
<1>4. t \in Seq(T)
  BY <1>1, <1>2, <1>3
<1> HIDE DEF T
<1>5. Len(t) = Len(s)
  BY <1>1, <1>2, <1>4
<1> QED
  BY <1>1, <1>2, <1>4, <1>5, ListedIs DEF t

-----------------------------------------------------------------------------
LEMMA Overlay ==
  ASSUME NEW f, NEW g
  PROVE  /\ DOMAIN Over(f, g) = DOMAIN f \cup DOMAIN g
         /\ \A x \in DOMAIN f : Over(f, g)[x] = f[x]
         /\ \A x \in DOMAIN g \ DOMAIN f : Over(f, g)[x] = g[x]
BY DEF Over

(* The request q becomes r, once it is answered with a value or failed.    *)
Granted(r, q, answer) ==
  /\ DOMAIN r = DOMAIN q \cup {"ok"} \cup DOMAIN answer
  /\ r.at = "answered" /\ r.ok = TRUE
  /\ \A x \in DOMAIN q \ {"at"} : r[x] = q[x]
  /\ \A x \in DOMAIN answer \ (DOMAIN q \cup {"ok"}) : r[x] = answer[x]

Failed(r, q) ==
  /\ DOMAIN r = DOMAIN q \cup {"ok", "thrown"}
  /\ r.at = "answered" /\ r.ok = FALSE
  /\ \A x \in DOMAIN q \ {"at", "ok"} : r[x] = q[x]

LEMMA AcceptedIs ==
  ASSUME NEW r, NEW answer, "at" \in DOMAIN r, "ok" \notin DOMAIN r
  PROVE  Granted(Accepted(r, answer), r, answer)
<1> DEFINE q == Accepted(r, answer)
           a == [r EXCEPT !.at = "answered"]
           b == [ok |-> TRUE]
           c == Over(a, b)
           d == Over(c, answer)
<1>1. DOMAIN a = DOMAIN r /\ a.at = "answered" /\ \A x \in DOMAIN r \ {"at"} : a[x] = r[x]
  OBVIOUS
<1>2. DOMAIN b = {"ok"} /\ b.ok = TRUE
  OBVIOUS
<1>3. q = d
  BY DEF Accepted
<1> HIDE DEF a, b, q
<1>4. /\ DOMAIN c = DOMAIN a \cup DOMAIN b
      /\ \A x \in DOMAIN a : c[x] = a[x]
      /\ \A x \in DOMAIN b \ DOMAIN a : c[x] = b[x]
  BY Overlay
<1> HIDE DEF c
<1>5. c["ok"] = b["ok"]
  BY <1>1, <1>2, <1>4
<1>6. c.ok = TRUE
  BY <1>2, <1>5
<1>7. /\ DOMAIN d = DOMAIN c \cup DOMAIN answer
      /\ \A x \in DOMAIN c : d[x] = c[x]
      /\ \A x \in DOMAIN answer \ DOMAIN c : d[x] = answer[x]
  BY Overlay
<1> HIDE DEF d
<1>8. DOMAIN c = DOMAIN r \cup {"ok"}
  BY <1>1, <1>2, <1>4
<1>9. q.ok = TRUE /\ q.at = "answered"
  BY <1>1, <1>3, <1>4, <1>6, <1>7, <1>8
<1> QED
  BY <1>1, <1>3, <1>4, <1>7, <1>8, <1>9 DEF Granted, q

LEMMA RefusedIs ==
  ASSUME NEW r, NEW q, q = Refused(r), "at" \in DOMAIN r, "ok" \notin DOMAIN r
  PROVE  /\ DOMAIN q = DOMAIN r \cup {"ok"}
         /\ q.at = "answered" /\ q.ok = FALSE
         /\ \A x \in DOMAIN r \ {"at"} : q[x] = r[x]
<1> DEFINE a == [r EXCEPT !.at = "answered"]
           b == [ok |-> FALSE]
           c == Over(a, b)
<1>1. DOMAIN a = DOMAIN r /\ a.at = "answered" /\ \A x \in DOMAIN r \ {"at"} : a[x] = r[x]
  OBVIOUS
<1>2. DOMAIN b = {"ok"} /\ b.ok = FALSE
  OBVIOUS
<1>3. q = c
  BY DEF Refused
<1> HIDE DEF a, b
<1>4. /\ DOMAIN c = DOMAIN a \cup DOMAIN b
      /\ \A x \in DOMAIN a : c[x] = a[x]
      /\ \A x \in DOMAIN b \ DOMAIN a : c[x] = b[x]
  BY Overlay
<1> HIDE DEF c
<1>5. c["ok"] = b["ok"]
  BY <1>1, <1>2, <1>4
<1>6. c.ok = FALSE /\ c.at = "answered"
  BY <1>1, <1>2, <1>4, <1>5
<1> QED
  BY <1>1, <1>2, <1>3, <1>4, <1>6

LEMMA RejectedIs ==
  ASSUME NEW r, "at" \in DOMAIN r, "ok" \notin DOMAIN r
  PROVE  Failed(Rejected(r), r)
<1> DEFINE q == Rejected(r)
           p == Refused(r)
           b == [thrown |-> TRUE]
           c == Over(p, b)
<1>1. DOMAIN b = {"thrown"}
  OBVIOUS
<1>2. q = c
  BY DEF Rejected
<1>3. /\ DOMAIN p = DOMAIN r \cup {"ok"}
      /\ p.at = "answered" /\ p.ok = FALSE
      /\ \A x \in DOMAIN r \ {"at"} : p[x] = r[x]
  BY RefusedIs
<1> HIDE DEF p, b, q
<1>4. DOMAIN c = DOMAIN p \cup DOMAIN b /\ \A x \in DOMAIN p : c[x] = p[x]
  BY Overlay
<1> HIDE DEF c
<1>5. c.ok = FALSE /\ c.at = "answered"
  BY <1>3, <1>4
<1> QED
  BY <1>1, <1>2, <1>3, <1>4, <1>5 DEF Failed, q

LEMMA LostIs ==
  ASSUME NEW r, "ok" \in DOMAIN r, "at" \in DOMAIN r, r.at = "answered"
  PROVE  Failed(Over([r EXCEPT !.ok = FALSE], [thrown |-> TRUE]), r)
<1> DEFINE a == [r EXCEPT !.ok = FALSE]
           b == [thrown |-> TRUE]
           c == Over(a, b)
<1>1. DOMAIN a = DOMAIN r /\ a.ok = FALSE /\ \A x \in DOMAIN r \ {"ok"} : a[x] = r[x]
  OBVIOUS
<1>2. DOMAIN b = {"thrown"}
  OBVIOUS
<1> HIDE DEF a, b
<1>3. DOMAIN c = DOMAIN a \cup DOMAIN b /\ \A x \in DOMAIN a : c[x] = a[x]
  BY Overlay
<1> HIDE DEF c
<1>4. c.ok = FALSE
  BY <1>1, <1>3
<1> QED
  <2>1. Failed(c, r)
    BY <1>1, <1>2, <1>3, <1>4 DEF Failed
  <2> QED
    BY <2>1 DEF a, b, c

-----------------------------------------------------------------------------
(* The invariant of the wizard. *)
Owned(c) == {e \in Entite : EntiteOwner[e] = c}

WizardState ==
  [open : BOOLEAN, step : 1 .. 3, client : Client \cup {NoClient}, entites : SUBSET Entite,
   entite : Entite \cup {NoEntite}, period : WizardPeriod \cup {DefaultPeriod},
   chosen : [WizardArticle -> AskedVolume \cup {Unchecked}],
   doublons : SUBSET Nat, checking : BOOLEAN, failures : SUBSET WizardArticle,
   error : BOOLEAN, known : Int]

(* The licences of m, the n first, that the check of r warns of.           *)
Meeting(m, r, n) ==
  {i \in 1 .. n :
     /\ m[i].client = r.client /\ m[i].entite = r.entite
     /\ m[i].period.debut <= r.period.fin
     /\ m[i].period.fin >= r.period.debut}

(* A request on its way, and its answer.                                   *)
FieldsOK(r) ==
  /\ {"kind", "at", "live", "client"} \subseteq DOMAIN r
  /\ r.live \in BOOLEAN
  /\ r.at = "answered" => "ok" \in DOMAIN r /\ r.ok \in BOOLEAN
  /\ r.at # "answered" => "ok" \notin DOMAIN r

ListOK(r) ==
  r.kind = "list" =>
    /\ r.at = "sent" => "entites" \notin DOMAIN r
    /\ r.at = "answered" /\ r.ok => "entites" \in DOMAIN r /\ r.entites = Owned(r.client)

CheckOK(r, m) ==
  r.kind = "check" =>
    /\ {"entite", "period"} \subseteq DOMAIN r
    /\ r.at = "sent" => "doublons" \notin DOMAIN r /\ "known" \notin DOMAIN r
    /\ r.at = "answered" /\ r.ok =>
         /\ {"doublons", "known"} \subseteq DOMAIN r
         /\ r.known \in 0 .. Len(m) /\ r.doublons = Meeting(m, r, r.known)

(* The licence that was made for r holds, has still to be given, or misses *)
(* each article that was asked.                                            *)
Creating(r, licence) ==
  /\ licence.told = Unchecked /\ licence.asked = r.asked
  /\ DOMAIN licence.articles \cup r.todo \cup r.missing = DOMAIN r.asked
  /\ DOMAIN licence.articles \cap r.todo = {}
  /\ DOMAIN licence.articles \cap r.missing = {}
  /\ r.todo \cap r.missing = {}
  /\ \A a \in DOMAIN licence.articles : licence.articles[a] = r.asked[a]

UnderWay(r) == r.at \in {"produits", "articles"} \/ (r.at = "answered" /\ r.ok)

CreateOK(r, m) ==
  r.kind = "create" =>
    /\ {"entite", "period", "asked", "settled"} \subseteq DOMAIN r
    /\ DOMAIN r.asked \subseteq WizardArticle
    /\ r.settled => EntiteOwner[r.entite] = r.client
    /\ r.at = "sent" => {"produits", "todo", "missing"} \cap DOMAIN r = {}
    /\ UnderWay(r) =>
         /\ {"produits", "todo", "missing"} \subseteq DOMAIN r
         /\ m # <<>> /\ Creating(r, m[Len(m)])
         /\ r.at = "answered" => r.todo = {}

RequestOK(r, m) == FieldsOK(r) /\ ListOK(r) /\ CheckOK(r, m) /\ CreateOK(r, m)

(* The server is at the first request.                                     *)
QueueOK(q, m) ==
  /\ Listed(q)
  /\ \A i \in DOMAIN q : RequestOK(q[i], m) /\ (i # 1 => q[i].at = "sent")

MadeOK(licence) ==
  /\ {"client", "entite", "period", "asked", "settled", "produits", "articles", "told"}
       \subseteq DOMAIN licence
  /\ licence.settled => EntiteOwner[licence.entite] = licence.client
  /\ licence.told # Unchecked =>
       /\ DOMAIN licence.articles \cap licence.told = {}
       /\ DOMAIN licence.articles \cup licence.told = DOMAIN licence.asked
       /\ \A a \in DOMAIN licence.articles : licence.articles[a] = licence.asked[a]

LicencesOK(m) == Listed(m) /\ \A i \in DOMAIN m : MadeOK(m[i])

(* What is not cancelled was asked for what the wizard shows.              *)
ListsFor(q, c) == \A i \in DOMAIN q : q[i].kind = "list" /\ q[i].live => q[i].client = c

ChecksFor(q, w) ==
  \A i \in DOMAIN q : q[i].kind = "check" /\ q[i].live =>
    w.step = 3 /\ q[i].client = w.client /\ q[i].entite = w.entite /\ q[i].period = w.period

NoList(q) == \A i \in DOMAIN q : q[i].kind = "list" => ~q[i].live

(* The entites are those of the client.                                    *)
Fits(w) == w.entites \subseteq Owned(w.client) /\ w.entite \in Owned(w.client) \cup {NoEntite}

(* The recapitulation warns as of the last check, unless one is under way. *)
Warned(w, m) ==
  /\ w.known \in -1 .. Len(m)
  /\ w.step = 3 /\ w.client # NoClient /\ w.entite # NoEntite /\ ~w.checking /\ w.known # -1 =>
       w.doublons = Meeting(m, w, w.known)

Showing(w, q, m) ==
  /\ w \in WizardState /\ QueueOK(q, m)
  /\ ListsFor(q, w.client) /\ ChecksFor(q, w)
  /\ NoList(q) => Fits(w)
  /\ Warned(w, m)

WizardInv == LicencesOK(made) /\ Showing(wizard, sending, made)

-----------------------------------------------------------------------------
LEMMA SentOK ==
  ASSUME NEW r, NEW m, NEW n, r.at = "sent", RequestOK(r, m)
  PROVE  RequestOK(r, n)
BY DEF RequestOK, FieldsOK, ListOK, CheckOK, CreateOK, UnderWay

(* The cleanup of an effect leaves the requests as they are, but not live. *)
Cancelled(p, q, kind) ==
  /\ DOMAIN p = DOMAIN q
  /\ \A i \in DOMAIN q :
       /\ p[i].kind = q[i].kind /\ p[i].client = q[i].client
       /\ q[i].kind = "check" => p[i].entite = q[i].entite /\ p[i].period = q[i].period
       /\ p[i].live <=> q[i].live /\ q[i].kind # kind

LEMMA CancelOK ==
  ASSUME NEW q, NEW m, NEW kind, QueueOK(q, m)
  PROVE  QueueOK(Cancel(q, kind), m) /\ Cancelled(Cancel(q, kind), q, kind)
<1> DEFINE p == Cancel(q, kind)
<1>1. Listed(p) /\ DOMAIN p = DOMAIN q
  BY ListedCancel DEF QueueOK
<1>2. ASSUME NEW i \in DOMAIN q
      PROVE  /\ RequestOK(p[i], m) /\ (i # 1 => p[i].at = "sent")
             /\ p[i].kind = q[i].kind /\ p[i].client = q[i].client
             /\ q[i].kind = "check" => p[i].entite = q[i].entite /\ p[i].period = q[i].period
             /\ p[i].live <=> q[i].live /\ q[i].kind # kind
  <2> DEFINE r == q[i]
  <2>1. RequestOK(r, m) /\ (i # 1 => r.at = "sent")
    BY DEF QueueOK
  <2>2. p[i] = IF r.kind = kind THEN [r EXCEPT !.live = FALSE] ELSE r
    BY DEF Cancel
  <2> HIDE DEF p, r
  <2>3. CASE r.kind = kind
    <3> DEFINE s == [r EXCEPT !.live = FALSE]
    <3>1. DOMAIN s = DOMAIN r /\ \A x \in DOMAIN r \ {"live"} : s[x] = r[x]
      OBVIOUS
    <3>2. s.live = FALSE
      BY <2>1 DEF RequestOK, FieldsOK
    <3>3. p[i] = s
      BY <2>2, <2>3
    <3> HIDE DEF s
    <3>4. FieldsOK(s) /\ s.kind = r.kind /\ s.client = r.client /\ s.at = r.at
      BY <2>1, <3>1, <3>2 DEF RequestOK, FieldsOK
    <3>5. ListOK(s)
      BY <2>1, <3>1, <3>4 DEF RequestOK, ListOK, FieldsOK
    <3>6. CheckOK(s, m) /\ (r.kind = "check" => s.entite = r.entite /\ s.period = r.period)
      BY <2>1, <3>1, <3>4 DEF RequestOK, CheckOK, FieldsOK, Meeting
    <3>7. CreateOK(s, m)
      BY <2>1, <3>1, <3>4 DEF RequestOK, CreateOK, FieldsOK, UnderWay, Creating
    <3> QED
      BY <2>1, <2>3, <3>2, <3>3, <3>4, <3>5, <3>6, <3>7 DEF RequestOK, r
  <2>4. CASE r.kind # kind
    BY <2>1, <2>2, <2>4 DEF r, RequestOK, FieldsOK
  <2> QED
    BY <2>3, <2>4
<1> QED
  BY <1>1, <1>2 DEF QueueOK, Cancelled, p

(* A new request waits behind the others.                                  *)
LEMMA AppendOK ==
  ASSUME NEW q, NEW m, QueueOK(q, m), NEW r, RequestOK(r, m), r.at = "sent"
  PROVE  LET p == Append(q, r) IN
         /\ QueueOK(p, m) /\ Len(q) \in Nat /\ DOMAIN q = 1 .. Len(q) /\ DOMAIN p = 1 .. Len(q) + 1
         /\ \A i \in DOMAIN q : p[i] = q[i]
         /\ p[Len(q) + 1] = r
<1> DEFINE p == Append(q, r)
<1>1. /\ Listed(p) /\ Len(p) = Len(q) + 1 /\ DOMAIN q = 1 .. Len(q) /\ Len(q) \in Nat
      /\ \A i \in 1 .. Len(q) : p[i] = q[i]
      /\ p[Len(q) + 1] = r
  BY ListedAppend DEF QueueOK
<1>2. DOMAIN p = 1 .. Len(p)
  BY <1>1, ListedIs DEF Listed
<1> HIDE DEF p
<1>3. ASSUME NEW i \in DOMAIN p PROVE RequestOK(p[i], m) /\ (i # 1 => p[i].at = "sent")
  <2>1. CASE i \in DOMAIN q
    BY <1>1, <2>1 DEF QueueOK
  <2>2. CASE i = Len(q) + 1
    BY <1>1, <2>2
  <2> QED
    BY <1>1, <1>2, <2>1, <2>2
<1> QED
  BY <1>1, <1>2, <1>3 DEF QueueOK, p

(* What the queue is once its first request was answered.                  *)
LEMMA TailOK ==
  ASSUME NEW q, NEW m, NEW n, QueueOK(q, m), q # <<>>
  PROVE  LET p == Tail(q) IN
         /\ QueueOK(p, n) /\ Len(q) \in Nat \ {0} /\ DOMAIN q = 1 .. Len(q)
         /\ DOMAIN p = 1 .. Len(q) - 1
         /\ \A i \in DOMAIN p : i + 1 \in DOMAIN q /\ p[i] = q[i + 1]
<1> DEFINE p == Tail(q)
<1>1. /\ Listed(p) /\ Len(p) = Len(q) - 1 /\ DOMAIN q = 1 .. Len(q) /\ Len(q) \in Nat \ {0}
      /\ \A i \in 1 .. Len(q) - 1 : p[i] = q[i + 1]
  BY ListedTail DEF QueueOK
<1>2. DOMAIN p = 1 .. Len(p)
  BY <1>1, ListedIs DEF Listed
<1> HIDE DEF p
<1>3. ASSUME NEW i \in DOMAIN p PROVE RequestOK(p[i], n) /\ p[i].at = "sent"
  <2>1. i + 1 \in DOMAIN q /\ i + 1 # 1 /\ p[i] = q[i + 1]
    BY <1>1, <1>2
  <2> QED
    BY <2>1, SentOK DEF QueueOK
<1> QED
  BY <1>1, <1>2, <1>3 DEF QueueOK, p

-----------------------------------------------------------------------------
(* The effect on the client fetches its entites, ...                       *)
LEMMA AfterClientOK ==
  ASSUME wizard \in WizardState,
         NEW w \in WizardState, NEW q, NEW m, QueueOK(q, m),
         ListsFor(q, wizard.client), ChecksFor(q, wizard),
         w.client = wizard.client /\ NoList(q) => Fits(w)
  PROVE  LET s == AfterClient(wizard, w, q) IN
         /\ s = [wizard |-> s.wizard, sending |-> s.sending]
         /\ s.wizard \in WizardState /\ QueueOK(s.sending, m)
         /\ ListsFor(s.sending, s.wizard.client) /\ ChecksFor(s.sending, wizard)
         /\ NoList(s.sending) => Fits(s.wizard)
         /\ s.wizard.client = w.client /\ s.wizard.known = w.known
         /\ w.client = wizard.client => s.wizard = w
<1> DEFINE s == AfterClient(wizard, w, q)
           p == Cancel(q, "list")
<1>00. QueueOK(p, m) /\ Cancelled(p, q, "list")
  BY CancelOK
<1> HIDE DEF p
<1>0. /\ QueueOK(p, m) /\ DOMAIN p = DOMAIN q
      /\ \A i \in DOMAIN q :
           /\ p[i].kind = q[i].kind /\ p[i].client = q[i].client
           /\ q[i].kind = "check" => p[i].entite = q[i].entite /\ p[i].period = q[i].period
           /\ p[i].live <=> q[i].live /\ q[i].kind # "list"
  BY <1>00 DEF Cancelled
<1>1. CASE w.client = wizard.client
  <2>1. s = [wizard |-> w, sending |-> q]
    BY <1>1 DEF AfterClient
  <2> QED
    BY <1>1, <2>1
<1>2. CASE w.client # wizard.client /\ w.client = NoClient
  <2> DEFINE v == [w EXCEPT !.entites = {}, !.entite = NoEntite]
  <2>1. s = [wizard |-> v, sending |-> p]
    BY <1>2 DEF AfterClient, p
  <2>2. v \in WizardState /\ v.client = w.client /\ v.known = w.known /\ Fits(v)
    BY DEF WizardState, Fits
  <2>3. ListsFor(p, v.client) /\ ChecksFor(p, wizard)
    BY <1>0 DEF ListsFor, ChecksFor
  <2> HIDE DEF v
  <2> QED
    BY <1>0, <1>2, <2>1, <2>2, <2>3
<1>3. CASE w.client # wizard.client /\ w.client # NoClient
  <2> DEFINE r == ListRequest(w.client)
             t == Append(p, r)
  <2>1. s = [wizard |-> w, sending |-> t]
    BY <1>3 DEF AfterClient, p
  <2>2. RequestOK(r, m) /\ r.at = "sent" /\ r.kind = "list" /\ r.live /\ r.client = w.client
    BY DEF ListRequest, RequestOK, FieldsOK, ListOK, CheckOK, CreateOK
  <2>3. /\ QueueOK(t, m) /\ Len(p) \in Nat /\ DOMAIN p = 1 .. Len(p) /\ DOMAIN t = 1 .. Len(p) + 1
        /\ \A i \in DOMAIN p : t[i] = p[i]
        /\ t[Len(p) + 1] = r
    <3> HIDE DEF r
    <3> QED
      BY <1>0, <2>2, AppendOK
  <2> HIDE DEF r, t
  <2>4. \A i \in DOMAIN t : i \in DOMAIN p \/ t[i] = r
    BY <2>3
  <2>5. ListsFor(t, w.client)
    BY <1>0, <2>2, <2>3, <2>4 DEF ListsFor
  <2>7. ChecksFor(t, wizard)
    BY <1>0, <2>2, <2>3, <2>4 DEF ChecksFor
  <2>6. ~NoList(t)
    BY <2>2, <2>3 DEF NoList
  <2> QED
    BY <1>3, <2>1, <2>3, <2>5, <2>6, <2>7
<1> QED
  BY <1>1, <1>2, <1>3

(* ... the one on the recapitulation checks it.                            *)
LEMMA AfterRecapOK ==
  ASSUME wizard \in WizardState,
         NEW w \in WizardState, NEW q, NEW m, QueueOK(q, m),
         ListsFor(q, w.client), ChecksFor(q, wizard), NoList(q) => Fits(w),
         w.known \in -1 .. Len(m), RecapKey(w) = RecapKey(wizard) => Warned(w, m),
         NEW s, s = AfterRecap(wizard, [wizard |-> w, sending |-> q])
  PROVE  Showing(s.wizard, s.sending, m)
<1> DEFINE o == [wizard |-> w, sending |-> q]
           p == Cancel(q, "check")
<1>00. QueueOK(p, m) /\ Cancelled(p, q, "check")
  BY CancelOK
<1> HIDE DEF p
<1>0. /\ QueueOK(p, m) /\ DOMAIN p = DOMAIN q
      /\ \A i \in DOMAIN q :
           /\ p[i].kind = q[i].kind /\ p[i].client = q[i].client
           /\ q[i].kind = "check" => p[i].entite = q[i].entite /\ p[i].period = q[i].period
           /\ p[i].live <=> q[i].live /\ q[i].kind # "check"
  BY <1>00 DEF Cancelled
<1>4. ListsFor(p, w.client) /\ (NoList(p) => NoList(q)) /\ ChecksFor(p, w)
  BY <1>0 DEF ListsFor, NoList, ChecksFor
<1>1. CASE RecapKey(w) = RecapKey(wizard)
  <2>1. s = o
    BY <1>1 DEF AfterRecap
  <2>2. w.step = wizard.step /\ w.client = wizard.client /\ w.entite = wizard.entite /\ w.period = wizard.period
    BY <1>1 DEF RecapKey
  <2>3. ChecksFor(q, w)
    BY <2>2 DEF ChecksFor
  <2> QED
    BY <1>1, <2>1, <2>3 DEF Showing
<1>2. CASE RecapKey(w) # RecapKey(wizard) /\ (w.step # 3 \/ w.client = NoClient \/ w.entite = NoEntite)
  <2>1. s.wizard = w /\ s.sending = p
    BY <1>2 DEF AfterRecap, p
  <2>2. Warned(w, m)
    BY <1>2 DEF Warned
  <2> QED
    BY <1>0, <1>4, <2>1, <2>2 DEF Showing
<1>3. CASE RecapKey(w) # RecapKey(wizard) /\ ~(w.step # 3 \/ w.client = NoClient \/ w.entite = NoEntite)
  <2> DEFINE v == [w EXCEPT !.checking = TRUE]
             r == CheckRequest(w)
             t == Append(p, r)
  <2>1. s.wizard = v /\ s.sending = t
    BY <1>3 DEF AfterRecap, p
  <2>2. /\ v \in WizardState /\ v.client = w.client /\ v.known = w.known /\ v.step = w.step
        /\ v.entite = w.entite /\ v.entites = w.entites /\ v.period = w.period /\ v.checking
    BY DEF WizardState
  <2>3. /\ RequestOK(r, m) /\ r.at = "sent" /\ r.kind = "check" /\ r.live
        /\ r.client = w.client /\ r.entite = w.entite /\ r.period = w.period
    BY DEF CheckRequest, RequestOK, FieldsOK, ListOK, CheckOK, CreateOK
  <2>4. /\ QueueOK(t, m) /\ Len(p) \in Nat /\ DOMAIN p = 1 .. Len(p) /\ DOMAIN t = 1 .. Len(p) + 1
        /\ \A i \in DOMAIN p : t[i] = p[i]
        /\ t[Len(p) + 1] = r
    <3> HIDE DEF r
    <3> QED
      BY <1>0, <2>3, AppendOK
  <2> HIDE DEF r, t, v
  <2>5. \A i \in DOMAIN t : i \in DOMAIN p \/ t[i] = r
    BY <2>4
  <2>6. ListsFor(t, v.client)
    BY <1>4, <2>2, <2>3, <2>4, <2>5 DEF ListsFor
  <2>7. ChecksFor(t, v)
    BY <1>3, <1>4, <2>2, <2>3, <2>4, <2>5 DEF ChecksFor
  <2>8. NoList(t) => Fits(v)
    <3>1. NoList(t) => NoList(p)
      BY <2>4 DEF NoList
    <3>2. Fits(w) => Fits(v)
      BY <2>2 DEF Fits
    <3> QED
      BY <1>4, <3>1, <3>2
  <2>9. Warned(v, m)
    BY <2>2 DEF Warned
  <2> QED
    BY <2>1, <2>2, <2>4, <2>6, <2>7, <2>8, <2>9 DEF Showing
<1> QED
  BY <1>1, <1>2, <1>3

LEMMA RendersOK ==
  ASSUME wizard \in WizardState,
         NEW w \in WizardState, NEW q, NEW m, QueueOK(q, m),
         ListsFor(q, wizard.client), ChecksFor(q, wizard),
         w.client = wizard.client /\ NoList(q) => Fits(w),
         w.known \in -1 .. Len(m), RecapKey(w) = RecapKey(wizard) => Warned(w, m),
         Renders(w, q)
  PROVE  Showing(wizard', sending', m)
<1> DEFINE s == AfterClient(wizard, w, q)
           t == AfterRecap(wizard, s)
<1>1. /\ s = [wizard |-> s.wizard, sending |-> s.sending]
      /\ s.wizard \in WizardState /\ QueueOK(s.sending, m)
      /\ ListsFor(s.sending, s.wizard.client) /\ ChecksFor(s.sending, wizard)
      /\ NoList(s.sending) => Fits(s.wizard)
      /\ s.wizard.client = w.client /\ s.wizard.known = w.known
      /\ w.client = wizard.client => s.wizard = w
  BY AfterClientOK
<1>2. wizard' = t.wizard /\ sending' = t.sending
  BY DEF Renders
<1> HIDE DEF s
<1>3. RecapKey(s.wizard) = RecapKey(wizard) => Warned(s.wizard, m)
  <2>1. RecapKey(s.wizard) = RecapKey(wizard) => w.client = wizard.client
    BY <1>1 DEF RecapKey
  <2> QED
    BY <1>1, <2>1
<1>4. t = AfterRecap(wizard, [wizard |-> s.wizard, sending |-> s.sending])
  BY <1>1
<1> HIDE DEF t
<1> DEFINE v == s.wizard
           p == s.sending
<1>5. v \in WizardState /\ QueueOK(p, m) /\ ListsFor(p, v.client) /\ ChecksFor(p, wizard)
  BY <1>1
<1>6. (NoList(p) => Fits(v)) /\ v.known \in -1 .. Len(m) /\ (RecapKey(v) = RecapKey(wizard) => Warned(v, m))
  BY <1>1, <1>3
<1>7. t = AfterRecap(wizard, [wizard |-> v, sending |-> p])
  BY <1>4
<1> HIDE DEF v, p
<1> QED
  BY <1>2, <1>5, <1>6, <1>7, AfterRecapOK

-----------------------------------------------------------------------------
(* What the server does: the request in flight stays what it was asked     *)
(* for, the licences what they are.                                        *)
SameRequest(r, q) ==
  /\ r.kind = q.kind /\ r.client = q.client /\ (r.live <=> q.live)
  /\ q.kind = "check" => r.entite = q.entite /\ r.period = q.period

Grown(m, n) ==
  /\ Len(m) <= Len(n)
  /\ \A i \in 1 .. Len(m) :
       n[i].client = m[i].client /\ n[i].entite = m[i].entite /\ n[i].period = m[i].period

LEMMA MeetingStays ==
  ASSUME NEW m, NEW n, Len(m) \in Nat, Grown(m, n), NEW r, NEW k \in -1 .. Len(m)
  PROVE  Meeting(n, r, k) = Meeting(m, r, k)
<1>1. \A i \in 1 .. k : i \in 1 .. Len(m)
  OBVIOUS
<1>2. \A i \in 1 .. k :
        n[i].client = m[i].client /\ n[i].entite = m[i].entite /\ n[i].period = m[i].period
  BY <1>1 DEF Grown
<1> QED
  BY <1>2 DEF Meeting

LEMMA GrownItself == \A m : Len(m) \in Nat => Grown(m, m)
BY DEF Grown

LEMMA InFront ==
  ASSUME WizardInv, sending # <<>>
  PROVE  1 \in DOMAIN sending /\ RequestOK(sending[1], made) /\ FieldsOK(sending[1])
<1>1. Listed(sending) /\ \A i \in DOMAIN sending : RequestOK(sending[i], made)
  BY DEF WizardInv, Showing, QueueOK
<1>2. 1 \in DOMAIN sending
  BY <1>1, ListedTail
<1> QED
  BY <1>1, <1>2 DEF RequestOK

LEMMA MadeListed ==
  WizardInv => Listed(made) /\ Len(made) \in Nat /\ DOMAIN made = 1 .. Len(made)
BY ListedIs DEF WizardInv, LicencesOK, Listed

LEMMA Served ==
  ASSUME WizardInv, sending # <<>>, NEW r, Becomes(r), wizard' = wizard,
         LicencesOK(made'), Grown(made, made'), Len(made') \in Nat,
         RequestOK(r, made'), SameRequest(r, sending[1])
  PROVE  WizardInv'
<1>1. /\ Listed(sending') /\ 1 \in DOMAIN sending /\ DOMAIN sending' = DOMAIN sending
      /\ sending'[1] = r /\ \A i \in DOMAIN sending : i # 1 => sending'[i] = sending[i]
  <2>1. Listed(sending) /\ 1 \in DOMAIN sending
    BY InFront DEF WizardInv, Showing, QueueOK
  <2> QED
    BY <2>1, ListedFirst DEF Becomes
<1>2. QueueOK(sending', made')
  <2>1. \A i \in DOMAIN sending : i # 1 => RequestOK(sending[i], made') /\ sending[i].at = "sent"
    BY SentOK DEF WizardInv, Showing, QueueOK
  <2> QED
    BY <1>1, <2>1 DEF QueueOK
<1>3. \A i \in DOMAIN sending : SameRequest(sending'[i], sending[i])
  BY <1>1 DEF SameRequest
<1>4. ListsFor(sending', wizard.client)
  BY <1>1, <1>3 DEF WizardInv, Showing, ListsFor, SameRequest
<1>5. ChecksFor(sending', wizard)
  BY <1>1, <1>3 DEF WizardInv, Showing, ChecksFor, SameRequest
<1>6. NoList(sending') => NoList(sending)
  BY <1>1, <1>3 DEF NoList, SameRequest
<1>7. Warned(wizard, made')
  <2>1. Warned(wizard, made) /\ Len(made) \in Nat
    BY MadeListed DEF WizardInv, Showing
  <2>2. wizard.known \in -1 .. Len(made) /\ Len(made) <= Len(made')
    BY <2>1 DEF Warned, Grown
  <2>3. Meeting(made', wizard, wizard.known) = Meeting(made, wizard, wizard.known)
    BY <2>1, <2>2, MeetingStays
  <2> QED
    BY <2>1, <2>2, <2>3 DEF Warned
<1>8. wizard \in WizardState /\ (NoList(sending) => Fits(wizard))
  BY DEF WizardInv, Showing
<1>9. Showing(wizard, sending', made')
  BY <1>2, <1>4, <1>5, <1>6, <1>7, <1>8 DEF Showing
<1> QED
  BY <1>9 DEF WizardInv

LEMMA ServeListKeeps == ASSUME WizardInv, ServeList PROVE WizardInv'
<1> DEFINE q == sending[1]
           a == [entites |-> {e \in Entite : EntiteOwner[e] = q.client}]
           r == Accepted(q, a)
<1>1. q.kind = "list" /\ q.at = "sent" /\ sending # <<>> /\ Becomes(r) /\ wizard' = wizard /\ made' = made
  BY DEF ServeList, InFlight, Serves
<1>2. RequestOK(q, made)
  BY <1>1, InFront
<1>3. DOMAIN a = {"entites"} /\ a.entites = Owned(q.client)
  BY DEF Owned
<1>4. /\ "at" \in DOMAIN q /\ "ok" \notin DOMAIN q /\ "entites" \notin DOMAIN q
      /\ {"kind", "live", "client"} \subseteq DOMAIN q /\ q.live \in BOOLEAN
  BY <1>1, <1>2 DEF RequestOK, FieldsOK, ListOK
<1> HIDE DEF q, a
<1>5. Granted(r, q, a)
  BY <1>4, AcceptedIs
<1> HIDE DEF r
<1>6. /\ DOMAIN r = DOMAIN q \cup {"ok"} \cup DOMAIN a
      /\ r.at = "answered" /\ r.ok = TRUE
      /\ \A x \in DOMAIN q \ {"at"} : r[x] = q[x]
      /\ \A x \in DOMAIN a \ (DOMAIN q \cup {"ok"}) : r[x] = a[x]
  BY <1>5 DEF Granted
<1>7. r["entites"] = a["entites"] /\ "entites" \in DOMAIN r
  BY <1>3, <1>4, <1>6
<1>8. SameRequest(r, q)
  BY <1>1, <1>4, <1>6 DEF SameRequest
<1>9. RequestOK(r, made)
  <2>1. FieldsOK(r)
    BY <1>4, <1>6 DEF FieldsOK
  <2>2. r.kind = "list" /\ r.client = q.client
    BY <1>1, <1>8 DEF SameRequest
  <2>3. ListOK(r)
    BY <1>3, <1>6, <1>7, <2>2 DEF ListOK
  <2> QED
    BY <2>1, <2>2, <2>3 DEF RequestOK, CheckOK, CreateOK
<1>10. LicencesOK(made) /\ Len(made) \in Nat
  BY MadeListed DEF WizardInv
<1> QED
  BY <1>1, <1>8, <1>9, <1>10, Served, GrownItself DEF q

LEMMA ServeCheckKeeps == ASSUME WizardInv, ServeCheck PROVE WizardInv'
<1> DEFINE q == sending[1]
           a == [doublons |-> Doublons(q, Len(made)), known |-> Len(made)]
           r == Accepted(q, a)
<1>1. q.kind = "check" /\ q.at = "sent" /\ sending # <<>> /\ Becomes(r) /\ wizard' = wizard /\ made' = made
  BY DEF ServeCheck, InFlight, Serves
<1>2. RequestOK(q, made)
  BY <1>1, InFront
<1>3. DOMAIN a = {"doublons", "known"} /\ a.doublons = Meeting(made, q, Len(made)) /\ a.known = Len(made)
  BY DEF Doublons, Meeting
<1>4. /\ "at" \in DOMAIN q /\ "ok" \notin DOMAIN q /\ "doublons" \notin DOMAIN q /\ "known" \notin DOMAIN q
      /\ {"kind", "live", "client", "entite", "period"} \subseteq DOMAIN q /\ q.live \in BOOLEAN
  BY <1>1, <1>2 DEF RequestOK, FieldsOK, CheckOK
<1> HIDE DEF q, a
<1>5. Granted(r, q, a)
  BY <1>4, AcceptedIs
<1> HIDE DEF r
<1>6. /\ DOMAIN r = DOMAIN q \cup {"ok"} \cup DOMAIN a
      /\ r.at = "answered" /\ r.ok = TRUE
      /\ \A x \in DOMAIN q \ {"at"} : r[x] = q[x]
      /\ \A x \in DOMAIN a \ (DOMAIN q \cup {"ok"}) : r[x] = a[x]
  BY <1>5 DEF Granted
<1>7. r["doublons"] = a["doublons"] /\ r["known"] = a["known"] /\ {"doublons", "known"} \subseteq DOMAIN r
  BY <1>3, <1>4, <1>6
<1>8. SameRequest(r, q)
  BY <1>1, <1>4, <1>6 DEF SameRequest
<1>10. LicencesOK(made) /\ Len(made) \in Nat
  BY MadeListed DEF WizardInv
<1>9. RequestOK(r, made)
  <2>1. FieldsOK(r)
    BY <1>4, <1>6 DEF FieldsOK
  <2>2. r.kind = "check" /\ r.client = q.client /\ r.entite = q.entite /\ r.period = q.period
    BY <1>1, <1>8 DEF SameRequest
  <2>4. Meeting(made, q, Len(made)) = Meeting(made, r, Len(made))
    BY <2>2 DEF Meeting
  <2>5. r.doublons = Meeting(made, r, r.known) /\ r.known \in 0 .. Len(made)
    BY <1>3, <1>7, <1>10, <2>4
  <2>3. CheckOK(r, made)
    BY <1>4, <1>6, <1>7, <2>2, <2>5 DEF CheckOK
  <2> QED
    BY <2>1, <2>2, <2>3 DEF RequestOK, ListOK, CreateOK
<1> QED
  BY <1>1, <1>8, <1>9, <1>10, Served, GrownItself DEF q

LEMMA FailedOK ==
  ASSUME NEW q, NEW r, NEW m, RequestOK(q, m), Failed(r, q)
  PROVE  RequestOK(r, m) /\ SameRequest(r, q)
<1>1. /\ {"kind", "at", "live", "client"} \subseteq DOMAIN q /\ q.live \in BOOLEAN
      /\ r.at = "answered" /\ r.ok = FALSE
      /\ r.kind = q.kind /\ r.client = q.client /\ r.live = q.live
      /\ DOMAIN q \subseteq DOMAIN r /\ "ok" \in DOMAIN r
  BY DEF RequestOK, FieldsOK, Failed
<1>2. FieldsOK(r)
  BY <1>1 DEF FieldsOK
<1>3. ListOK(r)
  BY <1>1 DEF ListOK
<1>4. CheckOK(r, m) /\ (q.kind = "check" => r.entite = q.entite /\ r.period = q.period)
  BY <1>1 DEF RequestOK, CheckOK, Failed
<1>5. CreateOK(r, m)
  BY <1>1 DEF RequestOK, CreateOK, UnderWay, Failed
<1> QED
  BY <1>1, <1>2, <1>3, <1>4, <1>5 DEF RequestOK, SameRequest

LEMMA FailureKeeps ==
  ASSUME WizardInv, FailRequest \/ LoseAnswer, UNCHANGED <<wizard, made>>
  PROVE  WizardInv'
<1> DEFINE q == sending[1]
<1>0. sending # <<>>
  BY DEF FailRequest, LoseAnswer
<1>1. RequestOK(q, made) /\ FieldsOK(q)
  BY <1>0, InFront
<1>2. \E r : Becomes(r) /\ Failed(r, q)
  <2>1. CASE FailRequest
    <3>1. "at" \in DOMAIN q /\ "ok" \notin DOMAIN q /\ Becomes(Rejected(q))
      BY <1>1, <2>1 DEF FailRequest, FieldsOK
    <3> HIDE DEF q
    <3> QED
      BY <3>1, RejectedIs
  <2>2. CASE LoseAnswer
    <3>1. /\ "at" \in DOMAIN q /\ "ok" \in DOMAIN q /\ q.at = "answered"
          /\ Becomes(Over([q EXCEPT !.ok = FALSE], [thrown |-> TRUE]))
      BY <1>1, <2>2 DEF LoseAnswer, FieldsOK
    <3> HIDE DEF q
    <3> QED
      BY <3>1, LostIs
  <2> QED
    BY <2>1, <2>2
<1>3. PICK r : Becomes(r) /\ Failed(r, q)
  BY <1>2
<1>4. RequestOK(r, made) /\ SameRequest(r, q)
  <2> HIDE DEF q
  <2> QED
    BY <1>1, <1>3, FailedOK
<1>5. LicencesOK(made) /\ Len(made) \in Nat
  BY MadeListed DEF WizardInv
<1> QED
  BY <1>0, <1>3, <1>4, <1>5, Served, GrownItself

(* A licence is made, ...                                                  *)
LEMMA ServeCreateKeeps == ASSUME WizardInv, ServeCreate PROVE WizardInv'
<1> DEFINE q == sending[1]
           x == [client |-> q.client, entite |-> q.entite, period |-> q.period,
                 asked |-> q.asked, settled |-> q.settled,
                 produits |-> {}, articles |-> <<>>, told |-> Unchecked]
           a == [q EXCEPT !.at = "produits"]
           b == [produits |-> {WizardProduit[w] : w \in DOMAIN q.asked},
                 todo |-> DOMAIN q.asked, missing |-> {}]
           r == Over(a, b)
<1>1. /\ q.kind = "create" /\ q.at = "sent" /\ sending # <<>> /\ Becomes(r) /\ wizard' = wizard
      /\ made' = Append(made, x)
  BY DEF ServeCreate, InFlight, Serves
<1>2. RequestOK(q, made)
  BY <1>1, InFront
<1>3. Listed(made) /\ Len(made) \in Nat /\ DOMAIN made = 1 .. Len(made) /\ \A i \in DOMAIN made : MadeOK(made[i])
  BY MadeListed DEF WizardInv, LicencesOK
<1>4. /\ "ok" \notin DOMAIN q /\ {"produits", "todo", "missing"} \cap DOMAIN q = {}
      /\ {"kind", "at", "live", "client", "entite", "period", "asked", "settled"} \subseteq DOMAIN q
      /\ q.live \in BOOLEAN /\ (q.settled => EntiteOwner[q.entite] = q.client)
      /\ DOMAIN q.asked \subseteq WizardArticle
  BY <1>1, <1>2 DEF RequestOK, FieldsOK, CreateOK
<1>5. /\ x.client = q.client /\ x.entite = q.entite /\ x.asked = q.asked /\ x.settled = q.settled
      /\ x.told = Unchecked /\ DOMAIN x.articles = {}
      /\ DOMAIN x = {"client", "entite", "period", "asked", "settled", "produits", "articles", "told"}
  OBVIOUS
<1>6. DOMAIN a = DOMAIN q /\ a.at = "produits" /\ \A f \in DOMAIN q \ {"at"} : a[f] = q[f]
  BY <1>4
<1>7. DOMAIN b = {"produits", "todo", "missing"} /\ b.todo = DOMAIN q.asked /\ b.missing = {}
  OBVIOUS
<1> HIDE DEF x, a, b
<1>8. /\ DOMAIN r = DOMAIN a \cup DOMAIN b
      /\ \A f \in DOMAIN a : r[f] = a[f]
      /\ \A f \in DOMAIN b \ DOMAIN a : r[f] = b[f]
  BY Overlay
<1> HIDE DEF q, r
<1>9. /\ DOMAIN r = DOMAIN q \cup {"produits", "todo", "missing"}
      /\ r.at = "produits" /\ \A f \in DOMAIN q \ {"at"} : r[f] = q[f]
      /\ r["todo"] = b["todo"] /\ r["missing"] = b["missing"]
  BY <1>4, <1>6, <1>7, <1>8
<1>10. r.todo = DOMAIN q.asked /\ r.missing = {}
  BY <1>7, <1>9
<1>11. /\ r.kind = "create" /\ r.client = q.client /\ r.live = q.live /\ r.entite = q.entite
       /\ r.asked = q.asked /\ r.settled = q.settled
  BY <1>1, <1>4, <1>9
<1>12. /\ Listed(made') /\ Len(made') = Len(made) + 1 /\ made'[Len(made) + 1] = x
       /\ \A i \in 1 .. Len(made) : made'[i] = made[i]
  BY <1>1, <1>3, ListedAppend
<1>13. MadeOK(x)
  BY <1>4, <1>5 DEF MadeOK
<1>14. LicencesOK(made') /\ Grown(made, made') /\ Len(made') \in Nat
  <2>1. DOMAIN made' = 1 .. Len(made')
    BY <1>12, ListedIs DEF Listed
  <2>2. \A i \in DOMAIN made' : i \in DOMAIN made \/ made'[i] = x
    BY <1>3, <1>12, <2>1
  <2>3. LicencesOK(made')
    BY <1>3, <1>12, <1>13, <2>1, <2>2 DEF LicencesOK
  <2> QED
    BY <1>3, <1>12, <2>3 DEF Grown
<1>15. RequestOK(r, made')
  <2>1. FieldsOK(r)
    BY <1>4, <1>9, <1>11 DEF FieldsOK
  <2>2. Creating(r, x)
    BY <1>5, <1>10, <1>11 DEF Creating
  <2>3. made' # <<>> /\ made'[Len(made')] = x
    BY <1>3, <1>12
  <2>4. CreateOK(r, made')
    BY <1>4, <1>9, <1>11, <2>2, <2>3 DEF CreateOK, UnderWay
  <2> QED
    BY <1>11, <2>1, <2>4 DEF RequestOK, ListOK, CheckOK
<1>16. SameRequest(r, q)
  BY <1>1, <1>11 DEF SameRequest
<1> QED
  BY <1>1, <1>14, <1>15, <1>16, Served DEF q

(* ... the licence under way changes, ...                                  *)
LEMMA LicenceChanges ==
  ASSUME WizardInv, made # <<>>, NEW x, made' = [made EXCEPT ![Len(made)] = x], MadeOK(x),
         x.client = made[Len(made)].client, x.entite = made[Len(made)].entite,
         x.period = made[Len(made)].period
  PROVE  /\ LicencesOK(made') /\ Grown(made, made') /\ Len(made') \in Nat /\ Len(made') = Len(made)
         /\ made' # <<>> /\ made'[Len(made')] = x
<1>1. Listed(made) /\ Len(made) \in Nat /\ DOMAIN made = 1 .. Len(made) /\ \A i \in DOMAIN made : MadeOK(made[i])
  BY MadeListed DEF WizardInv, LicencesOK
<1>2. Len(made) \in DOMAIN made
  BY <1>1, ListedTail
<1>3. /\ Listed(made') /\ Len(made') = Len(made) /\ made' # <<>> /\ DOMAIN made' = DOMAIN made
      /\ made'[Len(made)] = x /\ \A i \in DOMAIN made : i # Len(made) => made'[i] = made[i]
  BY <1>1, <1>2, ListedFirst
<1>4. LicencesOK(made')
  BY <1>1, <1>3 DEF LicencesOK
<1>5. \A i \in DOMAIN made :
        /\ made'[i].client = made[i].client /\ made'[i].entite = made[i].entite
        /\ made'[i].period = made[i].period
  <2> TAKE i \in DOMAIN made
  <2>1. CASE i = Len(made)
    BY <1>3, <2>1
  <2>2. CASE i # Len(made)
    BY <1>3, <2>2
  <2> QED
    BY <2>1, <2>2
<1>6. Grown(made, made')
  <2>1. Len(made) <= Len(made')
    BY <1>1, <1>3
  <2>2. 1 .. Len(made) = DOMAIN made
    BY <1>1
  <2> QED
    BY <1>5, <2>1, <2>2, Zenon DEF Grown
<1> QED
  BY <1>1, <1>3, <1>4, <1>6

LEMMA ProgressOK ==
  ASSUME NEW q, NEW r, NEW m, NEW n, RequestOK(q, m), q.kind = "create", q.at \in {"produits", "articles"},
         DOMAIN r = DOMAIN q, \A x \in DOMAIN q \ {"at", "produits", "todo", "missing"} : r[x] = q[x],
         r.at \in {"produits", "articles"}, n # <<>>, Creating(r, n[Len(n)])
  PROVE  RequestOK(r, n) /\ SameRequest(r, q)
<1>1. /\ "ok" \notin DOMAIN q /\ {"produits", "todo", "missing"} \subseteq DOMAIN q
      /\ {"kind", "at", "live", "client", "entite", "period", "asked", "settled"} \subseteq DOMAIN q
      /\ q.live \in BOOLEAN /\ (q.settled => EntiteOwner[q.entite] = q.client)
      /\ DOMAIN q.asked \subseteq WizardArticle
  BY DEF RequestOK, FieldsOK, CreateOK, UnderWay
<1>2. /\ r.kind = "create" /\ r.client = q.client /\ r.live = q.live /\ r.entite = q.entite
      /\ r.asked = q.asked /\ r.settled = q.settled
  BY <1>1
<1>3. FieldsOK(r)
  BY <1>1, <1>2 DEF FieldsOK
<1>4. CreateOK(r, n)
  BY <1>1, <1>2 DEF CreateOK, UnderWay
<1> QED
  BY <1>2, <1>3, <1>4 DEF RequestOK, ListOK, CheckOK, SameRequest

(* What is known of a creation under way.                                  *)
LEMMA BeingCreated ==
  ASSUME WizardInv, sending # <<>>, sending[1].kind = "create", UnderWay(sending[1])
  PROVE  /\ RequestOK(sending[1], made) /\ made # <<>> /\ Creating(sending[1], made[Len(made)])
         /\ {"kind", "at", "live", "client", "entite", "period", "asked", "settled",
             "produits", "todo", "missing"} \subseteq DOMAIN sending[1]
         /\ Len(made) \in DOMAIN made /\ MadeOK(made[Len(made)])
         /\ LicencesOK(made) /\ Len(made) \in Nat
         /\ DOMAIN sending[1].asked \subseteq WizardArticle
<1>1. RequestOK(sending[1], made)
  BY InFront
<1>2. /\ made # <<>> /\ Creating(sending[1], made[Len(made)])
      /\ {"kind", "at", "live", "client", "entite", "period", "asked", "settled",
          "produits", "todo", "missing"} \subseteq DOMAIN sending[1]
      /\ DOMAIN sending[1].asked \subseteq WizardArticle
  BY <1>1 DEF RequestOK, FieldsOK, CreateOK
<1>3. Listed(made) /\ Len(made) \in Nat /\ LicencesOK(made)
  BY MadeListed DEF WizardInv
<1>4. Len(made) \in DOMAIN made
  BY <1>2, <1>3, ListedTail
<1> QED
  BY <1>1, <1>2, <1>3, <1>4 DEF LicencesOK

LEMMA AttachProduitKeeps ==
  ASSUME WizardInv, NEW p, AttachProduit(p)
  PROVE  WizardInv'
<1> DEFINE q == sending[1]
           r == [q EXCEPT !.produits = @ \ {p}]
           licence == made[Len(made)]
           x == [licence EXCEPT !.produits = @ \cup {p}]
<1>1. /\ q.kind = "create" /\ q.at = "produits" /\ sending # <<>> /\ Becomes(r) /\ wizard' = wizard
      /\ made' = [made EXCEPT ![Len(made)] = x] \/ made' = made
  BY DEF AttachProduit, InFlight, Serves, Last
<1>2. /\ RequestOK(q, made) /\ made # <<>> /\ Creating(q, licence)
      /\ {"kind", "at", "live", "client", "entite", "period", "asked", "settled",
          "produits", "todo", "missing"} \subseteq DOMAIN q
      /\ MadeOK(licence) /\ LicencesOK(made) /\ Len(made) \in Nat
  BY <1>1, BeingCreated DEF UnderWay
<1>3. DOMAIN r = DOMAIN q /\ \A f \in DOMAIN q \ {"produits"} : r[f] = q[f]
  BY <1>2
<1>4. DOMAIN x = DOMAIN licence /\ \A f \in DOMAIN licence \ {"produits"} : x[f] = licence[f]
  BY <1>2
<1> HIDE DEF q, r, x, licence
<1>5. r.at = "produits" /\ r.asked = q.asked /\ r.todo = q.todo /\ r.missing = q.missing
  BY <1>1, <1>2, <1>3
<1>6. MadeOK(x) /\ x.client = licence.client /\ x.entite = licence.entite /\ x.period = licence.period
  BY <1>2, <1>4 DEF MadeOK
<1>7. x.told = licence.told /\ x.asked = licence.asked /\ x.articles = licence.articles
  BY <1>2, <1>4 DEF MadeOK
<1>8. Creating(r, x) /\ Creating(r, licence)
  BY <1>2, <1>5, <1>7 DEF Creating
<1>9. /\ LicencesOK(made') /\ Grown(made, made') /\ Len(made') \in Nat
      /\ made' # <<>> /\ Creating(r, made'[Len(made')])
  <2>1. CASE made' = [made EXCEPT ![Len(made)] = x]
    BY <1>2, <1>6, <1>8, <2>1, LicenceChanges DEF licence
  <2>2. CASE made' = made
    BY <1>2, <1>8, <2>2, GrownItself DEF licence
  <2> QED
    BY <1>1, <2>1, <2>2
<1>10. RequestOK(r, made') /\ SameRequest(r, q)
  BY <1>1, <1>2, <1>3, <1>5, <1>9, ProgressOK
<1> QED
  BY <1>1, <1>9, <1>10, Served DEF q

LEMMA ProduitsAttachedKeeps ==
  ASSUME WizardInv, ProduitsAttached
  PROVE  WizardInv'
<1> DEFINE q == sending[1]
           r == [q EXCEPT !.at = "articles"]
<1>1. /\ q.kind = "create" /\ q.at = "produits" /\ sending # <<>> /\ Becomes(r) /\ wizard' = wizard
      /\ made' = made
  BY DEF ProduitsAttached, InFlight, Serves
<1>2. /\ RequestOK(q, made) /\ made # <<>> /\ Creating(q, made[Len(made)])
      /\ {"kind", "at", "live", "client", "entite", "period", "asked", "settled",
          "produits", "todo", "missing"} \subseteq DOMAIN q
      /\ LicencesOK(made) /\ Len(made) \in Nat
  BY <1>1, BeingCreated DEF UnderWay
<1>3. DOMAIN r = DOMAIN q /\ r.at = "articles" /\ \A f \in DOMAIN q \ {"at"} : r[f] = q[f]
  BY <1>2
<1> HIDE DEF q, r
<1>4. r.asked = q.asked /\ r.todo = q.todo /\ r.missing = q.missing
  BY <1>2, <1>3
<1>5. Creating(r, made[Len(made)])
  BY <1>2, <1>4 DEF Creating
<1>6. RequestOK(r, made) /\ SameRequest(r, q)
  BY <1>1, <1>2, <1>3, <1>5, ProgressOK
<1> QED
  BY <1>1, <1>2, <1>6, Served, GrownItself DEF q

(* ... an article is attached to it or missing, ...                        *)
LEMMA AttachArticleKeeps ==
  ASSUME WizardInv, NEW a, AttachArticle(a)
  PROVE  WizardInv'
<1> DEFINE q == sending[1]
           r == [q EXCEPT !.todo = @ \ {a}]
           s == [q EXCEPT !.todo = @ \ {a}, !.missing = @ \cup {a}]
           licence == made[Len(made)]
           held == Attached(a)
           x == [licence EXCEPT !.articles = held]
<1>1. /\ q.kind = "create" /\ q.at = "articles" /\ sending # <<>> /\ wizard' = wizard /\ a \in q.todo
      /\ \/ Becomes(r) /\ made' = [made EXCEPT ![Len(made)] = x]
         \/ Becomes(s) /\ made' = made
  BY DEF AttachArticle, InFlight, Serves, Last
<1>2. /\ RequestOK(q, made) /\ made # <<>> /\ Creating(q, licence)
      /\ {"kind", "at", "live", "client", "entite", "period", "asked", "settled",
          "produits", "todo", "missing"} \subseteq DOMAIN q
      /\ MadeOK(licence) /\ LicencesOK(made) /\ Len(made) \in Nat
  BY <1>1, BeingCreated DEF UnderWay
<1>3. DOMAIN r = DOMAIN q /\ r.todo = q.todo \ {a} /\ \A f \in DOMAIN q \ {"todo"} : r[f] = q[f]
  BY <1>2
<1>4. /\ DOMAIN s = DOMAIN q /\ s.todo = q.todo \ {a} /\ s.missing = q.missing \cup {a}
      /\ \A f \in DOMAIN q \ {"todo", "missing"} : s[f] = q[f]
  BY <1>2
<1>5. DOMAIN x = DOMAIN licence /\ x.articles = held /\ \A f \in DOMAIN licence \ {"articles"} : x[f] = licence[f]
  BY <1>2 DEF MadeOK
<1>6. /\ DOMAIN held = DOMAIN licence.articles \cup {a}
      /\ \A b \in DOMAIN licence.articles : held[b] = licence.articles[b]
      /\ a \notin DOMAIN licence.articles => held[a] = q.asked[a]
  <2> DEFINE one == [b \in {a} |-> q.asked[a]]
             both == Over(licence.articles, one)
  <2>1. DOMAIN one = {a} /\ one[a] = q.asked[a]
    OBVIOUS
  <2>2. held = both
    BY DEF Attached, Last
  <2> HIDE DEF one
  <2>3. /\ DOMAIN both = DOMAIN licence.articles \cup DOMAIN one
        /\ \A b \in DOMAIN licence.articles : both[b] = licence.articles[b]
        /\ \A b \in DOMAIN one \ DOMAIN licence.articles : both[b] = one[b]
    BY Overlay
  <2> HIDE DEF both, held, q, licence
  <2> QED
    BY <2>1, <2>2, <2>3
<1> HIDE DEF q, r, s, x, licence, held
<1>7. r.at = "articles" /\ r.asked = q.asked /\ r.missing = q.missing
  BY <1>1, <1>2, <1>3
<1>8. s.at = "articles" /\ s.asked = q.asked
  BY <1>1, <1>2, <1>4
<1>9. x.client = licence.client /\ x.entite = licence.entite /\ x.period = licence.period
  BY <1>2, <1>5 DEF MadeOK
<1>10. x.told = Unchecked /\ x.asked = licence.asked /\ x.settled = licence.settled
  BY <1>2, <1>5 DEF MadeOK, Creating
<1>11. MadeOK(x)
  BY <1>2, <1>5, <1>9, <1>10 DEF MadeOK
<1>12. Creating(r, x)
  <2>1. a \notin DOMAIN licence.articles /\ a \notin q.missing /\ a \in DOMAIN q.asked
    BY <1>1, <1>2 DEF Creating
  <2>2. DOMAIN x.articles = DOMAIN licence.articles \cup {a}
    BY <1>5, <1>6
  <2>3. \A b \in DOMAIN x.articles : x.articles[b] = r.asked[b]
    BY <1>2, <1>5, <1>6, <1>7, <2>1 DEF Creating
  <2>4. DOMAIN x.articles \cup r.todo \cup r.missing = DOMAIN r.asked
    BY <1>1, <1>2, <1>3, <1>7, <2>2 DEF Creating
  <2> QED
    BY <1>2, <1>3, <1>7, <1>10, <2>1, <2>2, <2>3, <2>4 DEF Creating
<1>13. Creating(s, licence)
  BY <1>1, <1>2, <1>4, <1>8 DEF Creating
<1>14. CASE Becomes(r) /\ made' = [made EXCEPT ![Len(made)] = x]
  <2>1. /\ LicencesOK(made') /\ Grown(made, made') /\ Len(made') \in Nat
        /\ made' # <<>> /\ Creating(r, made'[Len(made')])
    BY <1>2, <1>9, <1>11, <1>12, <1>14, LicenceChanges DEF licence
  <2>2. RequestOK(r, made') /\ SameRequest(r, q)
    BY <1>1, <1>2, <1>3, <1>7, <2>1, ProgressOK
  <2> QED
    BY <1>1, <1>14, <2>1, <2>2, Served DEF q
<1>15. CASE Becomes(s) /\ made' = made
  <2>1. RequestOK(s, made) /\ SameRequest(s, q)
    BY <1>1, <1>2, <1>4, <1>8, <1>13, ProgressOK DEF licence
  <2> QED
    BY <1>1, <1>2, <1>15, <2>1, Served, GrownItself DEF q
<1> QED
  BY <1>1, <1>14, <1>15

(* ... and the answer tells what is missing.                               *)
LEMMA AnswerCreateKeeps ==
  ASSUME WizardInv, AnswerCreate
  PROVE  WizardInv'
<1> DEFINE q == sending[1]
           none == <<>>
           r == Accepted(q, none)
<1>1. /\ q.kind = "create" /\ q.at = "articles" /\ sending # <<>> /\ Becomes(r) /\ wizard' = wizard
      /\ made' = made /\ q.todo = {}
  BY DEF AnswerCreate, InFlight, Serves
<1>2. /\ RequestOK(q, made) /\ made # <<>> /\ Creating(q, made[Len(made)])
      /\ {"kind", "at", "live", "client", "entite", "period", "asked", "settled",
          "produits", "todo", "missing"} \subseteq DOMAIN q
      /\ LicencesOK(made) /\ Len(made) \in Nat /\ DOMAIN q.asked \subseteq WizardArticle
  BY <1>1, BeingCreated DEF UnderWay
<1>3. "ok" \notin DOMAIN q /\ q.live \in BOOLEAN /\ (q.settled => EntiteOwner[q.entite] = q.client)
  BY <1>1, <1>2 DEF RequestOK, FieldsOK, CreateOK
<1>4. DOMAIN none = {}
  OBVIOUS
<1> HIDE DEF q, none
<1>5. Granted(r, q, none)
  BY <1>2, <1>3, AcceptedIs
<1> HIDE DEF r
<1>6. /\ DOMAIN r = DOMAIN q \cup {"ok"} /\ r.at = "answered" /\ r.ok = TRUE
      /\ \A x \in DOMAIN q \ {"at"} : r[x] = q[x]
  BY <1>4, <1>5 DEF Granted
<1>7. /\ r.kind = "create" /\ r.client = q.client /\ r.live = q.live /\ r.entite = q.entite
      /\ r.asked = q.asked /\ r.settled = q.settled /\ r.todo = {} /\ r.missing = q.missing
  BY <1>1, <1>2, <1>6
<1>8. Creating(r, made[Len(made)])
  BY <1>1, <1>2, <1>7 DEF Creating
<1>9. FieldsOK(r)
  BY <1>2, <1>3, <1>6, <1>7 DEF FieldsOK
<1>10. CreateOK(r, made)
  BY <1>2, <1>3, <1>6, <1>7, <1>8 DEF CreateOK
<1>11. RequestOK(r, made) /\ SameRequest(r, q)
  BY <1>1, <1>7, <1>9, <1>10 DEF RequestOK, ListOK, CheckOK, SameRequest
<1> QED
  BY <1>1, <1>2, <1>11, Served, GrownItself DEF q

LEMMA RemoveKeeps ==
  ASSUME WizardInv, UNCHANGED <<wizard, sending, made>>
  PROVE  WizardInv'
BY DEF WizardInv

-----------------------------------------------------------------------------
(* What the user does.                                                     *)
LEMMA UserActsKeep ==
  ASSUME WizardInv, NEW w \in WizardState, UserActs(w),
         w.client = wizard.client /\ NoList(sending) => Fits(w),
         w.known = wizard.known \/ w.known = 0,
         RecapKey(w) = RecapKey(wizard) => Warned(w, made)
  PROVE  WizardInv'
<1>1. /\ wizard \in WizardState /\ QueueOK(sending, made)
      /\ ListsFor(sending, wizard.client) /\ ChecksFor(sending, wizard) /\ LicencesOK(made)
      /\ wizard.known \in -1 .. Len(made) /\ Len(made) \in Nat
  BY MadeListed DEF WizardInv, Showing, Warned
<1>2. w.known \in -1 .. Len(made)
  BY <1>1
<1>3. Renders(w, sending) /\ made' = made
  BY DEF UserActs
<1>4. Showing(wizard', sending', made)
  BY <1>1, <1>2, <1>3, RendersOK
<1> QED
  BY <1>1, <1>3, <1>4 DEF WizardInv

(* The recapitulation is left alone, or it is not shown.                   *)
LEMMA WarnedStill ==
  ASSUME WizardInv, NEW w,
         w.known = wizard.known, w.doublons = wizard.doublons, w.checking = wizard.checking
  PROVE  RecapKey(w) = RecapKey(wizard) => Warned(w, made)
<1>1. ASSUME RecapKey(w) = RecapKey(wizard) PROVE Warned(w, made)
  <2>1. w.step = wizard.step /\ w.client = wizard.client /\ w.entite = wizard.entite /\ w.period = wizard.period
    BY <1>1 DEF RecapKey
  <2>2. Meeting(made, w, w.known) = Meeting(made, wizard, wizard.known)
    BY <2>1 DEF Meeting
  <2>3. Warned(wizard, made)
    BY DEF WizardInv, Showing
  <2> QED
    BY <2>1, <2>2, <2>3 DEF Warned
<1> QED
  BY <1>1

LEMMA InvShows ==
  WizardInv => wizard \in WizardState /\ (NoList(sending) => Fits(wizard)) /\ Len(made) \in Nat
BY MadeListed DEF WizardInv, Showing

(* A part of the dialog changes that the checks do not depend on, or the   *)
(* step does.                                                              *)
SameChoice(w) ==
  /\ w.client = wizard.client /\ w.entite = wizard.entite /\ w.entites = wizard.entites
  /\ w.known = wizard.known /\ w.doublons = wizard.doublons /\ w.checking = wizard.checking

LEMMA ShownStill ==
  ASSUME WizardInv, NEW w \in WizardState, SameChoice(w)
  PROVE  /\ NoList(sending) => Fits(w)
         /\ RecapKey(w) = RecapKey(wizard) => Warned(w, made)
<1>1. NoList(sending) => Fits(w)
  BY InvShows DEF Fits, SameChoice
<1>2. RecapKey(w) = RecapKey(wizard) => Warned(w, made)
  BY WarnedStill DEF SameChoice
<1> QED
  BY <1>1, <1>2

LEMMA ChoiceKept ==
  ASSUME WizardInv, NEW w \in WizardState, SameChoice(w), UserActs(w)
  PROVE  WizardInv'
<1>1. w.known = wizard.known
  BY DEF SameChoice
<1> QED
  BY <1>1, ShownStill, UserActsKeep

LEMMA ResetOK ==
  /\ ResetWizard \in WizardState /\ Fits(ResetWizard) /\ ResetWizard.known = 0
  /\ \A m : Len(m) \in Nat => Warned(ResetWizard, m)
<1>1. ResetWizard \in WizardState
  <2>1. LockedClient \in Client \cup {NoClient}
    BY WizardAssumption
  <2> QED
    BY <2>1 DEF ResetWizard, WizardState
<1>2. Fits(ResetWizard) /\ ResetWizard.known = 0 /\ ResetWizard.step = 1
  BY DEF ResetWizard, Fits
<1>3. ASSUME NEW m, Len(m) \in Nat PROVE Warned(ResetWizard, m)
  BY <1>2, <1>3 DEF Warned
<1> QED
  BY <1>1, <1>2, <1>3

LEMMA OpenWizardKeeps == ASSUME WizardInv, OpenWizard PROVE WizardInv'
<1> DEFINE w == [wizard EXCEPT !.open = TRUE]
<1>1. w \in WizardState /\ SameChoice(w)
  BY InvShows DEF WizardState, SameChoice
<1>2. UserActs(w)
  BY DEF OpenWizard
<1> HIDE DEF w
<1> QED
  BY <1>1, <1>2, ChoiceKept

LEMMA CloseWizardKeeps == ASSUME WizardInv, CloseWizard PROVE WizardInv'
<1>1. UserActs(ResetWizard) /\ Len(made) \in Nat
  BY InvShows DEF CloseWizard
<1>2. /\ ResetWizard \in WizardState /\ Fits(ResetWizard) /\ ResetWizard.known = 0
      /\ Warned(ResetWizard, made)
  BY <1>1, ResetOK
<1> QED
  BY <1>1, <1>2, UserActsKeep

LEMMA SelectClientKeeps ==
  ASSUME WizardInv, NEW c \in Client, SelectClient(c)
  PROVE  WizardInv'
<1> DEFINE w == [wizard EXCEPT !.client = c]
<1>1. wizard \in WizardState /\ (NoList(sending) => Fits(wizard))
  BY InvShows
<1>2. /\ w \in WizardState /\ w.known = wizard.known
      /\ w.doublons = wizard.doublons /\ w.checking = wizard.checking
      /\ w.entite = wizard.entite /\ w.entites = wizard.entites
  BY <1>1 DEF WizardState
<1>3. UserActs(w)
  BY DEF SelectClient
<1> HIDE DEF w
<1>4. RecapKey(w) = RecapKey(wizard) => Warned(w, made)
  BY <1>2, WarnedStill
<1>5. w.client = wizard.client /\ NoList(sending) => Fits(w)
  BY <1>1, <1>2 DEF Fits
<1> QED
  BY <1>2, <1>3, <1>4, <1>5, UserActsKeep

LEMMA SelectEntiteKeeps ==
  ASSUME WizardInv, NEW e \in Entite, SelectEntite(e)
  PROVE  WizardInv'
<1> DEFINE w == [wizard EXCEPT !.entite = e]
<1>1. wizard \in WizardState /\ (NoList(sending) => Fits(wizard))
  BY InvShows
<1>2. /\ w \in WizardState /\ w.client = wizard.client /\ w.known = wizard.known
      /\ w.doublons = wizard.doublons /\ w.checking = wizard.checking
      /\ w.entite = e /\ w.entites = wizard.entites
  BY <1>1 DEF WizardState
<1>3. UserActs(w) /\ e \in wizard.entites
  BY DEF SelectEntite
<1> HIDE DEF w
<1>4. RecapKey(w) = RecapKey(wizard) => Warned(w, made)
  BY <1>2, WarnedStill
<1>5. NoList(sending) => Fits(w)
  BY <1>1, <1>2, <1>3 DEF Fits
<1> QED
  BY <1>2, <1>3, <1>4, <1>5, UserActsKeep

LEMMA SetPeriodKeeps ==
  ASSUME WizardInv, NEW p \in WizardPeriod, SetPeriod(p)
  PROVE  WizardInv'
<1> DEFINE w == [wizard EXCEPT !.period = p]
<1>1. w \in WizardState /\ SameChoice(w)
  BY InvShows DEF WizardState, SameChoice
<1>2. UserActs(w)
  BY DEF SetPeriod
<1> HIDE DEF w
<1> QED
  BY <1>1, <1>2, ChoiceKept

LEMMA SelectArticleKeeps ==
  ASSUME WizardInv, NEW a \in WizardArticle, NEW v \in AskedVolume \cup {Unchecked}, SelectArticle(a, v)
  PROVE  WizardInv'
<1> DEFINE w == [wizard EXCEPT !.chosen[a] = v]
<1>1. w \in WizardState /\ SameChoice(w)
  BY InvShows DEF WizardState, SameChoice
<1>2. UserActs(w)
  BY DEF SelectArticle
<1> HIDE DEF w
<1> QED
  BY <1>1, <1>2, ChoiceKept

(* The step changes, or the error is shown.                                *)
AtOther(n, e) == [wizard EXCEPT !.step = n, !.error = e]

LEMMA StepShown ==
  ASSUME WizardInv, NEW n \in 1 .. 3, NEW e \in BOOLEAN
  PROVE  AtOther(n, e) \in WizardState /\ SameChoice(AtOther(n, e))
BY InvShows DEF WizardState, SameChoice, AtOther

LEMMA ErrorShown ==
  ASSUME WizardInv
  PROVE  /\ [wizard EXCEPT !.error = TRUE] \in WizardState /\ SameChoice([wizard EXCEPT !.error = TRUE])
         /\ [wizard EXCEPT !.error = FALSE] \in WizardState /\ SameChoice([wizard EXCEPT !.error = FALSE])
BY InvShows DEF WizardState, SameChoice

LEMMA NextStepKeeps == ASSUME WizardInv, NextStep PROVE WizardInv'
<1> DEFINE u == [wizard EXCEPT !.error = TRUE]
<1>1. UserActs(u) \/ UserActs(AtOther(2, FALSE)) \/ UserActs(AtOther(3, FALSE))
  <2>1. CASE AtStep(1)
    BY <2>1 DEF NextStep, AtStep, AtOther
  <2>2. CASE AtStep(2)
    BY <2>2 DEF NextStep, AtStep, AtOther
  <2> QED
    BY <2>1, <2>2 DEF NextStep
<1>2. u \in WizardState /\ SameChoice(u)
  BY ErrorShown
<1>3. \A n \in 1 .. 3 : AtOther(n, FALSE) \in WizardState /\ SameChoice(AtOther(n, FALSE))
  BY StepShown
<1>4. 2 \in 1 .. 3 /\ 3 \in 1 .. 3
  OBVIOUS
<1> HIDE DEF u
<1> QED
  BY <1>1, <1>2, <1>3, <1>4, ChoiceKept

LEMMA PreviousStepKeeps == ASSUME WizardInv, PreviousStep PROVE WizardInv'
<1>1. UserActs(AtOther(1, FALSE)) \/ UserActs(AtOther(2, FALSE))
  BY DEF PreviousStep, AtOther
<1>2. \A n \in 1 .. 3 : AtOther(n, FALSE) \in WizardState /\ SameChoice(AtOther(n, FALSE))
  BY StepShown
<1>3. 1 \in 1 .. 3 /\ 2 \in 1 .. 3
  OBVIOUS
<1> QED
  BY <1>1, <1>2, <1>3, ChoiceKept

LEMMA PressCreateKeeps == ASSUME WizardInv, PressCreate PROVE WizardInv'
<1>1. /\ wizard \in WizardState /\ (NoList(sending) => Fits(wizard)) /\ Len(made) \in Nat
      /\ QueueOK(sending, made) /\ ListsFor(sending, wizard.client) /\ ChecksFor(sending, wizard)
      /\ LicencesOK(made) /\ wizard.known \in -1 .. Len(made) /\ made' = made
  BY InvShows DEF WizardInv, Showing, Warned, PressCreate
<1>2. CASE ~ValidStep1(wizard)
  <2> DEFINE w == [wizard EXCEPT !.error = TRUE, !.step = 1]
  <2>1. w \in WizardState /\ SameChoice(w)
    <3>1. w = AtOther(1, TRUE)
      BY <1>1 DEF WizardState, AtOther
    <3>2. 1 \in 1 .. 3
      OBVIOUS
    <3> QED
      BY <3>1, <3>2, StepShown
  <2>2. Renders(w, sending)
    BY <1>2 DEF PressCreate
  <2> HIDE DEF w
  <2>3. RecapKey(w) = RecapKey(wizard) => Warned(w, made)
    BY <2>1, ShownStill
  <2>4. (NoList(sending) => Fits(w)) /\ w.known = wizard.known
    BY <2>1, ShownStill DEF SameChoice
  <2>5. Showing(wizard', sending', made)
    BY <1>1, <2>1, <2>2, <2>3, <2>4, RendersOK
  <2> QED
    BY <1>1, <2>5 DEF WizardInv
<1>3. CASE ValidStep1(wizard)
  <2> DEFINE w == [wizard EXCEPT !.error = FALSE]
             r == CreateRequest(wizard)
             p == Append(sending, r)
  <2>1. w \in WizardState /\ SameChoice(w)
    BY <1>1, ErrorShown
  <2>2. Renders(w, p)
    BY <1>3 DEF PressCreate
  <2>3. /\ r.kind = "create" /\ r.at = "sent" /\ r.live /\ r.client = wizard.client
        /\ r.entite = wizard.entite /\ r.settled = NoList(sending)
        /\ DOMAIN r = {"kind", "at", "live", "client", "entite", "period", "asked", "settled"}
        /\ r.live = TRUE
    BY DEF CreateRequest, NoList
  <2>4. DOMAIN r.asked \subseteq WizardArticle
    BY DEF CreateRequest, Selected
  <2> HIDE DEF w, r
  <2>5. r.settled => EntiteOwner[r.entite] = r.client
    BY <1>1, <1>3, <2>3 DEF Fits, Owned, ValidStep1
  <2>6. RequestOK(r, made)
    <3>1. FieldsOK(r)
      BY <2>3 DEF FieldsOK
    <3>2. CreateOK(r, made)
      BY <2>3, <2>4, <2>5 DEF CreateOK, UnderWay
    <3> QED
      BY <2>3, <3>1, <3>2 DEF RequestOK, ListOK, CheckOK
  <2>7. /\ QueueOK(p, made) /\ Len(sending) \in Nat /\ DOMAIN sending = 1 .. Len(sending)
        /\ DOMAIN p = 1 .. Len(sending) + 1
        /\ \A i \in DOMAIN sending : p[i] = sending[i]
        /\ p[Len(sending) + 1] = r
    BY <1>1, <2>3, <2>6, AppendOK
  <2> HIDE DEF p
  <2>8. \A i \in DOMAIN p : i \in DOMAIN sending \/ p[i] = r
    BY <2>7
  <2>9. ListsFor(p, wizard.client) /\ ChecksFor(p, wizard)
    BY <1>1, <2>3, <2>7, <2>8 DEF ListsFor, ChecksFor
  <2>10. NoList(p) => NoList(sending)
    BY <2>7 DEF NoList
  <2>11. (NoList(p) => Fits(w)) /\ w.known = wizard.known
    BY <2>1, <2>10, ShownStill DEF SameChoice
  <2>12. RecapKey(w) = RecapKey(wizard) => Warned(w, made)
    BY <2>1, ShownStill
  <2>13. Showing(wizard', sending', made)
    BY <1>1, <2>1, <2>2, <2>7, <2>9, <2>11, <2>12, RendersOK
  <2> QED
    BY <1>1, <2>13 DEF WizardInv
<1> QED
  BY <1>2, <1>3

-----------------------------------------------------------------------------
(* The answers.                                                            *)
LEMMA Delivered ==
  ASSUME WizardInv, sending # <<>>, NEW w \in WizardState, Renders(w, Tail(sending)),
         LicencesOK(made'), Grown(made, made'), Len(made') \in Nat,
         w.client = wizard.client /\ NoList(Tail(sending)) => Fits(w),
         w.known \in -1 .. Len(made'), RecapKey(w) = RecapKey(wizard) => Warned(w, made')
  PROVE  WizardInv'
<1> DEFINE p == Tail(sending)
<1>1. /\ wizard \in WizardState /\ QueueOK(sending, made)
      /\ ListsFor(sending, wizard.client) /\ ChecksFor(sending, wizard)
  BY DEF WizardInv, Showing
<1>2. /\ QueueOK(p, made') /\ \A i \in DOMAIN p : i + 1 \in DOMAIN sending /\ p[i] = sending[i + 1]
  BY <1>1, TailOK
<1> HIDE DEF p
<1>3. ListsFor(p, wizard.client) /\ ChecksFor(p, wizard)
  BY <1>1, <1>2 DEF ListsFor, ChecksFor
<1>4. Renders(w, p) /\ (w.client = wizard.client /\ NoList(p) => Fits(w))
  BY DEF p
<1>5. Showing(wizard', sending', made')
  BY <1>1, <1>2, <1>3, <1>4, RendersOK
<1> QED
  BY <1>5 DEF WizardInv

(* Without a live list in front, the entites were those of the client.     *)
LEMMA NoListBehind ==
  ASSUME WizardInv, sending # <<>>, sending[1].kind = "list" => ~sending[1].live,
         NoList(Tail(sending))
  PROVE  Fits(wizard)
<1> DEFINE p == Tail(sending)
<1>1. QueueOK(sending, made) /\ (NoList(sending) => Fits(wizard))
  BY DEF WizardInv, Showing
<1>2. /\ Len(sending) \in Nat \ {0} /\ DOMAIN sending = 1 .. Len(sending)
      /\ DOMAIN p = 1 .. Len(sending) - 1
      /\ \A i \in DOMAIN p : p[i] = sending[i + 1]
  BY <1>1, TailOK
<1> HIDE DEF p
<1>3. \A i \in DOMAIN sending : i = 1 \/ (i - 1 \in DOMAIN p /\ sending[i] = p[i - 1])
  <2> TAKE i \in DOMAIN sending
  <2>1. i = 1 \/ i - 1 \in DOMAIN p
    BY <1>2
  <2>2. i - 1 + 1 = i
    BY <1>2
  <2> QED
    BY <1>2, <2>1, <2>2
<1>4. NoList(p)
  BY DEF p
<1>5. NoList(sending)
  BY <1>3, <1>4 DEF NoList
<1> QED
  BY <1>1, <1>5

LEMMA DeliverListKeeps == ASSUME WizardInv, DeliverList PROVE WizardInv'
<1> DEFINE r == sending[1]
<1>0. sending # <<>> /\ r.kind = "list" /\ r.at = "answered" /\ made' = made
  BY DEF DeliverList, Answered, InFlight
<1>1. /\ wizard \in WizardState /\ Len(made) \in Nat /\ LicencesOK(made)
      /\ wizard.known \in -1 .. Len(made) /\ ListsFor(sending, wizard.client)
      /\ Grown(made, made)
  BY InvShows, GrownItself DEF WizardInv, Showing, Warned
<1>2. RequestOK(r, made) /\ 1 \in DOMAIN sending
  BY <1>0, InFront
<1>3. CASE ~r.live
  <2>1. Renders(wizard, Tail(sending))
    BY <1>3 DEF DeliverList
  <2>2. NoList(Tail(sending)) => Fits(wizard)
    BY <1>0, <1>3, NoListBehind
  <2>3. Warned(wizard, made)
    BY DEF WizardInv, Showing
  <2> QED
    BY <1>0, <1>1, <2>1, <2>2, <2>3, Delivered
<1>4. ASSUME r.live, NEW w \in WizardState, w.client = wizard.client, Fits(w),
             w.known = wizard.known, w.doublons = wizard.doublons, w.checking = wizard.checking,
             Renders(w, Tail(sending))
      PROVE  WizardInv'
  <2>1. RecapKey(w) = RecapKey(wizard) => Warned(w, made)
    BY <1>4, WarnedStill
  <2> QED
    BY <1>0, <1>1, <1>4, <2>1, Delivered
<1>5. CASE r.live /\ ~r.ok
  <2> DEFINE w == [wizard EXCEPT !.error = TRUE, !.entites = {}, !.entite = NoEntite]
  <2>1. Renders(w, Tail(sending))
    BY <1>5 DEF DeliverList
  <2>2. /\ w \in WizardState /\ w.client = wizard.client /\ w.entites = {} /\ w.entite = NoEntite
        /\ w.known = wizard.known /\ w.doublons = wizard.doublons /\ w.checking = wizard.checking
    BY <1>1 DEF WizardState
  <2>3. Fits(w)
    BY <2>2 DEF Fits
  <2> HIDE DEF w
  <2> QED
    BY <1>4, <1>5, <2>1, <2>2, <2>3
<1>6. CASE r.live /\ r.ok
  <2>1. PICK e \in IF r.entites = {} THEN {NoEntite} ELSE r.entites :
          Renders([wizard EXCEPT !.entites = r.entites, !.entite = e], Tail(sending))
    BY <1>6 DEF DeliverList
  <2>2. r.entites = Owned(wizard.client) /\ r.entites \subseteq Entite
    BY <1>0, <1>1, <1>2, <1>6 DEF RequestOK, ListOK, ListsFor, Owned
  <2>3. e \in r.entites \cup {NoEntite}
    BY <2>1
  <2> DEFINE es == r.entites
             w == [wizard EXCEPT !.entites = es, !.entite = e]
  <2>4. Renders(w, Tail(sending))
    BY <2>1
  <2>5. es \subseteq Entite /\ es = Owned(wizard.client) /\ e \in es \cup {NoEntite}
    BY <2>2, <2>3
  <2> HIDE DEF es
  <2>6. /\ w \in WizardState /\ w.client = wizard.client /\ w.entites = es /\ w.entite = e
        /\ w.known = wizard.known /\ w.doublons = wizard.doublons /\ w.checking = wizard.checking
    BY <1>1, <2>5 DEF WizardState
  <2>7. Fits(w)
    BY <2>5, <2>6 DEF Fits
  <2> HIDE DEF w
  <2> QED
    BY <1>4, <1>6, <2>4, <2>6, <2>7
<1>7. r.live \in BOOLEAN /\ r.ok \in BOOLEAN
  BY <1>0, <1>2 DEF RequestOK, FieldsOK
<1> QED
  BY <1>3, <1>5, <1>6, <1>7

LEMMA DeliverCheckKeeps == ASSUME WizardInv, DeliverCheck PROVE WizardInv'
<1> DEFINE r == sending[1]
<1>0. sending # <<>> /\ r.kind = "check" /\ r.at = "answered" /\ made' = made
  BY DEF DeliverCheck, Answered, InFlight
<1>1. /\ wizard \in WizardState /\ Len(made) \in Nat /\ LicencesOK(made)
      /\ wizard.known \in -1 .. Len(made) /\ ChecksFor(sending, wizard)
      /\ Grown(made, made)
  BY InvShows, GrownItself DEF WizardInv, Showing, Warned
<1>2. RequestOK(r, made) /\ 1 \in DOMAIN sending
  BY <1>0, InFront
<1>3. NoList(Tail(sending)) => Fits(wizard)
  BY <1>0, NoListBehind
<1>4. r.live \in BOOLEAN /\ r.ok \in BOOLEAN
  BY <1>0, <1>2 DEF RequestOK, FieldsOK
<1>5. CASE ~r.live
  <2>1. Renders(wizard, Tail(sending))
    BY <1>5 DEF DeliverCheck
  <2>2. Warned(wizard, made)
    BY DEF WizardInv, Showing
  <2> QED
    BY <1>0, <1>1, <1>3, <2>1, <2>2, Delivered
<1>6. CASE r.live /\ r.ok
  <2> DEFINE w == [[wizard EXCEPT !.doublons = r.doublons, !.known = r.known] EXCEPT !.checking = FALSE]
  <2>1. Renders(w, Tail(sending))
    BY <1>6 DEF DeliverCheck
  <2>2. r.known \in 0 .. Len(made) /\ r.doublons = Meeting(made, r, r.known)
    BY <1>0, <1>2, <1>6 DEF RequestOK, CheckOK
  <2>3. r.known \in Int /\ r.doublons \in SUBSET Nat
    BY <1>1, <2>2 DEF Meeting
  <2>4. /\ w \in WizardState /\ w.client = wizard.client /\ w.entites = wizard.entites
        /\ w.entite = wizard.entite /\ w.period = wizard.period
        /\ w.known = r.known /\ w.doublons = r.doublons
    <3> DEFINE d == r.doublons
               k == r.known
    <3>1. d \in SUBSET Nat /\ k \in Int
      BY <2>3
    <3>2. w = [[wizard EXCEPT !.doublons = d, !.known = k] EXCEPT !.checking = FALSE]
      OBVIOUS
    <3> HIDE DEF d, k, w
    <3>3. /\ w \in WizardState /\ w.client = wizard.client /\ w.entites = wizard.entites
          /\ w.entite = wizard.entite /\ w.period = wizard.period
          /\ w.known = k /\ w.doublons = d
      BY <1>1, <3>1, <3>2 DEF WizardState
    <3> QED
      BY <3>3 DEF d, k
  <2> HIDE DEF w
  <2>5. r.client = wizard.client /\ r.entite = wizard.entite /\ r.period = wizard.period
    BY <1>0, <1>1, <1>2, <1>6 DEF ChecksFor
  <2>6. Meeting(made, r, r.known) = Meeting(made, w, w.known)
    BY <2>4, <2>5 DEF Meeting
  <2>7. Warned(w, made) /\ w.known \in -1 .. Len(made)
    BY <1>1, <2>2, <2>4, <2>6 DEF Warned
  <2>8. NoList(Tail(sending)) => Fits(w)
    BY <1>3, <2>4 DEF Fits
  <2> QED
    BY <1>0, <1>1, <2>1, <2>4, <2>7, <2>8, Delivered
<1>7. CASE r.live /\ ~r.ok
  <2> DEFINE w == [[wizard EXCEPT !.error = TRUE, !.doublons = {}, !.known = -1] EXCEPT !.checking = FALSE]
  <2>1. Renders(w, Tail(sending))
    BY <1>7 DEF DeliverCheck
  <2>2. /\ w \in WizardState /\ w.client = wizard.client /\ w.entites = wizard.entites
        /\ w.entite = wizard.entite /\ w.known = -1
    <3> DEFINE k == -1
    <3>1. k \in Int
      OBVIOUS
    <3>2. w = [[wizard EXCEPT !.error = TRUE, !.doublons = {}, !.known = k] EXCEPT !.checking = FALSE]
      OBVIOUS
    <3> HIDE DEF k, w
    <3>3. /\ w \in WizardState /\ w.client = wizard.client /\ w.entites = wizard.entites
          /\ w.entite = wizard.entite /\ w.known = k
      BY <1>1, <3>1, <3>2 DEF WizardState
    <3> QED
      BY <3>3 DEF k
  <2> HIDE DEF w
  <2>3. Warned(w, made) /\ w.known \in -1 .. Len(made)
    BY <1>1, <2>2 DEF Warned
  <2>4. NoList(Tail(sending)) => Fits(w)
    BY <1>3, <2>2 DEF Fits
  <2> QED
    BY <1>0, <1>1, <2>1, <2>2, <2>3, <2>4, Delivered
<1> QED
  BY <1>4, <1>5, <1>6, <1>7

(* The answer to a creation tells what is missing of the last licence.     *)
LEMMA DeliverCreateKeeps == ASSUME WizardInv, DeliverCreate PROVE WizardInv'
<1> DEFINE r == sending[1]
           licence == made[Len(made)]
           x == [licence EXCEPT !.told = r.missing]
<1>0. sending # <<>> /\ r.kind = "create" /\ r.at = "answered"
  BY DEF DeliverCreate, Answered, InFlight
<1>1. /\ wizard \in WizardState /\ Len(made) \in Nat /\ LicencesOK(made)
      /\ wizard.known \in -1 .. Len(made) /\ Grown(made, made) /\ Warned(wizard, made)
  BY InvShows, GrownItself DEF WizardInv, Showing, Warned
<1>2. RequestOK(r, made) /\ 1 \in DOMAIN sending /\ r.ok \in BOOLEAN
  BY <1>0, InFront DEF RequestOK, FieldsOK
<1>3. NoList(Tail(sending)) => Fits(wizard)
  BY <1>0, NoListBehind
<1>4. CASE ~r.ok
  <2> DEFINE w == [wizard EXCEPT !.error = TRUE]
  <2>1. Renders(w, Tail(sending)) /\ made' = made
    BY <1>4 DEF DeliverCreate
  <2>2. w \in WizardState /\ SameChoice(w)
    BY ErrorShown
  <2> HIDE DEF w
  <2>3. RecapKey(w) = RecapKey(wizard) => Warned(w, made)
    BY <2>2, ShownStill
  <2>4. (NoList(Tail(sending)) => Fits(w)) /\ w.known = wizard.known
    BY <1>3, <2>2 DEF Fits, SameChoice
  <2> QED
    BY <1>0, <1>1, <2>1, <2>2, <2>3, <2>4, Delivered
<1>5. CASE r.ok
  <2>1. /\ made # <<>> /\ Creating(r, licence) /\ MadeOK(licence) /\ DOMAIN r.asked \subseteq WizardArticle
    BY <1>0, <1>5, BeingCreated DEF UnderWay
  <2>2. r.todo = {}
    BY <1>0, <1>2, <1>5 DEF RequestOK, CreateOK, UnderWay
  <2>3. made' = [made EXCEPT ![Len(made)] = x]
    BY <1>5 DEF DeliverCreate, Last
  <2>4. /\ DOMAIN x = DOMAIN licence /\ x.told = r.missing
        /\ \A f \in DOMAIN licence \ {"told"} : x[f] = licence[f]
    BY <2>1 DEF MadeOK
  <2> HIDE DEF x, licence
  <2>5. /\ x.client = licence.client /\ x.entite = licence.entite /\ x.period = licence.period
        /\ x.asked = licence.asked /\ x.settled = licence.settled /\ x.articles = licence.articles
    BY <2>1, <2>4 DEF MadeOK
  <2>6. r.missing \subseteq WizardArticle
    BY <2>1 DEF Creating
  <2>7. MadeOK(x)
    BY <2>1, <2>2, <2>4, <2>5 DEF MadeOK, Creating
  <2>8. LicencesOK(made') /\ Grown(made, made') /\ Len(made') = Len(made)
    BY <2>1, <2>3, <2>5, <2>7, LicenceChanges DEF licence
  <2>9. CASE r.missing # {}
    <3> DEFINE missing == r.missing
               w == [wizard EXCEPT !.failures = missing]
    <3>1. Renders(w, Tail(sending))
      BY <1>5, <2>9 DEF DeliverCreate
    <3>2. missing \in SUBSET WizardArticle
      BY <2>6
    <3> HIDE DEF missing
    <3>3. w \in WizardState /\ SameChoice(w) /\ w.step = wizard.step /\ w.period = wizard.period
      BY <1>1, <3>2 DEF WizardState, SameChoice
    <3> HIDE DEF w
    <3>4. (NoList(Tail(sending)) => Fits(w)) /\ w.known = wizard.known
      BY <1>3, <3>3 DEF Fits, SameChoice
    <3>5. Meeting(made', w, w.known) = Meeting(made, wizard, wizard.known)
      <4>1. Meeting(made', w, wizard.known) = Meeting(made, w, wizard.known)
        BY <1>1, <2>8, MeetingStays
      <4>2. Meeting(made, w, wizard.known) = Meeting(made, wizard, wizard.known)
        BY <3>3 DEF Meeting, SameChoice
      <4> QED
        BY <3>4, <4>1, <4>2
    <3>6. Warned(w, made')
      BY <1>1, <2>8, <3>3, <3>4, <3>5 DEF Warned, SameChoice
    <3> QED
      BY <1>0, <1>1, <2>8, <3>1, <3>3, <3>4, <3>6, Delivered
  <2>10. CASE r.missing = {}
    <3>1. Renders(ResetWizard, Tail(sending))
      BY <1>5, <2>10 DEF DeliverCreate
    <3>2. Len(made') \in Nat
      BY <1>1, <2>8
    <3>3. /\ ResetWizard \in WizardState /\ Fits(ResetWizard) /\ ResetWizard.known = 0
          /\ Warned(ResetWizard, made')
      BY <3>2, ResetOK
    <3> QED
      BY <1>0, <2>8, <3>1, <3>2, <3>3, Delivered
  <2> QED
    BY <2>9, <2>10
<1> QED
  BY <1>2, <1>4, <1>5

-----------------------------------------------------------------------------
LEMMA WizardInitially == WizardInit /\ WizardStarts => WizardInv
<1> SUFFICES ASSUME WizardInit, WizardStarts PROVE WizardInv
  OBVIOUS
<1>1. made = <<>> /\ wizard = ResetWizard
  BY DEF WizardInit
<1>3. LicencesOK(made) /\ Len(made) = 0
  BY <1>1, ListedEmpty DEF LicencesOK
<1>4. wizard \in WizardState /\ Fits(wizard) /\ Warned(wizard, made) /\ wizard.client = LockedClient
  <2>1. ResetWizard.client = LockedClient
    BY DEF ResetWizard
  <2> QED
    BY <1>1, <1>3, <2>1, ResetOK
<1>5. QueueOK(sending, made) /\ ListsFor(sending, wizard.client) /\ ChecksFor(sending, wizard)
  <2>1. CASE LockedClient = NoClient
    <3>1. sending = <<>>
      BY <2>1 DEF WizardStarts
    <3>2. Listed(sending) /\ DOMAIN sending = {}
      BY <3>1, ListedEmpty
    <3> QED
      BY <3>2 DEF QueueOK, ListsFor, ChecksFor
  <2>2. CASE LockedClient # NoClient
    <3> DEFINE r == ListRequest(LockedClient)
    <3>1. sending = <<r>>
      BY <2>2 DEF WizardStarts
    <3>2. RequestOK(r, made) /\ r.kind = "list" /\ r.client = LockedClient
      BY DEF ListRequest, RequestOK, FieldsOK, ListOK, CheckOK, CreateOK
    <3> HIDE DEF r
    <3>3. sending \in Seq({r}) /\ Len(sending) = 1 /\ sending[1] = r
      BY <3>1
    <3>4. Listed(sending) /\ DOMAIN sending = 1 .. 1
      BY <3>3, ListedIs
    <3> QED
      BY <1>4, <3>2, <3>3, <3>4 DEF QueueOK, ListsFor, ChecksFor
  <2> QED
    BY <2>1, <2>2
<1> QED
  BY <1>3, <1>4, <1>5 DEF WizardInv, Showing

LEMMA WizardStep == WizardInv /\ [WizardNext]_wizardVars => WizardInv'
<1> SUFFICES ASSUME WizardInv, [WizardNext]_wizardVars PROVE WizardInv'
  OBVIOUS
<1>1. CASE OpenWizard
  BY <1>1, OpenWizardKeeps
<1>2. CASE CloseWizard
  BY <1>2, CloseWizardKeeps
<1>3. CASE \E c \in Client : SelectClient(c)
  BY <1>3, SelectClientKeeps
<1>4. CASE \E e \in Entite : SelectEntite(e)
  BY <1>4, SelectEntiteKeeps
<1>5. CASE \E p \in WizardPeriod : SetPeriod(p)
  BY <1>5, SetPeriodKeeps
<1>6. CASE \E a \in WizardArticle, v \in AskedVolume \cup {Unchecked} : SelectArticle(a, v)
  BY <1>6, SelectArticleKeeps
<1>7. CASE NextStep
  BY <1>7, NextStepKeeps
<1>8. CASE PreviousStep
  BY <1>8, PreviousStepKeeps
<1>9. CASE PressCreate
  BY <1>9, PressCreateKeeps
<1>10. CASE ServeList
  BY <1>10, ServeListKeeps
<1>11. CASE ServeCheck
  BY <1>11, ServeCheckKeeps
<1>12. CASE ServeCreate
  BY <1>12, ServeCreateKeeps
<1>13. CASE (FailRequest \/ LoseAnswer) /\ UNCHANGED <<wizard, made, removed>>
  BY <1>13, FailureKeeps
<1>14. CASE \E a \in WizardArticle : AttachProduit(WizardProduit[a]) \/ AttachArticle(a)
  BY <1>14, AttachProduitKeeps, AttachArticleKeeps
<1>15. CASE ProduitsAttached
  BY <1>15, ProduitsAttachedKeeps
<1>16. CASE AnswerCreate
  BY <1>16, AnswerCreateKeeps
<1>17. CASE \E a \in WizardArticle : RemoveFromCatalogue(a)
  <2>1. UNCHANGED <<wizard, sending, made>>
    BY <1>17 DEF RemoveFromCatalogue
  <2> QED
    BY <2>1, RemoveKeeps
<1>18. CASE DeliverList
  BY <1>18, DeliverListKeeps
<1>19. CASE DeliverCheck
  BY <1>19, DeliverCheckKeeps
<1>20. CASE DeliverCreate
  BY <1>20, DeliverCreateKeeps
<1>21. CASE UNCHANGED wizardVars
  <2>1. UNCHANGED <<wizard, sending, made>>
    BY <1>21 DEF wizardVars
  <2> QED
    BY <2>1, RemoveKeeps
<1> QED
  BY <1>1, <1>2, <1>3, <1>4, <1>5, <1>6, <1>7, <1>8, <1>9, <1>10, <1>11, <1>12, <1>13,
     <1>14, <1>15, <1>16, <1>17, <1>18, <1>19, <1>20, <1>21 DEF WizardNext

LEMMA WizardInvExact == WizardInv => WizardExact
<1> SUFFICES ASSUME WizardInv PROVE WizardExact
  OBVIOUS
<1>1. \A i \in DOMAIN made : MadeOK(made[i])
  BY DEF WizardInv, LicencesOK
<1>2. SettledEntite /\ NothingUntold
  BY <1>1 DEF SettledEntite, NothingUntold, MadeOK
<1>3. RecapWarns
  <2>1. Warned(wizard, made)
    BY DEF WizardInv, Showing
  <2>2. Doublons(wizard, wizard.known) = Meeting(made, wizard, wizard.known)
    BY DEF Doublons, Meeting
  <2> QED
    BY <2>1, <2>2 DEF RecapWarns, Warned, AtStep, ValidStep1
<1> QED
  BY <1>2, <1>3 DEF WizardExact

(* The creation wizard (NewLicenceDialog): a licence whose button was      *)
(* pressed when the entites had come has an entite of its client, what was *)
(* ticked and could not be attached is told, and the last step warns of    *)
(* the licences that overlap - for any queue of requests, in any order of  *)
(* clicks and answers, some of which fail or are lost.                     *)
THEOREM WizardIsExact == WizardSpec => []WizardExact
<1>1. WizardInit /\ WizardStarts => WizardInv
  BY WizardInitially
<1>2. WizardInv /\ [WizardNext]_wizardVars => WizardInv'
  BY WizardStep
<1>3. WizardInv => WizardExact
  BY WizardInvExact
<1> QED
  BY <1>1, <1>2, <1>3, PTL DEF WizardSpec

-----------------------------------------------------------------------------
(* The lists fetched bit by bit: their rows, and the pages of them. *)

(* The filters the open page offers.                                       *)
ListFilter == {"open", Every} \cup (IF place = "notifications" THEN {} ELSE {"closed"})

(* The rows there are, of those of n that were written.                    *)
TableOK(es, n) ==
  /\ n \subseteq 1 .. MaxEntries /\ DOMAIN es \subseteq n /\ es = [e \in DOMAIN es |-> es[e]]
  /\ \A e \in DOMAIN es : es[e] \in Sort

Opens(es) == {e \in DOMAIN es : es[e] = "open"}

Match(es, filter, cursor) ==
  {e \in DOMAIN es : (filter = Every \/ es[e] = filter) /\ (cursor = 0 \/ AfterCursor(e, cursor))}

(* What is shown of the rows written, the newest first.                    *)
ItemsOK(items, n) == Listed(items) /\ \A i \in DOMAIN items : items[i] \in [id : n, sort : Sort]

Falling(items) == \A i, j \in DOMAIN items : i < j => items[i].id > items[j].id

(* A row that is shown, or of the millisecond of one above it.             *)
SameMs(d, e) == CutToMs(CreatedAt[place][d]) = CutToMs(CreatedAt[place][e])

Seen(e, items) ==
  \/ \E i \in DOMAIN items : items[i].id = e
  \/ place # "audit" /\ \E i \in DOMAIN items : e < items[i].id /\ SameMs(e, items[i].id)

(* Of the rows after the cursor that are not late, the items have all down *)
(* to the last of them, or to the end.                                     *)
Covers(items, es, filter, cursor, ends, lt) ==
  \A e \in Match(es, filter, cursor) \ lt :
    /\ cursor # 0 \/ (items # <<>> /\ e <= items[1].id)
    /\ ends \/ (items # <<>> /\ e >= items[Len(items)].id)
    => Seen(e, items)

(* What is shown as read was read; what is shown as open is open.          *)
Told(items, es) ==
  \A i \in DOMAIN items : items[i].sort = "closed" /\ items[i].id \in DOMAIN es => es[items[i].id] = "closed"

OpenShown(items, es) == \A i \in DOMAIN items : items[i].sort = "open" => items[i].id \in Opens(es)

(* A page of the rows after the cursor.                                    *)
PageOK(page, n, cursor) ==
  /\ ItemsOK(page.items, n) /\ Falling(page.items)
  /\ page.next \in n \cup {0} /\ page.unread \in Nat
  /\ page.next # 0 => page.items # <<>> /\ page.next = page.items[Len(page.items)].id
  /\ cursor # 0 => \A i \in DOMAIN page.items : page.items[i].id < cursor

-----------------------------------------------------------------------------
(* The invariant of the lists. *)
FeedOK(feed, n) ==
  /\ DOMAIN feed = {"items", "cursor", "unread", "filter", "applied"}
  /\ ItemsOK(feed.items, n) /\ feed.cursor \in n \cup {0} /\ feed.unread \in Nat
  /\ feed.filter \in ListFilter /\ feed.applied \in ListFilter

(* A request on its way, and its answer.                                   *)
AnswerOK(r) ==
  /\ {"kind", "at", "list"} \subseteq DOMAIN r
  /\ r.kind \in {"fetch", "mark", "markAll", "archive", "resolve"}
  /\ r.at \in {"sent", "answered"}
  /\ r.at = "sent" => {"ok", "thrown", "page"} \cap DOMAIN r = {}
  /\ r.at = "answered" => "ok" \in DOMAIN r /\ r.ok \in BOOLEAN
  /\ r.at = "answered" /\ r.ok => "thrown" \notin DOMAIN r
  /\ r.at = "answered" /\ ~r.ok /\ "thrown" \notin DOMAIN r => r.kind \in {"mark", "archive"}
  /\ IF r.kind = "resolve" THEN r.list = "detail" ELSE r.list \in Lists
  /\ r.kind \in {"mark", "markAll", "archive"} => place = "notifications"

FetchOK(r, n) ==
  r.kind = "fetch" =>
    /\ {"reset", "cursor", "filter", "base"} \subseteq DOMAIN r
    /\ r.reset \in BOOLEAN /\ r.cursor \in n \cup {0} /\ r.filter \in ListFilter /\ ItemsOK(r.base, n)
    /\ r.reset <=> r.cursor = 0
    /\ r.list = "bell" => r.reset
    /\ r.at = "answered" /\ r.ok => "page" \in DOMAIN r /\ PageOK(r.page, n, r.cursor)

MarkOK(r, n) ==
  /\ r.kind = "mark" =>
       /\ {"id", "base", "count"} \subseteq DOMAIN r
       /\ r.id \in n /\ r.count \in Nat /\ ItemsOK(r.base, n)
       /\ \E i \in DOMAIN r.base : r.base[i].id = r.id /\ r.base[i].sort = "open"
  /\ r.kind = "markAll" => "base" \in DOMAIN r /\ ItemsOK(r.base, n)
  /\ r.kind = "archive" => "filter" \in DOMAIN r /\ r.filter \in ListFilter /\ r.list = "inbox"
  /\ r.kind = "resolve" => {"live", "id"} \subseteq DOMAIN r /\ r.live \in BOOLEAN /\ r.id \in Nat \ {0}

AskOK(r, n) == AnswerOK(r) /\ FetchOK(r, n) /\ MarkOK(r, n)

AsksOK(q, n) ==
  /\ Listed(q)
  /\ \A i \in DOMAIN q : AskOK(q[i], n) /\ (i # 1 => q[i].at = "sent")

(* What a request and its answer show as read was read.                    *)
AskTold(r, es) ==
  /\ r.kind \in {"fetch", "mark", "markAll"} => Told(r.base, es)
  /\ r.kind = "fetch" /\ r.at = "answered" /\ r.ok => Told(r.page.items, es)
  /\ r.kind = "mark" /\ r.at = "answered" /\ "thrown" \notin DOMAIN r => r.id \notin Opens(es)
  /\ r.kind = "markAll" /\ r.at = "answered" /\ "thrown" \notin DOMAIN r =>
       \A i \in DOMAIN r.base : r.base[i].id \notin Opens(es)

AllTold(fs, q, es) ==
  /\ \A l \in Lists : Told(fs[l].items, es)
  /\ \A i \in DOMAIN q : AskTold(q[i], es)

(* The only request of a list whose user waits was made of what the list   *)
(* shows.                                                                  *)
MadeOf(r, feed) ==
  /\ r.kind \in {"fetch", "mark", "markAll"} => r.base = feed.items
  /\ r.kind = "mark" => r.count = feed.unread
  /\ r.kind = "fetch" /\ ~r.reset => r.cursor = feed.cursor /\ r.filter = feed.applied

OneAsk(q, l) == \A i, j \in DOMAIN q : q[i].list = l /\ q[j].list = l => i = j

(* The server has answered a request of the list, other than to archive.   *)
Done(q, l) ==
  /\ q # <<>> /\ q[1].list = l /\ q[1].at = "answered"
  /\ "thrown" \notin DOMAIN q[1] /\ q[1].kind # "archive"

(* A page is on its way back.                                              *)
Fetched(q) == q # <<>> /\ q[1].kind = "fetch" /\ q[1].at = "answered" /\ q[1].ok

(* The count and the open rows, but for what an answer is about to change. *)
Counts(feed, q, es, l) ==
  /\ ~Done(q, l) => feed.unread = Cardinality(Opens(es)) /\ OpenShown(feed.items, es)
  /\ Done(q, l) =>
       /\ q[1].kind = "fetch" /\ ~q[1].reset => OpenShown(feed.items, es)
       /\ q[1].kind = "mark" =>
            /\ Cardinality(Opens(es)) = q[1].count - 1
            /\ \A i \in DOMAIN feed.items :
                 feed.items[i].sort = "open" => feed.items[i].id \in Opens(es) \cup {q[1].id}
       /\ q[1].kind = "markAll" => Cardinality(Opens(es)) = 0

(* The decided renewals are those there were.                              *)
Vague(l, filter, od) == place = "renewals" /\ filter = "closed" /\ l \in od

(* The cursor is the last row shown.                                       *)
Joins(feed, l) == feed.cursor # 0 /\ l # "bell" =>
  feed.items # <<>> /\ feed.cursor = feed.items[Len(feed.items)].id

Unbroken(feed, q, es, l, od, lt) ==
  /\ Falling(feed.items) /\ Joins(feed, l)
  /\ ~Vague(l, feed.applied, od)
     /\ ~(place = "renewals" /\ feed.applied = "closed" /\ Fetched(q) /\ q[1].list = l /\ q[1].reset)
     => Covers(feed.items, es, feed.applied, 0, feed.cursor = 0 /\ l # "bell", lt)

(* The lists whose user waits.                                             *)
Calm(feed, q, es, l, od, lt) ==
  /\ OneAsk(q, l)
  /\ \A i \in DOMAIN q : q[i].list = l => MadeOf(q[i], feed)
  /\ Unbroken(feed, q, es, l, od, lt)
  /\ place = "notifications" /\ l \notin od => Counts(feed, q, es, l)

(* The page that was fetched, whoever waits for it.                        *)
PageFits(q, es, od, lt) ==
  Fetched(q) =>
    /\ ~Vague(q[1].list, q[1].filter, od) =>
         Covers(q[1].page.items, es, q[1].filter, q[1].cursor, q[1].page.next = 0, lt)
    /\ place = "notifications" /\ q[1].list \notin od =>
         q[1].page.unread = Cardinality(Opens(es)) /\ OpenShown(q[1].page.items, es)

(* The detail d that is open, and s, whose identifiers it shows.           *)
DetailOK(q, d, s) ==
  /\ s # 0 => s = d
  /\ \A i \in DOMAIN q : q[i].kind = "resolve" /\ q[i].live => d = q[i].id

(* The whole, in terms of what a step may change.                          *)
FeedsOK(fs, n) == fs = [l \in Lists |-> fs[l]] /\ \A l \in Lists : FeedOK(fs[l], n)

ListsOK(es, n, fs, q, mx, od, lt) ==
  /\ place \in Place
  /\ TableOK(es, n) /\ FeedsOK(fs, n) /\ AsksOK(q, n)
  /\ place = "notifications" => AllTold(fs, q, es)
  /\ \A l \in Lists \ mx : Calm(fs[l], q, es, l, od, lt)
  /\ PageFits(q, es, od, lt)

FeedsInv ==
  /\ ListsOK(entries, written, feeds, sending, mixed, outdated, late)
  /\ DetailOK(sending, drill, resolved)

-----------------------------------------------------------------------------
(* The instants and the cursors cut to the millisecond.                    *)
LEMMA CutFacts ==
  ASSUME NEW x \in Nat
  PROVE  CutToMs(x) \in Nat /\ CutToMs(x) <= x /\ x < CutToMs(x) + PerMs /\ x \div PerMs \in Nat
BY ListAssumption DEF CutToMs

LEMMA CutSame ==
  ASSUME NEW x \in Nat, NEW y \in Nat, x <= y, CutToMs(y) <= x
  PROVE  CutToMs(x) = CutToMs(y)
<1>1. /\ x \div PerMs \in Nat /\ CutToMs(x) <= x /\ x < CutToMs(x) + PerMs
      /\ y \div PerMs \in Nat /\ CutToMs(y) <= y /\ y < CutToMs(y) + PerMs
  BY CutFacts
<1>2. x \div PerMs = y \div PerMs
  BY <1>1, ListAssumption, SMTT(30) DEF CutToMs
<1> QED
  BY <1>2 DEF CutToMs

(* The rows after a cursor are older than its row; those older that are    *)
(* not after it are of its millisecond.                                    *)
LEMMA CursorCuts ==
  ASSUME place \in Place, NEW e \in 1 .. MaxEntries, NEW c \in 1 .. MaxEntries
  PROVE  /\ AfterCursor(e, c) => e < c
         /\ e < c /\ ~AfterCursor(e, c) => place # "audit" /\ SameMs(e, c)
<1> DEFINE x == CreatedAt[place][e]
           y == CreatedAt[place][c]
<1>1. x \in Nat /\ y \in Nat /\ (e <= c => x <= y) /\ (c <= e => y <= x)
  BY ListAssumption
<1>2. AfterCursor(e, c) <=> IF place = "audit" THEN e < c ELSE x < CutToMs(y) \/ (x = CutToMs(y) /\ e < c)
  BY DEF AfterCursor
<1>3. SameMs(e, c) <=> CutToMs(x) = CutToMs(y)
  BY DEF SameMs
<1> HIDE DEF x, y
<1>4. CutToMs(y) \in Nat /\ CutToMs(y) <= y
  BY <1>1, CutFacts
<1>5. e < c /\ CutToMs(y) <= x => CutToMs(x) = CutToMs(y)
  BY <1>1, CutSame
<1> QED
  BY <1>1, <1>2, <1>3, <1>4, <1>5

-----------------------------------------------------------------------------
(* The newest first, and a page.                                           *)
Sorted(s, S) ==
  /\ s \in [1 .. Cardinality(S) -> S]
  /\ Seqs!ToSet(s) = S /\ \A i, j \in DOMAIN s : i < j => s[i] > s[j]

LEMMA Countable ==
  ASSUME NEW n \in Nat, NEW S \in SUBSET (1 .. n)
  PROVE  IsFiniteSet(S) /\ Cardinality(S) \in Nat
<1>1. IsFiniteSet(1 .. n)
  BY FS_Interval
<1>2. IsFiniteSet(S)
  BY <1>1, FS_Subset
<1> QED
  BY <1>2, FS_CardinalityType

LEMMA SortedExists ==
  ASSUME NEW n \in Nat, NEW S \in SUBSET (1 .. n)
  PROVE  \E s : Sorted(s, S)
<1> DEFINE Bad == {k \in Nat : \E R \in SUBSET (1 .. n) : Cardinality(R) = k /\ ~ \E s : Sorted(s, R)}
<1>1. \A R \in SUBSET (1 .. n) : IsFiniteSet(R) /\ Cardinality(R) \in Nat
  BY Countable
<1>2. SUFFICES ASSUME Bad # {} PROVE FALSE
  BY <1>1
<1>3. PICK k \in Bad : \A j \in Bad : k <= j
  <2>1. Bad \in SUBSET Nat
    OBVIOUS
  <2> HIDE DEF Bad
  <2> QED
    BY <1>2, <2>1, LeastNatural
<1>4. PICK R \in SUBSET (1 .. n) : Cardinality(R) = k /\ ~ \E s : Sorted(s, R)
  BY <1>3
<1>5. CASE R = {}
  <2> DEFINE s == [i \in 1 .. 0 |-> 0]
  <2>1. Cardinality(R) = 0
    BY <1>5, FS_EmptySet
  <2>2. Sorted(s, R)
    BY <1>5, <2>1 DEF Sorted, Seqs!ToSet
  <2> QED
    BY <1>4, <2>2
<1>6. CASE R # {}
  <2>1. PICK m \in R : \A e \in R : m <= e
    <3>1. R \in SUBSET Nat
      OBVIOUS
    <3> QED
      BY <1>6, <3>1, LeastNatural
  <2> DEFINE T == R \ {m}
  <2>2. T \in SUBSET (1 .. n) /\ Cardinality(T) = k - 1 /\ k - 1 \in Nat
    BY <1>1, <1>4, FS_RemoveElement
  <2>3. k - 1 \notin Bad
    BY <1>3, <2>2
  <2>4. PICK t : Sorted(t, T)
    BY <2>2, <2>3
  <2> DEFINE s == [i \in 1 .. k |-> IF i = k THEN m ELSE t[i]]
  <2>5. /\ t \in [1 .. k - 1 -> T] /\ Seqs!ToSet(t) = T
        /\ \A i, j \in 1 .. k - 1 : i < j => t[i] > t[j]
    BY <2>2, <2>4 DEF Sorted
  <2>6. s \in [1 .. k -> R]
    BY <2>2, <2>5
  <2>7. Seqs!ToSet(s) = R
    <3>1. ASSUME NEW e \in R PROVE \E i \in 1 .. k : s[i] = e
      <4>1. CASE e = m
        BY <2>2, <4>1
      <4>2. CASE e # m
        <5>1. PICK i \in 1 .. k - 1 : t[i] = e
          BY <2>5, <4>2 DEF Seqs!ToSet
        <5>2. i \in 1 .. k /\ i # k
          BY <2>2, <5>1
        <5> QED
          BY <5>1, <5>2
      <4> QED
        BY <4>1, <4>2
    <3> QED
      BY <2>6, <3>1 DEF Seqs!ToSet
  <2>8. \A i, j \in 1 .. k : i < j => s[i] > s[j]
    <3>1. \A e \in T : e \in Nat /\ e > m
      BY <2>1
    <3> TAKE i, j \in 1 .. k
    <3> HAVE i < j
    <3>2. i \in 1 .. k - 1 /\ i # k
      BY <2>2
    <3>3. CASE j = k
      BY <2>5, <3>1, <3>2, <3>3
    <3>4. CASE j # k
      <4>1. j \in 1 .. k - 1
        BY <2>2, <3>4
      <4> QED
        BY <2>5, <3>2, <3>4, <4>1
    <3> QED
      BY <3>3, <3>4
  <2>9. Sorted(s, R)
    BY <1>4, <2>6, <2>7, <2>8 DEF Sorted
  <2> QED
    BY <1>4, <2>9
<1> QED
  BY <1>5, <1>6

LEMMA NewestFirstSorted ==
  ASSUME NEW n \in Nat, NEW S \in SUBSET (1 .. n)
  PROVE  LET s == NewestFirst(S) IN
         /\ s \in Seq(S) /\ Len(s) = Cardinality(S) /\ Cardinality(S) \in Nat
         /\ \A e \in S : \E i \in 1 .. Len(s) : s[i] = e
         /\ \A i, j \in 1 .. Len(s) : i < j => s[i] > s[j]
<1> DEFINE s == NewestFirst(S)
<1>1. Sorted(s, S)
  BY SortedExists DEF Sorted, NewestFirst
<1>2. Cardinality(S) \in Nat
  BY Countable
<1> HIDE DEF s
<1>3. s \in Seq(S) /\ Len(s) = Cardinality(S) /\ DOMAIN s = 1 .. Len(s)
  BY <1>1, <1>2 DEF Sorted
<1> QED
  BY <1>1, <1>2, <1>3 DEF Sorted, Seqs!ToSet, s

LEMMA PageIs ==
  ASSUME TableOK(entries, written), place \in Place, NEW filter, NEW cursor \in written \cup {0}, NEW lt
  PROVE  LET page == PageOf(filter, cursor) IN
         /\ PageOK(page, written, cursor)
         /\ page.unread = Cardinality(Opens(entries))
         /\ OpenShown(page.items, entries) /\ Told(page.items, entries)
         /\ Covers(page.items, entries, filter, cursor, page.next = 0, lt)
<1> DEFINE S == Matching(filter, cursor)
           all == NewestFirst(S)
           m == IF Len(all) < PageLength THEN Len(all) ELSE PageLength
           ids == SubSeq(all, 1, m)
           items == [i \in DOMAIN ids |-> [id |-> ids[i], sort |-> entries[ids[i]]]]
           next == IF Len(all) > PageLength THEN Seqs!Last(ids) ELSE 0
           page == PageOf(filter, cursor)
<1>1. page = [items |-> items, next |-> next, unread |-> Unread]
  BY DEF PageOf
<1>2. S \in SUBSET (1 .. MaxEntries) /\ S \subseteq DOMAIN entries
  BY DEF TableOK, Matching
<1>3. /\ all \in Seq(S) /\ Len(all) = Cardinality(S) /\ Cardinality(S) \in Nat
      /\ \A e \in S : \E i \in 1 .. Len(all) : all[i] = e
      /\ \A i, j \in 1 .. Len(all) : i < j => all[i] > all[j]
  BY <1>2, NewestFirstSorted, ListAssumption
<1>4. Unread = Cardinality(Opens(entries)) /\ Unread \in Nat
  <2>1. Unread = Cardinality(Opens(entries))
    BY DEF Unread, Opens
  <2>2. Opens(entries) \in SUBSET (1 .. MaxEntries)
    BY DEF Opens, TableOK
  <2> QED
    BY <2>1, <2>2, Countable, ListAssumption
<1>5. PageLength \in Nat \ {0}
  BY ListAssumption
<1>6. \A e \in S : e \in written /\ e \in Nat /\ entries[e] \in Sort /\ (cursor # 0 => e < cursor)
                   /\ e \in DOMAIN entries
  BY <1>2, CursorCuts DEF TableOK, Matching
<1> HIDE DEF S, all
<1>7. m \in 0 .. Len(all) /\ (Len(all) > PageLength => m = PageLength)
      /\ (Len(all) <= PageLength => m = Len(all))
  BY <1>3, <1>5
<1> HIDE DEF m
<1>8. ids = [i \in 1 .. m |-> all[i]] /\ ids \in Seq(S) /\ Len(ids) = m /\ DOMAIN ids = 1 .. m
  BY <1>3, <1>7
<1> HIDE DEF ids
<1>9. items = [i \in 1 .. m |-> [id |-> all[i], sort |-> entries[all[i]]]]
  BY <1>8
<1> HIDE DEF items
<1>10. \A i \in 1 .. m : all[i] \in S /\ items[i] = [id |-> all[i], sort |-> entries[all[i]]]
                         /\ items[i] \in [id : written, sort : Sort]
  BY <1>3, <1>6, <1>7, <1>9
<1>11. /\ Listed(items) /\ Len(items) = m /\ DOMAIN items = 1 .. m
       /\ (items = <<>> <=> m = 0)
  <2>1. items \in Seq([id : written, sort : Sort]) /\ Len(items) = m
    <3> DEFINE R == [id : written, sort : Sort]
    <3>1. m \in Nat
      BY <1>3, <1>7
    <3>2. \A i \in 1 .. m : items[i] \in R
      BY <1>10
    <3>3. items = [i \in 1 .. m |-> items[i]]
      BY <1>9
    <3> HIDE DEF R
    <3>4. items \in [1 .. m -> R]
      BY <3>2, <3>3
    <3>5. items \in Seq(R) /\ Len(items) = m
      BY <3>1, <3>4
    <3> QED
      BY <3>5 DEF R
  <2> QED
    BY <1>3, <1>7, <2>1, ListedIs
<1>12. /\ next = IF Len(all) > PageLength THEN all[m] ELSE 0
       /\ Len(all) > PageLength => m \in 1 .. m /\ m # 0
  BY <1>3, <1>5, <1>7, <1>8 DEF Seqs!Last
<1> HIDE DEF next
<1>13. /\ next \in written \cup {0}
       /\ next # 0 => items # <<>> /\ next = items[Len(items)].id
       /\ next = 0 <=> Len(all) <= PageLength
  <2>1. CASE Len(all) > PageLength
    <3>1. next = all[m] /\ all[m] \in written /\ items[m].id = all[m]
      <4>1. m \in 1 .. m
        BY <1>12, <2>1
      <4>2. all[m] \in S /\ items[m] = [id |-> all[m], sort |-> entries[all[m]]]
        BY <1>10, <4>1
      <4> QED
        BY <1>6, <1>12, <2>1, <4>2
    <3> QED
      BY <1>3, <1>5, <1>11, <1>12, <2>1, <3>1 DEF TableOK
  <2>2. CASE ~(Len(all) > PageLength)
    BY <1>3, <1>5, <1>12, <2>2 DEF TableOK
  <2> QED
    BY <2>1, <2>2
<1>14. Falling(items)
  BY <1>3, <1>7, <1>10, <1>11 DEF Falling
<1>15. Covers(items, entries, filter, cursor, next = 0, lt)
  <2> SUFFICES ASSUME NEW e \in S,
                      next = 0 \/ (items # <<>> /\ e >= items[Len(items)].id)
               PROVE  \E i \in DOMAIN items : items[i].id = e
    BY DEF Covers, Match, Matching, Seen, S
  <2>1. PICK k \in 1 .. Len(all) : all[k] = e
    BY <1>3
  <2>2. k <= m
    <3>1. CASE next = 0
      BY <1>7, <1>13, <1>3, <1>5, <3>1, <2>1
    <3>2. CASE items # <<>> /\ e >= items[Len(items)].id
      <4>1. m \in 1 .. Len(all) /\ m \in 1 .. m /\ e >= all[m] /\ all[m] \in Nat /\ e \in Nat
        BY <1>3, <1>6, <1>7, <1>10, <1>11, <3>2
      <4>2. m < k => all[m] > all[k]
        BY <1>3, <4>1
      <4> QED
        BY <2>1, <4>1, <4>2
    <3> QED
      BY <3>1, <3>2
  <2>3. k \in 1 .. m
    BY <2>1, <2>2, <1>3, <1>7
  <2> QED
    BY <1>10, <1>11, <2>1, <2>3
<1>16. OpenShown(items, entries) /\ Told(items, entries)
  BY <1>6, <1>10, <1>11 DEF OpenShown, Told, Opens
<1>17. PageOK(page, written, cursor)
  <2>1. ItemsOK(items, written)
    BY <1>10, <1>11 DEF ItemsOK
  <2>2. cursor # 0 => \A i \in DOMAIN items : items[i].id < cursor
    BY <1>6, <1>10, <1>11
  <2> QED
    BY <1>1, <1>4, <1>13, <1>14, <2>1, <2>2 DEF PageOK
<1> QED
  BY <1>1, <1>4, <1>15, <1>16, <1>17

-----------------------------------------------------------------------------
(* How the rows move: new ones come, open ones are closed, closed ones go. *)
Moves(es, n, fs, m) ==
  /\ TableOK(fs, m) /\ n \subseteq m
  /\ \A e \in DOMAIN fs : e \in n => e \in DOMAIN es /\ (fs[e] # es[e] => fs[e] = "closed" /\ place # "audit")
  /\ Opens(fs) \cap n \subseteq Opens(es)
  /\ place # "audit" /\ Cardinality(Opens(fs)) = Cardinality(Opens(es)) =>
       /\ Opens(fs) = Opens(es)
       /\ place = "renewals" => fs = es

(* The rows that come and are not late are newer than all the others.      *)
OnTop(n, lt, m, lu) == lt \subseteq lu /\ \A e \in m \ (n \cup lu) : \A d \in n : d < e

LEMMA SameMoves ==
  ASSUME NEW es, NEW n, TableOK(es, n)
  PROVE  Moves(es, n, es, n)
BY DEF Moves, Opens, TableOK

LEMMA CloseMoves ==
  ASSUME NEW es, NEW n, TableOK(es, n), place # "audit", NEW id \in DOMAIN es
  PROVE  LET fs == [es EXCEPT ![id] = "closed"] IN
         /\ Moves(es, n, fs, n)
         /\ Opens(fs) = Opens(es) \ {id}
         /\ id \in Opens(es) => Cardinality(Opens(fs)) = Cardinality(Opens(es)) - 1
<1> DEFINE fs == [es EXCEPT ![id] = "closed"]
<1>1. /\ DOMAIN fs = DOMAIN es /\ fs[id] = "closed"
      /\ \A e \in DOMAIN es : e # id => fs[e] = es[e]
      /\ fs = [e \in DOMAIN fs |-> fs[e]]
  OBVIOUS
<1>2. es[id] \in Sort
  BY DEF TableOK
<1>3. id \notin Opens(es) => fs = es
  BY <1>2 DEF Opens, Sort, TableOK
<1> HIDE DEF fs
<1>4. TableOK(fs, n)
  BY <1>1 DEF TableOK, Sort
<1>5. Opens(fs) = Opens(es) \ {id}
  BY <1>1 DEF Opens
<1>6. Opens(es) \in SUBSET (1 .. MaxEntries)
  BY DEF Opens, TableOK
<1>7. IsFiniteSet(Opens(es)) /\ Cardinality(Opens(es)) \in Nat
  BY <1>6, Countable, ListAssumption
<1>8. id \in Opens(es) => Cardinality(Opens(fs)) = Cardinality(Opens(es)) - 1
  BY <1>5, <1>7, FS_RemoveElement
<1>9. Cardinality(Opens(fs)) = Cardinality(Opens(es)) => fs = es
  BY <1>3, <1>7, <1>8
<1>10. Moves(es, n, fs, n)
  BY <1>1, <1>4, <1>5, <1>9 DEF Moves, TableOK
<1> QED
  BY <1>5, <1>8, <1>10 DEF fs

LEMMA CloseAllMoves ==
  ASSUME NEW es, NEW n, TableOK(es, n), place = "notifications"
  PROVE  LET fs == [e \in DOMAIN es |-> "closed"] IN
         Moves(es, n, fs, n) /\ Opens(fs) = {} /\ Cardinality(Opens(fs)) = 0
<1> DEFINE fs == [e \in DOMAIN es |-> "closed"]
<1>1. /\ DOMAIN fs = DOMAIN es /\ \A e \in DOMAIN es : fs[e] = "closed"
      /\ fs = [e \in DOMAIN fs |-> fs[e]]
  OBVIOUS
<1> HIDE DEF fs
<1>2. TableOK(fs, n) /\ Opens(fs) = {}
  BY <1>1 DEF TableOK, Sort, Opens
<1>3. Cardinality(Opens(fs)) = 0
  BY <1>2, FS_EmptySet
<1>4. Opens(es) \in SUBSET (1 .. MaxEntries)
  BY DEF Opens, TableOK
<1>5. IsFiniteSet(Opens(es))
  BY <1>4, Countable, ListAssumption
<1>6. Cardinality(Opens(es)) = 0 => Opens(es) = {}
  BY <1>5, FS_EmptySet
<1>7. Moves(es, n, fs, n)
  BY <1>1, <1>2, <1>3, <1>6 DEF Moves, TableOK
<1> QED
  BY <1>2, <1>3, <1>7 DEF fs

LEMMA ArchiveMoves ==
  ASSUME TableOK(entries, written), place = "notifications", NEW cutoff
  PROVE  /\ Moves(entries, written, Archived(cutoff), written)
         /\ Opens(Archived(cutoff)) = Opens(entries)
<1> DEFINE fs == Archived(cutoff)
<1>1. /\ DOMAIN fs \subseteq DOMAIN entries
      /\ \A e \in DOMAIN fs : fs[e] = entries[e]
      /\ \A e \in DOMAIN entries : entries[e] = "open" => e \in DOMAIN fs
      /\ fs = [e \in DOMAIN fs |-> fs[e]]
  BY DEF Archived, DeletedBefore
<1> HIDE DEF fs
<1>2. TableOK(fs, written) /\ Opens(fs) = Opens(entries)
  BY <1>1 DEF TableOK, Opens
<1> QED
  BY <1>1, <1>2 DEF Moves, TableOK, fs

LEMMA NewMoves ==
  ASSUME NEW es, NEW n, TableOK(es, n), NEW k \in 1 .. MaxEntries, k \notin n,
         NEW s \in Sort, place # "audit" => s = "open"
  PROVE  Moves(es, n, Over(es, [d \in {k} |-> s]), n \cup {k})
<1> DEFINE g == [d \in {k} |-> s]
           fs == Over(es, g)
<1>1. DOMAIN g = {k} /\ g[k] = s
  OBVIOUS
<1>2. n \subseteq 1 .. MaxEntries /\ DOMAIN es \subseteq n /\ k \notin DOMAIN es
  BY DEF TableOK
<1> HIDE DEF g
<1>3. /\ DOMAIN fs = DOMAIN es \cup {k} /\ fs[k] = s
      /\ \A e \in DOMAIN es : fs[e] = es[e]
      /\ fs = [e \in DOMAIN fs |-> fs[e]]
  <2>1. /\ DOMAIN fs = DOMAIN es \cup DOMAIN g
        /\ \A x \in DOMAIN es : fs[x] = es[x]
        /\ \A x \in DOMAIN g \ DOMAIN es : fs[x] = g[x]
    BY Overlay
  <2>2. fs = [e \in DOMAIN fs |-> fs[e]]
    BY DEF Over
  <2> HIDE DEF fs
  <2>3. k \in DOMAIN g \ DOMAIN es
    BY <1>1, <1>2
  <2> QED
    BY <1>1, <2>1, <2>2, <2>3
<1> HIDE DEF fs
<1>4. TableOK(fs, n \cup {k})
  BY <1>2, <1>3 DEF TableOK
<1>5. Opens(fs) = IF s = "open" THEN Opens(es) \cup {k} ELSE Opens(es)
  BY <1>2, <1>3 DEF Opens
<1>6. Opens(es) \in SUBSET (1 .. MaxEntries) /\ k \notin Opens(es)
  BY <1>2 DEF Opens
<1>7. IsFiniteSet(Opens(es)) /\ Cardinality(Opens(es)) \in Nat
  BY <1>6, Countable, ListAssumption
<1>8. s = "open" => Cardinality(Opens(fs)) = Cardinality(Opens(es)) + 1
  BY <1>5, <1>6, <1>7, FS_AddElement
<1>9. place # "audit" => Cardinality(Opens(fs)) # Cardinality(Opens(es))
  BY <1>7, <1>8
<1>10. \A e \in DOMAIN fs : e \in n => e \in DOMAIN es /\ fs[e] = es[e]
  BY <1>3
<1>11. Opens(fs) \cap n \subseteq Opens(es)
  BY <1>5
<1>12. Moves(es, n, fs, n \cup {k})
  BY <1>4, <1>9, <1>10, <1>11 DEF Moves
<1> QED
  BY <1>12 DEF fs, g

-----------------------------------------------------------------------------
(* What a list shows, while the rows move.                                 *)
LEMMA ItemsGrow ==
  ASSUME NEW items, NEW n, NEW m, n \subseteq m, ItemsOK(items, n)
  PROVE  ItemsOK(items, m)
BY DEF ItemsOK

LEMMA ToldKept ==
  ASSUME NEW items, NEW es, NEW n, NEW fs, NEW m, ItemsOK(items, n), Told(items, es),
         Moves(es, n, fs, m)
  PROVE  Told(items, fs)
<1> SUFFICES ASSUME NEW i \in DOMAIN items, items[i].sort = "closed", items[i].id \in DOMAIN fs
             PROVE  fs[items[i].id] = "closed"
  BY DEF Told
<1>1. items[i].id \in n
  BY DEF ItemsOK
<1> QED
  BY <1>1 DEF Told, Moves

LEMMA NotOpenKept ==
  ASSUME NEW es, NEW n, NEW fs, NEW m, Moves(es, n, fs, m), NEW id \in n, id \notin Opens(es)
  PROVE  id \notin Opens(fs)
BY DEF Moves

(* Rows that match come late or on top only.                               *)
LEMMA CoversKept ==
  ASSUME NEW items, NEW es, NEW n, NEW fs, NEW m, TableOK(es, n), ItemsOK(items, n), Moves(es, n, fs, m),
         NEW lt, NEW lu, OnTop(n, lt, m, lu),
         NEW filter \in ListFilter, NEW cursor \in n \cup {0}, NEW ends, place \in Place,
         place = "renewals" /\ filter = "closed" => Cardinality(Opens(fs)) = Cardinality(Opens(es)),
         Covers(items, es, filter, cursor, ends, lt)
  PROVE  Covers(items, fs, filter, cursor, ends, lu)
<1> SUFFICES ASSUME NEW e \in Match(fs, filter, cursor) \ lu,
                    cursor # 0 \/ (items # <<>> /\ e <= items[1].id),
                    ends \/ (items # <<>> /\ e >= items[Len(items)].id)
             PROVE  Seen(e, items)
  BY DEF Covers
<1>1. /\ e \in DOMAIN fs /\ e \in m /\ e \in 1 .. MaxEntries /\ e \notin lt
      /\ filter = Every \/ fs[e] = filter
      /\ cursor = 0 \/ AfterCursor(e, cursor)
  BY DEF Match, Moves, TableOK, OnTop
<1>2. e \in n
  <2> SUFFICES ASSUME e \notin n PROVE FALSE
    OBVIOUS
  <2>0. \A d \in n : d < e /\ d \in 1 .. MaxEntries
    BY <1>1 DEF OnTop, TableOK
  <2>1. CASE cursor # 0
    <3>1. cursor \in n /\ cursor \in 1 .. MaxEntries /\ cursor < e
      BY <2>0, <2>1
    <3>2. e < cursor
      BY <1>1, <2>1, <3>1, CursorCuts
    <3> QED
      BY <1>1, <3>1, <3>2
  <2>2. CASE items # <<>> /\ e <= items[1].id
    <3>1. 1 \in DOMAIN items
      BY <2>2, ListedTail DEF ItemsOK
    <3>2. items[1].id \in n
      BY <3>1 DEF ItemsOK
    <3> QED
      BY <1>1, <2>0, <2>2, <3>2
  <2> QED
    BY <2>1, <2>2
<1>3. e \in DOMAIN es /\ (fs[e] # es[e] => fs[e] = "closed" /\ place # "audit")
  BY <1>1, <1>2 DEF Moves
<1>4. filter = Every \/ es[e] = filter
  <2>1. CASE filter = "closed" /\ filter # Every
    <3>1. place = "audit" \/ place = "renewals"
      BY <2>1, ListAssumption DEF ListFilter
    <3>2. CASE place = "renewals"
      BY <1>1, <2>1, <3>2 DEF Moves
    <3> QED
      BY <1>1, <1>3, <3>1, <3>2
  <2>2. CASE filter # "closed"
    BY <1>1, <1>3, <2>2
  <2> QED
    BY <2>1, <2>2 DEF Every
<1>5. e \in Match(es, filter, cursor) \ lt
  BY <1>1, <1>3, <1>4 DEF Match
<1> QED
  BY <1>5 DEF Covers

-----------------------------------------------------------------------------
(* What a request holds, while it is answered and the rows move.           *)
LEMMA PageGrows ==
  ASSUME NEW page, NEW cursor, NEW n, NEW m, n \subseteq m, PageOK(page, n, cursor)
  PROVE  PageOK(page, m, cursor)
<1>1. ItemsOK(page.items, m)
  BY ItemsGrow DEF PageOK
<1> QED
  BY <1>1 DEF PageOK

LEMMA AskGrows ==
  ASSUME NEW r, NEW n, NEW m, n \subseteq m, AskOK(r, n)
  PROVE  AskOK(r, m)
<1>1. FetchOK(r, m)
  <2>1. r.kind = "fetch" => ItemsOK(r.base, m)
    BY ItemsGrow DEF AskOK, FetchOK
  <2>2. r.kind = "fetch" /\ r.at = "answered" /\ r.ok => PageOK(r.page, m, r.cursor)
    BY PageGrows DEF AskOK, FetchOK
  <2> QED
    BY <2>1, <2>2 DEF AskOK, FetchOK
<1>2. MarkOK(r, m)
  <2>1. r.kind \in {"mark", "markAll"} => ItemsOK(r.base, m)
    BY ItemsGrow DEF AskOK, MarkOK
  <2> QED
    BY <2>1 DEF AskOK, MarkOK
<1> QED
  BY <1>1, <1>2 DEF AskOK

LEMMA FeedGrows ==
  ASSUME NEW f, NEW n, NEW m, n \subseteq m, FeedOK(f, n)
  PROVE  FeedOK(f, m)
<1>1. ItemsOK(f.items, m)
  BY ItemsGrow DEF FeedOK
<1> QED
  BY <1>1 DEF FeedOK

LEMMA AsksGrow ==
  ASSUME NEW q, NEW n, NEW m, n \subseteq m, AsksOK(q, n)
  PROVE  AsksOK(q, m)
BY AskGrows DEF AsksOK

(* A request becomes another one with the same question.                   *)
SameAsk(s, r) ==
  /\ DOMAIN r \subseteq DOMAIN s
  /\ \A x \in DOMAIN r \ {"at", "ok"} : s[x] = r[x]

LEMMA SameQuestion ==
  ASSUME NEW r, NEW s, NEW n, AskOK(r, n), SameAsk(s, r)
  PROVE  /\ s.kind = r.kind /\ s.list = r.list
         /\ r.kind \in {"fetch", "mark", "markAll"} => s.base = r.base
         /\ r.kind = "fetch" => s.reset = r.reset /\ s.cursor = r.cursor /\ s.filter = r.filter
         /\ r.kind = "mark" => s.id = r.id /\ s.count = r.count
         /\ r.kind = "archive" => s.filter = r.filter
         /\ r.kind = "resolve" => s.live = r.live /\ s.id = r.id
BY DEF SameAsk, AskOK, AnswerOK, FetchOK, MarkOK

(* An answer without a page is well formed; so is one that failed.         *)
LEMMA AnswerIsAsk ==
  ASSUME NEW r, NEW s, NEW n, AskOK(r, n), SameAsk(s, r), s.at = "answered",
         "ok" \in DOMAIN s, s.ok \in BOOLEAN,
         s.ok => "thrown" \notin DOMAIN s,
         ~s.ok /\ "thrown" \notin DOMAIN s => r.kind \in {"mark", "archive"},
         s.ok /\ r.kind = "fetch" => "page" \in DOMAIN s /\ PageOK(s.page, n, r.cursor)
  PROVE  AskOK(s, n)
<1>1. /\ s.kind = r.kind /\ s.list = r.list
      /\ r.kind \in {"fetch", "mark", "markAll"} => s.base = r.base
      /\ r.kind = "fetch" => s.reset = r.reset /\ s.cursor = r.cursor /\ s.filter = r.filter
      /\ r.kind = "mark" => s.id = r.id /\ s.count = r.count
      /\ r.kind = "archive" => s.filter = r.filter
      /\ r.kind = "resolve" => s.live = r.live /\ s.id = r.id
  BY SameQuestion
<1>2. DOMAIN r \subseteq DOMAIN s
  BY DEF SameAsk
<1>3. AnswerOK(s)
  BY <1>1, <1>2 DEF AskOK, AnswerOK
<1>4. FetchOK(s, n)
  BY <1>1, <1>2 DEF AskOK, FetchOK
<1>5. MarkOK(s, n)
  BY <1>1, <1>2 DEF AskOK, MarkOK
<1> QED
  BY <1>3, <1>4, <1>5 DEF AskOK

LEMMA AskToldKept ==
  ASSUME NEW r, NEW es, NEW n, NEW fs, NEW m, TableOK(es, n), AskOK(r, n), AskTold(r, es),
         Moves(es, n, fs, m)
  PROVE  AskTold(r, fs)
<1>1. r.kind \in {"fetch", "mark", "markAll"} => Told(r.base, fs)
  BY ToldKept DEF AskOK, FetchOK, MarkOK, AskTold
<1>2. r.kind = "fetch" /\ r.at = "answered" /\ r.ok => Told(r.page.items, fs)
  BY ToldKept DEF AskOK, FetchOK, PageOK, AskTold
<1>3. r.kind = "mark" /\ r.at = "answered" /\ "thrown" \notin DOMAIN r => r.id \notin Opens(fs)
  BY NotOpenKept DEF AskOK, MarkOK, AskTold
<1>4. r.kind = "markAll" /\ r.at = "answered" /\ "thrown" \notin DOMAIN r =>
        \A i \in DOMAIN r.base : r.base[i].id \notin Opens(fs)
  <2> SUFFICES ASSUME r.kind = "markAll", r.at = "answered", "thrown" \notin DOMAIN r,
                      NEW i \in DOMAIN r.base
               PROVE  r.base[i].id \notin Opens(fs)
    OBVIOUS
  <2>1. r.base[i].id \in n /\ r.base[i].id \notin Opens(es)
    BY DEF AskOK, MarkOK, ItemsOK, AskTold
  <2> QED
    BY <2>1, NotOpenKept
<1> QED
  BY <1>1, <1>2, <1>3, <1>4 DEF AskTold

LEMMA UnbrokenKept ==
  ASSUME NEW feed, NEW q, NEW es, NEW l, NEW od, NEW lt, NEW p, NEW fs, NEW n, NEW m, NEW oe, NEW lu, place \in Place,
         TableOK(es, n), FeedOK(feed, n), Moves(es, n, fs, m), OnTop(n, lt, m, lu), Unbroken(feed, q, es, l, od, lt),
         place = "renewals" /\ l \notin oe =>
           \/ Fetched(p) /\ p[1].list = l /\ p[1].reset
           \/ /\ l \notin od /\ Cardinality(Opens(fs)) = Cardinality(Opens(es))
              /\ ~(Fetched(q) /\ q[1].list = l /\ q[1].reset)
  PROVE  Unbroken(feed, p, fs, l, oe, lu)
<1> SUFFICES ASSUME ~Vague(l, feed.applied, oe),
                    ~(place = "renewals" /\ feed.applied = "closed" /\ Fetched(p) /\ p[1].list = l /\ p[1].reset)
             PROVE  Covers(feed.items, fs, feed.applied, 0, feed.cursor = 0 /\ l # "bell", lu)
  BY DEF Unbroken
<1>1. place = "renewals" /\ feed.applied = "closed" =>
        /\ l \notin od /\ Cardinality(Opens(fs)) = Cardinality(Opens(es))
        /\ ~(Fetched(q) /\ q[1].list = l /\ q[1].reset)
  BY DEF Vague
<1>2. Covers(feed.items, es, feed.applied, 0, feed.cursor = 0 /\ l # "bell", lt)
  BY <1>1 DEF Unbroken, Vague
<1>3. ItemsOK(feed.items, n) /\ feed.applied \in ListFilter /\ 0 \in n \cup {0}
  BY DEF FeedOK, TableOK
<1> QED
  BY <1>1, <1>2, <1>3, CoversKept

-----------------------------------------------------------------------------
(* A row is written, or changed elsewhere.                                 *)
LEMMA CountsKept ==
  ASSUME NEW feed, NEW q, NEW es, NEW l, NEW fs, Opens(fs) = Opens(es), Counts(feed, q, es, l)
  PROVE  Counts(feed, q, fs, l)
BY DEF Counts, OpenShown

LEMMA PageFitsKept ==
  ASSUME NEW q, NEW es, NEW n, NEW od, NEW lt, NEW fs, NEW m, NEW oe, NEW lu, place \in Place, AsksOK(q, n),
         TableOK(es, n), Moves(es, n, fs, m), OnTop(n, lt, m, lu), PageFits(q, es, od, lt),
         Fetched(q) /\ place # "audit" /\ q[1].list \notin oe =>
           q[1].list \notin od /\ Cardinality(Opens(fs)) = Cardinality(Opens(es))
  PROVE  PageFits(q, fs, oe, lu)
<1> SUFFICES ASSUME Fetched(q)
             PROVE  /\ ~Vague(q[1].list, q[1].filter, oe) =>
                         Covers(q[1].page.items, fs, q[1].filter, q[1].cursor, q[1].page.next = 0, lu)
                    /\ place = "notifications" /\ q[1].list \notin oe =>
                         q[1].page.unread = Cardinality(Opens(fs)) /\ OpenShown(q[1].page.items, fs)
  BY DEF PageFits
<1>1. AskOK(q[1], n)
  <2>1. 1 \in DOMAIN q
    BY ListedTail DEF Fetched, AsksOK
  <2> QED
    BY <2>1 DEF AsksOK
<1>2. /\ q[1].filter \in ListFilter /\ q[1].cursor \in n \cup {0}
      /\ ItemsOK(q[1].page.items, n)
  BY <1>1 DEF AskOK, FetchOK, PageOK, Fetched
<1>3. ASSUME ~Vague(q[1].list, q[1].filter, oe)
      PROVE  Covers(q[1].page.items, fs, q[1].filter, q[1].cursor, q[1].page.next = 0, lu)
  <2>1. place = "renewals" /\ q[1].filter = "closed" =>
          q[1].list \notin od /\ Cardinality(Opens(fs)) = Cardinality(Opens(es))
    BY <1>3 DEF Vague
  <2>2. Covers(q[1].page.items, es, q[1].filter, q[1].cursor, q[1].page.next = 0, lt)
    BY <2>1 DEF PageFits, Vague
  <2> QED
    BY <1>2, <2>1, <2>2, CoversKept
<1>4. ASSUME place = "notifications", q[1].list \notin oe
      PROVE  q[1].page.unread = Cardinality(Opens(fs)) /\ OpenShown(q[1].page.items, fs)
  <2>1. q[1].list \notin od /\ Opens(fs) = Opens(es)
    BY <1>4 DEF Moves
  <2> QED
    BY <1>4, <2>1 DEF PageFits, OpenShown
<1> QED
  BY <1>3, <1>4

LEMMA OthersKeep ==
  ASSUME NEW es, NEW n, NEW fd, NEW q, NEW mx, NEW od, NEW lt, ListsOK(es, n, fd, q, mx, od, lt),
         NEW fs, NEW m, Moves(es, n, fs, m), NEW oe, NEW lu, OnTop(n, lt, m, lu), od \subseteq oe,
         \A l \in Lists : place # "audit" /\ l \notin oe => Cardinality(Opens(fs)) = Cardinality(Opens(es))
  PROVE  ListsOK(fs, m, fd, q, mx, oe, lu)
<1>1. /\ TableOK(es, n) /\ TableOK(fs, m) /\ n \subseteq m
      /\ place \in Place /\ FeedsOK(fd, n) /\ AsksOK(q, n)
  BY DEF ListsOK, Moves, TableOK
<1>2. FeedsOK(fd, m) /\ AsksOK(q, m)
  BY <1>1, FeedGrows, AsksGrow DEF FeedsOK
<1>3. place = "notifications" => AllTold(fd, q, fs)
  <2> SUFFICES ASSUME place = "notifications" PROVE AllTold(fd, q, fs)
    OBVIOUS
  <2>1. AllTold(fd, q, es)
    BY DEF ListsOK
  <2>2. ASSUME NEW l \in Lists PROVE Told(fd[l].items, fs)
    BY <1>1, <2>1, ToldKept DEF AllTold, FeedsOK, FeedOK
  <2>3. ASSUME NEW i \in DOMAIN q PROVE AskTold(q[i], fs)
    BY <1>1, <2>1, AskToldKept DEF AllTold, AsksOK
  <2> QED
    BY <2>2, <2>3 DEF AllTold
<1>4. ASSUME NEW l \in Lists \ mx PROVE Calm(fd[l], q, fs, l, oe, lu)
  <2>1. Calm(fd[l], q, es, l, od, lt) /\ FeedOK(fd[l], n)
    BY <1>1 DEF ListsOK, FeedsOK
  <2>2. place # "audit" /\ l \notin oe => l \notin od /\ Cardinality(Opens(fs)) = Cardinality(Opens(es))
    OBVIOUS
  <2>3. Unbroken(fd[l], q, fs, l, oe, lu)
    BY <1>1, <2>1, <2>2, UnbrokenKept DEF Calm
  <2>4. place = "notifications" /\ l \notin oe => Counts(fd[l], q, fs, l)
    <3> SUFFICES ASSUME place = "notifications", l \notin oe PROVE Counts(fd[l], q, fs, l)
      OBVIOUS
    <3>1. Opens(fs) = Opens(es) /\ Counts(fd[l], q, es, l)
      BY <2>1, <2>2 DEF Moves, Calm
    <3> QED
      BY <3>1, CountsKept
  <2> QED
    BY <2>1, <2>3, <2>4 DEF Calm
<1>5. PageFits(q, fs, oe, lu)
  <2>1. Fetched(q) => q[1].list \in Lists
    <3> SUFFICES ASSUME Fetched(q) PROVE q[1].list \in Lists
      OBVIOUS
    <3>1. 1 \in DOMAIN q
      BY <1>1, ListedTail DEF Fetched, AsksOK
    <3> QED
      BY <1>1, <3>1 DEF Fetched, AsksOK, AskOK, AnswerOK
  <2> QED
    BY <1>1, <2>1, PageFitsKept DEF ListsOK
<1> QED
  BY <1>1, <1>2, <1>3, <1>4, <1>5 DEF ListsOK

-----------------------------------------------------------------------------
(* The first request, a new one, and what is left.                         *)
LEMMA FirstAsk ==
  ASSUME NEW q, NEW n, AsksOK(q, n), q # <<>>
  PROVE  1 \in DOMAIN q /\ AskOK(q[1], n) /\ DOMAIN q = 1 .. Len(q) /\ Len(q) \in Nat \ {0}
<1>1. DOMAIN q = 1 .. Len(q) /\ Len(q) \in Nat \ {0}
  BY ListedTail DEF AsksOK
<1>2. 1 \in DOMAIN q
  BY <1>1
<1> QED
  BY <1>1, <1>2 DEF AsksOK

LEMMA AskServed ==
  ASSUME NEW q, NEW n, AsksOK(q, n), q # <<>>, NEW s, AskOK(s, n)
  PROVE  LET p == [q EXCEPT ![1] = s] IN
         /\ AsksOK(p, n) /\ p # <<>> /\ DOMAIN p = DOMAIN q /\ 1 \in DOMAIN q
         /\ p[1] = s /\ \A i \in DOMAIN q : i # 1 => p[i] = q[i]
<1> DEFINE p == [q EXCEPT ![1] = s]
<1>1. 1 \in DOMAIN q
  BY FirstAsk
<1>2. /\ Listed(p) /\ p # <<>> /\ DOMAIN p = DOMAIN q
      /\ p[1] = s /\ \A i \in DOMAIN q : i # 1 => p[i] = q[i]
  BY <1>1, ListedFirst DEF AsksOK
<1> HIDE DEF p
<1>3. AsksOK(p, n)
  BY <1>2 DEF AsksOK
<1> QED
  BY <1>1, <1>2, <1>3 DEF p

LEMMA AskSent ==
  ASSUME NEW q, NEW n, AsksOK(q, n), NEW r, AskOK(r, n), r.at = "sent"
  PROVE  LET p == Append(q, r) IN
         /\ AsksOK(p, n) /\ DOMAIN p = 1 .. Len(q) + 1 /\ DOMAIN q = 1 .. Len(q) /\ Len(q) \in Nat
         /\ \A i \in DOMAIN q : p[i] = q[i]
         /\ p[Len(q) + 1] = r /\ p # <<>>
         /\ q # <<>> => p[1] = q[1]
         /\ q = <<>> => p[1] = r
<1> DEFINE p == Append(q, r)
<1>1. /\ Listed(p) /\ Len(p) = Len(q) + 1 /\ DOMAIN q = 1 .. Len(q) /\ Len(q) \in Nat
      /\ \A i \in 1 .. Len(q) : p[i] = q[i]
      /\ p[Len(q) + 1] = r
  BY ListedAppend DEF AsksOK
<1>2. DOMAIN p = 1 .. Len(p)
  BY <1>1, ListedIs DEF Listed
<1> HIDE DEF p
<1>3. ASSUME NEW i \in DOMAIN p PROVE AskOK(p[i], n) /\ (i # 1 => p[i].at = "sent")
  <2>1. CASE i \in DOMAIN q
    BY <1>1, <2>1 DEF AsksOK
  <2>2. CASE i = Len(q) + 1
    BY <1>1, <2>2
  <2> QED
    BY <1>1, <1>2, <2>1, <2>2
<1>4. q # <<>> => p[1] = q[1]
  BY <1>1, FirstAsk
<1>5. q = <<>> => p[1] = r
  BY <1>1, ListedEmpty
<1>6. p # <<>>
  BY <1>1, ListedEmpty
<1>7. AsksOK(p, n)
  BY <1>1, <1>3 DEF AsksOK
<1> QED
  BY <1>1, <1>2, <1>4, <1>5, <1>6, <1>7 DEF p

LEMMA AskDelivered ==
  ASSUME NEW q, NEW n, AsksOK(q, n), q # <<>>
  PROVE  LET p == Tail(q) IN
         /\ AsksOK(p, n) /\ Len(q) \in Nat \ {0} /\ DOMAIN q = 1 .. Len(q)
         /\ DOMAIN p = 1 .. Len(q) - 1
         /\ \A i \in DOMAIN p : i + 1 \in DOMAIN q /\ i + 1 # 1 /\ p[i] = q[i + 1]
         /\ p # <<>> => p[1].at = "sent"
<1> DEFINE p == Tail(q)
<1>1. /\ Listed(p) /\ Len(p) = Len(q) - 1 /\ DOMAIN q = 1 .. Len(q) /\ Len(q) \in Nat \ {0}
      /\ \A i \in 1 .. Len(q) - 1 : p[i] = q[i + 1]
  BY ListedTail DEF AsksOK
<1>2. DOMAIN p = 1 .. Len(p)
  BY <1>1, ListedIs DEF Listed
<1> HIDE DEF p
<1>3. \A i \in DOMAIN p : i + 1 \in DOMAIN q /\ i + 1 # 1 /\ p[i] = q[i + 1]
  BY <1>1, <1>2
<1>4. ASSUME NEW i \in DOMAIN p PROVE AskOK(p[i], n) /\ p[i].at = "sent"
  BY <1>3 DEF AsksOK
<1>5. AsksOK(p, n)
  BY <1>1, <1>4 DEF AsksOK
<1>6. p # <<>> => 1 \in DOMAIN p
  BY <1>5, FirstAsk
<1> QED
  BY <1>1, <1>2, <1>3, <1>4, <1>5, <1>6 DEF p

-----------------------------------------------------------------------------
(* The first request is served, or fails.                                  *)
LEMMA ServedKeeps ==
  ASSUME NEW es, NEW n, NEW fd, NEW q, NEW mx, NEW od, NEW lt, ListsOK(es, n, fd, q, mx, od, lt), q # <<>>,
         NEW s, AskOK(s, n), SameAsk(s, q[1]),
         NEW fs, Moves(es, n, fs, n), NEW oe,
         place = "notifications" => AskTold(s, fs),
         \A l \in Lists : l \notin oe /\ l # q[1].list =>
           l \notin od /\ (place # "audit" => Cardinality(Opens(fs)) = Cardinality(Opens(es))),
         place = "renewals" /\ q[1].list \notin oe =>
           \/ s.kind = "fetch" /\ s.at = "answered" /\ s.ok /\ s.reset
           \/ q[1].list \notin od /\ q[1].at = "sent" /\ Cardinality(Opens(fs)) = Cardinality(Opens(es)),
         \A l \in Lists \ mx : l = q[1].list /\ place = "notifications" /\ l \notin oe =>
           Counts(fd[l], [q EXCEPT ![1] = s], fs, l),
         PageFits([q EXCEPT ![1] = s], fs, oe, lt)
  PROVE  ListsOK(fs, n, fd, [q EXCEPT ![1] = s], mx, oe, lt)
<1> DEFINE p == [q EXCEPT ![1] = s]
<1>1. /\ TableOK(es, n) /\ TableOK(fs, n) /\ OnTop(n, lt, n, lt)
      /\ place \in Place /\ FeedsOK(fd, n) /\ AsksOK(q, n)
  BY DEF ListsOK, Moves, OnTop, TableOK
<1>2. /\ AsksOK(p, n) /\ p # <<>> /\ DOMAIN p = DOMAIN q /\ 1 \in DOMAIN q
      /\ p[1] = s /\ \A i \in DOMAIN q : i # 1 => p[i] = q[i]
  BY <1>1, AskServed
<1>3. PageFits(p, fs, oe, lt)
  OBVIOUS
<1>4. \A l \in Lists \ mx : l = q[1].list /\ place = "notifications" /\ l \notin oe => Counts(fd[l], p, fs, l)
  OBVIOUS
<1>5. AskOK(q[1], n)
  BY <1>1, <1>2 DEF AsksOK
<1>6. /\ s.kind = q[1].kind /\ s.list = q[1].list
      /\ q[1].kind \in {"fetch", "mark", "markAll"} => s.base = q[1].base
      /\ q[1].kind = "fetch" => s.reset = q[1].reset /\ s.cursor = q[1].cursor /\ s.filter = q[1].filter
      /\ q[1].kind = "mark" => s.count = q[1].count
  BY <1>5, SameQuestion
<1> HIDE DEF p
<1>7. place = "notifications" => AllTold(fd, p, fs)
  <2> SUFFICES ASSUME place = "notifications" PROVE AllTold(fd, p, fs)
    OBVIOUS
  <2>1. AllTold(fd, q, es)
    BY DEF ListsOK
  <2>2. ASSUME NEW l \in Lists PROVE Told(fd[l].items, fs)
    BY <1>1, <2>1, ToldKept DEF AllTold, FeedsOK, FeedOK
  <2>3. ASSUME NEW i \in DOMAIN p PROVE AskTold(p[i], fs)
    <3>1. CASE i = 1
      BY <1>2, <3>1
    <3>2. CASE i # 1
      BY <1>1, <1>2, <2>1, <3>2, AskToldKept DEF AllTold, AsksOK
    <3> QED
      BY <3>1, <3>2
  <2> QED
    BY <2>2, <2>3 DEF AllTold
<1>8. ASSUME NEW l \in Lists \ mx PROVE Calm(fd[l], p, fs, l, oe, lt)
  <2>1. Calm(fd[l], q, es, l, od, lt) /\ FeedOK(fd[l], n)
    BY <1>1 DEF ListsOK, FeedsOK
  <2>2. OneAsk(p, l)
    <3>1. \A i \in DOMAIN q : p[i].list = q[i].list
      BY <1>2, <1>6
    <3> QED
      BY <1>2, <2>1, <3>1 DEF Calm, OneAsk
  <2>3. ASSUME NEW i \in DOMAIN p, p[i].list = l PROVE MadeOf(p[i], fd[l])
    <3>1. CASE i = 1
      <4>1. MadeOf(q[1], fd[l])
        BY <1>2, <1>6, <2>1, <2>3, <3>1 DEF Calm
      <4> QED
        BY <1>2, <1>6, <3>1, <4>1 DEF MadeOf
    <3>2. CASE i # 1
      BY <1>2, <2>1, <2>3, <3>2 DEF Calm
    <3> QED
      BY <3>1, <3>2
  <2>4. Unbroken(fd[l], p, fs, l, oe, lt)
    <3>1. CASE l = q[1].list
      <4>1. place = "renewals" /\ l \notin oe =>
              \/ Fetched(p) /\ p[1].list = l /\ p[1].reset
              \/ /\ l \notin od /\ Cardinality(Opens(fs)) = Cardinality(Opens(es))
                 /\ ~(Fetched(q) /\ q[1].list = l /\ q[1].reset)
        BY <1>2, <1>6, <3>1 DEF Fetched
      <4> QED
        BY <1>1, <2>1, <4>1, UnbrokenKept DEF Calm
    <3>2. CASE l # q[1].list
      <4>1. place = "renewals" /\ l \notin oe =>
              /\ l \notin od /\ Cardinality(Opens(fs)) = Cardinality(Opens(es))
              /\ ~(Fetched(q) /\ q[1].list = l /\ q[1].reset)
        BY <3>2
      <4> QED
        BY <1>1, <2>1, <4>1, UnbrokenKept DEF Calm
    <3> QED
      BY <3>1, <3>2
  <2>5. place = "notifications" /\ l \notin oe => Counts(fd[l], p, fs, l)
    <3> SUFFICES ASSUME place = "notifications", l \notin oe PROVE Counts(fd[l], p, fs, l)
      OBVIOUS
    <3>1. CASE l = q[1].list
      BY <1>4, <3>1
    <3>2. CASE l # q[1].list
      <4>1. ~Done(q, l) /\ ~Done(p, l)
        BY <1>2, <1>6, <3>2 DEF Done
      <4>2. l \notin od /\ Opens(fs) = Opens(es)
        BY <3>2 DEF Moves
      <4>3. Counts(fd[l], q, es, l)
        BY <2>1, <4>2 DEF Calm
      <4> QED
        BY <4>1, <4>2, <4>3 DEF Counts, OpenShown
    <3> QED
      BY <3>1, <3>2
  <2> QED
    BY <2>2, <2>3, <2>4, <2>5 DEF Calm
<1> QED
  BY <1>1, <1>2, <1>3, <1>7, <1>8 DEF ListsOK, p

-----------------------------------------------------------------------------
(* A filter is chosen; a request waits.                                    *)
LEMMA ChosenKeeps ==
  ASSUME NEW es, NEW n, NEW fd, NEW q, NEW mx, NEW od, NEW lt, ListsOK(es, n, fd, q, mx, od, lt),
         NEW l \in Lists, NEW g, FeedOK(g, n), g.items = fd[l].items, g.cursor = fd[l].cursor,
         g.unread = fd[l].unread, g.applied = fd[l].applied
  PROVE  ListsOK(es, n, [fd EXCEPT ![l] = g], q, mx, od, lt)
<1> DEFINE gd == [fd EXCEPT ![l] = g]
<1>1. fd = [k \in Lists |-> fd[k]] /\ \A k \in Lists : FeedOK(fd[k], n)
  BY DEF ListsOK, FeedsOK
<1>2. /\ gd = [k \in Lists |-> gd[k]] /\ gd[l] = g
      /\ \A k \in Lists : k # l => gd[k] = fd[k]
  BY <1>1
<1> HIDE DEF gd
<1>3. FeedsOK(gd, n)
  BY <1>1, <1>2 DEF FeedsOK
<1>4. AllTold(fd, q, es) => AllTold(gd, q, es)
  BY <1>2 DEF AllTold, Told
<1>5. ASSUME NEW k \in Lists \ mx PROVE Calm(gd[k], q, es, k, od, lt)
  <2>1. Calm(fd[k], q, es, k, od, lt)
    BY DEF ListsOK
  <2>2. /\ gd[k].items = fd[k].items /\ gd[k].cursor = fd[k].cursor
        /\ gd[k].unread = fd[k].unread /\ gd[k].applied = fd[k].applied
    BY <1>2
  <2> QED
    BY <2>1, <2>2 DEF Calm, MadeOf, Unbroken, Joins, Counts
<1> QED
  BY <1>3, <1>4, <1>5 DEF ListsOK, gd

LEMMA AskedKeeps ==
  ASSUME NEW es, NEW n, NEW fd, NEW q, NEW mx, NEW od, NEW lt, ListsOK(es, n, fd, q, mx, od, lt),
         NEW r, AskOK(r, n), r.at = "sent", place = "notifications" => AskTold(r, es), NEW nx,
         \A l \in Lists \ nx :
           /\ l \notin mx
           /\ r.list = l => MadeOf(r, fd[l]) /\ \A i \in DOMAIN q : q[i].list # l
  PROVE  ListsOK(es, n, fd, Append(q, r), nx, od, lt)
<1> DEFINE p == Append(q, r)
<1>1. AsksOK(q, n)
  BY DEF ListsOK
<1>2. /\ AsksOK(p, n) /\ DOMAIN p = 1 .. Len(q) + 1 /\ DOMAIN q = 1 .. Len(q) /\ Len(q) \in Nat
      /\ \A i \in DOMAIN q : p[i] = q[i]
      /\ p[Len(q) + 1] = r /\ p # <<>>
      /\ q # <<>> => p[1] = q[1]
      /\ q = <<>> => p[1] = r
  BY <1>1, AskSent
<1> HIDE DEF p
<1>3. \A i \in DOMAIN p : i \in DOMAIN q \/ i = Len(q) + 1
  BY <1>2
<1>4. Fetched(p) <=> Fetched(q)
  BY <1>2 DEF Fetched
<1>5. Fetched(q) => p[1] = q[1]
  BY <1>2 DEF Fetched
<1>6. \A l : (Done(p, l) <=> Done(q, l)) /\ (Done(q, l) => p[1] = q[1])
  BY <1>2 DEF Done
<1>7. AllTold(fd, q, es) /\ place = "notifications" => AllTold(fd, p, es)
  BY <1>2, <1>3 DEF AllTold
<1>8. ASSUME NEW l \in Lists \ nx PROVE Calm(fd[l], p, es, l, od, lt)
  <2>1. Calm(fd[l], q, es, l, od, lt)
    BY DEF ListsOK
  <2>2. OneAsk(p, l)
    <3> SUFFICES ASSUME NEW i \in DOMAIN p, NEW j \in DOMAIN p, p[i].list = l, p[j].list = l
                 PROVE  i = j
      BY DEF OneAsk
    <3>1. CASE r.list = l
      <4>1. i \notin DOMAIN q /\ j \notin DOMAIN q
        BY <1>2, <3>1
      <4> QED
        BY <1>3, <4>1
    <3>2. CASE r.list # l
      <4>1. i \in DOMAIN q /\ j \in DOMAIN q
        BY <1>2, <1>3, <3>2
      <4> QED
        BY <1>2, <2>1, <4>1 DEF Calm, OneAsk
    <3> QED
      BY <3>1, <3>2
  <2>3. ASSUME NEW i \in DOMAIN p, p[i].list = l PROVE MadeOf(p[i], fd[l])
    <3>1. CASE i \in DOMAIN q
      BY <1>2, <2>1, <2>3, <3>1 DEF Calm
    <3>2. CASE i = Len(q) + 1
      BY <1>2, <2>3, <3>2
    <3> QED
      BY <1>3, <3>1, <3>2
  <2>4. Unbroken(fd[l], p, es, l, od, lt)
    BY <1>4, <1>5, <2>1 DEF Calm, Unbroken
  <2>5. Counts(fd[l], q, es, l) => Counts(fd[l], p, es, l)
    BY <1>6 DEF Counts
  <2> QED
    BY <2>1, <2>2, <2>3, <2>4, <2>5 DEF Calm
<1>9. PageFits(p, es, od, lt)
  BY <1>4, <1>5 DEF ListsOK, PageFits
<1> QED
  BY <1>2, <1>7, <1>8, <1>9 DEF ListsOK, p

(* What a list shows at rest.                                              *)
Restful(feed, es, l, od, lt) ==
  /\ Falling(feed.items) /\ Joins(feed, l)
  /\ ~Vague(l, feed.applied, od) => Covers(feed.items, es, feed.applied, 0, feed.cursor = 0 /\ l # "bell", lt)
  /\ place = "notifications" /\ l \notin od =>
       feed.unread = Cardinality(Opens(es)) /\ OpenShown(feed.items, es)

(* An answer is delivered.                                                 *)
LEMMA DeliveredKeeps ==
  ASSUME NEW es, NEW n, NEW fd, NEW q, NEW mx, NEW od, NEW lt, ListsOK(es, n, fd, q, mx, od, lt), q # <<>>,
         NEW gd, FeedsOK(gd, n), \A l \in Lists : l # q[1].list => gd[l] = fd[l],
         place = "notifications" => \A l \in Lists : l = q[1].list => Told(gd[l].items, es),
         NEW nx, \A l \in Lists \ nx :
           IF l = q[1].list
           THEN Restful(gd[l], es, l, od, lt) /\ (l \notin mx \/ \A i \in 2 .. Len(q) : q[i].list # l)
           ELSE l \notin mx
  PROVE  ListsOK(es, n, gd, Tail(q), nx, od, lt)
<1> DEFINE p == Tail(q)
<1>1. AsksOK(q, n)
  BY DEF ListsOK
<1>2. /\ AsksOK(p, n) /\ Len(q) \in Nat \ {0} /\ DOMAIN q = 1 .. Len(q)
      /\ DOMAIN p = 1 .. Len(q) - 1
      /\ \A i \in DOMAIN p : i + 1 \in DOMAIN q /\ i + 1 # 1 /\ p[i] = q[i + 1]
      /\ p # <<>> => p[1].at = "sent"
  BY <1>1, AskDelivered
<1> HIDE DEF p
<1>3. ~Fetched(p) /\ \A l : ~Done(p, l)
  BY <1>2 DEF Fetched, Done
<1>4. place = "notifications" => AllTold(gd, p, es)
  <2> SUFFICES ASSUME place = "notifications" PROVE AllTold(gd, p, es)
    OBVIOUS
  <2>1. AllTold(fd, q, es)
    BY DEF ListsOK
  <2>2. ASSUME NEW l \in Lists PROVE Told(gd[l].items, es)
    BY <2>1 DEF AllTold
  <2>3. ASSUME NEW i \in DOMAIN p PROVE AskTold(p[i], es)
    BY <1>2, <2>1 DEF AllTold
  <2> QED
    BY <2>2, <2>3 DEF AllTold
<1>5. ASSUME NEW l \in Lists \ nx PROVE Calm(gd[l], p, es, l, od, lt)
  <2>1. CASE l = q[1].list
    <3>1. \A i \in DOMAIN p : p[i].list # l
      <4> TAKE i \in DOMAIN p
      <4>1. i + 1 \in DOMAIN q /\ i + 1 # 1 /\ p[i] = q[i + 1] /\ i + 1 \in 2 .. Len(q)
        BY <1>2
      <4>2. CASE l \in mx
        BY <2>1, <4>1, <4>2
      <4>3. CASE l \notin mx
        <5>1. OneAsk(q, l)
          BY <4>3 DEF ListsOK, Calm
        <5>2. 1 \in DOMAIN q
          BY <1>2
        <5> QED
          BY <2>1, <4>1, <5>1, <5>2 DEF OneAsk
      <4> QED
        BY <4>2, <4>3
    <3>2. Restful(gd[l], es, l, od, lt)
      BY <2>1
    <3> QED
      BY <1>3, <3>1, <3>2 DEF Restful, Calm, OneAsk, Unbroken, Counts
  <2>2. CASE l # q[1].list
    <3>1. Calm(fd[l], q, es, l, od, lt) /\ gd[l] = fd[l]
      BY <2>2 DEF ListsOK
    <3>2. OneAsk(p, l)
      <4> SUFFICES ASSUME NEW i \in DOMAIN p, NEW j \in DOMAIN p, p[i].list = l, p[j].list = l
                   PROVE  i = j
        BY DEF OneAsk
      <4>1. i + 1 = j + 1
        BY <1>2, <3>1 DEF Calm, OneAsk
      <4> QED
        BY <1>2, <4>1
    <3>3. \A i \in DOMAIN p : p[i].list = l => MadeOf(p[i], fd[l])
      BY <1>2, <3>1 DEF Calm
    <3>4. Unbroken(fd[l], p, es, l, od, lt)
      BY <2>2, <3>1 DEF Calm, Unbroken
    <3>5. Counts(fd[l], q, es, l) => Counts(fd[l], p, es, l)
      <4>1. ~Done(q, l)
        BY <2>2 DEF Done
      <4> QED
        BY <1>3, <4>1 DEF Counts
    <3> QED
      BY <3>1, <3>2, <3>3, <3>4, <3>5 DEF Calm
  <2> QED
    BY <2>1, <2>2
<1>6. PageFits(p, es, od, lt)
  BY <1>3 DEF PageFits
<1> QED
  BY <1>2, <1>4, <1>5, <1>6 DEF ListsOK, p

(* An answer changes nothing: of what was refused, archived or resolved.   *)
LEMMA IgnoredKeeps ==
  ASSUME NEW es, NEW n, NEW fd, NEW q, NEW mx, NEW od, NEW lt, ListsOK(es, n, fd, q, mx, od, lt), q # <<>>,
         ~Fetched(q), \A l \in Lists : ~Done(q, l)
  PROVE  ListsOK(es, n, fd, Tail(q), mx, od, lt)
<1>1. FeedsOK(fd, n)
  BY DEF ListsOK
<1>2. place = "notifications" => \A l \in Lists : Told(fd[l].items, es)
  BY DEF ListsOK, AllTold
<1>3. ASSUME NEW l \in Lists \ mx, l = q[1].list PROVE Restful(fd[l], es, l, od, lt)
  BY DEF ListsOK, Calm, Restful, Unbroken, Counts
<1> QED
  BY <1>1, <1>2, <1>3, DeliveredKeeps

-----------------------------------------------------------------------------
(* The steps. *)
LEMMA SamePlace ==
  ASSUME UNCHANGED place, ListsOK(entries', written', feeds', sending', mixed', outdated', late'),
         DetailOK(sending', drill', resolved')
  PROVE  FeedsInv'
BY DEF FeedsInv, ListsOK, TableOK, FeedsOK, FeedOK, AsksOK, AskOK, AnswerOK, FetchOK, MarkOK, PageOK,
       AllTold, AskTold, Calm, PageFits, Unbroken, Counts, Vague, Joins, Lists, ListFilter,
       Covers, Seen, SameMs, Match, AfterCursor, DetailOK

LEMMA InvFacts ==
  ASSUME FeedsInv
  PROVE  /\ ListsOK(entries, written, feeds, sending, mixed, outdated, late)
         /\ DetailOK(sending, drill, resolved)
         /\ place \in Place /\ place \in {"audit", "renewals", "notifications"}
         /\ TableOK(entries, written) /\ written \subseteq 1 .. MaxEntries
         /\ FeedsOK(feeds, written) /\ AsksOK(sending, written)
         /\ feeds = [l \in Lists |-> feeds[l]] /\ \A l \in Lists : FeedOK(feeds[l], written)
         /\ place = "notifications" => AllTold(feeds, sending, entries)
BY ListAssumption DEF FeedsInv, ListsOK, TableOK, FeedsOK

LEMMA WhichLists ==
  ASSUME place \in {"audit", "renewals", "notifications"}
  PROVE  /\ "detail" \notin Lists
         /\ ("inbox" \in Lists) <=> (place = "notifications")
         /\ ("bell" \in Lists) <=> (place = "notifications")
         /\ \A l \in Searches : l \in Lists /\ place # "notifications" /\ l # "bell"
<1>1. CASE place = "notifications"
  BY <1>1 DEF Lists, Searches
<1>2. CASE place \in {"audit", "renewals"}
  BY <1>2 DEF Lists, Searches
<1> QED
  BY <1>1, <1>2

LEMMA DetailAsked ==
  ASSUME NEW q, NEW n, AsksOK(q, n), NEW d, NEW s, DetailOK(q, d, s), NEW r, AskOK(r, n), r.at = "sent",
         r.kind = "resolve" => s = 0 /\ \A i \in DOMAIN q : q[i].kind = "resolve" => ~q[i].live,
         NEW e, IF r.kind = "resolve" THEN e = r.id ELSE e = d
  PROVE  DetailOK(Append(q, r), e, s)
<1> DEFINE p == Append(q, r)
<1>1. /\ DOMAIN p = 1 .. Len(q) + 1 /\ DOMAIN q = 1 .. Len(q) /\ Len(q) \in Nat
      /\ \A i \in DOMAIN q : p[i] = q[i]
      /\ p[Len(q) + 1] = r
  BY AskSent
<1> HIDE DEF p
<1>2. ASSUME NEW i \in DOMAIN p, p[i].kind = "resolve", p[i].live PROVE e = p[i].id
  <2>1. CASE i \in DOMAIN q
    BY <1>1, <1>2, <2>1 DEF DetailOK
  <2>2. CASE i = Len(q) + 1
    BY <1>1, <1>2, <2>2
  <2> QED
    BY <1>1, <2>1, <2>2
<1> QED
  BY <1>2 DEF DetailOK, p

(* A request of a list.                                                    *)
LEMMA AsksKeep ==
  ASSUME FeedsInv, NEW l, NEW r, NEW f, NEW early, ListAsks(l, r, f, early),
         AskOK(r, written), r.at = "sent", r.list = l, place = "notifications" => AskTold(r, entries),
         FeedOK(f, written), f.items = feeds[l].items, f.cursor = feeds[l].cursor,
         f.unread = feeds[l].unread, f.applied = feeds[l].applied,
         ~early => MadeOf(r, f)
  PROVE  FeedsInv'
<1>1. /\ l \in Lists /\ drill = 0 /\ drill' = drill /\ resolved' = resolved
      /\ sending' = Append(sending, r) /\ feeds' = [feeds EXCEPT ![l] = f]
      /\ mixed' = IF early \/ Waits(l) THEN mixed \cup {l} ELSE mixed
      /\ UNCHANGED <<place, entries, written, late, outdated, lost>>
  BY DEF ListAsks, NoDetail, OnPage
<1>2. ListsOK(entries, written, feeds', sending, mixed, outdated, late)
  BY <1>1, InvFacts, ChosenKeeps
<1>3. feeds'[l] = f
  BY <1>1, InvFacts
<1>4. ASSUME NEW k \in Lists \ mixed'
      PROVE  /\ k \notin mixed
             /\ r.list = k => MadeOf(r, feeds'[k]) /\ \A i \in DOMAIN sending : sending[i].list # k
  BY <1>1, <1>3 DEF Waits
<1>5. ListsOK(entries, written, feeds', Append(sending, r), mixed', outdated, late)
  BY <1>2, <1>4, AskedKeeps
<1>6. r.kind # "resolve"
  BY <1>1, InvFacts, WhichLists DEF AskOK, AnswerOK
<1>7. DetailOK(sending', drill', resolved')
  BY <1>1, <1>6, InvFacts, DetailAsked
<1> QED
  BY <1>1, <1>5, <1>7, SamePlace

Fetches(r, l, reset, cursor, filter) ==
  /\ AskOK(r, written) /\ r.at = "sent" /\ r.list = l /\ r.kind = "fetch"
  /\ place = "notifications" => AskTold(r, entries)
  /\ (r.reset <=> reset) /\ r.base = feeds[l].items /\ r.cursor = cursor /\ r.filter = filter

LEMMA FetchIs ==
  ASSUME FeedsInv, NEW l \in Lists, NEW reset \in BOOLEAN, NEW cursor \in written \cup {0},
         NEW filter \in ListFilter, reset <=> cursor = 0, l = "bell" => reset
  PROVE  Fetches(FetchRequest(l, reset, cursor, filter), l, reset, cursor, filter)
<1> DEFINE r == FetchRequest(l, reset, cursor, filter)
<1>1. /\ DOMAIN r = {"kind", "at", "list", "reset", "cursor", "filter", "base"}
      /\ r.kind = "fetch" /\ r.at = "sent" /\ r.list = l /\ r.reset = reset
      /\ r.base = feeds[l].items /\ r.cursor = cursor /\ r.filter = filter
  BY DEF FetchRequest
<1> HIDE DEF r
<1>2. ItemsOK(r.base, written)
  BY <1>1, InvFacts DEF FeedOK
<1>3. AskOK(r, written)
  BY <1>1, <1>2 DEF AskOK, AnswerOK, FetchOK, MarkOK
<1>4. place = "notifications" => AskTold(r, entries)
  BY <1>1, InvFacts DEF AskTold, AllTold
<1> QED
  BY <1>1, <1>3, <1>4 DEF r, Fetches

LEMMA FetchAll ==
  ASSUME FeedsInv, NEW l \in Lists, NEW filter \in ListFilter
  PROVE  Fetches(FetchRequest(l, TRUE, 0, filter), l, TRUE, 0, filter)
<1>1. 0 \in written \cup {0} /\ TRUE \in BOOLEAN /\ (TRUE <=> 0 = 0)
  BY InvFacts
<1> QED
  BY <1>1, FetchIs

LEMMA ApplyFilterKeeps == ASSUME FeedsInv, NEW l, ApplyFilter(l) PROVE FeedsInv'
<1>1. /\ l \in Lists /\ FeedOK(feeds[l], written) /\ feeds[l].filter \in ListFilter
      /\ ListAsks(l, FetchRequest(l, TRUE, 0, feeds[l].filter), feeds[l], FALSE)
  BY InvFacts, WhichLists DEF ApplyFilter, FeedOK
<1> DEFINE r == FetchRequest(l, TRUE, 0, feeds[l].filter)
<1>2. Fetches(r, l, TRUE, 0, feeds[l].filter)
  BY <1>1, FetchAll
<1> HIDE DEF r
<1>3. MadeOf(r, feeds[l])
  BY <1>2 DEF MadeOf, Fetches
<1>4. ListAsks(l, r, feeds[l], FALSE)
  BY <1>1 DEF r
<1> QED
  BY <1>1, <1>2, <1>3, <1>4, AsksKeep DEF Fetches

LEMMA LoadMoreKeeps == ASSUME FeedsInv, NEW l, LoadMore(l) PROVE FeedsInv'
<1> DEFINE f == feeds[l]
           r == FetchRequest(l, FALSE, f.cursor, f.filter)
<1>1. l \in Lists /\ l # "bell" /\ f.cursor # 0 /\ ListAsks(l, r, f, f.filter # f.applied)
  BY DEF LoadMore
<1>2. FeedOK(f, written) /\ f.filter \in ListFilter /\ f.cursor \in written \cup {0}
  BY <1>1, InvFacts DEF FeedOK
<1>3. Fetches(r, l, FALSE, f.cursor, f.filter)
  <2>1. FALSE \in BOOLEAN /\ (FALSE <=> f.cursor = 0)
    BY <1>1
  <2> QED
    BY <1>1, <1>2, <2>1, FetchIs
<1> HIDE DEF r
<1>4. f.filter = f.applied => MadeOf(r, f)
  BY <1>3 DEF MadeOf, Fetches
<1> QED
  BY <1>1, <1>2, <1>3, <1>4, AsksKeep DEF Fetches

LEMMA ToggleUnreadKeeps == ASSUME FeedsInv, ToggleUnread PROVE FeedsInv'
<1> DEFINE f == feeds["inbox"]
           other == IF f.filter = Every THEN "open" ELSE Every
           g == [f EXCEPT !.filter = other]
           r == FetchRequest("inbox", TRUE, 0, other)
<1>1. "inbox" \in Lists /\ ListAsks("inbox", r, g, FALSE)
  BY DEF ToggleUnread
<1>2. other \in ListFilter /\ FeedOK(f, written)
  BY <1>1, InvFacts DEF ListFilter
<1> HIDE DEF other, f
<1>3. /\ DOMAIN g = DOMAIN f /\ g.items = f.items /\ g.cursor = f.cursor
      /\ g.unread = f.unread /\ g.applied = f.applied /\ g.filter = other
  BY <1>2 DEF FeedOK
<1>4. Fetches(r, "inbox", TRUE, 0, other)
  BY <1>1, <1>2, FetchAll
<1> HIDE DEF r, g
<1>5. FeedOK(g, written)
  BY <1>2, <1>3 DEF FeedOK
<1>6. MadeOf(r, g)
  BY <1>3, <1>4 DEF MadeOf, Fetches, f
<1> QED
  BY <1>1, <1>3, <1>4, <1>5, <1>6, AsksKeep DEF f, Fetches

LEMMA OpenBellKeeps == ASSUME FeedsInv, OpenBell PROVE FeedsInv'
<1> DEFINE f == feeds["bell"]
           r == FetchRequest("bell", TRUE, 0, Every)
<1>1. "bell" \in Lists /\ ListAsks("bell", r, f, FALSE)
  BY DEF OpenBell
<1>2. Every \in ListFilter /\ FeedOK(f, written)
  BY <1>1, InvFacts DEF ListFilter
<1>3. Fetches(r, "bell", TRUE, 0, Every)
  BY <1>1, <1>2, FetchAll
<1> HIDE DEF r
<1>4. MadeOf(r, f)
  BY <1>3 DEF MadeOf, Fetches
<1> QED
  BY <1>1, <1>2, <1>3, <1>4, AsksKeep DEF Fetches

LEMMA MarkReadKeeps == ASSUME FeedsInv, NEW l, NEW id, MarkRead(l, id) PROVE FeedsInv'
<1> DEFINE f == feeds[l]
           r == [kind |-> "mark", at |-> "sent", list |-> l, id |-> id,
                 base |-> f.items, count |-> f.unread]
<1>1. /\ l \in Lists /\ place = "notifications" /\ ListAsks(l, r, f, FALSE)
      /\ \E i \in DOMAIN f.items : f.items[i] = [id |-> id, sort |-> "open"]
  BY DEF MarkRead, Seqs!ToSet
<1>2. FeedOK(f, written) /\ ItemsOK(f.items, written) /\ Told(f.items, entries)
  BY <1>1, InvFacts DEF FeedOK, AllTold
<1>3. PICK i \in DOMAIN f.items : f.items[i] = [id |-> id, sort |-> "open"]
  BY <1>1
<1>4. id \in written /\ f.items[i].id = id /\ f.items[i].sort = "open"
  BY <1>2, <1>3 DEF ItemsOK
<1> HIDE DEF f
<1>5. /\ DOMAIN r = {"kind", "at", "list", "id", "base", "count"}
      /\ r.kind = "mark" /\ r.at = "sent" /\ r.list = l /\ r.id = id
      /\ r.base = f.items /\ r.count = f.unread
  OBVIOUS
<1> HIDE DEF r
<1>6. AskOK(r, written)
  BY <1>1, <1>2, <1>3, <1>4, <1>5 DEF AskOK, AnswerOK, FetchOK, MarkOK, FeedOK
<1>7. AskTold(r, entries) /\ MadeOf(r, f)
  BY <1>2, <1>5 DEF AskTold, MadeOf
<1> QED
  BY <1>1, <1>2, <1>5, <1>6, <1>7, AsksKeep DEF f

LEMMA MarkAllReadKeeps == ASSUME FeedsInv, NEW l, MarkAllRead(l) PROVE FeedsInv'
<1> DEFINE f == feeds[l]
           r == [kind |-> "markAll", at |-> "sent", list |-> l, base |-> f.items]
<1>1. l \in Lists /\ place = "notifications" /\ ListAsks(l, r, f, FALSE)
  BY DEF MarkAllRead
<1>2. FeedOK(f, written) /\ ItemsOK(f.items, written) /\ Told(f.items, entries)
  BY <1>1, InvFacts DEF FeedOK, AllTold
<1> HIDE DEF f
<1>3. /\ DOMAIN r = {"kind", "at", "list", "base"}
      /\ r.kind = "markAll" /\ r.at = "sent" /\ r.list = l /\ r.base = f.items
  OBVIOUS
<1> HIDE DEF r
<1>4. AskOK(r, written)
  BY <1>1, <1>2, <1>3 DEF AskOK, AnswerOK, FetchOK, MarkOK
<1>5. AskTold(r, entries) /\ MadeOf(r, f)
  BY <1>2, <1>3 DEF AskTold, MadeOf
<1> QED
  BY <1>1, <1>2, <1>3, <1>4, <1>5, AsksKeep DEF f

LEMMA ArchiveOldKeeps == ASSUME FeedsInv, ArchiveOld PROVE FeedsInv'
<1> DEFINE f == feeds["inbox"]
           r == [kind |-> "archive", at |-> "sent", list |-> "inbox", filter |-> f.filter]
<1>1. "inbox" \in Lists /\ place = "notifications" /\ ListAsks("inbox", r, f, FALSE)
  BY InvFacts, WhichLists DEF ArchiveOld
<1>2. FeedOK(f, written)
  BY <1>1, InvFacts
<1> HIDE DEF f
<1>3. /\ DOMAIN r = {"kind", "at", "list", "filter"}
      /\ r.kind = "archive" /\ r.at = "sent" /\ r.list = "inbox" /\ r.filter = f.filter
  OBVIOUS
<1> HIDE DEF r
<1>4. AskOK(r, written)
  BY <1>1, <1>2, <1>3 DEF AskOK, AnswerOK, FetchOK, MarkOK, FeedOK
<1>5. AskTold(r, entries) /\ MadeOf(r, f)
  BY <1>3 DEF AskTold, MadeOf
<1> QED
  BY <1>1, <1>2, <1>3, <1>4, <1>5, AsksKeep DEF f

LEMMA ChooseFilterKeeps ==
  ASSUME FeedsInv, NEW l, NEW filter \in Sort \cup {Every}, ChooseFilter(l, filter)
  PROVE  FeedsInv'
<1> DEFINE f == feeds[l]
           g == [f EXCEPT !.filter = filter]
<1>1. /\ l \in Lists /\ place # "notifications"
      /\ feeds' = [feeds EXCEPT ![l] = g] /\ FeedOK(f, written)
      /\ UNCHANGED <<sending, mixed, drill, resolved, place, entries, written, late, outdated>>
  BY InvFacts, WhichLists DEF ChooseFilter, NoDetail, OnPage
<1>2. filter \in ListFilter
  BY <1>1 DEF ListFilter, Sort
<1> HIDE DEF f
<1>3. /\ DOMAIN g = DOMAIN f /\ g.items = f.items /\ g.cursor = f.cursor
      /\ g.unread = f.unread /\ g.applied = f.applied /\ g.filter = filter
  BY <1>1 DEF FeedOK
<1> HIDE DEF g
<1>4. FeedOK(g, written)
  BY <1>1, <1>2, <1>3 DEF FeedOK
<1>5. ListsOK(entries, written, feeds', sending, mixed, outdated, late)
  BY <1>1, <1>3, <1>4, InvFacts, ChosenKeeps DEF f
<1> QED
  BY <1>1, <1>5, InvFacts, SamePlace

(* The detail of a row.                                                    *)
LEMMA OpenDetailKeeps == ASSUME FeedsInv, NEW id \in 1 .. MaxEntries, OpenDetail(id) PROVE FeedsInv'
<1> DEFINE r == DetailRequest(id)
<1>1. /\ drill = 0 /\ place = "audit" /\ drill' = id /\ sending' = Append(sending, r)
      /\ UNCHANGED <<resolved, feeds, mixed, place, entries, written, late, outdated>>
  BY DEF OpenDetail, OnPage
<1>2. /\ DOMAIN r = {"kind", "at", "list", "live", "id"}
      /\ r.kind = "resolve" /\ r.at = "sent" /\ r.list = "detail" /\ r.live = TRUE /\ r.id = id
  BY DEF DetailRequest
<1> HIDE DEF r
<1>3. AskOK(r, written)
  <2>1. id \in Nat \ {0}
    BY InvFacts
  <2> QED
    BY <1>2, <2>1 DEF AskOK, AnswerOK, FetchOK, MarkOK
<1>4. \A l \in Lists : r.list # l
  BY <1>2, InvFacts, WhichLists
<1>5. ListsOK(entries, written, feeds, Append(sending, r), mixed, outdated, late)
  BY <1>1, <1>2, <1>3, <1>4, InvFacts, AskedKeeps
<1>6. resolved = 0 /\ \A i \in DOMAIN sending : sending[i].kind = "resolve" => ~sending[i].live
  <2>1. \A i \in DOMAIN sending : sending[i].kind = "resolve" => sending[i].id # 0
    BY InvFacts DEF AsksOK, AskOK, MarkOK
  <2> QED
    BY <1>1, <2>1, InvFacts DEF DetailOK
<1>7. DetailOK(sending', drill', resolved')
  BY <1>1, <1>2, <1>3, <1>6, InvFacts, DetailAsked
<1> QED
  BY <1>1, <1>5, <1>7, SamePlace

LEMMA CancelDetailIs ==
  ASSUME NEW q, NEW n, AsksOK(q, n)
  PROVE  LET p == CancelDetail(q) IN
         /\ AsksOK(p, n) /\ DOMAIN p = DOMAIN q
         /\ \A i \in DOMAIN q :
              /\ p[i].kind = q[i].kind /\ p[i].list = q[i].list
              /\ q[i].kind # "resolve" => p[i] = q[i]
              /\ q[i].kind = "resolve" => ~p[i].live
         /\ p = <<>> <=> q = <<>>
<1> DEFINE p == CancelDetail(q)
           P == {p[i] : i \in DOMAIN p}
<1>1. Len(q) \in Nat /\ DOMAIN q = 1 .. Len(q)
  BY ListedIs DEF AsksOK, Listed
<1>2. /\ DOMAIN p = 1 .. Len(q) /\ p = [i \in 1 .. Len(q) |-> p[i]]
      /\ \A i \in DOMAIN q : p[i] = IF q[i].kind = "resolve" THEN [q[i] EXCEPT !.live = FALSE] ELSE q[i]
  BY <1>1 DEF CancelDetail
<1> HIDE DEF p
<1>3. p \in Seq(P)
  BY <1>1, <1>2
<1> HIDE DEF P
<1>4. Listed(p) /\ Len(p) = Len(q) /\ (p = <<>> <=> q = <<>>)
  <2>1. Listed(p) /\ DOMAIN p = 1 .. Len(p) /\ Len(p) \in Nat
    BY <1>3, ListedIs
  <2>2. Len(p) = Len(q)
    BY <1>1, <1>2, <2>1
  <2>3. p = <<>> <=> Len(p) = 0
    BY <1>3
  <2>4. q = <<>> <=> Len(q) = 0
    BY ListedTail, ListedEmpty DEF AsksOK
  <2> QED
    BY <2>1, <2>2, <2>3, <2>4
<1>5. ASSUME NEW i \in DOMAIN q
      PROVE  /\ AskOK(p[i], n) /\ (i # 1 => p[i].at = "sent")
             /\ p[i].kind = q[i].kind /\ p[i].list = q[i].list
             /\ q[i].kind = "resolve" => ~p[i].live
  <2> DEFINE r == q[i]
  <2>1. AskOK(r, n) /\ (i # 1 => r.at = "sent")
    BY DEF AsksOK
  <2>2. p[i] = IF r.kind = "resolve" THEN [r EXCEPT !.live = FALSE] ELSE r
    BY <1>2
  <2> HIDE DEF r
  <2>3. CASE r.kind = "resolve"
    <3> DEFINE s == [r EXCEPT !.live = FALSE]
    <3>1. DOMAIN s = DOMAIN r /\ \A x \in DOMAIN r \ {"live"} : s[x] = r[x]
      OBVIOUS
    <3>2. s.live = FALSE
      BY <2>1, <2>3 DEF AskOK, MarkOK
    <3> HIDE DEF s
    <3>3. AnswerOK(s) /\ s.kind = r.kind /\ s.list = r.list /\ s.at = r.at
      BY <2>1, <3>1 DEF AskOK, AnswerOK
    <3>4. FetchOK(s, n) /\ MarkOK(s, n)
      BY <2>1, <2>3, <3>1, <3>2, <3>3 DEF AskOK, FetchOK, MarkOK
    <3> QED
      BY <2>1, <2>2, <2>3, <3>2, <3>3, <3>4 DEF AskOK, r, s
  <2>4. CASE r.kind # "resolve"
    BY <2>1, <2>2, <2>4 DEF r
  <2> QED
    BY <2>3, <2>4
<1>6. AsksOK(p, n)
  BY <1>1, <1>2, <1>4, <1>5 DEF AsksOK
<1> QED
  BY <1>1, <1>2, <1>4, <1>5, <1>6 DEF p

LEMMA CloseDetailKeeps == ASSUME FeedsInv, CloseDetail PROVE FeedsInv'
<1> DEFINE q == sending
           p == CancelDetail(q)
<1>1. /\ drill' = 0 /\ resolved' = 0 /\ sending' = p
      /\ UNCHANGED <<feeds, mixed, place, entries, written, late, outdated>>
  BY DEF CloseDetail, OnPage
<1>2. /\ AsksOK(p, written) /\ DOMAIN p = DOMAIN q
      /\ \A i \in DOMAIN q :
           /\ p[i].kind = q[i].kind /\ p[i].list = q[i].list
           /\ q[i].kind # "resolve" => p[i] = q[i]
           /\ q[i].kind = "resolve" => ~p[i].live
      /\ p = <<>> <=> q = <<>>
  BY InvFacts, CancelDetailIs
<1>3. \A i \in DOMAIN q : q[i].list \in Lists => q[i].kind # "resolve"
  BY InvFacts, WhichLists DEF AsksOK, AskOK, AnswerOK
<1>4. q # <<>> => 1 \in DOMAIN q
  BY InvFacts, FirstAsk
<1> HIDE DEF p
<1>5. (Fetched(p) <=> Fetched(q)) /\ (Fetched(q) => p[1] = q[1])
  BY <1>2, <1>4 DEF Fetched
<1>6. \A l \in Lists : (Done(p, l) <=> Done(q, l)) /\ (Done(q, l) => p[1] = q[1])
  BY <1>2, <1>3, <1>4 DEF Done
<1>7. place = "notifications" => AllTold(feeds, p, entries)
  <2> SUFFICES ASSUME place = "notifications" PROVE AllTold(feeds, p, entries)
    OBVIOUS
  <2>1. AllTold(feeds, q, entries)
    BY InvFacts
  <2>2. ASSUME NEW i \in DOMAIN p PROVE AskTold(p[i], entries)
    <3>1. CASE q[i].kind = "resolve"
      BY <1>2, <3>1 DEF AskTold
    <3>2. CASE q[i].kind # "resolve"
      BY <1>2, <2>1, <3>2 DEF AllTold
    <3> QED
      BY <3>1, <3>2
  <2> QED
    BY <2>1, <2>2 DEF AllTold
<1>8. ASSUME NEW l \in Lists \ mixed PROVE Calm(feeds[l], p, entries, l, outdated, late)
  <2>1. Calm(feeds[l], q, entries, l, outdated, late)
    BY InvFacts DEF ListsOK
  <2>2. OneAsk(p, l) /\ \A i \in DOMAIN p : p[i].list = l => MadeOf(p[i], feeds[l])
    BY <1>2, <1>3, <2>1 DEF Calm, OneAsk
  <2>3. Unbroken(feeds[l], p, entries, l, outdated, late)
    BY <1>5, <2>1 DEF Calm, Unbroken
  <2>4. Counts(feeds[l], q, entries, l) => Counts(feeds[l], p, entries, l)
    BY <1>6 DEF Counts
  <2> QED
    BY <2>1, <2>2, <2>3, <2>4 DEF Calm
<1>9. PageFits(p, entries, outdated, late)
  BY <1>5, InvFacts DEF PageFits, ListsOK
<1>10. ListsOK(entries, written, feeds, p, mixed, outdated, late)
  BY <1>2, <1>7, <1>8, <1>9, InvFacts DEF ListsOK
<1>11. DetailOK(sending', drill', resolved')
  BY <1>1, <1>2 DEF DetailOK
<1> QED
  BY <1>1, <1>10, <1>11, SamePlace

-----------------------------------------------------------------------------
(* What the server does.                                                   *)
LEMMA UnreadIs == Unread = Cardinality(Opens(entries)) /\ Unread' = Cardinality(Opens(entries'))
BY DEF Unread, Opens

LEMMA MovedKeeps ==
  ASSUME FeedsInv, Moves(entries, written, entries', written'), OnTop(written, late, written', late'),
         Outdates(Lists),
         UNCHANGED <<place, feeds, drill, resolved, mixed, sending>>
  PROVE  FeedsInv'
<1>1. outdated \subseteq outdated'
  BY DEF Outdates
<1>2. \A l \in Lists : place # "audit" /\ l \notin outdated' =>
        Cardinality(Opens(entries')) = Cardinality(Opens(entries))
  BY UnreadIs DEF Outdates
<1>3. ListsOK(entries', written', feeds, sending, mixed, outdated', late')
  BY <1>1, <1>2, InvFacts, OthersKeep
<1> QED
  BY <1>3, InvFacts, SamePlace

LEMMA NewEntryKeeps ==
  ASSUME FeedsInv, NEW k \in 1 .. MaxEntries, NEW s \in Sort, NewEntry(k, s)
  PROVE  FeedsInv'
<1>1. /\ k \notin written /\ written' = written \cup {k}
      /\ entries' = Over(entries, [d \in {k} |-> s])
      /\ place # "audit" => s = "open"
      /\ late' = IF \E d \in written : d > k THEN late \cup {k} ELSE late
  BY DEF NewEntry
<1>2. Moves(entries, written, entries', written')
  BY <1>1, InvFacts, NewMoves
<1>3. OnTop(written, late, written', late')
  <2> SUFFICES ASSUME k \notin late', NEW d \in written PROVE d < k
    BY <1>1 DEF OnTop
  <2>1. d \in 1 .. MaxEntries /\ d # k /\ ~(d > k)
    BY <1>1, InvFacts
  <2> QED
    BY <2>1
<1> QED
  BY <1>2, <1>3, MovedKeeps DEF NewEntry

LEMMA ElsewhereKeeps == ASSUME FeedsInv, NEW cutoff, Elsewhere(cutoff) PROVE FeedsInv'
<1>1. Moves(entries, written, entries', written)
  <2>1. CASE place = "notifications" /\ entries' = Archived(cutoff)
    BY <2>1, InvFacts, ArchiveMoves
  <2>2. CASE \E e \in DOMAIN entries : entries' = [entries EXCEPT ![e] = "closed"]
    <3>1. PICK e \in DOMAIN entries : entries' = [entries EXCEPT ![e] = "closed"]
      BY <2>2
    <3>2. place # "audit"
      BY DEF Elsewhere
    <3> QED
      BY <3>1, <3>2, InvFacts, CloseMoves
  <2> QED
    BY <2>1, <2>2 DEF Elsewhere
<1>2. OnTop(written, late, written, late)
  BY DEF OnTop
<1> QED
  BY <1>1, <1>2, MovedKeeps DEF Elsewhere, InBrowser

LEMMA DetailServed ==
  ASSUME NEW q, NEW n, AsksOK(q, n), q # <<>>, NEW s, AskOK(s, n), SameAsk(s, q[1]),
         NEW d, NEW k, DetailOK(q, d, k)
  PROVE  DetailOK([q EXCEPT ![1] = s], d, k)
<1> DEFINE p == [q EXCEPT ![1] = s]
<1>1. /\ DOMAIN p = DOMAIN q /\ 1 \in DOMAIN q
      /\ p[1] = s /\ \A i \in DOMAIN q : i # 1 => p[i] = q[i]
  BY AskServed
<1> HIDE DEF p
<1>2. AskOK(q[1], n)
  BY <1>1 DEF AsksOK
<1>3. s.kind = q[1].kind /\ (q[1].kind = "resolve" => s.live = q[1].live /\ s.id = q[1].id)
  BY <1>2, SameQuestion
<1> QED
  BY <1>1, <1>3 DEF DetailOK, p

(* The first request becomes s.                                            *)
LEMMA BecomesKeeps ==
  ASSUME FeedsInv, sending # <<>>, NEW s, Becomes(s),
         AskOK(s, written), SameAsk(s, sending[1]),
         Moves(entries, written, entries', written),
         UNCHANGED <<place, written, late, feeds, drill, resolved, mixed>>,
         place = "notifications" => AskTold(s, entries'),
         \A l \in Lists : l \notin outdated' /\ l # sending[1].list =>
           l \notin outdated /\ (place # "audit" => Cardinality(Opens(entries')) = Cardinality(Opens(entries))),
         place = "renewals" /\ sending[1].list \notin outdated' =>
           \/ s.kind = "fetch" /\ s.at = "answered" /\ s.ok /\ s.reset
           \/ /\ sending[1].list \notin outdated /\ sending[1].at = "sent"
              /\ Cardinality(Opens(entries')) = Cardinality(Opens(entries)),
         \A l \in Lists \ mixed : l = sending[1].list /\ place = "notifications" /\ l \notin outdated' =>
           Counts(feeds[l], sending', entries', l),
         PageFits(sending', entries', outdated', late')
  PROVE  FeedsInv'
<1>1. sending' = [sending EXCEPT ![1] = s]
  BY DEF Becomes
<1>2. ListsOK(entries', written, feeds, sending', mixed, outdated', late)
  BY <1>1, InvFacts, ServedKeeps
<1>3. DetailOK(sending', drill, resolved)
  BY <1>1, InvFacts, DetailServed
<1> QED
  BY <1>2, <1>3, SamePlace

(* What r becomes: an answer, a refusal, a failure.                        *)
Answers(s, r) ==
  /\ SameAsk(s, r) /\ s.at = "answered" /\ {"ok", "at"} \subseteq DOMAIN s
  /\ s.kind = r.kind /\ s.list = r.list

LEMMA AcceptedAsk ==
  ASSUME NEW r, NEW n, AskOK(r, n), r.at = "sent", NEW a
  PROVE  LET s == Accepted(r, a) IN
         /\ Answers(s, r) /\ s.ok /\ s.ok \in BOOLEAN
         /\ "thrown" \notin DOMAIN a => "thrown" \notin DOMAIN s
         /\ "page" \in DOMAIN a => "page" \in DOMAIN s /\ s.page = a.page
<1> DEFINE s == Accepted(r, a)
<1>1. "at" \in DOMAIN r /\ {"ok", "thrown", "page"} \cap DOMAIN r = {}
  BY DEF AskOK, AnswerOK
<1>2. Granted(s, r, a)
  BY <1>1, AcceptedIs
<1> HIDE DEF s
<1>3. SameAsk(s, r)
  BY <1>2 DEF Granted, SameAsk
<1>4. s.kind = r.kind /\ s.list = r.list
  BY <1>3, SameQuestion
<1> QED
  BY <1>1, <1>2, <1>3, <1>4 DEF Granted, Answers, s

LEMMA RefusedAsk ==
  ASSUME NEW r, NEW n, AskOK(r, n), r.at = "sent"
  PROVE  Answers(Refused(r), r) /\ Refused(r).ok = FALSE /\ "thrown" \notin DOMAIN Refused(r)
<1> DEFINE s == Refused(r)
<1>1. "at" \in DOMAIN r /\ {"ok", "thrown", "page"} \cap DOMAIN r = {}
  BY DEF AskOK, AnswerOK
<1>2. /\ DOMAIN s = DOMAIN r \cup {"ok"}
      /\ s.at = "answered" /\ s.ok = FALSE
      /\ \A x \in DOMAIN r \ {"at"} : s[x] = r[x]
  BY <1>1, RefusedIs
<1> HIDE DEF s
<1>3. SameAsk(s, r)
  BY <1>2 DEF SameAsk
<1>4. s.kind = r.kind /\ s.list = r.list
  BY <1>3, SameQuestion
<1> QED
  BY <1>1, <1>2, <1>3, <1>4 DEF Answers, s

LEMMA FailedAsk ==
  ASSUME NEW r, NEW n, AskOK(r, n), NEW s, Failed(s, r)
  PROVE  /\ Answers(s, r) /\ s.ok = FALSE /\ "thrown" \in DOMAIN s
         /\ AskOK(s, n)
<1>1. /\ DOMAIN s = DOMAIN r \cup {"ok", "thrown"}
      /\ s.at = "answered" /\ s.ok = FALSE
  BY DEF Failed
<1>2. SameAsk(s, r)
  BY DEF SameAsk, Failed
<1>3. s.kind = r.kind /\ s.list = r.list
  BY <1>2, SameQuestion
<1>4. AskOK(s, n)
  BY <1>1, <1>2, AnswerIsAsk
<1>5. "at" \in DOMAIN r
  BY DEF AskOK, AnswerOK
<1> QED
  BY <1>1, <1>2, <1>3, <1>4, <1>5 DEF Answers

LEMMA FailedTold ==
  ASSUME NEW r, NEW n, AskOK(r, n), NEW s, Failed(s, r), NEW es, AskTold(r, es)
  PROVE  AskTold(s, es)
<1>1. Answers(s, r) /\ s.ok = FALSE /\ "thrown" \in DOMAIN s
  BY FailedAsk
<1>2. s.kind = r.kind /\ (r.kind \in {"fetch", "mark", "markAll"} => s.base = r.base)
  BY <1>1, SameQuestion DEF Answers
<1> QED
  BY <1>1, <1>2 DEF AskTold

LEMMA ServePageKeeps == ASSUME FeedsInv, ServePage PROVE FeedsInv'
<1> DEFINE r == sending[1]
           page == PageOf(r.filter, r.cursor)
           a == [page |-> page]
           s == Accepted(r, a)
<1>1. /\ sending # <<>> /\ r.kind = "fetch" /\ r.at = "sent" /\ Becomes(s)
      /\ outdated' = IF r.reset THEN outdated \ {r.list} ELSE outdated
      /\ entries' = entries /\ UNCHANGED <<place, written, late, feeds, drill, resolved, mixed>>
  BY DEF ServePage, InFlight, InBrowser
<1>2. AskOK(r, written) /\ 1 \in DOMAIN sending
  BY <1>1, InvFacts, FirstAsk
<1>3. /\ r.cursor \in written \cup {0} /\ r.filter \in ListFilter /\ r.reset \in BOOLEAN
      /\ r.reset <=> r.cursor = 0
      /\ r.list \in Lists /\ ItemsOK(r.base, written)
  BY <1>1, <1>2 DEF AskOK, AnswerOK, FetchOK
<1> HIDE DEF r
<1>4. /\ PageOK(page, written, r.cursor)
      /\ page.unread = Cardinality(Opens(entries))
      /\ OpenShown(page.items, entries) /\ Told(page.items, entries)
      /\ Covers(page.items, entries, r.filter, r.cursor, page.next = 0, late)
  BY <1>3, InvFacts, PageIs
<1> HIDE DEF page
<1>5. DOMAIN a = {"page"} /\ a.page = page
  OBVIOUS
<1> HIDE DEF a
<1>6. /\ Answers(s, r) /\ s.ok /\ s.ok \in BOOLEAN /\ "thrown" \notin DOMAIN s
      /\ "page" \in DOMAIN s /\ s.page = page
  BY <1>1, <1>2, <1>5, AcceptedAsk
<1>7. sending' = [sending EXCEPT ![1] = s]
  BY <1>1 DEF Becomes
<1> HIDE DEF s
<1>8. AskOK(s, written)
  BY <1>2, <1>4, <1>6, AnswerIsAsk DEF Answers
<1>9. s.base = r.base /\ s.reset = r.reset /\ s.cursor = r.cursor /\ s.filter = r.filter
  BY <1>1, <1>2, <1>6, SameQuestion DEF Answers
<1>10. sending'[1] = s /\ sending' # <<>>
  BY <1>1, <1>7, <1>8, InvFacts, AskServed
<1>11. PageFits(sending', entries', outdated', late')
  BY <1>1, <1>4, <1>6, <1>9, <1>10 DEF PageFits
<1>12. place = "notifications" => AskTold(s, entries')
  <2> SUFFICES ASSUME place = "notifications" PROVE AskTold(s, entries)
    BY <1>1
  <2>1. AskTold(r, entries)
    BY <1>2, InvFacts DEF AllTold, r
  <2> QED
    BY <1>1, <1>4, <1>6, <1>9, <2>1 DEF AskTold, Answers
<1>13. ASSUME NEW l \in Lists \ mixed, l = r.list, place = "notifications", l \notin outdated'
       PROVE  Counts(feeds[l], sending', entries', l)
  <2>1. ~r.reset => OpenShown(feeds[l].items, entries)
    <3> SUFFICES ASSUME ~r.reset PROVE OpenShown(feeds[l].items, entries)
      OBVIOUS
    <3>1. l \notin outdated
      BY <1>1, <1>13
    <3>2. Counts(feeds[l], sending, entries, l) /\ ~Done(sending, l)
      BY <1>1, <1>13, <3>1, InvFacts DEF ListsOK, Calm, Done, r
    <3> QED
      BY <3>2 DEF Counts
  <2>2. Done(sending', l)
    BY <1>1, <1>6, <1>10, <1>13 DEF Done, Answers
  <2> QED
    BY <1>1, <1>6, <1>9, <1>10, <2>1, <2>2 DEF Counts, Answers
<1>14. Moves(entries, written, entries', written)
  BY <1>1, InvFacts, SameMoves
<1> QED
  BY <1>1, <1>3, <1>6, <1>8, <1>9, <1>11, <1>12, <1>13, <1>14, BecomesKeeps DEF r, Answers

LEMMA ServeMarkKeeps == ASSUME FeedsInv, ServeMark PROVE FeedsInv'
<1> DEFINE r == sending[1]
           a == Accepted(r, <<>>)
           b == Refused(r)
           s == IF r.id \in DOMAIN entries THEN a ELSE b
<1>1. /\ sending # <<>> /\ r.kind = "mark" /\ r.at = "sent" /\ Becomes(s)
      /\ entries' = IF r.id \in DOMAIN entries THEN [entries EXCEPT ![r.id] = "closed"] ELSE entries
      /\ Outdates(Lists \ {r.list})
      /\ UNCHANGED <<place, written, late, feeds, drill, resolved, mixed>>
  BY DEF ServeMark, InFlight, InBrowser
<1>2. AskOK(r, written) /\ 1 \in DOMAIN sending
  BY <1>1, InvFacts, FirstAsk
<1>3. /\ place = "notifications" /\ r.list \in Lists /\ r.id \in written /\ r.count \in Nat
      /\ \E i \in DOMAIN r.base : r.base[i].id = r.id /\ r.base[i].sort = "open"
  BY <1>1, <1>2 DEF AskOK, AnswerOK, MarkOK
<1> HIDE DEF r
<1>4. Answers(a, r) /\ a.ok /\ a.ok \in BOOLEAN /\ "thrown" \notin DOMAIN a
  BY <1>1, <1>2, AcceptedAsk, ListedEmpty
<1>5. Answers(b, r) /\ b.ok = FALSE /\ "thrown" \notin DOMAIN b
  BY <1>1, <1>2, RefusedAsk
<1> HIDE DEF a, b
<1>6. Answers(s, r) /\ s.ok \in BOOLEAN /\ "thrown" \notin DOMAIN s
  BY <1>4, <1>5
<1>7. sending' = [sending EXCEPT ![1] = s]
  BY <1>1 DEF Becomes
<1> HIDE DEF s
<1>8. AskOK(s, written)
  BY <1>1, <1>2, <1>6, AnswerIsAsk DEF Answers
<1>9. s.kind = "mark" /\ s.list = r.list /\ s.base = r.base /\ s.id = r.id /\ s.count = r.count
  BY <1>1, <1>2, <1>6, SameQuestion DEF Answers
<1>10. sending'[1] = s /\ sending' # <<>>
  BY <1>1, <1>7, <1>8, InvFacts, AskServed
<1>11. /\ Moves(entries, written, entries', written)
       /\ Opens(entries') = Opens(entries) \ {r.id}
       /\ r.id \in Opens(entries) => Cardinality(Opens(entries')) = Cardinality(Opens(entries)) - 1
  <2>1. CASE r.id \in DOMAIN entries
    BY <1>1, <1>3, <2>1, InvFacts, CloseMoves
  <2>2. CASE r.id \notin DOMAIN entries
    <3>1. entries' = entries /\ r.id \notin Opens(entries)
      BY <1>1, <2>2 DEF Opens
    <3> QED
      BY <3>1, InvFacts, SameMoves
  <2> QED
    BY <2>1, <2>2
<1>12. PageFits(sending', entries', outdated', late')
  BY <1>9, <1>10 DEF PageFits, Fetched
<1>13. AskTold(s, entries')
  <2>1. AskTold(r, entries)
    BY <1>2, <1>3, InvFacts DEF AllTold, r
  <2>2. AskTold(r, entries')
    BY <1>2, <1>11, <2>1, InvFacts, AskToldKept
  <2> QED
    BY <1>1, <1>9, <1>11, <2>2 DEF AskTold
<1>14. ASSUME NEW l \in Lists \ mixed, l = r.list, l \notin outdated'
       PROVE  Counts(feeds[l], sending', entries', l)
  <2>1. l \notin outdated
    BY <1>1, <1>14 DEF Outdates
  <2>2. Calm(feeds[l], sending, entries, l, outdated, late)
    BY InvFacts DEF ListsOK
  <2>3. Counts(feeds[l], sending, entries, l) /\ ~Done(sending, l)
    BY <1>1, <1>3, <2>1, <2>2 DEF Calm, Done, r
  <2>4. feeds[l].unread = Cardinality(Opens(entries)) /\ OpenShown(feeds[l].items, entries)
    BY <2>3 DEF Counts
  <2>5. r.base = feeds[l].items /\ r.count = feeds[l].unread
    BY <1>1, <1>2, <1>14, <2>2 DEF Calm, MadeOf, r
  <2>6. r.id \in Opens(entries)
    BY <1>3, <2>4, <2>5 DEF OpenShown
  <2>7. Cardinality(Opens(entries')) = s.count - 1
    BY <1>9, <1>11, <2>4, <2>5, <2>6
  <2>8. \A i \in DOMAIN feeds[l].items :
          feeds[l].items[i].sort = "open" => feeds[l].items[i].id \in Opens(entries') \cup {s.id}
    BY <1>9, <1>11, <2>4 DEF OpenShown
  <2>9. Done(sending', l)
    BY <1>6, <1>9, <1>10, <1>14 DEF Done, Answers
  <2> QED
    BY <1>9, <1>10, <2>7, <2>8, <2>9 DEF Counts
<1>15. \A l \in Lists : l \notin outdated' /\ l # r.list =>
         l \notin outdated /\ Cardinality(Opens(entries')) = Cardinality(Opens(entries))
  BY <1>1, UnreadIs DEF Outdates
<1> QED
  BY <1>1, <1>3, <1>6, <1>8, <1>11, <1>12, <1>13, <1>14, <1>15, BecomesKeeps DEF r, Answers

LEMMA ServeMarkAllKeeps == ASSUME FeedsInv, ServeMarkAll PROVE FeedsInv'
<1> DEFINE r == sending[1]
           s == Accepted(r, <<>>)
<1>1. /\ sending # <<>> /\ r.kind = "markAll" /\ r.at = "sent" /\ Becomes(s)
      /\ entries' = [e \in DOMAIN entries |-> "closed"]
      /\ Outdates(Lists \ {r.list})
      /\ UNCHANGED <<place, written, late, feeds, drill, resolved, mixed>>
  BY DEF ServeMarkAll, InFlight, InBrowser
<1>2. AskOK(r, written) /\ 1 \in DOMAIN sending
  BY <1>1, InvFacts, FirstAsk
<1>3. place = "notifications" /\ r.list \in Lists
  BY <1>1, <1>2 DEF AskOK, AnswerOK
<1> HIDE DEF r
<1>4. Answers(s, r) /\ s.ok /\ s.ok \in BOOLEAN /\ "thrown" \notin DOMAIN s
  BY <1>1, <1>2, AcceptedAsk, ListedEmpty
<1>5. sending' = [sending EXCEPT ![1] = s]
  BY <1>1 DEF Becomes
<1> HIDE DEF s
<1>6. AskOK(s, written)
  BY <1>1, <1>2, <1>4, AnswerIsAsk DEF Answers
<1>7. s.kind = "markAll" /\ s.list = r.list /\ s.base = r.base
  BY <1>1, <1>2, <1>4, SameQuestion DEF Answers
<1>8. sending'[1] = s /\ sending' # <<>>
  BY <1>1, <1>5, <1>6, InvFacts, AskServed
<1>9. /\ Moves(entries, written, entries', written)
      /\ Opens(entries') = {} /\ Cardinality(Opens(entries')) = 0
  BY <1>1, <1>3, InvFacts, CloseAllMoves
<1>10. PageFits(sending', entries', outdated', late')
  BY <1>7, <1>8 DEF PageFits, Fetched
<1>11. AskTold(s, entries')
  <2>1. AskTold(r, entries)
    BY <1>2, <1>3, InvFacts DEF AllTold, r
  <2>2. AskTold(r, entries')
    BY <1>2, <1>9, <2>1, InvFacts, AskToldKept
  <2> QED
    BY <1>1, <1>7, <1>9, <2>2 DEF AskTold
<1>12. ASSUME NEW l \in Lists, l = r.list PROVE Counts(feeds[l], sending', entries', l)
  <2>1. Done(sending', l)
    BY <1>4, <1>7, <1>8, <1>12 DEF Done, Answers
  <2> QED
    BY <1>7, <1>8, <1>9, <2>1 DEF Counts
<1>13. \A l \in Lists : l \notin outdated' /\ l # r.list =>
         l \notin outdated /\ Cardinality(Opens(entries')) = Cardinality(Opens(entries))
  BY <1>1, UnreadIs DEF Outdates
<1> QED
  BY <1>1, <1>3, <1>4, <1>6, <1>9, <1>10, <1>11, <1>12, <1>13, BecomesKeeps DEF r, Answers

LEMMA ServeArchiveKeeps == ASSUME FeedsInv, NEW cutoff, ServeArchive(cutoff) PROVE FeedsInv'
<1> DEFINE r == sending[1]
           a == Accepted(r, <<>>)
           b == Refused(r)
<1>1. /\ sending # <<>> /\ r.kind = "archive" /\ r.at = "sent"
      /\ \/ entries' = Archived(cutoff) /\ Becomes(a)
         \/ entries' = entries /\ Becomes(b)
      /\ outdated' = outdated
      /\ UNCHANGED <<place, written, late, feeds, drill, resolved, mixed>>
  BY DEF ServeArchive, InFlight, InBrowser
<1>2. AskOK(r, written) /\ 1 \in DOMAIN sending
  BY <1>1, InvFacts, FirstAsk
<1>3. place = "notifications" /\ r.list \in Lists
  BY <1>1, <1>2 DEF AskOK, AnswerOK
<1> HIDE DEF r
<1>4. Answers(a, r) /\ a.ok /\ a.ok \in BOOLEAN /\ "thrown" \notin DOMAIN a
  BY <1>1, <1>2, AcceptedAsk, ListedEmpty
<1>5. Answers(b, r) /\ b.ok = FALSE /\ "thrown" \notin DOMAIN b
  BY <1>1, <1>2, RefusedAsk
<1> HIDE DEF a, b
<1>6. PICK s \in {a, b} : Becomes(s)
  BY <1>1
<1>7. Answers(s, r) /\ s.ok \in BOOLEAN /\ "thrown" \notin DOMAIN s
  BY <1>4, <1>5, <1>6
<1>8. AskOK(s, written)
  BY <1>1, <1>2, <1>7, AnswerIsAsk DEF Answers
<1>9. s.kind = "archive" /\ s.list = r.list
  BY <1>1, <1>7 DEF Answers
<1>10. sending'[1] = s /\ sending' # <<>>
  BY <1>1, <1>6, <1>8, InvFacts, AskServed DEF Becomes
<1>11. Moves(entries, written, entries', written) /\ Opens(entries') = Opens(entries)
  BY <1>1, <1>3, InvFacts, ArchiveMoves, SameMoves
<1>12. PageFits(sending', entries', outdated', late')
  BY <1>9, <1>10 DEF PageFits, Fetched
<1>13. AskTold(s, entries')
  BY <1>9 DEF AskTold
<1>14. ASSUME NEW l \in Lists \ mixed, l \notin outdated' PROVE Counts(feeds[l], sending', entries', l)
  <2>1. Counts(feeds[l], sending, entries, l) /\ ~Done(sending, l)
    BY <1>1, <1>3, <1>14, InvFacts DEF ListsOK, Calm, Done, r
  <2>2. ~Done(sending', l)
    BY <1>9, <1>10 DEF Done
  <2> QED
    BY <1>11, <2>1, <2>2 DEF Counts, OpenShown
<1> QED
  BY <1>1, <1>3, <1>6, <1>7, <1>8, <1>11, <1>12, <1>13, <1>14, BecomesKeeps DEF r, Answers

LEMMA ServeResolveKeeps == ASSUME FeedsInv, ServeResolve PROVE FeedsInv'
<1> DEFINE r == sending[1]
           s == Accepted(r, <<>>)
<1>1. /\ sending # <<>> /\ r.kind = "resolve" /\ r.at = "sent" /\ Becomes(s)
      /\ entries' = entries /\ outdated' = outdated
      /\ UNCHANGED <<place, written, late, feeds, drill, resolved, mixed>>
  BY DEF ServeResolve, InFlight, InBrowser
<1>2. AskOK(r, written)
  BY <1>1, InvFacts, FirstAsk
<1>3. r.list \notin Lists
  BY <1>1, <1>2, InvFacts, WhichLists DEF AskOK, AnswerOK
<1> HIDE DEF r
<1>4. Answers(s, r) /\ s.ok /\ s.ok \in BOOLEAN /\ "thrown" \notin DOMAIN s
  BY <1>1, <1>2, AcceptedAsk, ListedEmpty
<1>5. sending' = [sending EXCEPT ![1] = s]
  BY <1>1 DEF Becomes
<1> HIDE DEF s
<1>6. AskOK(s, written)
  BY <1>1, <1>2, <1>4, AnswerIsAsk DEF Answers
<1>7. sending'[1] = s /\ s.kind = "resolve"
  BY <1>1, <1>4, <1>5, <1>6, InvFacts, AskServed DEF Answers
<1>8. PageFits(sending', entries', outdated', late')
  BY <1>7 DEF PageFits, Fetched
<1>9. AskTold(s, entries')
  BY <1>7 DEF AskTold
<1>10. Moves(entries, written, entries', written)
  BY <1>1, InvFacts, SameMoves
<1> QED
  BY <1>1, <1>3, <1>4, <1>6, <1>8, <1>9, <1>10, BecomesKeeps DEF r, Answers

(* A request fails, or its answer is lost.                                 *)
LEMMA FailedKeeps ==
  ASSUME FeedsInv, sending # <<>>, NEW s, Becomes(s), Failed(s, sending[1]),
         UNCHANGED <<place, entries, written, late, feeds, drill, resolved, mixed>>,
         outdated \subseteq outdated',
         sending[1].at = "sent" \/ sending[1].list \in outdated'
  PROVE  FeedsInv'
<1> DEFINE r == sending[1]
<1>1. AskOK(r, written) /\ 1 \in DOMAIN sending
  BY InvFacts, FirstAsk
<1>2. Answers(s, r) /\ s.ok = FALSE /\ "thrown" \in DOMAIN s /\ AskOK(s, written)
  BY <1>1, FailedAsk
<1>3. sending'[1] = s
  BY <1>2, InvFacts, AskServed DEF Becomes
<1>4. place = "notifications" => AskTold(s, entries')
  <2> SUFFICES ASSUME place = "notifications" PROVE AskTold(s, entries)
    OBVIOUS
  <2>1. AskTold(r, entries)
    BY <1>1, InvFacts DEF AllTold
  <2> QED
    BY <1>1, <2>1, FailedTold
<1>5. ASSUME NEW l \in Lists \ mixed, l = r.list, place = "notifications", l \notin outdated'
      PROVE  Counts(feeds[l], sending', entries', l)
  <2>1. r.at = "sent" /\ l \notin outdated
    BY <1>5
  <2>2. Counts(feeds[l], sending, entries, l) /\ ~Done(sending, l)
    BY <1>5, <2>1, InvFacts DEF ListsOK, Calm, Done
  <2>3. ~Done(sending', l)
    BY <1>2, <1>3 DEF Done
  <2> QED
    BY <2>2, <2>3 DEF Counts
<1>6. PageFits(sending', entries', outdated', late')
  BY <1>2, <1>3 DEF PageFits, Fetched
<1>7. Moves(entries, written, entries', written)
  BY InvFacts, SameMoves
<1> QED
  BY <1>2, <1>4, <1>5, <1>6, <1>7, BecomesKeeps DEF Answers

LEMMA FailRequestKeeps ==
  ASSUME FeedsInv, FailRequest, UNCHANGED <<entries, outdated>>, InBrowser
  PROVE  FeedsInv'
<1>1. sending # <<>> /\ sending[1].at # "answered" /\ Becomes(Rejected(sending[1]))
  BY DEF FailRequest
<1>2. AskOK(sending[1], written)
  BY <1>1, InvFacts, FirstAsk
<1>3. sending[1].at = "sent" /\ "at" \in DOMAIN sending[1] /\ "ok" \notin DOMAIN sending[1]
  BY <1>1, <1>2 DEF AskOK, AnswerOK
<1>4. Failed(Rejected(sending[1]), sending[1])
  BY <1>3, RejectedIs
<1> QED
  BY <1>1, <1>3, <1>4, FailedKeeps DEF InBrowser

LEMMA LoseListAnswerKeeps == ASSUME FeedsInv, LoseListAnswer PROVE FeedsInv'
<1> DEFINE s == Over([sending[1] EXCEPT !.ok = FALSE], [thrown |-> TRUE])
<1>1. /\ sending # <<>> /\ sending[1].at = "answered" /\ Becomes(s)
      /\ outdated' = outdated \cup {sending[1].list} /\ UNCHANGED entries /\ InBrowser
  BY DEF LoseListAnswer, LoseAnswer
<1>2. AskOK(sending[1], written)
  BY <1>1, InvFacts, FirstAsk
<1>3. "at" \in DOMAIN sending[1] /\ "ok" \in DOMAIN sending[1]
  BY <1>1, <1>2 DEF AskOK, AnswerOK
<1>4. Failed(s, sending[1])
  BY <1>1, <1>3, LostIs
<1> HIDE DEF s
<1> QED
  BY <1>1, <1>4, FailedKeeps DEF InBrowser

-----------------------------------------------------------------------------
(* What an answer makes of the rows that are shown.                        *)
LEMMA ListedFacts ==
  ASSUME NEW s, Listed(s)
  PROVE  DOMAIN s = 1 .. Len(s) /\ Len(s) \in Nat /\ (s = <<>> <=> Len(s) = 0)
<1>1. DOMAIN s = 1 .. Len(s) /\ Len(s) \in Nat
  BY ListedIs DEF Listed
<1>2. s = <<>> <=> Len(s) = 0
  BY ListedTail, ListedEmpty
<1> QED
  BY <1>1, <1>2

LEMMA ListedIn ==
  ASSUME NEW s, NEW R, Listed(s), \A i \in DOMAIN s : s[i] \in R
  PROVE  s \in Seq(R)
<1> DEFINE S == {s[i] : i \in DOMAIN s}
<1>1. s \in Seq(S)
  BY DEF Listed
<1>2. S \subseteq R
  OBVIOUS
<1> HIDE DEF S
<1> QED
  BY <1>1, <1>2

Joined(c, a, b, n) ==
  /\ ItemsOK(c, n) /\ Len(c) = Len(a) + Len(b) /\ DOMAIN c = 1 .. Len(a) + Len(b)
  /\ Len(a) \in Nat /\ Len(b) \in Nat
  /\ \A i \in DOMAIN a : c[i] = a[i]
  /\ \A i \in DOMAIN b : i + Len(a) \in DOMAIN c /\ c[i + Len(a)] = b[i]
  /\ \A i \in DOMAIN c : i \in DOMAIN a \/ (i - Len(a) \in DOMAIN b /\ c[i] = b[i - Len(a)])
  /\ \A i \in DOMAIN c : i \in DOMAIN a => c[i] = a[i]
  /\ c = <<>> <=> a = <<>> /\ b = <<>>

LEMMA ItemsJoined ==
  ASSUME NEW a, NEW b, NEW n, ItemsOK(a, n), ItemsOK(b, n)
  PROVE  Joined(a \o b, a, b, n)
<1> DEFINE R == [id : n, sort : Sort]
           c == a \o b
<1>1. /\ DOMAIN a = 1 .. Len(a) /\ Len(a) \in Nat /\ (a = <<>> <=> Len(a) = 0)
      /\ DOMAIN b = 1 .. Len(b) /\ Len(b) \in Nat /\ (b = <<>> <=> Len(b) = 0)
  BY ListedFacts DEF ItemsOK
<1>2. a \in Seq(R) /\ b \in Seq(R)
  BY ListedIn DEF ItemsOK
<1> HIDE DEF R
<1>3. c \in Seq(R) /\ Len(c) = Len(a) + Len(b)
  BY <1>2
<1>4. DOMAIN c = 1 .. Len(a) + Len(b) /\ \A i \in DOMAIN c : c[i] \in R
  BY <1>1, <1>3
<1>5. \A i \in 1 .. Len(a) + Len(b) : c[i] = IF i <= Len(a) THEN a[i] ELSE b[i - Len(a)]
  BY <1>2
<1>6. Listed(c)
  BY <1>3, ListedIs
<1> HIDE DEF c
<1>7. ItemsOK(c, n)
  BY <1>4, <1>6 DEF ItemsOK, R
<1>8. c = <<>> <=> Len(c) = 0
  BY <1>6, ListedFacts
<1>9. \A i \in DOMAIN a : c[i] = a[i]
  BY <1>1, <1>5
<1>10. \A i \in DOMAIN b : i + Len(a) \in DOMAIN c /\ c[i + Len(a)] = b[i]
  <2> TAKE i \in DOMAIN b
  <2>1. i + Len(a) \in 1 .. Len(a) + Len(b) /\ ~(i + Len(a) <= Len(a)) /\ i + Len(a) - Len(a) = i
    BY <1>1
  <2> QED
    BY <1>4, <1>5, <2>1
<1>11. \A i \in DOMAIN c : i \in DOMAIN a \/ (i - Len(a) \in DOMAIN b /\ c[i] = b[i - Len(a)])
  BY <1>1, <1>4, <1>5
<1>12. c = <<>> <=> a = <<>> /\ b = <<>>
  BY <1>1, <1>3, <1>8
<1> QED
  BY <1>1, <1>3, <1>4, <1>7, <1>9, <1>10, <1>11, <1>12 DEF c, Joined

LEMMA ToldJoined ==
  ASSUME NEW a, NEW b, NEW n, ItemsOK(a, n), ItemsOK(b, n), NEW es
  PROVE  /\ Told(a, es) /\ Told(b, es) => Told(a \o b, es)
         /\ OpenShown(a, es) /\ OpenShown(b, es) => OpenShown(a \o b, es)
<1> DEFINE c == a \o b
<1>0. Joined(c, a, b, n)
  BY ItemsJoined
<1> HIDE DEF c
<1>1. /\ \A i \in DOMAIN a : c[i] = a[i]
      /\ \A i \in DOMAIN c : i \in DOMAIN a \/ (i - Len(a) \in DOMAIN b /\ c[i] = b[i - Len(a)])
  BY <1>0 DEF Joined
<1>2. Told(a, es) /\ Told(b, es) => Told(c, es)
  BY <1>1 DEF Told
<1>3. OpenShown(a, es) /\ OpenShown(b, es) => OpenShown(c, es)
  BY <1>1 DEF OpenShown
<1> QED
  BY <1>2, <1>3 DEF c

(* What is shown down to the cursor, and a page of what is behind it.      *)
Added(c, a, page, es, filter, cursor, lt) ==
  /\ c # <<>> /\ Falling(c)
  /\ page.next # 0 => page.next = c[Len(c)].id
  /\ /\ Covers(a, es, filter, 0, FALSE, lt)
     /\ Covers(page.items, es, filter, cursor, page.next = 0, lt)
     => Covers(c, es, filter, 0, page.next = 0, lt)

LEMMA CoversJoined ==
  ASSUME place \in Place, NEW a, NEW page, NEW n, n \subseteq 1 .. MaxEntries, ItemsOK(a, n), Falling(a),
         NEW cursor \in 1 .. MaxEntries, a # <<>>, cursor = a[Len(a)].id, PageOK(page, n, cursor),
         NEW es, DOMAIN es \subseteq 1 .. MaxEntries, NEW filter, NEW lt
  PROVE  Added(a \o page.items, a, page, es, filter, cursor, lt)
<1> DEFINE b == page.items
           c == a \o b
<1>0. ItemsOK(b, n)
  BY DEF PageOK
<1>j. Joined(c, a, b, n)
  BY <1>0, ItemsJoined
<1> HIDE DEF c
<1>1. /\ ItemsOK(c, n) /\ Len(c) = Len(a) + Len(b) /\ DOMAIN c = 1 .. Len(a) + Len(b)
      /\ Len(a) \in Nat /\ Len(b) \in Nat
      /\ \A i \in DOMAIN a : c[i] = a[i]
      /\ \A i \in DOMAIN b : i + Len(a) \in DOMAIN c /\ c[i + Len(a)] = b[i]
      /\ \A i \in DOMAIN c : i \in DOMAIN a \/ (i - Len(a) \in DOMAIN b /\ c[i] = b[i - Len(a)])
      /\ c = <<>> <=> a = <<>> /\ b = <<>>
  BY <1>j DEF Joined
<1>2. /\ DOMAIN a = 1 .. Len(a) /\ (a = <<>> <=> Len(a) = 0)
      /\ DOMAIN b = 1 .. Len(b) /\ (b = <<>> <=> Len(b) = 0)
  BY <1>0, ListedFacts DEF ItemsOK
<1>3. /\ \A i \in DOMAIN a : a[i].id \in Nat
      /\ \A i \in DOMAIN b : b[i].id \in Nat /\ b[i].id < cursor
      /\ \A i \in DOMAIN a : a[i].id >= cursor
  <2>1. Len(a) \in DOMAIN a
    BY <1>1, <1>2
  <2>2. \A i \in DOMAIN a : i # Len(a) => a[i].id > a[Len(a)].id
    BY <1>2, <2>1 DEF Falling
  <2> QED
    BY <1>0, <2>1, <2>2 DEF ItemsOK, PageOK
<1>4. c # <<>> /\ 1 \in DOMAIN a /\ c[1] = a[1]
  BY <1>1, <1>2
<1>5. Falling(c)
  <2> SUFFICES ASSUME NEW i \in DOMAIN c, NEW j \in DOMAIN c, i < j PROVE c[i].id > c[j].id
    BY DEF Falling
  <2>1. CASE i \in DOMAIN a /\ j \in DOMAIN a
    BY <1>1, <2>1 DEF Falling
  <2>2. CASE i \in DOMAIN a /\ j \notin DOMAIN a
    <3>1. j - Len(a) \in DOMAIN b /\ c[j] = b[j - Len(a)] /\ c[i] = a[i]
      BY <1>1, <2>2
    <3>2. c[j].id < cursor /\ c[i].id >= cursor /\ c[i].id \in Nat /\ c[j].id \in Nat
      BY <1>3, <2>2, <3>1
    <3> QED
      BY <3>2
  <2>3. CASE i \notin DOMAIN a
    <3>1. j \notin DOMAIN a /\ i - Len(a) < j - Len(a)
      BY <1>1, <1>2, <2>3
    <3> QED
      BY <1>1, <2>3, <3>1 DEF PageOK, Falling
  <2> QED
    BY <2>1, <2>2, <2>3
<1>6. b # <<>> => c[Len(c)] = b[Len(b)]
  <2> SUFFICES ASSUME b # <<>> PROVE c[Len(c)] = b[Len(b)]
    OBVIOUS
  <2>1. Len(b) \in DOMAIN b
    BY <1>1, <1>2
  <2>2. c[Len(b) + Len(a)] = b[Len(b)] /\ Len(b) + Len(a) = Len(c)
    BY <1>1, <2>1
  <2> QED
    BY <2>2
<1>7. page.next # 0 => b # <<>> /\ page.next = c[Len(c)].id
  BY <1>6 DEF PageOK
<1>8. ASSUME Covers(a, es, filter, 0, FALSE, lt), Covers(b, es, filter, cursor, page.next = 0, lt)
      PROVE  Covers(c, es, filter, 0, page.next = 0, lt)
  <2> SUFFICES ASSUME NEW e \in Match(es, filter, 0) \ lt, e <= c[1].id,
                      page.next = 0 \/ e >= c[Len(c)].id
               PROVE  Seen(e, c)
    BY DEF Covers
  <2>1. e \in 1 .. MaxEntries /\ e \in DOMAIN es /\ (filter = Every \/ es[e] = filter)
    BY DEF Match
  <2>2. CASE e >= cursor
    <3>1. Seen(e, a)
      BY <1>4, <1>8, <2>2 DEF Covers
    <3> QED
      BY <1>1, <1>2, <3>1 DEF Seen
  <2>3. CASE e < cursor /\ AfterCursor(e, cursor)
    <3>1. e \in Match(es, filter, cursor) \ lt
      BY <2>1, <2>3 DEF Match
    <3>2. page.next = 0 \/ (b # <<>> /\ e >= b[Len(b)].id)
      BY <1>6, <1>7
    <3>3. Seen(e, b)
      BY <1>8, <3>1, <3>2 DEF Covers
    <3> QED
      BY <1>1, <3>3 DEF Seen
  <2>4. CASE e < cursor /\ ~AfterCursor(e, cursor)
    <3>1. place # "audit" /\ SameMs(e, cursor)
      BY <2>1, <2>4, CursorCuts
    <3>2. Len(a) \in DOMAIN c /\ c[Len(a)].id = cursor
      BY <1>1, <1>2
    <3> QED
      BY <2>4, <3>1, <3>2 DEF Seen
  <2> QED
    BY <2>1, <2>2, <2>3, <2>4
<1> QED
  BY <1>4, <1>5, <1>7, <1>8 DEF c, Added

(* The bell keeps the first rows of a page.                                *)
Few(c, items, n) ==
  /\ ItemsOK(c, n) /\ Len(c) \in 0 .. Len(items) /\ DOMAIN c = 1 .. Len(c)
  /\ \A i \in DOMAIN c : i \in DOMAIN items /\ c[i] = items[i]
  /\ c = <<>> <=> items = <<>>

LEMMA FewIs ==
  ASSUME NEW items, NEW n, ItemsOK(items, n)
  PROVE  Few(SubSeq(items, 1, Seqs!Min({BellLength, Len(items)})), items, n)
<1> DEFINE k == Seqs!Min({BellLength, Len(items)})
           c == SubSeq(items, 1, k)
           R == [id : n, sort : Sort]
<1>1. /\ DOMAIN items = 1 .. Len(items) /\ Len(items) \in Nat /\ (items = <<>> <=> Len(items) = 0)
  BY ListedFacts DEF ItemsOK
<1>2. BellLength \in Nat \ {0}
  BY ListAssumption
<1>3. k \in 0 .. Len(items) /\ (k = 0 <=> Len(items) = 0)
  <2>1. \E x \in {BellLength, Len(items)} : \A y \in {BellLength, Len(items)} : x <= y
    BY <1>1, <1>2
  <2>2. k \in {BellLength, Len(items)} /\ k <= BellLength /\ k <= Len(items)
    BY <2>1 DEF Seqs!Min
  <2> QED
    BY <1>1, <1>2, <2>2
<1> HIDE DEF k
<1>4. items \in Seq(R)
  BY ListedIn DEF ItemsOK
<1> HIDE DEF R
<1>5. c \in Seq(R) /\ Len(c) = k /\ \A i \in 1 .. k : c[i] = items[i]
  BY <1>3, <1>4
<1> HIDE DEF c
<1>6. DOMAIN c = 1 .. k /\ Listed(c) /\ (c = <<>> <=> k = 0)
  BY <1>5, ListedIs, ListedFacts
<1>7. \A i \in DOMAIN c : i \in DOMAIN items /\ c[i] = items[i]
  BY <1>1, <1>3, <1>5, <1>6
<1>8. ItemsOK(c, n)
  BY <1>6, <1>7 DEF ItemsOK
<1> QED
  BY <1>1, <1>3, <1>5, <1>6, <1>7, <1>8 DEF c, k, Few

LEMMA CoversFew ==
  ASSUME NEW items, NEW n, n \subseteq Nat, ItemsOK(items, n), Falling(items), NEW c, Few(c, items, n),
         NEW es, DOMAIN es \subseteq Nat, NEW filter, NEW ends, NEW lt
  PROVE  /\ Falling(c)
         /\ Covers(items, es, filter, 0, ends, lt) => Covers(c, es, filter, 0, FALSE, lt)
<1>0. /\ ItemsOK(c, n) /\ Len(c) \in 0 .. Len(items) /\ (c = <<>> <=> items = <<>>)
      /\ \A i \in DOMAIN c : i \in DOMAIN items /\ c[i] = items[i]
  BY DEF Few
<1>1. /\ DOMAIN items = 1 .. Len(items) /\ Len(items) \in Nat
      /\ DOMAIN c = 1 .. Len(c) /\ Len(c) \in Nat /\ (c = <<>> <=> Len(c) = 0)
  BY <1>0, ListedFacts DEF ItemsOK
<1>2. Falling(c)
  BY <1>0, <1>1 DEF Falling
<1>3. ASSUME Covers(items, es, filter, 0, ends, lt) PROVE Covers(c, es, filter, 0, FALSE, lt)
  <2> SUFFICES ASSUME NEW e \in Match(es, filter, 0) \ lt, c # <<>>, e <= c[1].id, e >= c[Len(c)].id
               PROVE  Seen(e, c)
    BY DEF Covers
  <2>1. /\ e \in Nat /\ 1 \in DOMAIN c /\ Len(c) \in DOMAIN c /\ Len(items) \in DOMAIN items
        /\ c[1] = items[1] /\ c[Len(c)] = items[Len(c)] /\ items # <<>>
    BY <1>0, <1>1 DEF Match
  <2>2. \A i \in DOMAIN items : items[i].id \in Nat
    BY DEF ItemsOK
  <2>3. items[Len(items)].id <= items[Len(c)].id
    BY <1>0, <1>1, <2>1, <2>2 DEF Falling
  <2>4. e >= items[Len(items)].id
    BY <1>0, <2>1, <2>2, <2>3
  <2>5. Seen(e, items)
    BY <1>3, <2>1, <2>4 DEF Covers
  <2>6. ASSUME NEW i \in DOMAIN items, e <= items[i].id PROVE i \in DOMAIN c
    <3>1. Len(c) < i => items[Len(c)].id > items[i].id
      BY <1>0, <1>1, <2>1 DEF Falling
    <3> QED
      BY <1>0, <1>1, <2>1, <2>2, <2>6, <3>1
  <2>7. CASE \E i \in DOMAIN items : items[i].id = e
    BY <1>0, <2>1, <2>6, <2>7 DEF Seen
  <2>8. CASE place # "audit" /\ \E i \in DOMAIN items : e < items[i].id /\ SameMs(e, items[i].id)
    <3>1. PICK i \in DOMAIN items : e < items[i].id /\ SameMs(e, items[i].id)
      BY <2>8
    <3>2. i \in DOMAIN c /\ c[i] = items[i]
      BY <1>0, <2>1, <2>2, <2>6, <3>1
    <3> QED
      BY <2>8, <3>1, <3>2 DEF Seen
  <2> QED
    BY <2>5, <2>7, <2>8 DEF Seen
<1> QED
  BY <1>2, <1>3

(* The rows that were marked.                                              *)
Marked(c, items, ids, n) ==
  /\ ItemsOK(c, n) /\ DOMAIN c = DOMAIN items /\ Len(c) = Len(items)
  /\ \A i \in DOMAIN items :
       /\ c[i].id = items[i].id
       /\ c[i].sort = IF items[i].id \in ids THEN "closed" ELSE items[i].sort
  /\ c = <<>> <=> items = <<>>

LEMMA AsReadIs ==
  ASSUME NEW items, NEW n, ItemsOK(items, n), NEW ids
  PROVE  Marked(AsRead(items, ids), items, ids, n)
<1> DEFINE c == AsRead(items, ids)
           R == [id : n, sort : Sort]
<1>1. /\ DOMAIN items = 1 .. Len(items) /\ Len(items) \in Nat /\ (items = <<>> <=> Len(items) = 0)
      /\ \A i \in DOMAIN items : items[i] \in R
  BY ListedFacts DEF ItemsOK
<1>2. /\ c = [i \in 1 .. Len(items) |-> c[i]]
      /\ \A i \in DOMAIN items :
           c[i] = IF items[i].id \in ids THEN [items[i] EXCEPT !.sort = "closed"] ELSE items[i]
  BY <1>1 DEF AsRead
<1> HIDE DEF c
<1>3. ASSUME NEW i \in DOMAIN items
      PROVE  /\ c[i] \in R /\ c[i].id = items[i].id
             /\ c[i].sort = IF items[i].id \in ids THEN "closed" ELSE items[i].sort
  BY <1>1, <1>2 DEF Sort
<1> HIDE DEF R
<1>4. c \in Seq(R) /\ Len(c) = Len(items) /\ DOMAIN c = DOMAIN items
  BY <1>1, <1>2, <1>3
<1>5. Listed(c) /\ (c = <<>> <=> Len(c) = 0)
  BY <1>4, ListedIs, ListedFacts
<1>6. ItemsOK(c, n)
  BY <1>3, <1>4, <1>5 DEF ItemsOK, R
<1> QED
  BY <1>1, <1>3, <1>4, <1>5, <1>6 DEF c, Marked

-----------------------------------------------------------------------------
(* What the browser does with an answer.                                   *)
LEMMA DetailDelivered ==
  ASSUME NEW q, NEW n, AsksOK(q, n), q # <<>>, NEW d, NEW s, DetailOK(q, d, s), NEW t, t # 0 => t = d
  PROVE  DetailOK(Tail(q), d, t)
<1> DEFINE p == Tail(q)
<1>1. \A i \in DOMAIN p : i + 1 \in DOMAIN q /\ p[i] = q[i + 1]
  BY AskDelivered
<1> HIDE DEF p
<1> QED
  BY <1>1 DEF DetailOK, p

(* An answer that changes no list.                                         *)
LEMMA NothingShown ==
  ASSUME FeedsInv, sending # <<>>, ~Fetched(sending), \A l \in Lists : ~Done(sending, l),
         sending' = Tail(sending), feeds' = feeds,
         UNCHANGED <<place, entries, written, late, mixed, outdated, drill>>, resolved' # 0 => resolved' = drill
  PROVE  FeedsInv'
<1>1. ListsOK(entries, written, feeds, Tail(sending), mixed, outdated, late)
  BY InvFacts, IgnoredKeeps
<1>2. DetailOK(Tail(sending), drill, resolved')
  BY InvFacts, DetailDelivered
<1> QED
  BY <1>1, <1>2, SamePlace

(* An answer that changes the list it is for.                              *)
LEMMA ListShown ==
  ASSUME FeedsInv, sending # <<>>, NEW f, FeedOK(f, written), sending[1].list \in Lists,
         sending' = Tail(sending), feeds' = [feeds EXCEPT ![sending[1].list] = f],
         UNCHANGED <<place, entries, written, late, outdated, drill, resolved>>,
         place = "notifications" => Told(f.items, entries),
         mixed \ {sending[1].list} \subseteq mixed',
         sending[1].list \notin mixed' =>
           /\ Restful(f, entries, sending[1].list, outdated, late)
           /\ sending[1].list \in mixed => \A i \in 2 .. Len(sending) : sending[i].list # sending[1].list
  PROVE  FeedsInv'
<1> DEFINE k == sending[1].list
<1>1. /\ feeds'[k] = f /\ \A l \in Lists : l # k => feeds'[l] = feeds[l]
      /\ feeds' = [l \in Lists |-> feeds'[l]]
  BY InvFacts
<1>2. FeedsOK(feeds', written)
  BY <1>1, InvFacts DEF FeedsOK
<1>3. ListsOK(entries, written, feeds', Tail(sending), mixed', outdated, late)
  BY <1>1, <1>2, InvFacts, DeliveredKeeps
<1>4. DetailOK(Tail(sending), drill, resolved)
  BY InvFacts, DetailDelivered DEF DetailOK
<1> QED
  BY <1>3, <1>4, SamePlace

(* The rows a page leaves in its list.                                     *)
PageItems(r) ==
  IF ~r.reset THEN r.base \o r.page.items
  ELSE IF r.list = "bell" THEN SubSeq(r.page.items, 1, Seqs!Min({BellLength, Len(r.page.items)}))
  ELSE r.page.items

LEMMA PageItemsTold ==
  ASSUME NEW r, NEW n, NEW es, ItemsOK(r.base, n), ItemsOK(r.page.items, n)
  PROVE  /\ ItemsOK(PageItems(r), n)
         /\ Told(r.base, es) /\ Told(r.page.items, es) => Told(PageItems(r), es)
         /\ (~r.reset => OpenShown(r.base, es)) /\ OpenShown(r.page.items, es) => OpenShown(PageItems(r), es)
<1> DEFINE a == r.base
           b == r.page.items
           c == PageItems(r)
<1>0. ItemsOK(a, n) /\ ItemsOK(b, n)
  OBVIOUS
<1>1. CASE ~r.reset
  <2>1. c = a \o b
    BY <1>1 DEF PageItems
  <2> HIDE DEF a, b, c
  <2>2. Joined(c, a, b, n)
    BY <1>0, <2>1, ItemsJoined
  <2> QED
    BY <1>0, <1>1, <2>1, <2>2, ToldJoined DEF Joined, a, b, c
<1>2. CASE r.reset /\ r.list = "bell"
  <2>1. c = SubSeq(b, 1, Seqs!Min({BellLength, Len(b)}))
    BY <1>2 DEF PageItems
  <2> HIDE DEF a, b, c
  <2>2. Few(c, b, n)
    BY <1>0, <2>1, FewIs
  <2>3. ItemsOK(c, n) /\ \A i \in DOMAIN c : i \in DOMAIN b /\ c[i] = b[i]
    BY <2>2 DEF Few
  <2>4. (Told(b, es) => Told(c, es)) /\ (OpenShown(b, es) => OpenShown(c, es))
    BY <2>3 DEF Told, OpenShown
  <2> QED
    BY <2>3, <2>4 DEF a, b, c
<1>3. CASE r.reset /\ r.list # "bell"
  <2>1. c = b
    BY <1>3 DEF PageItems
  <2> QED
    BY <1>0, <2>1
<1> QED
  BY <1>1, <1>2, <1>3

LEMMA PageRestful ==
  ASSUME place \in Place, NEW es, NEW n, NEW feed, NEW q, NEW l, NEW od, NEW lt, TableOK(es, n), AskOK(q[1], n),
         Fetched(q), q[1].list = l, PageFits(q, es, od, lt),
         ~q[1].reset => Calm(feed, q, es, l, od, lt) /\ FeedOK(feed, n) /\ 1 \in DOMAIN q,
         NEW f, f.items = PageItems(q[1]), f.cursor = q[1].page.next, f.unread = q[1].page.unread,
         f.applied = q[1].filter
  PROVE  Restful(f, es, l, od, lt)
<1> DEFINE r == q[1]
           page == r.page
           b == page.items
           c == f.items
<1>1. /\ r.kind = "fetch" /\ r.reset \in BOOLEAN /\ r.cursor \in n \cup {0} /\ r.filter \in ListFilter
      /\ (r.reset <=> r.cursor = 0) /\ ItemsOK(r.base, n)
      /\ (l = "bell" => r.reset) /\ PageOK(page, n, r.cursor)
      /\ ItemsOK(b, n) /\ n \subseteq 1 .. MaxEntries /\ DOMAIN es \subseteq 1 .. MaxEntries
  BY DEF Fetched, AskOK, FetchOK, PageOK, TableOK
<1>2. /\ ~Vague(l, r.filter, od) => Covers(b, es, r.filter, r.cursor, page.next = 0, lt)
      /\ place = "notifications" /\ l \notin od =>
           page.unread = Cardinality(Opens(es)) /\ OpenShown(b, es)
  BY DEF PageFits
<1>3. ~r.reset =>
        /\ l # "bell" /\ r.cursor # 0 /\ r.base # <<>> /\ r.cursor = r.base[Len(r.base)].id
        /\ Falling(r.base)
        /\ ~Vague(l, r.filter, od) => Covers(r.base, es, r.filter, 0, FALSE, lt)
        /\ place = "notifications" /\ l \notin od => OpenShown(r.base, es)
  <2> SUFFICES ASSUME ~r.reset
               PROVE  /\ l # "bell" /\ r.cursor # 0 /\ r.base # <<>> /\ r.cursor = r.base[Len(r.base)].id
                      /\ Falling(r.base)
                      /\ ~Vague(l, r.filter, od) => Covers(r.base, es, r.filter, 0, FALSE, lt)
                      /\ place = "notifications" /\ l \notin od => OpenShown(r.base, es)
    OBVIOUS
  <2>1. /\ Calm(feed, q, es, l, od, lt) /\ 1 \in DOMAIN q
        /\ r.base = feed.items /\ r.cursor = feed.cursor /\ r.filter = feed.applied
    BY <1>1 DEF Calm, MadeOf
  <2>2. Done(q, l)
    BY <1>1 DEF Fetched, Done, AskOK, AnswerOK
  <2>3. place = "notifications" /\ l \notin od => OpenShown(feed.items, es)
    BY <1>1, <2>1, <2>2 DEF Calm, Counts
  <2>4. l # "bell" /\ feed.cursor # 0 /\ Falling(feed.items) /\ Joins(feed, l)
    BY <1>1, <2>1 DEF Calm, Unbroken
  <2>5. (feed.cursor = 0 /\ l # "bell") = FALSE
    BY <2>4
  <2>6. ~Vague(l, r.filter, od) => Covers(feed.items, es, r.filter, 0, FALSE, lt)
    BY <2>1, <2>5 DEF Calm, Unbroken
  <2> QED
    BY <2>1, <2>3, <2>4, <2>6 DEF Joins
<1>4. place = "notifications" /\ l \notin od => f.unread = Cardinality(Opens(es)) /\ OpenShown(c, es)
  BY <1>1, <1>2, <1>3, PageItemsTold
<1>5. CASE ~r.reset
  <2>1. c = r.base \o b /\ (f.cursor = 0 /\ l # "bell") = (page.next = 0)
    BY <1>3, <1>5 DEF PageItems
  <2>2. r.cursor \in 1 .. MaxEntries
    BY <1>1, <1>3, <1>5
  <2>3. /\ c # <<>> /\ Falling(c)
        /\ page.next # 0 => page.next = c[Len(c)].id
        /\ /\ Covers(r.base, es, r.filter, 0, FALSE, lt)
           /\ Covers(b, es, r.filter, r.cursor, page.next = 0, lt)
           => Covers(c, es, r.filter, 0, page.next = 0, lt)
    <3> DEFINE a == r.base
               cursor == r.cursor
               filter == r.filter
    <3>1. /\ ItemsOK(a, n) /\ Falling(a) /\ cursor \in 1 .. MaxEntries /\ a # <<>>
          /\ cursor = a[Len(a)].id /\ PageOK(page, n, cursor)
          /\ DOMAIN es \subseteq 1 .. MaxEntries /\ n \subseteq 1 .. MaxEntries
      BY <1>1, <1>3, <1>5, <2>2
    <3> HIDE DEF a, cursor, filter, page
    <3>2. Added(a \o page.items, a, page, es, filter, cursor, lt)
      BY <3>1, CoversJoined
    <3> QED
      BY <2>1, <3>2 DEF Added, a, cursor, filter
  <2> QED
    BY <1>2, <1>3, <1>4, <1>5, <2>1, <2>3 DEF Restful, Joins
<1>6. CASE r.reset /\ l = "bell"
  <2>1. c = SubSeq(b, 1, Seqs!Min({BellLength, Len(b)})) /\ r.cursor = 0
    BY <1>1, <1>6 DEF PageItems
  <2>2. Falling(b)
    BY <1>1 DEF PageOK
  <2>3. Few(c, b, n)
    BY <1>1, <2>1, FewIs
  <2> DEFINE ends == page.next = 0
             filter == r.filter
  <2> HIDE DEF c, b
  <2>b. n \subseteq Nat /\ DOMAIN es \subseteq Nat
    BY <1>1
  <2>4. Falling(c) /\ (Covers(b, es, filter, 0, ends, lt) => Covers(c, es, filter, 0, FALSE, lt))
    BY <1>1, <2>b, <2>2, <2>3, CoversFew
  <2>5. (f.cursor = 0 /\ l # "bell") = FALSE
    BY <1>6
  <2> QED
    BY <1>2, <1>4, <1>6, <2>1, <2>4, <2>5 DEF Restful, Joins, c
<1>7. CASE r.reset /\ l # "bell"
  <2>1. c = b /\ r.cursor = 0
    BY <1>1, <1>7 DEF PageItems
  <2>2. (f.cursor = 0 /\ l # "bell") = (page.next = 0)
    BY <1>7
  <2> QED
    BY <1>1, <1>2, <1>4, <2>1, <2>2 DEF Restful, Joins, PageOK
<1> QED
  BY <1>1, <1>5, <1>6, <1>7

LEMMA DeliverPageKeeps == ASSUME FeedsInv, DeliverPage PROVE FeedsInv'
<1> DEFINE r == sending[1]
           k == r.list
           settled == \A i \in 2 .. Len(sending) : sending[i].list # k
           f == [feeds[k] EXCEPT !.items = PageItems(r), !.cursor = r.page.next,
                                 !.unread = r.page.unread, !.applied = r.filter]
<1>1. /\ sending # <<>> /\ r.kind = "fetch" /\ r.at = "answered"
      /\ sending' = Tail(sending)
      /\ feeds' = IF ~r.ok THEN feeds ELSE [feeds EXCEPT ![k] = f]
      /\ mixed' = IF r.ok /\ r.reset /\ settled THEN mixed \ {k} ELSE mixed
      /\ UNCHANGED <<place, entries, written, late, outdated, drill, resolved>>
  BY DEF DeliverPage, Answered, InFlight, ServerKept, Untouched, PageItems
<1>2. AskOK(r, written) /\ 1 \in DOMAIN sending
  BY <1>1, InvFacts, FirstAsk
<1>3. r.ok \in BOOLEAN /\ k \in Lists /\ (~r.ok => "thrown" \in DOMAIN r)
  BY <1>1, <1>2 DEF AskOK, AnswerOK
<1>4. CASE ~r.ok
  <2>1. ~Fetched(sending) /\ \A l \in Lists : ~Done(sending, l)
    BY <1>3, <1>4 DEF Fetched, Done
  <2> QED
    BY <1>1, <1>4, <2>1, InvFacts, NothingShown DEF DetailOK
<1>5. CASE r.ok
  <2>1. Fetched(sending)
    BY <1>1, <1>5 DEF Fetched
  <2>2. FeedOK(feeds[k], written) /\ PageOK(r.page, written, r.cursor) /\ r.filter \in ListFilter
        /\ ItemsOK(r.base, written) /\ ItemsOK(r.page.items, written)
    BY <1>1, <1>2, <1>3, <1>5, InvFacts DEF AskOK, FetchOK, PageOK
  <2>3. /\ DOMAIN f = DOMAIN feeds[k] /\ f.items = PageItems(r) /\ f.cursor = r.page.next
        /\ f.unread = r.page.unread /\ f.applied = r.filter /\ f.filter = feeds[k].filter
    BY <2>2 DEF FeedOK
  <2>4. feeds' = [feeds EXCEPT ![k] = f]
    BY <1>1, <1>5
  <2> HIDE DEF f
  <2>5. ItemsOK(PageItems(r), written)
    BY <2>2, PageItemsTold
  <2>6. FeedOK(f, written)
    BY <2>2, <2>3, <2>5 DEF FeedOK, PageOK
  <2>7. place = "notifications" => Told(f.items, entries)
    <3> SUFFICES ASSUME place = "notifications" PROVE Told(f.items, entries)
      OBVIOUS
    <3>1. AskTold(r, entries)
      BY <1>2, InvFacts DEF AllTold
    <3>2. Told(r.base, entries) /\ Told(r.page.items, entries)
      BY <1>1, <1>5, <3>1 DEF AskTold
    <3> QED
      BY <2>2, <2>3, <3>2, PageItemsTold
  <2>8. mixed \ {k} \subseteq mixed'
    BY <1>1
  <2>9. ASSUME k \notin mixed'
        PROVE  Restful(f, entries, k, outdated, late) /\ (k \in mixed => settled)
    <3>1. ~r.reset => k \notin mixed
      BY <1>1, <2>9
    <3>2. ~r.reset => Calm(feeds[k], sending, entries, k, outdated, late)
      BY <1>3, <3>1, InvFacts DEF ListsOK
    <3>3. PageFits(sending, entries, outdated, late)
      BY InvFacts DEF ListsOK
    <3>4. Restful(f, entries, k, outdated, late)
      BY <1>2, <2>1, <2>2, <2>3, <3>2, <3>3, InvFacts, PageRestful
    <3>5. k \in mixed => settled
      BY <1>1, <2>9
    <3> QED
      BY <3>4, <3>5
  <2> QED
    BY <1>1, <1>3, <2>4, <2>6, <2>7, <2>8, <2>9, ListShown
<1> QED
  BY <1>3, <1>4, <1>5

(* Rows marked as read, in a list made of what was shown.                  *)
LEMMA MarkedTold ==
  ASSUME NEW c, NEW items, NEW ids, NEW n, ItemsOK(items, n), Marked(c, items, ids, n),
         NEW es, TableOK(es, n), Told(items, es), ids \cap Opens(es) = {}
  PROVE  Told(c, es)
<1> SUFFICES ASSUME NEW i \in DOMAIN c, c[i].sort = "closed", c[i].id \in DOMAIN es
             PROVE  es[c[i].id] = "closed"
  BY DEF Told
<1>1. /\ i \in DOMAIN items /\ c[i].id = items[i].id
      /\ c[i].sort = IF items[i].id \in ids THEN "closed" ELSE items[i].sort
  BY DEF Marked
<1>2. CASE items[i].id \in ids
  BY <1>1, <1>2 DEF Opens, TableOK, Sort
<1>3. CASE items[i].id \notin ids
  BY <1>1, <1>3 DEF Told
<1> QED
  BY <1>2, <1>3

LEMMA MarkedRestful ==
  ASSUME NEW es, NEW n, NEW feed, NEW q, NEW l, NEW od, NEW lt, place = "notifications",
         ItemsOK(feed.items, n), Calm(feed, q, es, l, od, lt), ~Fetched(q),
         NEW ids, NEW f, Marked(f.items, feed.items, ids, n), f.cursor = feed.cursor, f.applied = feed.applied,
         l \notin od => f.unread = Cardinality(Opens(es)) /\ OpenShown(f.items, es)
  PROVE  Restful(f, es, l, od, lt)
<1> DEFINE c == f.items
           a == feed.items
<1>1. /\ DOMAIN c = DOMAIN a /\ Len(c) = Len(a) /\ (c = <<>> <=> a = <<>>)
      /\ \A i \in DOMAIN a : c[i].id = a[i].id
  BY DEF Marked
<1>2. DOMAIN a = 1 .. Len(a) /\ Len(a) \in Nat /\ (a = <<>> <=> Len(a) = 0)
  BY ListedFacts DEF ItemsOK
<1>3. Unbroken(feed, q, es, l, od, lt)
  BY DEF Calm
<1>4. Falling(a) /\ Joins(feed, l) /\ Covers(a, es, feed.applied, 0, feed.cursor = 0 /\ l # "bell", lt)
  BY <1>3 DEF Unbroken, Vague
<1>5. a # <<>> => 1 \in DOMAIN a /\ Len(a) \in DOMAIN a
  BY <1>2
<1>6. Falling(c)
  BY <1>1, <1>4 DEF Falling
<1>7. Joins(f, l)
  BY <1>1, <1>4, <1>5 DEF Joins
<1>8. Covers(c, es, f.applied, 0, f.cursor = 0 /\ l # "bell", lt)
  <2> DEFINE ends == f.cursor = 0 /\ l # "bell"
  <2>1. Covers(a, es, f.applied, 0, ends, lt)
    BY <1>4
  <2> HIDE DEF ends, a, c
  <2>2. Covers(c, es, f.applied, 0, ends, lt)
    BY <1>1, <1>5, <2>1 DEF Covers, Seen
  <2> QED
    BY <2>2 DEF c, ends
<1> QED
  BY <1>6, <1>7, <1>8 DEF Restful

(* The list a mark leaves.                                                 *)
LEMMA MarkShown ==
  ASSUME FeedsInv, sending # <<>>, sending[1].kind \in {"mark", "markAll"}, sending[1].at = "answered",
         "thrown" \notin DOMAIN sending[1], NEW ids, NEW f,
         DOMAIN f = DOMAIN feeds[sending[1].list],
         Marked(f.items, sending[1].base, ids, written),
         f.cursor = feeds[sending[1].list].cursor, f.applied = feeds[sending[1].list].applied,
         f.filter = feeds[sending[1].list].filter, f.unread \in Nat,
         ids \cap Opens(entries) = {},
         sending' = Tail(sending), feeds' = [feeds EXCEPT ![sending[1].list] = f],
         UNCHANGED <<place, entries, written, late, mixed, outdated, drill, resolved>>,
         Counts(feeds[sending[1].list], sending, entries, sending[1].list) =>
           f.unread = Cardinality(Opens(entries)),
         \A i \in DOMAIN sending[1].base :
           Counts(feeds[sending[1].list], sending, entries, sending[1].list)
           /\ sending[1].base = feeds[sending[1].list].items
           /\ sending[1].base[i].sort = "open" /\ sending[1].base[i].id \notin ids
           => sending[1].base[i].id \in Opens(entries)
  PROVE  FeedsInv'
<1> DEFINE r == sending[1]
           k == r.list
<1>1. AskOK(r, written) /\ 1 \in DOMAIN sending
  BY InvFacts, FirstAsk
<1>2. place = "notifications" /\ k \in Lists /\ ItemsOK(r.base, written)
  BY <1>1 DEF AskOK, AnswerOK, MarkOK
<1>3. FeedOK(feeds[k], written)
  BY <1>2, InvFacts
<1>4. FeedOK(f, written)
  BY <1>3 DEF FeedOK, Marked
<1>5. Told(f.items, entries)
  <2>1. AskTold(r, entries)
    BY <1>1, <1>2, InvFacts DEF AllTold
  <2>2. Told(r.base, entries)
    BY <2>1 DEF AskTold
  <2> QED
    BY <1>2, <2>2, InvFacts, MarkedTold
<1>6. ASSUME k \notin mixed PROVE Restful(f, entries, k, outdated, late)
  <2>1. Calm(feeds[k], sending, entries, k, outdated, late)
    BY <1>2, <1>6, InvFacts DEF ListsOK
  <2>2. r.base = feeds[k].items
    BY <1>1, <2>1 DEF Calm, MadeOf
  <2>3. ASSUME k \notin outdated
        PROVE  f.unread = Cardinality(Opens(entries)) /\ OpenShown(f.items, entries)
    <3>1. Counts(feeds[k], sending, entries, k)
      BY <1>2, <2>1, <2>3 DEF Calm
    <3>2. \A i \in DOMAIN r.base :
            r.base[i].sort = "open" /\ r.base[i].id \notin ids => r.base[i].id \in Opens(entries)
      BY <2>2, <3>1
    <3>3. OpenShown(f.items, entries)
      BY <3>2 DEF OpenShown, Marked
    <3> QED
      BY <3>1, <3>3
  <2>4. ~Fetched(sending)
    BY DEF Fetched
  <2> QED
    BY <1>2, <2>1, <2>2, <2>3, <2>4, MarkedRestful
<1> QED
  BY <1>2, <1>4, <1>5, <1>6, ListShown

LEMMA DeliverMarkKeeps == ASSUME FeedsInv, DeliverMark PROVE FeedsInv'
<1> DEFINE r == sending[1]
           k == r.list
           f == [feeds[k] EXCEPT !.items = AsRead(r.base, {r.id}), !.unread = Seqs!Max({0, r.count - 1})]
<1>1. /\ sending # <<>> /\ r.kind = "mark" /\ r.at = "answered" /\ sending' = Tail(sending)
      /\ UNCHANGED <<place, entries, written, late, mixed, outdated, drill, resolved>>
  BY DEF DeliverMark, Answered, InFlight, ServerKept, Untouched
<1>2. AskOK(r, written) /\ 1 \in DOMAIN sending
  BY <1>1, InvFacts, FirstAsk
<1>3. /\ k \in Lists /\ place = "notifications" /\ ItemsOK(r.base, written)
      /\ r.id \in written /\ r.count \in Nat /\ FeedOK(feeds[k], written)
  BY <1>1, <1>2, InvFacts DEF AskOK, AnswerOK, MarkOK
<1>4. feeds' = IF "thrown" \in DOMAIN r THEN feeds ELSE [feeds EXCEPT ![k] = f]
  BY <1>3, InvFacts DEF DeliverMark
<1>5. CASE "thrown" \in DOMAIN r
  <2>1. ~Fetched(sending) /\ \A l \in Lists : ~Done(sending, l)
    BY <1>1, <1>5 DEF Fetched, Done
  <2> QED
    BY <1>1, <1>4, <1>5, <2>1, InvFacts, NothingShown DEF DetailOK
<1>6. CASE "thrown" \notin DOMAIN r
  <2>1. /\ DOMAIN f = DOMAIN feeds[k] /\ f.items = AsRead(r.base, {r.id})
        /\ f.unread = Seqs!Max({0, r.count - 1})
        /\ f.cursor = feeds[k].cursor /\ f.applied = feeds[k].applied /\ f.filter = feeds[k].filter
    BY <1>3 DEF FeedOK
  <2>2. feeds' = [feeds EXCEPT ![k] = f]
    BY <1>4, <1>6
  <2> HIDE DEF f
  <2>3. Marked(f.items, r.base, {r.id}, written)
    BY <1>3, <2>1, AsReadIs
  <2>4. f.unread \in Nat /\ (r.count # 0 => f.unread = r.count - 1)
    <3> DEFINE S == {0, r.count - 1}
    <3>1. \E x \in S : \A y \in S : x >= y
      BY <1>3
    <3>2. f.unread \in S /\ \A y \in S : f.unread >= y
      BY <2>1, <3>1 DEF Seqs!Max
    <3> QED
      BY <1>3, <3>2
  <2>5. {r.id} \cap Opens(entries) = {}
    <3>1. AskTold(r, entries)
      BY <1>2, <1>3, InvFacts DEF AllTold
    <3> QED
      BY <1>1, <1>6, <3>1 DEF AskTold
  <2>6. Done(sending, k)
    BY <1>1, <1>6 DEF Done
  <2>7. ASSUME Counts(feeds[k], sending, entries, k) PROVE f.unread = Cardinality(Opens(entries))
    <3>1. Cardinality(Opens(entries)) = r.count - 1
      BY <1>1, <2>6, <2>7 DEF Counts
    <3>2. Cardinality(Opens(entries)) \in Nat
      <4>1. Opens(entries) \in SUBSET (1 .. MaxEntries)
        BY InvFacts DEF Opens, TableOK
      <4> QED
        BY <4>1, Countable, ListAssumption
    <3> QED
      BY <1>3, <2>4, <3>1, <3>2
  <2>8. ASSUME NEW i \in DOMAIN r.base, Counts(feeds[k], sending, entries, k), r.base = feeds[k].items,
               r.base[i].sort = "open", r.base[i].id \notin {r.id}
        PROVE  r.base[i].id \in Opens(entries)
    BY <1>1, <2>6, <2>8 DEF Counts
  <2> QED
    BY <1>1, <1>6, <2>1, <2>2, <2>3, <2>4, <2>5, <2>7, <2>8, MarkShown
<1> QED
  BY <1>5, <1>6

LEMMA DeliverMarkAllKeeps == ASSUME FeedsInv, DeliverMarkAll PROVE FeedsInv'
<1> DEFINE r == sending[1]
           k == r.list
           ids == 1 .. MaxEntries
           f == [feeds[k] EXCEPT !.items = AsRead(r.base, ids), !.unread = 0]
<1>1. /\ sending # <<>> /\ r.kind = "markAll" /\ r.at = "answered" /\ sending' = Tail(sending)
      /\ UNCHANGED <<place, entries, written, late, mixed, outdated, drill, resolved>>
  BY DEF DeliverMarkAll, Answered, InFlight, ServerKept, Untouched
<1>2. AskOK(r, written) /\ 1 \in DOMAIN sending
  BY <1>1, InvFacts, FirstAsk
<1>3. k \in Lists /\ place = "notifications" /\ ItemsOK(r.base, written) /\ FeedOK(feeds[k], written)
  BY <1>1, <1>2, InvFacts DEF AskOK, AnswerOK, MarkOK
<1>4. feeds' = IF "thrown" \in DOMAIN r THEN feeds ELSE [feeds EXCEPT ![k] = f]
  BY <1>3, InvFacts DEF DeliverMarkAll
<1>5. CASE "thrown" \in DOMAIN r
  <2>1. ~Fetched(sending) /\ \A l \in Lists : ~Done(sending, l)
    BY <1>1, <1>5 DEF Fetched, Done
  <2> QED
    BY <1>1, <1>4, <1>5, <2>1, InvFacts, NothingShown DEF DetailOK
<1>6. CASE "thrown" \notin DOMAIN r
  <2>1. /\ DOMAIN f = DOMAIN feeds[k] /\ f.items = AsRead(r.base, ids) /\ f.unread = 0
        /\ f.cursor = feeds[k].cursor /\ f.applied = feeds[k].applied /\ f.filter = feeds[k].filter
    BY <1>3 DEF FeedOK
  <2>2. feeds' = [feeds EXCEPT ![k] = f]
    BY <1>4, <1>6
  <2> HIDE DEF f
  <2>3. Marked(f.items, r.base, ids, written)
    BY <1>3, <2>1, AsReadIs
  <2>4. \A i \in DOMAIN r.base : r.base[i].id \in ids /\ r.base[i].id \notin Opens(entries)
    <3>1. AskTold(r, entries)
      BY <1>2, <1>3, InvFacts DEF AllTold
    <3> QED
      BY <1>1, <1>3, <1>6, <3>1, InvFacts DEF AskTold, ItemsOK
  <2> DEFINE shown == {r.base[i].id : i \in DOMAIN r.base}
  <2>5. Marked(f.items, r.base, shown, written) /\ shown \cap Opens(entries) = {}
    BY <2>3, <2>4 DEF Marked
  <2>6. Done(sending, k)
    BY <1>1, <1>6 DEF Done
  <2>7. ASSUME Counts(feeds[k], sending, entries, k) PROVE f.unread = Cardinality(Opens(entries))
    BY <1>1, <2>1, <2>6, <2>7 DEF Counts
  <2>8. \A i \in DOMAIN r.base : r.base[i].id \in shown
    OBVIOUS
  <2> HIDE DEF shown
  <2>9. f.unread \in Nat
    BY <2>1
  <2> QED
    BY <1>1, <1>6, <2>1, <2>2, <2>5, <2>7, <2>8, <2>9, MarkShown
<1> QED
  BY <1>5, <1>6

LEMMA DeliverArchiveKeeps == ASSUME FeedsInv, DeliverArchive PROVE FeedsInv'
<1> DEFINE r == sending[1]
           p == Tail(sending)
           s == FetchRequest("inbox", TRUE, 0, r.filter)
<1>1. /\ sending # <<>> /\ r.kind = "archive" /\ r.at = "answered"
      /\ sending' = IF r.ok THEN Append(p, s) ELSE p
      /\ UNCHANGED <<place, entries, written, late, feeds, mixed, outdated, drill, resolved>>
  BY DEF DeliverArchive, Answered, InFlight, ServerKept, Untouched
<1>2. AskOK(r, written) /\ 1 \in DOMAIN sending
  BY <1>1, InvFacts, FirstAsk
<1>3. r.filter \in ListFilter /\ r.list = "inbox" /\ r.list \in Lists /\ r.ok \in BOOLEAN
  BY <1>1, <1>2 DEF AskOK, AnswerOK, MarkOK
<1>4. ~Fetched(sending) /\ \A l \in Lists : ~Done(sending, l)
  BY <1>1 DEF Fetched, Done
<1>5. ListsOK(entries, written, feeds, p, mixed, outdated, late)
  BY <1>1, <1>4, InvFacts, IgnoredKeeps
<1>6. AsksOK(p, written) /\ DetailOK(p, drill, resolved)
  <2>1. AsksOK(p, written)
    BY <1>1, InvFacts, AskDelivered
  <2>2. resolved # 0 => resolved = drill
    BY InvFacts DEF DetailOK
  <2> QED
    BY <1>1, <2>1, <2>2, InvFacts, DetailDelivered
<1>7. Fetches(s, "inbox", TRUE, 0, r.filter)
  BY <1>3, FetchAll
<1>8. \A l \in Lists \ mixed : l = "inbox" => \A i \in DOMAIN p : p[i].list # l
  <2> SUFFICES ASSUME "inbox" \in Lists \ mixed, NEW i \in DOMAIN p, p[i].list = "inbox" PROVE FALSE
    OBVIOUS
  <2>1. i + 1 \in DOMAIN sending /\ i + 1 # 1 /\ p[i] = sending[i + 1]
    BY <1>1, InvFacts, AskDelivered
  <2>2. OneAsk(sending, "inbox")
    BY InvFacts DEF ListsOK, Calm
  <2> QED
    BY <1>2, <1>3, <2>1, <2>2 DEF OneAsk
<1> HIDE DEF p, s, r
<1>9. CASE r.ok
  <2>1. /\ s.list = "inbox" /\ AskOK(s, written) /\ s.at = "sent" /\ s.kind = "fetch"
        /\ MadeOf(s, feeds["inbox"]) /\ (place = "notifications" => AskTold(s, entries))
    BY <1>7 DEF Fetches, MadeOf
  <2>2. ListsOK(entries, written, feeds, Append(p, s), mixed, outdated, late)
    BY <1>5, <1>8, <2>1, AskedKeeps
  <2>3. DetailOK(Append(p, s), drill, resolved)
    BY <1>6, <2>1, DetailAsked
  <2> QED
    BY <1>1, <1>9, <2>2, <2>3, SamePlace
<1>10. CASE ~r.ok
  BY <1>1, <1>5, <1>6, <1>10, SamePlace
<1> QED
  BY <1>3, <1>9, <1>10

LEMMA DeliverResolveKeeps == ASSUME FeedsInv, DeliverResolve PROVE FeedsInv'
<1> DEFINE r == sending[1]
<1>1. /\ sending # <<>> /\ r.kind = "resolve" /\ r.at = "answered" /\ sending' = Tail(sending)
      /\ resolved' = IF ~r.live THEN resolved ELSE IF r.ok THEN r.id ELSE 0
      /\ UNCHANGED <<place, entries, written, late, feeds, mixed, outdated, drill>>
  BY DEF DeliverResolve, Answered, InFlight, ServerKept
<1>2. AskOK(r, written) /\ 1 \in DOMAIN sending
  BY <1>1, InvFacts, FirstAsk
<1>3. ~Fetched(sending) /\ \A l \in Lists : ~Done(sending, l)
  BY <1>1, <1>2, InvFacts, WhichLists DEF Fetched, Done, AskOK, AnswerOK
<1>4. resolved' # 0 => resolved' = drill
  BY <1>1, <1>2, InvFacts DEF DetailOK
<1> QED
  BY <1>1, <1>3, <1>4, NothingShown

-----------------------------------------------------------------------------
(* The first rows, the steps and what the invariant gives.                 *)
FirstShown(f, l) ==
  /\ FeedOK(f, written) /\ Told(f.items, entries)
  /\ Falling(f.items) /\ Joins(f, l)
  /\ Covers(f.items, entries, f.applied, 0, f.cursor = 0 /\ l # "bell", late)
  /\ l # "bell" => f.unread = Cardinality(Opens(entries)) /\ OpenShown(f.items, entries)

LEMMA FirstFeedIs ==
  ASSUME TableOK(entries, written), place \in Place, NEW l \in Lists
  PROVE  FirstShown(FirstFeed(l), l)
<1> DEFINE filter == IF l = "renewals" THEN "open" ELSE Every
           page == PageOf(filter, 0)
           f == FirstFeed(l)
<1>1. CASE l = "bell"
  <2>1. /\ DOMAIN f = {"items", "cursor", "unread", "filter", "applied"}
        /\ f.items = <<>> /\ f.cursor = 0 /\ f.unread = 0 /\ f.filter = Every /\ f.applied = Every
    BY <1>1 DEF FirstFeed, FeedOf
  <2> HIDE DEF f
  <2>2. Listed(<<>>) /\ DOMAIN <<>> = {}
    BY ListedEmpty
  <2>3. FeedOK(f, written)
    BY <2>1, <2>2 DEF FeedOK, ItemsOK, ListFilter, TableOK
  <2> QED
    BY <1>1, <2>1, <2>2, <2>3 DEF FirstShown, Told, Falling, Joins, Covers, f
<1>2. CASE l # "bell"
  <2>1. f = FeedOf(page, filter)
    BY <1>2 DEF FirstFeed
  <2>2. filter \in ListFilter
    BY DEF ListFilter
  <2>3. 0 \in written \cup {0}
    BY DEF TableOK
  <2> HIDE DEF filter
  <2>4. /\ PageOK(page, written, 0)
        /\ page.unread = Cardinality(Opens(entries))
        /\ OpenShown(page.items, entries) /\ Told(page.items, entries)
        /\ Covers(page.items, entries, filter, 0, page.next = 0, late)
    BY <2>3, PageIs
  <2> HIDE DEF page
  <2>5. /\ DOMAIN f = {"items", "cursor", "unread", "filter", "applied"}
        /\ f.items = page.items /\ f.cursor = page.next /\ f.unread = page.unread
        /\ f.filter = filter /\ f.applied = filter
    BY <2>1 DEF FeedOf
  <2> HIDE DEF f
  <2>6. FeedOK(f, written)
    BY <2>2, <2>4, <2>5 DEF FeedOK, PageOK
  <2>7. Falling(f.items) /\ Joins(f, l)
    BY <2>4, <2>5 DEF PageOK, Joins
  <2>8. (f.cursor = 0 /\ l # "bell") = (page.next = 0)
    BY <1>2, <2>5
  <2> QED
    BY <2>4, <2>5, <2>6, <2>7, <2>8 DEF FirstShown, f
<1> QED
  BY <1>1, <1>2

LEMMA ListInitially == ListInit /\ ListStarts => FeedsInv
<1> SUFFICES ASSUME ListInit, ListStarts PROVE FeedsInv
  OBVIOUS
<1> DEFINE r == FetchRequest("bell", TRUE, 0, Every)
<1>1. /\ place \in Place /\ place \in {"audit", "renewals", "notifications"}
      /\ written \subseteq 1 .. MaxEntries /\ entries \in [written -> Sort]
      /\ feeds = [l \in Lists |-> FirstFeed(l)]
      /\ drill = 0 /\ resolved = 0 /\ mixed = {} /\ outdated = Lists \cap {"bell"}
      /\ sending = IF "bell" \in Lists THEN <<r>> ELSE <<>>
  BY ListAssumption DEF ListInit, ListStarts
<1>2. TableOK(entries, written)
  BY <1>1 DEF TableOK
<1>3. ASSUME NEW l \in Lists PROVE FirstShown(feeds[l], l)
  <2>1. feeds[l] = FirstFeed(l)
    BY <1>1
  <2> QED
    BY <1>1, <1>2, <2>1, FirstFeedIs
<1>4. FeedsOK(feeds, written)
  BY <1>1, <1>3 DEF FeedsOK, FirstShown
<1>5. /\ DOMAIN r = {"kind", "at", "list", "reset", "cursor", "filter", "base"}
      /\ r.kind = "fetch" /\ r.at = "sent" /\ r.list = "bell" /\ r.reset = TRUE
      /\ r.base = feeds["bell"].items /\ r.cursor = 0 /\ r.filter = Every
  BY DEF FetchRequest
<1> HIDE DEF r
<1>6. "bell" \in Lists => AskOK(r, written) /\ AskTold(r, entries) /\ MadeOf(r, feeds["bell"])
  <2> SUFFICES ASSUME "bell" \in Lists PROVE AskOK(r, written) /\ AskTold(r, entries) /\ MadeOf(r, feeds["bell"])
    OBVIOUS
  <2>1. ItemsOK(r.base, written) /\ Told(r.base, entries)
    BY <1>3, <1>5 DEF FirstShown, FeedOK
  <2>2. Every \in ListFilter /\ 0 \in written \cup {0}
    BY <1>1 DEF ListFilter
  <2>3. AnswerOK(r)
    BY <1>5 DEF AnswerOK
  <2>4. FetchOK(r, written) /\ MarkOK(r, written)
    BY <1>5, <2>1, <2>2 DEF FetchOK, MarkOK
  <2> QED
    BY <1>5, <2>1, <2>3, <2>4 DEF AskTold, MadeOf, AskOK
<1>7. /\ AsksOK(sending, written)
      /\ \A i \in DOMAIN sending : i = 1 /\ sending[i] = r /\ "bell" \in Lists
      /\ sending # <<>> => sending[1] = r
  <2>1. CASE "bell" \in Lists
    <3>1. Listed(<<r>>) /\ DOMAIN <<r>> = {1} /\ <<r>>[1] = r
      <4>1. <<r>> \in Seq({r}) /\ Len(<<r>>) = 1 /\ <<r>>[1] = r
        OBVIOUS
      <4>2. Listed(<<r>>) /\ DOMAIN <<r>> = 1 .. 1
        BY <4>1, ListedIs
      <4> QED
        BY <4>1, <4>2
    <3> QED
      BY <1>1, <1>6, <2>1, <3>1 DEF AsksOK
  <2>2. CASE "bell" \notin Lists
    BY <1>1, <2>2, ListedEmpty DEF AsksOK
  <2> QED
    BY <2>1, <2>2
<1>8. ~Fetched(sending) /\ \A l : ~Done(sending, l)
  BY <1>5, <1>7 DEF Fetched, Done
<1>9. place = "notifications" => AllTold(feeds, sending, entries)
  BY <1>3, <1>6, <1>7 DEF AllTold, FirstShown
<1>10. ASSUME NEW l \in Lists PROVE Calm(feeds[l], sending, entries, l, outdated, late)
  <2>1. OneAsk(sending, l)
    BY <1>7 DEF OneAsk
  <2>2. \A i \in DOMAIN sending : sending[i].list = l => MadeOf(sending[i], feeds[l])
    BY <1>5, <1>6, <1>7
  <2>3. Unbroken(feeds[l], sending, entries, l, outdated, late)
    BY <1>3 DEF Unbroken, FirstShown
  <2>4. l \notin outdated => Counts(feeds[l], sending, entries, l)
    BY <1>1, <1>3, <1>8 DEF Counts, FirstShown
  <2> QED
    BY <2>1, <2>2, <2>3, <2>4 DEF Calm
<1>11. PageFits(sending, entries, outdated, late)
  BY <1>8 DEF PageFits
<1>12. ListsOK(entries, written, feeds, sending, mixed, outdated, late)
  BY <1>1, <1>2, <1>4, <1>7, <1>9, <1>10, <1>11 DEF ListsOK
<1>13. DetailOK(sending, drill, resolved)
  BY <1>1, <1>5, <1>7 DEF DetailOK
<1> QED
  BY <1>12, <1>13 DEF FeedsInv

LEMMA ListStep == FeedsInv /\ [ListNext]_listVars => FeedsInv'
<1> SUFFICES ASSUME FeedsInv, [ListNext]_listVars PROVE FeedsInv'
  OBVIOUS
<1>1. ASSUME NEW l \in Lists, NEW f \in Sort \cup {Every}, ChooseFilter(l, f) PROVE FeedsInv'
  BY <1>1, ChooseFilterKeeps
<1>2. ASSUME NEW l \in Lists, ApplyFilter(l) PROVE FeedsInv'
  BY <1>2, ApplyFilterKeeps
<1>3. CASE ToggleUnread
  BY <1>3, ToggleUnreadKeeps
<1>4. CASE OpenBell
  BY <1>4, OpenBellKeeps
<1>5. CASE ArchiveOld
  BY <1>5, ArchiveOldKeeps
<1>6. CASE CloseDetail
  BY <1>6, CloseDetailKeeps
<1>7. ASSUME NEW l \in Lists, LoadMore(l) PROVE FeedsInv'
  BY <1>7, LoadMoreKeeps
<1>8. ASSUME NEW l \in Lists, MarkAllRead(l) PROVE FeedsInv'
  BY <1>8, MarkAllReadKeeps
<1>9. ASSUME NEW l \in Lists, NEW e \in 1 .. MaxEntries, MarkRead(l, e) PROVE FeedsInv'
  BY <1>9, MarkReadKeeps
<1>10. ASSUME NEW e \in 1 .. MaxEntries, OpenDetail(e) PROVE FeedsInv'
  BY <1>10, OpenDetailKeeps
<1>11. CASE ServePage
  BY <1>11, ServePageKeeps
<1>12. CASE ServeMark
  BY <1>12, ServeMarkKeeps
<1>13. CASE ServeMarkAll
  BY <1>13, ServeMarkAllKeeps
<1>14. CASE ServeResolve
  BY <1>14, ServeResolveKeeps
<1>15. ASSUME NEW k \in 1 .. MaxEntries, ServeArchive(k) PROVE FeedsInv'
  BY <1>15, ServeArchiveKeeps
<1>16. ASSUME NEW k \in 1 .. MaxEntries, Elsewhere(k) PROVE FeedsInv'
  BY <1>16, ElsewhereKeeps
<1>17. ASSUME NEW k \in 1 .. MaxEntries, NEW s \in Sort, NewEntry(k, s) PROVE FeedsInv'
  BY <1>17, NewEntryKeeps
<1>18. CASE FailRequest /\ UNCHANGED <<entries, outdated>> /\ InBrowser
  BY <1>18, FailRequestKeeps
<1>19. CASE LoseListAnswer
  BY <1>19, LoseListAnswerKeeps
<1>20. CASE DeliverPage
  BY <1>20, DeliverPageKeeps
<1>21. CASE DeliverMark
  BY <1>21, DeliverMarkKeeps
<1>22. CASE DeliverMarkAll
  BY <1>22, DeliverMarkAllKeeps
<1>23. CASE DeliverArchive
  BY <1>23, DeliverArchiveKeeps
<1>24. CASE DeliverResolve
  BY <1>24, DeliverResolveKeeps
<1>25. CASE UNCHANGED listVars
  BY <1>25, InvFacts, SamePlace DEF listVars
<1> QED
  BY <1>1, <1>2, <1>3, <1>4, <1>5, <1>6, <1>7, <1>8, <1>9, <1>10, <1>11, <1>12, <1>13, <1>14, <1>15,
     <1>16, <1>17, <1>18, <1>19, <1>20, <1>21, <1>22, <1>23, <1>24, <1>25 DEF ListNext

LEMMA FeedsInvExact == FeedsInv => ListsExact
<1> SUFFICES ASSUME FeedsInv PROVE ListsExact
  OBVIOUS
<1>1. ASSUME NEW l \in Lists \ mixed,
             ~(place = "renewals" /\ feeds[l].applied = "closed" /\ (l \in outdated \/ Waits(l)))
      PROVE  ShowsRun(l)
  <2> DEFINE feed == feeds[l]
             items == feed.items
             ids == Ids(l)
  <2>1. ItemsOK(items, written) /\ Calm(feed, sending, entries, l, outdated, late)
    BY InvFacts DEF FeedOK, ListsOK
  <2>2. DOMAIN items = 1 .. Len(items) /\ Len(items) \in Nat /\ (items = <<>> <=> Len(items) = 0)
    BY <2>1, ListedFacts DEF ItemsOK
  <2>3. Fetched(sending) => 1 \in DOMAIN sending
    BY InvFacts, FirstAsk DEF Fetched
  <2>4. Falling(items) /\ Covers(items, entries, feed.applied, 0, feed.cursor = 0 /\ l # "bell", late)
    BY <1>1, <2>1, <2>3 DEF Calm, Unbroken, Vague, Waits
  <2>5. /\ ids = [i \in 1 .. Len(items) |-> items[i].id]
        /\ \A i \in DOMAIN items : ids[i] = items[i].id
    BY <2>2 DEF Ids
  <2>6. Matching(feed.applied, 0) = Match(entries, feed.applied, 0)
    BY DEF Matching, Match
  <2> HIDE DEF ids, items
  <2>7. ids \in Seq({items[i].id : i \in DOMAIN items}) /\ DOMAIN ids = DOMAIN items /\ Len(ids) = Len(items)
    BY <2>2, <2>5
  <2>8. ids # <<>> => items # <<>> /\ 1 \in DOMAIN items /\ Len(items) \in DOMAIN items
                      /\ ids[1] = items[1].id /\ Seqs!Last(ids) = items[Len(items)].id
    BY <2>2, <2>5, <2>7 DEF Seqs!Last
  <2>9. \A i, j \in DOMAIN ids : i < j => ids[i] > ids[j]
    BY <2>4, <2>5, <2>7 DEF Falling
  <2>10. ASSUME NEW e \in Match(entries, feed.applied, 0) \ late,
                ids # <<>>, e <= ids[1], e >= Seqs!Last(ids) \/ (feed.cursor = 0 /\ l # "bell")
         PROVE  e \in Seqs!ToSet(ids) \/ PassedOver(e, ids)
    <3>1. Seen(e, items)
      BY <2>4, <2>8, <2>10 DEF Covers
    <3>2. CASE \E i \in DOMAIN items : items[i].id = e
      BY <2>5, <2>7, <3>2 DEF Seqs!ToSet
    <3>3. CASE place # "audit" /\ \E i \in DOMAIN items : e < items[i].id /\ SameMs(e, items[i].id)
      BY <2>5, <2>7, <3>3 DEF PassedOver, SameMs
    <3> QED
      BY <3>1, <3>2, <3>3 DEF Seen
  <2> QED
    BY <2>6, <2>9, <2>10 DEF ShowsRun, ids
<1>2. ListsUnbroken
  BY <1>1 DEF ListsUnbroken
<1>3. ReadIsRead
  BY InvFacts DEF ReadIsRead, AllTold, Told
<1>4. ASSUME NEW l \in Lists \ (mixed \cup outdated), place = "notifications", ~Waits(l)
      PROVE  feeds[l].unread = Unread
  <2>1. Counts(feeds[l], sending, entries, l)
    BY <1>4, InvFacts DEF ListsOK, Calm
  <2>2. ~Done(sending, l)
    <3>1. sending # <<>> => 1 \in DOMAIN sending
      BY InvFacts, FirstAsk
    <3> QED
      BY <1>4, <3>1 DEF Done, Waits
  <2> QED
    BY <2>1, <2>2, UnreadIs DEF Counts
<1>5. UnreadExact
  BY <1>4 DEF UnreadExact
<1>6. DetailIsOwn
  BY InvFacts DEF DetailIsOwn, DetailOK
<1> QED
  BY <1>2, <1>3, <1>5, <1>6 DEF ListsExact

(* Whatever is written in whatever order, read, decided or archived        *)
(* meanwhile, and whichever requests fail: the list of a user who waits    *)
(* for its answers shows every row of its filter between the first and the *)
(* last it shows, once and in order (AuditHistoryTable, RenewalsList,      *)
(* NotificationsList), and counts what is not read (NotificationsBell).    *)
(* It may lack a row committed after a newer one and, but in the history,  *)
(* one of the millisecond of a row above it.  What any list shows as read  *)
(* was read, and the identifiers of a detail are those of its row.         *)
THEOREM ListsAreExact == ListSpec => []ListsExact
<1>1. ListInit /\ ListStarts => FeedsInv
  BY ListInitially
<1>2. FeedsInv /\ [ListNext]_listVars => FeedsInv'
  BY ListStep
<1>3. FeedsInv => ListsExact
  BY FeedsInvExact
<1> QED
  BY <1>1, <1>2, <1>3, PTL DEF ListSpec
=============================================================================
