--------------------------- MODULE VolumeSnapshot ---------------------------
(***************************************************************************)
(* The job snapshot-volumes, which keeps the volumes of each licence and   *)
(* article once a month.  A run computes the month, reads every eligible   *)
(* link in one SELECT, then inserts snapshots one by one, each committing  *)
(* alone, while imports and edits go on; a scheduled and a manual run may  *)
(* overlap, and a process may die.  Months are instants of the process's   *)
(* clock, which the deployment keeps in UTC.                               *)
(***************************************************************************)
EXTENDS Integers, FiniteSets

CONSTANTS
  Link,       \* lic_licence_articles rows
  MaxVolume,  \* bound: the largest volume
  NoVolume,   \* a volume that is NULL
  Execution,  \* runs that may overlap
  MaxMonth,   \* bound: the last month
  MaxHeld     \* bound: link rows remembered in heldIn

ASSUME SnapshotAssumption == MaxVolume \in Nat /\ NoVolume \notin Nat /\ MaxMonth \in Nat

VARIABLES
  month,
  links,       \* lic_licence_articles and controle_volume of their articles
  history,     \* lic_article_volume_history
  executions,  \* the run each process is in
  heldIn       \* history: the volumes each link has had, with the month

snapshotVars == <<month, links, history, executions, heldIn>>

Volume == 0 .. MaxVolume

LinkRow ==
  [autorise : Volume \cup {NoVolume}, consomme : Volume \cup {NoVolume},
   controle : BOOLEAN]

Snapshot ==
  [link : Link, periode : 0 .. MaxMonth, autorise : Volume, consomme : Volume]

NotRunning == [stage |-> "idle"]

SnapshotOf(l, periode) ==
  [link |-> l, periode |-> periode, autorise |-> links[l].autorise,
   consomme |-> links[l].consomme]

(* What the links hold, at the month it is.                                *)
Held(rows, m) == {[link |-> l, month |-> m, row |-> rows[l]] : l \in Link}

SnapshotInit ==
  /\ month = 0
  /\ links \in [Link -> {[autorise |-> MaxVolume, consomme |-> 0, controle |-> TRUE],
                         [autorise |-> NoVolume, consomme |-> NoVolume, controle |-> TRUE]}]
  /\ history = {}
  /\ executions = [e \in Execution |-> NotRunning]
  /\ heldIn = Held(links, 0)

-----------------------------------------------------------------------------
(* An import or an edit sets the volumes, a catalogue edit the control.    *)
ChangeLink(l) ==
  /\ Cardinality(heldIn) < MaxHeld
  /\ \/ \E a \in Volume, c \in Volume :
          links' = [links EXCEPT ![l].autorise = a, ![l].consomme = c]
     \/ links' = [links EXCEPT ![l].controle = ~@]
  /\ heldIn' = heldIn \cup Held(links', month)
  /\ UNCHANGED <<month, history, executions>>

NextMonth ==
  /\ month < MaxMonth
  /\ month' = month + 1
  /\ heldIn' = heldIn \cup Held(links, month')
  /\ UNCHANGED <<links, history, executions>>

(* The period is computed first.                                           *)
StartExecution(e) ==
  /\ executions[e] = NotRunning
  /\ executions' = [executions EXCEPT ![e] = [stage |-> "read", periode |-> month]]
  /\ UNCHANGED <<month, links, history, heldIn>>

Eligible(row) == row.controle /\ row.autorise # NoVolume /\ row.consomme # NoVolume

ReadLinks(e) ==
  LET run == executions[e]
  IN  /\ run.stage = "read"
      /\ executions' = [executions EXCEPT ![e] =
           [stage |-> "loop", periode |-> run.periode,
            todo |-> {SnapshotOf(l, run.periode) : l \in {k \in Link : Eligible(links[k])}},
            kept |-> {}, errors |-> 0]]
      /\ UNCHANGED <<month, links, history, heldIn>>

(* uq_volume_history_licence_article_periode.                              *)
AlreadyKept(row) == \E h \in history : h.link = row.link /\ h.periode = row.periode

(* An error that is not the unique violation is counted and logged; the    *)
(* loop goes on.                                                           *)
FailureCounted(run, row) == [run EXCEPT !.todo = @ \ {row}, !.errors = @ + 1]

(* Mutant: the volume allowed is looked up when the snapshot is taken.     *)
RecordAutoriseNow(e) ==
  LET run == executions[e]
  IN  /\ run.stage = "loop"
      /\ \E row \in run.todo :
           /\ history' = IF AlreadyKept(row) THEN history
                         ELSE history \cup {[row EXCEPT !.autorise = links[row.link].autorise]}
           /\ executions' = [executions EXCEPT ![e] =
                [run EXCEPT !.todo = @ \ {row}, !.kept = @ \cup {row}]]
      /\ UNCHANGED <<month, links, heldIn>>

(* Created, or skipped on SPX-LIC-754, which says that the month has its   *)
(* snapshot.                                                               *)
RecordSnapshot(e) ==
  LET run == executions[e]
  IN  /\ run.stage = "loop"
      /\ \E row \in run.todo :
           /\ history' = IF AlreadyKept(row) THEN history ELSE history \cup {row}
           /\ executions' = [executions EXCEPT ![e] =
                [run EXCEPT !.todo = @ \ {row}, !.kept = @ \cup {row}]]
      /\ UNCHANGED <<month, links, heldIn>>

FailSnapshot(e) ==
  LET run == executions[e]
  IN  /\ run.stage = "loop"
      /\ \E row \in run.todo :
           executions' = [executions EXCEPT ![e] = FailureCounted(run, row)]
      /\ UNCHANGED <<month, links, history, heldIn>>

(* The tracker writes SUCCESS, whatever the counts.                        *)
FinishExecution(e) ==
  /\ executions[e].stage = "loop"
  /\ executions[e].todo = {}
  /\ executions' = [executions EXCEPT ![e].stage = "success"]
  /\ UNCHANGED <<month, links, history, heldIn>>

(* The process dies, or a finished run is forgotten.                       *)
ExecutionDies(e) ==
  /\ executions[e] # NotRunning
  /\ executions' = [executions EXCEPT ![e] = NotRunning]
  /\ UNCHANGED <<month, links, history, heldIn>>

SnapshotNext ==
  \/ \E l \in Link : ChangeLink(l)
  \/ NextMonth
  \/ \E e \in Execution : \/ StartExecution(e)
                          \/ ReadLinks(e)
                          \/ RecordSnapshot(e)
                          \/ FailSnapshot(e)
                          \/ FinishExecution(e)
                          \/ ExecutionDies(e)

SnapshotSpec == SnapshotInit /\ [][SnapshotNext]_snapshotVars

-----------------------------------------------------------------------------
(* The table holds complete snapshots, the links volumes or NULL.          *)
SnapshotTypeOK ==
  /\ month \in 0 .. MaxMonth
  /\ links \in [Link -> LinkRow]
  /\ history \subseteq Snapshot
  /\ \A e \in Execution :
       executions[e].stage \in {"loop", "success"} =>
         /\ executions[e].todo \cup executions[e].kept \subseteq Snapshot
         /\ executions[e].errors \in Nat

(* However a scheduled and a manual run overlap, a link has one snapshot   *)
(* of a month, and it stays as it was first taken.                         *)
OneSnapshotPerMonth ==
  \A g, h \in history : g.link = h.link /\ g.periode = h.periode => g = h

(* A snapshot holds volumes the link had together at one moment, in its    *)
(* month or, when the month turned while the run was reading, after it:    *)
(* never a mixture of two updates, never volumes from before.              *)
SnapshotWasHeld ==
  \A h \in history :
    \E held \in heldIn :
      /\ held.link = h.link /\ held.month >= h.periode
      /\ held.row.autorise = h.autorise /\ held.row.consomme = h.consomme
      /\ held.row.controle

(* A row a run counts as created or skipped has a snapshot of the run's    *)
(* month: only what is counted as an error may be missing.                 *)
CountedMeansKept ==
  \A e \in Execution :
    executions[e].stage \in {"loop", "success"} =>
      \A row \in executions[e].kept : AlreadyKept(row)

(* The history of volumes is exact: one snapshot for a link and a month, of *)
(* volumes the link really had, for every row that a run counts as kept.   *)
SnapshotsExact ==
  SnapshotTypeOK /\ OneSnapshotPerMonth /\ SnapshotWasHeld /\ CountedMeansKept

-----------------------------------------------------------------------------
(* What the schema and the names promise and the steps refute.             *)

(* A run that ends in SUCCESS leaves no eligible link without a snapshot   *)
(* of its month: errors are counted in the log and the status is SUCCESS.  *)
SuccessMeansComplete ==
  \A e \in Execution : executions[e].stage = "success" => executions[e].errors = 0

(* A snapshot is of its month: the month may turn between the computation  *)
(* of the period and the SELECT.                                           *)
SnapshotOfItsMonth ==
  \A h \in history :
    \E held \in heldIn :
      /\ held.link = h.link /\ held.month = h.periode
      /\ held.row.autorise = h.autorise /\ held.row.consomme = h.consomme
=============================================================================
