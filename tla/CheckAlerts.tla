----------------------------- MODULE CheckAlerts -----------------------------
(***************************************************************************)
(* The check-alerts job: for every active alert configuration, the         *)
(* licences of its client that reached a threshold are looked for, and     *)
(* every active user is sent a notification, unless one of the same source *)
(* for the same client was already sent to that user today.                *)
(*                                                                         *)
(* The job runs every night, and ADMINs may launch it from the web         *)
(* application; nothing keeps two runs apart.  Each of its SELECTs and     *)
(* INSERTs is a step, and configurations, licences and users change        *)
(* between them.                                                           *)
(***************************************************************************)
EXTENDS Integers

CONSTANTS
  Client, Licence, Config, User,
  ClientOf,     \* the client of each licence
  ConfigClient, \* the client each configuration is attached to
  Admin,        \* the users whose role is ADMIN or SADMIN
  Run,          \* runs of the job, scheduled or manual
  Threshold,    \* thresholds, in steps of what the licence consumed or of
                \* the days it has left: the higher, the later it is reached
  Null,         \* NULL, and no row
  Overlap,      \* whether a run may start while another one is under way
  MaxDay,       \* bound: days modelled
  MaxChange,    \* bound: edits of configurations, users and licences
  MaxFault      \* bound: statements that fail and processes that die

Source == {"VOLUME_THRESHOLD", "DATE_THRESHOLD"}

(* At least one of the two thresholds is set (SPX-LIC-758).                *)
ConfigRow ==
  {row \in [actif : BOOLEAN, seuil : [Source -> Threshold \cup {Null}]] :
     \E s \in Source : row.seuil[s] # Null}

ASSUME AlertAssumption ==
  /\ ClientOf \in [Licence -> Client]
  /\ ConfigClient \in [Config -> Client]
  /\ Admin \subseteq User
  /\ Threshold \subseteq Nat \ {0} /\ Null \notin Nat
  /\ Overlap \in BOOLEAN
  /\ MaxDay \in Nat /\ MaxChange \in Nat /\ MaxFault \in Nat

JobCode == "check-alerts"

VARIABLES
  executions, lastExecution, stage, faults, \* the run's tracker
  configs,       \* lic_alert_configs, Null before creation and once deleted
  level,         \* per source, the steps each licence has reached
  active,        \* users whose actif is true
  notifications, \* lic_notifications, with the run that inserted each
  today,         \* DATE_TRUNC('day', NOW())
  handler,       \* the local state of each run's handler
  changes        \* how many edits were made

Tracker == INSTANCE BatchTracker
             WITH Job <- {JobCode}, JobOf <- [r \in Run |-> JobCode]

avars == <<executions, lastExecution, stage, faults, configs, level, active,
           notifications, today, handler, changes>>

-----------------------------------------------------------------------------
(* What one threshold of one configuration asks for, read once per run.    *)
Task == [config : Config, source : Source, seuil : Threshold]

Pair == Licence \X User

(* A notification somebody is entitled to once the rows were read.         *)
Due == [user : User, source : Source, client : Client, licence : Licence]

Idle ==
  [at |-> "configs", todo |-> {}, admins |-> {}, task |-> Null,
   pending |-> {}, row |-> Null, user |-> Null, owed |-> {}, since |-> 0]

Notification ==
  [user : User, source : Source, client : Client, licence : Licence,
   config : Config, day : 0..MaxDay, by : Run]

AlertTypeOK ==
  /\ Tracker!TrackerTypeOK
  /\ configs \in [Config -> ConfigRow \cup {Null}]
  /\ level \in [Source -> [Licence -> Threshold \cup {0}]]
  /\ active \subseteq User
  /\ notifications \subseteq Notification
  /\ today \in 0..MaxDay
  /\ changes \in 0..MaxChange
  /\ \A r \in Run :
       /\ handler[r].at \in {"configs", "users", "loop", "create"}
       /\ handler[r].todo \subseteq Task
       /\ handler[r].admins \subseteq User
       /\ handler[r].task \in Task \cup {Null}
       /\ handler[r].pending \subseteq Pair
       /\ handler[r].row \in Licence \cup {Null}
       /\ handler[r].user \in User \cup {Null}
       /\ handler[r].owed \subseteq Due
       /\ handler[r].since \in 0..MaxDay

AlertInit ==
  /\ Tracker!TrackerInit
  /\ configs \in [Config -> ConfigRow \cup {Null}]
  /\ level \in [Source -> [Licence -> Threshold \cup {0}]]
  /\ active \in SUBSET User
  /\ notifications = {}
  /\ today = 0
  /\ handler = [r \in Run |-> Idle]
  /\ changes = 0

Local(r, h) == handler' = [handler EXCEPT ![r] = h]

At(r, where) == stage[r] = "handler" /\ handler[r].at = where

world == <<configs, level, active, today, changes>>
tracker == <<executions, lastExecution, stage, faults>>

-----------------------------------------------------------------------------
(* pg-boss takes the job of the night, or an ADMIN presses the button.     *)
StartRun(r) ==
  /\ Overlap \/ \A o \in Run : ~Tracker!Running(o)
  /\ Tracker!BeginTrack(r)
  /\ UNCHANGED <<world, notifications, handler>>

Active(rows) == {c \in Config : rows[c] # Null /\ rows[c].actif}

Tasks(rows) ==
  {t \in Task : t.config \in Active(rows)
                /\ rows[t.config].seuil[t.source] = t.seuil}

(* findAllActive.                                                          *)
LoadConfigs(r) ==
  /\ At(r, "configs")
  /\ Local(r, [handler[r] EXCEPT !.at = "users", !.todo = Tasks(configs),
                                 !.since = today])
  /\ UNCHANGED <<tracker, world, notifications>>

(* Every active user, whatever their role; without any the run is over.    *)
LoadUsers(r) ==
  /\ At(r, "users")
  /\ Local(r, [handler[r] EXCEPT !.at = "loop", !.admins = active])
  /\ IF active = {} THEN Tracker!Reach(r, "returned") ELSE UNCHANGED stage
  /\ UNCHANGED <<executions, lastExecution, faults, world, notifications>>

(* Configuration after configuration, the volume threshold first.          *)
NextTasks(h) ==
  {t \in h.todo :
     \A o \in h.todo :
       /\ h.task # Null /\ o.config = h.task.config => t.config = o.config
       /\ o.config = t.config /\ o.source = "VOLUME_THRESHOLD"
            => t.source = "VOLUME_THRESHOLD"}

Reached(t) ==
  {l \in Licence : /\ ClientOf[l] = ConfigClient[t.config]
                   /\ level[t.source][l] >= t.seuil}

OwedBy(t, pairs) ==
  {[user |-> p[2], source |-> t.source, client |-> ConfigClient[t.config],
    licence |-> p[1]] : p \in pairs}

SelectRows(r) ==
  /\ At(r, "loop") /\ handler[r].pending = {}
  /\ \E t \in NextTasks(handler[r]) :
       LET pairs == Reached(t) \X handler[r].admins
       IN Local(r, [handler[r] EXCEPT !.task = t, !.todo = @ \ {t},
                                      !.pending = pairs, !.row = Null,
                                      !.owed = @ \cup OwedBy(t, pairs)])
  /\ UNCHANGED <<tracker, world, notifications>>

(* Mutant: the window of the check ends where it should start.             *)
AlreadySentBefore(u, s, c) ==
  \E n \in notifications :
    n.user = u /\ n.source = s /\ n.client = c /\ n.day < today

AlreadySentToday(u, s, c) ==
  \E n \in notifications :
    n.user = u /\ n.source = s /\ n.client = c /\ n.day = today

(* Row after row, every user for each.                                     *)
NextPairs(h) ==
  {p \in h.pending : \A o \in h.pending : o[1] = h.row => p[1] = h.row}

CheckSent(r) ==
  /\ At(r, "loop")
  /\ \E p \in NextPairs(handler[r]) :
       LET t == handler[r].task
           h == [handler[r] EXCEPT !.pending = @ \ {p}, !.row = p[1]]
       IN Local(r, IF AlreadySentToday(p[2], t.source, ConfigClient[t.config])
                   THEN h
                   ELSE [h EXCEPT !.at = "create", !.user = p[2]])
  /\ UNCHANGED <<tracker, world, notifications>>

CreateNotification(r) ==
  LET h == handler[r] IN
  /\ At(r, "create")
  /\ notifications' = notifications \cup
       {[user |-> h.user, source |-> h.task.source,
         client |-> ConfigClient[h.task.config], licence |-> h.row,
         config |-> h.task.config, day |-> today, by |-> r]}
  /\ Local(r, [h EXCEPT !.at = "loop", !.user = Null])
  /\ UNCHANGED <<tracker, world>>

FinishHandler(r) ==
  /\ At(r, "loop") /\ handler[r].pending = {} /\ handler[r].todo = {}
  /\ Tracker!Reach(r, "returned")
  /\ Local(r, [Idle EXCEPT !.owed = handler[r].owed, !.since = handler[r].since])
  /\ UNCHANGED <<executions, lastExecution, faults, world, notifications>>

TrackRun(r) ==
  /\ Tracker!Track(r)
  /\ UNCHANGED <<world, notifications, handler>>

RunFault(r) ==
  /\ Tracker!TrackFault(r)
  /\ UNCHANGED <<world, notifications, handler>>

-----------------------------------------------------------------------------
Change ==
  /\ changes < MaxChange
  /\ changes' = changes + 1
  /\ UNCHANGED <<tracker, notifications, today, handler>>

(* CreateAlertConfigUseCase: a new row, over thresholds and the flag.      *)
CreateConfig(c) ==
  /\ Change
  /\ configs[c] = Null
  /\ \E row \in ConfigRow : configs' = [configs EXCEPT ![c] = row]
  /\ UNCHANGED <<level, active>>

(* UpdateAlertConfigUseCase, over thresholds and the active flag.          *)
UpdateConfig(c) ==
  /\ Change
  /\ configs[c] # Null
  /\ \E row \in ConfigRow : configs' = [configs EXCEPT ![c] = row]
  /\ UNCHANGED <<level, active>>

DeleteConfig(c) ==
  /\ Change
  /\ configs[c] # Null
  /\ configs' = [configs EXCEPT ![c] = Null]
  /\ UNCHANGED <<level, active>>

(* The licence consumes, gets near its end, is renewed or expires.         *)
LicenceMoves(s, l) ==
  /\ Change
  /\ \E n \in Threshold \cup {0} : level' = [level EXCEPT ![s][l] = n]
  /\ UNCHANGED <<configs, active>>

ToggleUser(u) ==
  /\ Change
  /\ active' = IF u \in active THEN active \ {u} ELSE active \cup {u}
  /\ UNCHANGED <<configs, level>>

NextDay ==
  /\ today < MaxDay
  /\ today' = today + 1
  /\ UNCHANGED <<tracker, configs, level, active, notifications, handler, changes>>

HandlerStep(r) ==
  \/ LoadConfigs(r) \/ LoadUsers(r) \/ SelectRows(r) \/ CheckSent(r)
  \/ CreateNotification(r) \/ FinishHandler(r)

Next ==
  \/ \E r \in Run : StartRun(r) \/ HandlerStep(r) \/ TrackRun(r) \/ RunFault(r)
  \/ \E c \in Config : CreateConfig(c) \/ UpdateConfig(c) \/ DeleteConfig(c)
  \/ \E s \in Source, l \in Licence : LicenceMoves(s, l)
  \/ \E u \in User : ToggleUser(u)
  \/ NextDay

Spec == AlertInit /\ [][Next]_avars

(* A process that is not killed goes on with its run.                      *)
FairSpec == Spec /\ \A r \in Run : WF_avars(HandlerStep(r) \/ TrackRun(r))

-----------------------------------------------------------------------------
(* A user is told at most once a day of one kind of alert for one client,  *)
(* however often the job runs that day, fails and is run again, and        *)
(* whatever changes while it runs.  It takes runs that do not overlap.     *)
OncePerDay ==
  \A m, n \in notifications :
    (/\ m.user = n.user /\ m.source = n.source
     /\ m.client = n.client /\ m.day = n.day) => m = n

(* The notifications are of the users, licences and thresholds that there  *)
(* are, and with one run at a time nobody is told twice a day.             *)
NotificationsExact == AlertTypeOK /\ OncePerDay

(* A run recorded as SUCCESS left nobody out: every user it read was told  *)
(* of every client it found over a threshold, by this run or by another    *)
(* one since this run started.                                             *)
SuccessMeansNotified ==
  \A r \in Run :
    executions[r] = "SUCCESS" =>
      \A d \in handler[r].owed :
        \E n \in notifications :
          /\ n.user = d.user /\ n.source = d.source /\ n.client = d.client
          /\ n.day >= handler[r].since

(* The same for the licences: check-alerts announces a notification for    *)
(* each licence over a threshold.                                          *)
EveryLicenceNotified ==
  \A r \in Run :
    executions[r] = "SUCCESS" =>
      \A d \in handler[r].owed :
        \E n \in notifications : n.user = d.user /\ n.licence = d.licence

(* check-alerts announces that it notifies ADMINs and SADMINs.             *)
OnlyAdminsNotified == \A n \in notifications : n.user \in Admin

(* What the batch page shows as done was done: a SUCCESS left nobody out,  *)
(* and the last execution of a job is one that succeeded, whatever fails.  *)
SuccessIsTrue == SuccessMeansNotified /\ Tracker!LastExecutionSucceeded

(* A run ends and its row says how, unless its process dies or the UPDATE  *)
(* that closes the row is the one that fails.                              *)
RunsEnd ==
  \A r \in Run :
    executions[r] = "RUNNING"
      ~> executions[r] \in {"SUCCESS", "FAILED"} \/ stage[r] = "lost"
=============================================================================
