------------------------- MODULE CheckAlerts_proofs -------------------------
(***************************************************************************)
(* Proofs about CheckAlerts: with one run at a time nobody is told twice a *)
(* day, and, whatever overlaps, a run recorded as SUCCESS left nobody out  *)
(* and the last execution of the job is one that succeeded.                *)
(***************************************************************************)
EXTENDS CheckAlerts, TLAPS

(* The local state of a handler.                                           *)
Handler ==
  [at : {"configs", "users", "loop", "create"}, todo : SUBSET Task,
   admins : SUBSET User, task : Task \cup {Null}, pending : SUBSET Pair,
   row : Licence \cup {Null}, user : User \cup {Null}, owed : SUBSET Due,
   since : 0..MaxDay]

(* While there are pairs to look at, and between a check and its INSERT,   *)
(* the handler has a task; and the INSERT has a licence and a user.        *)
Prepared ==
  \A r \in Run :
    /\ handler[r].pending # {} => handler[r].task \in Task
    /\ handler[r].at = "create" =>
         /\ handler[r].task \in Task
         /\ handler[r].row \in Licence /\ handler[r].user \in User

Typed == Tracker!TrackerTypeOK /\ AlertTypeOK /\ handler \in [Run -> Handler] /\ Prepared

-----------------------------------------------------------------------------
LEMMA InitTyped == AlertInit => Typed
<1> SUFFICES ASSUME AlertInit PROVE Typed
  OBVIOUS
<1> USE AlertAssumption
<1>1. Tracker!TrackerTypeOK
  BY DEF AlertInit, Tracker!TrackerInit, Tracker!TrackerTypeOK, Tracker!Stage
<1>2. Idle \in Handler
  BY DEF Idle, Handler
<1>3. handler \in [Run -> Handler]
  BY <1>2 DEF AlertInit
<1>4. \A r \in Run : handler[r].pending = {} /\ handler[r].at = "configs"
  BY DEF AlertInit, Idle
<1>5. Prepared
  BY <1>4 DEF Prepared
<1>6. AlertTypeOK
  BY <1>1, <1>3 DEF AlertTypeOK, AlertInit, Handler
<1> QED
  BY <1>1, <1>3, <1>5, <1>6 DEF Typed

(* A step that writes at most one handler's state keeps it typed.          *)
LEMMA LocalTyped ==
  ASSUME NEW r \in Run, NEW h \in Handler,
         handler \in [Run -> Handler], Local(r, h), Prepared,
         h.pending # {} => h.task \in Task,
         h.at = "create" => h.task \in Task /\ h.row \in Licence /\ h.user \in User
  PROVE  /\ handler' \in [Run -> Handler]
         /\ handler'[r] = h
         /\ \A q \in Run \ {r} : handler'[q] = handler[q]
         /\ Prepared'
<1>1. /\ handler' \in [Run -> Handler]
      /\ handler'[r] = h
      /\ \A q \in Run \ {r} : handler'[q] = handler[q]
  BY DEF Local
<1>2. ASSUME NEW q \in Run
      PROVE  /\ handler'[q].pending # {} => handler'[q].task \in Task
             /\ handler'[q].at = "create" =>
                  /\ handler'[q].task \in Task
                  /\ handler'[q].row \in Licence /\ handler'[q].user \in User
  BY <1>1 DEF Prepared
<1> QED
  BY <1>1, <1>2 DEF Prepared

(* What a step of a handler does to the types.                             *)
LEMMA HandlerStepTyped ==
  ASSUME NEW r \in Run, Typed, HandlerStep(r)
  PROVE  handler' \in [Run -> Handler] /\ Prepared'
<1> DEFINE g == handler[r]
<1>1. /\ g \in Handler
      /\ handler \in [Run -> Handler] /\ Prepared /\ today \in 0..MaxDay
      /\ configs \in [Config -> ConfigRow \cup {Null}] /\ active \subseteq User
      /\ Run = DOMAIN handler
  BY DEF Typed, AlertTypeOK
<1>2. CASE LoadConfigs(r)
  <2> DEFINE h == [g EXCEPT !.at = "users", !.todo = Tasks(configs), !.since = today]
  <2>1. h \in Handler /\ h.pending = g.pending /\ h.task = g.task /\ h.at = "users"
    BY <1>1 DEF Handler, Tasks
  <2>2. Local(r, h)
    BY <1>2 DEF LoadConfigs
  <2>3. h.pending # {} => h.task \in Task
    BY <1>1, <2>1 DEF Prepared
  <2> HIDE DEF h
  <2> QED
    BY <1>1, <2>1, <2>2, <2>3, LocalTyped
<1>3. CASE LoadUsers(r)
  <2> DEFINE h == [g EXCEPT !.at = "loop", !.admins = active]
  <2>1. h \in Handler /\ h.pending = g.pending /\ h.task = g.task /\ h.at = "loop"
    BY <1>1 DEF Handler
  <2>2. Local(r, h)
    BY <1>3 DEF LoadUsers
  <2>3. h.pending # {} => h.task \in Task
    BY <1>1, <2>1 DEF Prepared
  <2> HIDE DEF h
  <2> QED
    BY <1>1, <2>1, <2>2, <2>3, LocalTyped
<1>4. CASE SelectRows(r)
  <2> DEFINE pairs(t) == Reached(t) \X g.admins
             h(t) == [g EXCEPT !.task = t, !.todo = @ \ {t}, !.pending = pairs(t),
                               !.row = Null, !.owed = @ \cup OwedBy(t, pairs(t))]
  <2>1. PICK t \in NextTasks(g) : Local(r, h(t))
    BY <1>4 DEF SelectRows
  <2>2. t \in Task
    BY <1>1 DEF NextTasks, Handler
  <2>3. pairs(t) \subseteq Pair
    BY <1>1 DEF Reached, Pair, Handler
  <2>4. OwedBy(t, pairs(t)) \subseteq Due
    BY <2>2, <2>3, AlertAssumption DEF OwedBy, Due, Task, Pair
  <2>5. g.at = "loop"
    BY <1>4 DEF SelectRows, At
  <2> HIDE DEF pairs
  <2>6. h(t) \in Handler
    BY <1>1, <2>2, <2>3, <2>4 DEF Handler
  <2>7. h(t).task = t /\ h(t).at = "loop"
    BY <1>1, <2>5 DEF Handler
  <2> HIDE DEF h
  <2> QED
    BY <1>1, <2>1, <2>2, <2>6, <2>7, LocalTyped
<1>5. CASE CheckSent(r)
  <2> DEFINE k(p) == [g EXCEPT !.pending = @ \ {p}, !.row = p[1]]
             h(p) == IF AlreadySentToday(p[2], g.task.source, ConfigClient[g.task.config])
                     THEN k(p) ELSE [k(p) EXCEPT !.at = "create", !.user = p[2]]
  <2>1. PICK p \in NextPairs(g) : Local(r, h(p))
    BY <1>5 DEF CheckSent
  <2>2. p \in g.pending /\ p \in Pair
    BY <1>1 DEF NextPairs, Handler
  <2>3. p[1] \in Licence /\ p[2] \in User
    BY <2>2 DEF Pair
  <2>4. k(p) \in Handler /\ k(p).task = g.task /\ k(p).row = p[1] /\ k(p).at = g.at
    BY <1>1, <2>3 DEF Handler
  <2>5. g.task \in Task /\ g.at = "loop"
    BY <1>1, <1>5, <2>2 DEF Prepared, CheckSent, At
  <2> HIDE DEF k
  <2>6. h(p) \in Handler /\ h(p).task = g.task /\ h(p).row = p[1]
        /\ (h(p).at = "create" => h(p).user = p[2])
    BY <2>3, <2>4, <2>5 DEF Handler
  <2> HIDE DEF h
  <2> QED
    BY <1>1, <2>1, <2>3, <2>5, <2>6, LocalTyped
<1>6. CASE CreateNotification(r)
  <2> DEFINE h == [g EXCEPT !.at = "loop", !.user = Null]
  <2>1. h \in Handler /\ h.pending = g.pending /\ h.task = g.task /\ h.at = "loop"
    BY <1>1 DEF Handler
  <2>2. Local(r, h)
    BY <1>6 DEF CreateNotification
  <2>3. h.pending # {} => h.task \in Task
    BY <1>1, <2>1 DEF Prepared
  <2> HIDE DEF h
  <2> QED
    BY <1>1, <2>1, <2>2, <2>3, LocalTyped
<1>7. CASE FinishHandler(r)
  <2> DEFINE h == [Idle EXCEPT !.owed = g.owed, !.since = g.since]
  <2>1. h \in Handler /\ h.pending = {} /\ h.at = "configs"
    BY <1>1 DEF Handler, Idle
  <2>2. Local(r, h)
    BY <1>7 DEF FinishHandler
  <2> HIDE DEF h
  <2> QED
    BY <1>1, <2>1, <2>2, LocalTyped
<1> QED
  BY <1>2, <1>3, <1>4, <1>5, <1>6, <1>7 DEF HandlerStep

(* The notification a handler inserts.                                     *)
New(r) ==
  [user |-> handler[r].user, source |-> handler[r].task.source,
   client |-> ConfigClient[handler[r].task.config], licence |-> handler[r].row,
   config |-> handler[r].task.config, day |-> today, by |-> r]

LEMMA NewTyped ==
  ASSUME NEW r \in Run, Typed, CreateNotification(r)
  PROVE  New(r) \in Notification /\ notifications' = notifications \cup {New(r)}
<1>1. handler[r].at = "create" /\ notifications' = notifications \cup {New(r)}
  BY DEF CreateNotification, At, New
<1>2. handler[r].task \in Task /\ handler[r].row \in Licence /\ handler[r].user \in User
      /\ today \in 0..MaxDay
  BY <1>1 DEF Typed, Prepared, AlertTypeOK
<1> QED
  BY <1>1, <1>2, AlertAssumption DEF New, Notification, Task

(* The tracker keeps the types of its columns.                             *)
LEMMA TrackerTyped ==
  ASSUME Tracker!TrackerTypeOK, NEW r \in Run,
         \/ Tracker!BeginTrack(r) \/ Tracker!Track(r) \/ Tracker!TrackFault(r)
         \/ HandlerStep(r)
  PROVE  Tracker!TrackerTypeOK'
<1> USE DEF Tracker!TrackerTypeOK, Tracker!Stage, Tracker!Reach
<1>1. CASE Tracker!BeginTrack(r)
  BY <1>1 DEF Tracker!BeginTrack
<1>2. CASE Tracker!Track(r)
  BY <1>2 DEF Tracker!Track, Tracker!MarkSuccess, Tracker!SetLastExecution, Tracker!MarkFailed
<1>3. CASE Tracker!TrackFault(r)
  BY <1>3, AlertAssumption
     DEF Tracker!TrackFault, Tracker!StatementFails, Tracker!Abandon, Tracker!Fault
<1>4. CASE HandlerStep(r)
  BY <1>4 DEF HandlerStep, LoadConfigs, LoadUsers, SelectRows, CheckSent,
              CreateNotification, FinishHandler, tracker
<1> QED
  BY <1>1, <1>2, <1>3, <1>4

LEMMA NextTyped == Typed /\ [Next]_avars => Typed'
<1> SUFFICES ASSUME Typed, [Next]_avars PROVE Typed'
  OBVIOUS
<1> DEFINE TablesOK ==
             /\ configs \in [Config -> ConfigRow \cup {Null}]
             /\ level \in [Source -> [Licence -> Threshold \cup {0}]]
             /\ active \subseteq User
             /\ notifications \subseteq Notification
             /\ today \in 0..MaxDay
             /\ changes \in 0..MaxChange
           HandlersOK == handler \in [Run -> Handler] /\ Prepared
<1>1. TablesOK /\ HandlersOK /\ Tracker!TrackerTypeOK
  BY DEF Typed, AlertTypeOK
<1>2. SUFFICES TablesOK' /\ HandlersOK' /\ Tracker!TrackerTypeOK'
  <2>1. HandlersOK => \A r \in Run :
          /\ handler[r].at \in {"configs", "users", "loop", "create"}
          /\ handler[r].todo \subseteq Task
          /\ handler[r].admins \subseteq User
          /\ handler[r].task \in Task \cup {Null}
          /\ handler[r].pending \subseteq Pair
          /\ handler[r].row \in Licence \cup {Null}
          /\ handler[r].user \in User \cup {Null}
          /\ handler[r].owed \subseteq Due
          /\ handler[r].since \in 0..MaxDay
    BY DEF Handler
  <2>2. (HandlersOK => \A r \in Run :
          /\ handler[r].at \in {"configs", "users", "loop", "create"}
          /\ handler[r].todo \subseteq Task
          /\ handler[r].admins \subseteq User
          /\ handler[r].task \in Task \cup {Null}
          /\ handler[r].pending \subseteq Pair
          /\ handler[r].row \in Licence \cup {Null}
          /\ handler[r].user \in User \cup {Null}
          /\ handler[r].owed \subseteq Due
          /\ handler[r].since \in 0..MaxDay)'
    BY DEF Handler
  <2> QED
    BY <1>2, <2>2 DEF Typed, AlertTypeOK
<1>3. ASSUME NEW r \in Run, HandlerStep(r)
      PROVE  TablesOK' /\ HandlersOK' /\ Tracker!TrackerTypeOK'
  <2>1. HandlersOK' /\ Tracker!TrackerTypeOK'
    BY <1>1, <1>3, HandlerStepTyped, TrackerTyped
  <2>2. UNCHANGED world
    BY <1>3 DEF HandlerStep, LoadConfigs, LoadUsers, SelectRows, CheckSent,
                CreateNotification, FinishHandler
  <2>3. notifications' \subseteq Notification
    <3>1. CASE CreateNotification(r)
      BY <1>1, <3>1, NewTyped
    <3>2. CASE ~CreateNotification(r)
      BY <1>1, <1>3, <3>2 DEF HandlerStep, LoadConfigs, LoadUsers, SelectRows, CheckSent,
                              FinishHandler
    <3> QED
      BY <3>1, <3>2
  <2> QED
    BY <1>1, <2>1, <2>2, <2>3 DEF world
<1>4. ASSUME NEW r \in Run, StartRun(r) \/ TrackRun(r) \/ RunFault(r)
      PROVE  TablesOK' /\ HandlersOK' /\ Tracker!TrackerTypeOK'
  <2>1. Tracker!TrackerTypeOK'
    BY <1>1, <1>4, TrackerTyped DEF StartRun, TrackRun, RunFault
  <2>2. UNCHANGED <<world, notifications, handler>>
    BY <1>4 DEF StartRun, TrackRun, RunFault
  <2> QED
    BY <1>1, <2>1, <2>2 DEF world, Prepared
<1>5. ASSUME \/ \E c \in Config : CreateConfig(c) \/ UpdateConfig(c) \/ DeleteConfig(c)
             \/ \E s \in Source, l \in Licence : LicenceMoves(s, l)
             \/ \E u \in User : ToggleUser(u)
      PROVE  TablesOK' /\ HandlersOK' /\ Tracker!TrackerTypeOK'
  <2>1. Change
    BY <1>5 DEF CreateConfig, UpdateConfig, DeleteConfig, LicenceMoves, ToggleUser
  <2>2. HandlersOK' /\ Tracker!TrackerTypeOK' /\ notifications' = notifications
        /\ today' = today /\ changes' \in 0..MaxChange
    BY <1>1, <2>1, AlertAssumption DEF Change, Prepared, Tracker!TrackerTypeOK, tracker
  <2>3. /\ configs' \in [Config -> ConfigRow \cup {Null}]
        /\ level' \in [Source -> [Licence -> Threshold \cup {0}]]
        /\ active' \subseteq User
    BY <1>1, <1>5 DEF CreateConfig, UpdateConfig, DeleteConfig, LicenceMoves, ToggleUser
  <2> QED
    BY <1>1, <2>2, <2>3
<1>6. CASE NextDay
  BY <1>1, <1>6, AlertAssumption DEF NextDay, Prepared, Tracker!TrackerTypeOK, tracker
<1>7. CASE UNCHANGED avars
  BY <1>1, <1>7 DEF avars, Prepared, Tracker!TrackerTypeOK
<1> QED
  BY <1>3, <1>4, <1>5, <1>6, <1>7 DEF Next

(* The job's rows, the handlers and the notifications hold values of their *)
(* types, whoever edits what while a run is under way.                     *)
THEOREM AlertTypeCorrect == Spec => []AlertTypeOK
<1>1. Typed => AlertTypeOK
  BY DEF Typed
<1> QED
  BY <1>1, InitTyped, NextTyped, PTL DEF Spec

-----------------------------------------------------------------------------
(* Nobody twice a day.  Runs one at a time: between the check of a pair    *)
(* and its INSERT no other run inserts, and the day that may begin there   *)
(* has no notification yet.                                                *)
Rested == \A r \in Run : stage[r] = "idle" => handler[r] = Idle

Alone == \A r, q \in Run : Tracker!Running(r) /\ Tracker!Running(q) => r = q

NothingLater == \A n \in notifications : n.day <= today

Unsent ==
  \A r \in Run :
    At(r, "create") =>
      ~AlreadySentToday(handler[r].user, handler[r].task.source,
                        ConfigClient[handler[r].task.config])

DayInv == Rested /\ Alone /\ NothingLater /\ Unsent /\ OncePerDay

LEMMA InitDayInv == AlertInit => DayInv
  BY DEF AlertInit, Tracker!TrackerInit, Tracker!Running, DayInv, Rested, Alone,
         NothingLater, Unsent, OncePerDay, At

(* What every step leaves alone: no handler but the one that runs moves,   *)
(* and only a run that starts leaves "idle".                               *)
LEMMA HandlerStepFrame ==
  ASSUME NEW r \in Run, Typed, HandlerStep(r)
  PROVE  /\ stage[r] = "handler" /\ stage'[r] \in {"handler", "returned"}
         /\ \A q \in Run \ {r} : stage'[q] = stage[q] /\ handler'[q] = handler[q]
         /\ UNCHANGED <<world, executions, lastExecution>>
<1> USE DEF Typed, Tracker!TrackerTypeOK
<1>1. stage[r] = "handler" /\ UNCHANGED <<world, executions, lastExecution>>
  BY DEF HandlerStep, LoadConfigs, LoadUsers, SelectRows, CheckSent, CreateNotification,
         FinishHandler, At, tracker
<1>2. \/ UNCHANGED stage
      \/ stage' = [stage EXCEPT ![r] = "returned"]
  BY DEF HandlerStep, LoadConfigs, LoadUsers, SelectRows, CheckSent, CreateNotification,
         FinishHandler, tracker, Tracker!Reach
<1>3. \E h : handler' = [handler EXCEPT ![r] = h]
  BY DEF HandlerStep, LoadConfigs, LoadUsers, SelectRows, CheckSent, CreateNotification,
         FinishHandler, Local
<1> QED
  BY <1>1, <1>2, <1>3

(* The steps of the tracker's own statements and failures.                 *)
LEMMA TrackerFrame ==
  ASSUME NEW r \in Run, Typed, TrackRun(r) \/ RunFault(r)
  PROVE  /\ stage[r] # "idle"
         /\ stage'[r] \in {"linking", "over", "threw", "lost"}
         /\ \A q \in Run \ {r} : stage'[q] = stage[q]
         /\ Tracker!Running(r)
         /\ UNCHANGED <<world, notifications, handler>>
<1> USE DEF Typed, Tracker!TrackerTypeOK, Tracker!Reach, Tracker!Running
<1>1. CASE TrackRun(r)
  BY <1>1 DEF TrackRun, Tracker!Track, Tracker!MarkSuccess, Tracker!SetLastExecution,
              Tracker!MarkFailed
<1>2. CASE RunFault(r)
  BY <1>2 DEF RunFault, Tracker!TrackFault, Tracker!StatementFails, Tracker!Abandon
<1> QED
  BY <1>1, <1>2

LEMMA HandlerStepDayInv ==
  ASSUME NEW r \in Run, Typed, DayInv, HandlerStep(r)
  PROVE  DayInv'
<1> DEFINE g == handler[r]
           Free(h) == ~AlreadySentToday(h.user, h.task.source, ConfigClient[h.task.config])
<1>1. /\ stage[r] = "handler" /\ stage'[r] \in {"handler", "returned"}
      /\ \A q \in Run \ {r} : stage'[q] = stage[q] /\ handler'[q] = handler[q]
      /\ today' = today
  BY HandlerStepFrame DEF world
<1>2. Rested' /\ Alone'
  BY <1>1 DEF DayInv, Rested, Alone, Tracker!Running
<1>3. \A q \in Run \ {r} : stage[q] # "handler"
  BY <1>1 DEF DayInv, Alone, Tracker!Running
<1>4. ASSUME At(r, "create")' => ~AlreadySentToday(handler[r].user, handler[r].task.source,
                                     ConfigClient[handler[r].task.config])'
      PROVE  Unsent'
  BY <1>1, <1>3, <1>4 DEF Unsent, At
<1>5. g \in Handler /\ handler \in [Run -> Handler] /\ Prepared /\ today \in 0..MaxDay
      /\ notifications \subseteq Notification
  BY DEF Typed, AlertTypeOK
<1>6. CASE CreateNotification(r)
  <2>1. New(r) \in Notification /\ notifications' = notifications \cup {New(r)}
    BY <1>6, NewTyped
  <2>2. New(r).day = today /\ New(r).user = g.user /\ New(r).source = g.task.source
        /\ New(r).client = ConfigClient[g.task.config]
    BY DEF New
  <2>3. Free(g)
    BY <1>6 DEF DayInv, Unsent, CreateNotification
  <2>4. \A n \in notifications :
           ~(/\ n.user = New(r).user /\ n.source = New(r).source
             /\ n.client = New(r).client /\ n.day = New(r).day)
    BY <2>2, <2>3 DEF AlreadySentToday
  <2> HIDE DEF Free
  <2>5. OncePerDay'
    BY <2>1, <2>4 DEF DayInv, OncePerDay
  <2>6. NothingLater'
    BY <1>1, <1>5, <2>1, <2>2 DEF DayInv, NothingLater
  <2>7. handler'[r].at = "loop"
    <3> DEFINE h == [g EXCEPT !.at = "loop", !.user = Null]
    <3>1. h.at = "loop" /\ handler' = [handler EXCEPT ![r] = h]
      BY <1>5, <1>6 DEF CreateNotification, Local, Handler
    <3> HIDE DEF h
    <3> QED
      BY <1>5, <3>1
  <2>8. Unsent'
    BY <1>4, <2>7 DEF At
  <2> QED
    BY <1>2, <2>5, <2>6, <2>8 DEF DayInv
<1>7. CASE CheckSent(r)
  <2> DEFINE k(p) == [g EXCEPT !.pending = @ \ {p}, !.row = p[1]]
             Sent(p) == AlreadySentToday(p[2], g.task.source, ConfigClient[g.task.config])
             h(p) == IF Sent(p) THEN k(p) ELSE [k(p) EXCEPT !.at = "create", !.user = p[2]]
  <2>1. PICK p \in NextPairs(g) : handler' = [handler EXCEPT ![r] = h(p)]
    BY <1>7 DEF CheckSent, Local
  <2>2. notifications' = notifications
    BY <1>7 DEF CheckSent
  <2>3. k(p).at = g.at /\ k(p).task = g.task /\ g.at = "loop"
    BY <1>5, <1>7 DEF Handler, CheckSent, At
  <2>4. DOMAIN k(p) = DOMAIN g /\ {"at", "user", "task"} \subseteq DOMAIN g
    BY <1>5 DEF Handler
  <2> HIDE DEF k, Sent
  <2>5. h(p).task = g.task /\ (h(p).at = "create" => h(p).user = p[2] /\ ~Sent(p))
    BY <2>3, <2>4
  <2>6. handler'[r] = h(p)
    BY <1>5, <2>1
  <2> HIDE DEF h
  <2>7. At(r, "create")' => ~AlreadySentToday(handler[r].user, handler[r].task.source,
                                  ConfigClient[handler[r].task.config])'
    BY <1>1, <2>2, <2>5, <2>6 DEF At, AlreadySentToday, Sent
  <2>8. NothingLater' /\ OncePerDay'
    BY <1>1, <2>2 DEF DayInv, NothingLater, OncePerDay
  <2> QED
    BY <1>2, <1>4, <2>7, <2>8 DEF DayInv
<1>8. CASE LoadConfigs(r) \/ LoadUsers(r) \/ SelectRows(r) \/ FinishHandler(r)
  <2>1. notifications' = notifications
    BY <1>8 DEF LoadConfigs, LoadUsers, SelectRows, FinishHandler
  <2>2. handler'[r].at # "create"
    <3> DEFINE a == [g EXCEPT !.at = "users", !.todo = Tasks(configs), !.since = today]
               b == [g EXCEPT !.at = "loop", !.admins = active]
               c(t) == [g EXCEPT !.task = t, !.todo = @ \ {t},
                                 !.pending = Reached(t) \X g.admins, !.row = Null,
                                 !.owed = @ \cup OwedBy(t, Reached(t) \X g.admins)]
               d == [Idle EXCEPT !.owed = g.owed, !.since = g.since]
    <3>1. a.at = "users" /\ b.at = "loop" /\ d.at = "configs" /\ \A t : c(t).at = g.at
      BY <1>5 DEF Handler, Idle
    <3>2. SelectRows(r) => g.at = "loop"
      BY DEF SelectRows, At
    <3>3. \/ handler' = [handler EXCEPT ![r] = a]
          \/ handler' = [handler EXCEPT ![r] = b]
          \/ SelectRows(r) /\ \E t : handler' = [handler EXCEPT ![r] = c(t)]
          \/ handler' = [handler EXCEPT ![r] = d]
      BY <1>8 DEF LoadConfigs, LoadUsers, SelectRows, FinishHandler, Local
    <3> HIDE DEF a, b, c, d
    <3> QED
      BY <1>5, <3>1, <3>2, <3>3
  <2>3. NothingLater' /\ OncePerDay'
    BY <1>1, <2>1 DEF DayInv, NothingLater, OncePerDay
  <2> QED
    BY <1>2, <1>4, <2>2, <2>3 DEF DayInv, At
<1> QED
  BY <1>6, <1>7, <1>8 DEF HandlerStep

LEMMA NextDayInv == ~Overlap /\ Typed /\ DayInv /\ [Next]_avars => DayInv'
<1> SUFFICES ASSUME ~Overlap, Typed, DayInv, [Next]_avars PROVE DayInv'
  OBVIOUS
<1> USE DEF DayInv
<1>1. ASSUME NEW r \in Run, StartRun(r) PROVE DayInv'
  <2>1. stage[r] = "idle" /\ stage' = [stage EXCEPT ![r] = "handler"]
        /\ UNCHANGED <<world, notifications, handler>>
        /\ \A o \in Run : ~Tracker!Running(o)
    BY <1>1 DEF StartRun, Tracker!BeginTrack, Tracker!Reach
  <2>2. \A q \in Run : IF q = r THEN stage'[q] = "handler" ELSE stage'[q] = stage[q]
    BY <2>1 DEF Typed, Tracker!TrackerTypeOK
  <2>3. Rested' /\ Alone'
    BY <2>1, <2>2 DEF Rested, Alone, Tracker!Running
  <2>4. handler[r].at = "configs"
    BY <2>1 DEF Rested, Idle
  <2> QED
    BY <2>1, <2>2, <2>3, <2>4
       DEF world, NothingLater, OncePerDay, Unsent, At, AlreadySentToday, Tracker!Running
<1>2. ASSUME NEW r \in Run, TrackRun(r) \/ RunFault(r) PROVE DayInv'
  <2>1. /\ stage[r] # "idle" /\ Tracker!Running(r)
        /\ stage'[r] \in {"linking", "over", "threw", "lost"}
        /\ \A q \in Run \ {r} : stage'[q] = stage[q]
        /\ UNCHANGED <<world, notifications, handler>>
    BY <1>2, TrackerFrame
  <2>2. Rested' /\ Alone'
    BY <2>1 DEF Rested, Alone, Tracker!Running
  <2> QED
    BY <2>1, <2>2 DEF world, NothingLater, OncePerDay, Unsent, At, AlreadySentToday
<1>3. CASE \/ \E c \in Config : CreateConfig(c) \/ UpdateConfig(c) \/ DeleteConfig(c)
           \/ \E s \in Source, l \in Licence : LicenceMoves(s, l)
           \/ \E u \in User : ToggleUser(u)
           \/ UNCHANGED avars
  <2>1. UNCHANGED <<stage, notifications, today, handler>>
    BY <1>3 DEF CreateConfig, UpdateConfig, DeleteConfig, LicenceMoves, ToggleUser, Change,
                tracker, avars
  <2> QED
    BY <2>1 DEF Rested, Alone, NothingLater, OncePerDay, Unsent, At, AlreadySentToday,
                Tracker!Running
<1>4. CASE NextDay
  <2>1. UNCHANGED <<stage, notifications, handler>> /\ today' = today + 1
    BY <1>4 DEF NextDay, tracker
  <2>2. today \in Nat /\ \A n \in notifications : n.day \in Nat /\ n.day <= today
    BY DEF Typed, AlertTypeOK, Notification, NothingLater
  <2>3. \A n \in notifications : n.day <= today' /\ n.day # today'
    BY <2>1, <2>2
  <2> QED
    BY <2>1, <2>3 DEF Rested, Alone, NothingLater, OncePerDay, Unsent, At,
                      AlreadySentToday, Tracker!Running
<1> QED
  BY <1>1, <1>2, <1>3, <1>4, HandlerStepDayInv DEF Next

(* With runs one at a time, nobody is told twice a day of one kind of      *)
(* alert for one client, however many configurations, licences, users and  *)
(* days there are, and whatever fails.                                     *)
THEOREM OnceADay == ~Overlap => (Spec => []NotificationsExact)
<1> SUFFICES ASSUME ~Overlap PROVE Spec => []NotificationsExact
  OBVIOUS
<1>1. Typed /\ DayInv /\ [Next]_avars => DayInv'
  BY NextDayInv
<1>2. Typed /\ DayInv => NotificationsExact
  BY DEF Typed, DayInv, NotificationsExact
<1> QED
  BY <1>1, <1>2, InitTyped, NextTyped, InitDayInv, PTL DEF Spec

-----------------------------------------------------------------------------
(* A SUCCESS left nobody out, whatever overlaps.  While the handler runs,  *)
(* what it owes was told since it read the configurations, or is of a pair *)
(* still to look at, or is the notification it is about to insert.         *)
Told(sent, h, d) ==
  \E n \in sent :
    /\ n.user = d.user /\ n.source = d.source /\ n.client = d.client
    /\ n.day >= h.since

ToLookAt(h, d) ==
  \E p \in h.pending :
    /\ p[2] = d.user /\ h.task.source = d.source
    /\ ConfigClient[h.task.config] = d.client

ToInsert(h, d) ==
  /\ h.at = "create" /\ h.user = d.user /\ h.task.source = d.source
  /\ ConfigClient[h.task.config] = d.client

Owing(r) ==
  LET h == handler[r] IN
  /\ h.since <= today
  /\ stage[r] = "idle" => h = Idle
  /\ stage[r] = "handler" =>
       /\ h.at \in {"configs", "users"} => h.owed = {}
       /\ \A d \in h.owed : Told(notifications, h, d) \/ ToLookAt(h, d) \/ ToInsert(h, d)
  /\ stage[r] \in {"returned", "linking"} \/ executions[r] = "SUCCESS" =>
       \A d \in h.owed : Told(notifications, h, d)
  /\ stage[r] \in {"handler", "returned"} => executions[r] = "RUNNING"
  /\ stage[r] = "linking" => executions[r] = "SUCCESS"

(* The execution a job shows is over, and nobody comes back to its row.    *)
LinkedIsOver ==
  \A j \in {JobCode} :
    lastExecution[j] # Null =>
      /\ stage[lastExecution[j]] = "over"
      /\ executions[lastExecution[j]] = "SUCCESS"

OwingInv == (\A r \in Run : Owing(r)) /\ LinkedIsOver

LEMMA InitOwingInv == AlertInit => OwingInv
<1> SUFFICES ASSUME AlertInit PROVE OwingInv
  OBVIOUS
<1>1. \A r \in Run : handler[r] = Idle /\ stage[r] = "idle" /\ executions[r] = Null
  BY DEF AlertInit, Tracker!TrackerInit
<1>2. Idle.owed = {} /\ Idle.since = 0 /\ today = 0
  BY DEF Idle, AlertInit
<1>3. \A r \in Run : Owing(r)
  BY <1>1, <1>2 DEF Owing
<1>4. LinkedIsOver
  BY DEF LinkedIsOver, AlertInit, Tracker!TrackerInit
<1> QED
  BY <1>3, <1>4 DEF OwingInv

(* A run whose own state does not move keeps what it owes: notifications   *)
(* are only added, and days only pass.                                     *)
LEMMA OwingStays ==
  ASSUME NEW r \in Run, Owing(r), Typed, Typed',
         handler'[r] = handler[r], stage'[r] = stage[r], executions'[r] = executions[r],
         notifications \subseteq notifications', today <= today'
  PROVE  Owing(r)'
<1>1. handler[r].since \in Int /\ today \in Int /\ today' \in Int
  BY DEF Typed, AlertTypeOK
<1>2. \A d : Told(notifications, handler[r], d) => Told(notifications, handler[r], d)'
  BY DEF Told
<1>3. \A d : /\ ToLookAt(handler[r], d) => ToLookAt(handler[r], d)'
             /\ ToInsert(handler[r], d) => ToInsert(handler[r], d)'
  BY DEF ToLookAt, ToInsert
<1> QED
  BY <1>1, <1>2, <1>3 DEF Owing

LEMMA HandlerStepOwing ==
  ASSUME NEW r \in Run, Typed, Typed', Owing(r), HandlerStep(r)
  PROVE  Owing(r)'
<1> DEFINE g == handler[r]
<1>1. /\ stage[r] = "handler" /\ stage'[r] \in {"handler", "returned"}
      /\ executions'[r] = "RUNNING" /\ today' = today
  BY HandlerStepFrame DEF world, Owing
<1>2. /\ g \in Handler /\ handler \in [Run -> Handler] /\ Prepared /\ today \in 0..MaxDay
      /\ g.since <= today /\ g.since \in Int
  BY DEF Typed, AlertTypeOK, Owing, Handler
<1>3. /\ g.at \in {"configs", "users"} => g.owed = {}
      /\ \A d \in g.owed : Told(notifications, g, d) \/ ToLookAt(g, d) \/ ToInsert(g, d)
  BY <1>1 DEF Owing
<1>4. ASSUME handler'[r].since <= today,
             stage'[r] = "handler" =>
               /\ handler'[r].at \in {"configs", "users"} => handler'[r].owed = {}
               /\ \A d \in handler'[r].owed :
                    \/ Told(notifications', handler'[r], d)
                    \/ ToLookAt(handler'[r], d) \/ ToInsert(handler'[r], d),
             stage'[r] = "returned" =>
               \A d \in handler'[r].owed : Told(notifications', handler'[r], d)
      PROVE  Owing(r)'
  <2>1. executions'[r] # "SUCCESS"
    BY <1>1
  <2> QED
    BY <1>1, <1>4, <2>1 DEF Owing, Told, ToLookAt, ToInsert
<1>5. CASE LoadConfigs(r)
  <2> DEFINE h == [g EXCEPT !.at = "users", !.todo = Tasks(configs), !.since = today]
  <2>1. h.at = "users" /\ h.owed = g.owed /\ h.since = today
    BY <1>2 DEF Handler
  <2>2. handler' = [handler EXCEPT ![r] = h] /\ UNCHANGED stage /\ g.at = "configs"
    BY <1>5 DEF LoadConfigs, Local, At, tracker
  <2> HIDE DEF h
  <2>3. handler'[r] = h
    BY <1>2, <2>2
  <2> QED
    BY <1>1, <1>2, <1>3, <1>4, <2>1, <2>2, <2>3
<1>6. CASE LoadUsers(r)
  <2> DEFINE h == [g EXCEPT !.at = "loop", !.admins = active]
  <2>1. h.at = "loop" /\ h.owed = g.owed /\ h.since = g.since
    BY <1>2 DEF Handler
  <2>2. handler' = [handler EXCEPT ![r] = h] /\ g.at = "users"
    BY <1>6 DEF LoadUsers, Local, At
  <2> HIDE DEF h
  <2>3. handler'[r] = h
    BY <1>2, <2>2
  <2> QED
    BY <1>1, <1>2, <1>3, <1>4, <2>1, <2>2, <2>3
<1>7. CASE SelectRows(r)
  <2> DEFINE pairs(t) == Reached(t) \X g.admins
             h(t) == [g EXCEPT !.task = t, !.todo = @ \ {t}, !.pending = pairs(t),
                               !.row = Null, !.owed = @ \cup OwedBy(t, pairs(t))]
  <2>1. PICK t \in NextTasks(g) : handler' = [handler EXCEPT ![r] = h(t)]
    BY <1>7 DEF SelectRows, Local
  <2>2. g.at = "loop" /\ g.pending = {} /\ UNCHANGED <<stage, notifications>>
    BY <1>7 DEF SelectRows, At, tracker
  <2>3. \A d \in g.owed : Told(notifications, g, d)
    BY <1>3, <2>2 DEF ToLookAt, ToInsert
  <2>4. \A d \in OwedBy(t, pairs(t)) :
           d.source = t.source /\ d.client = ConfigClient[t.config]
           /\ \E p \in pairs(t) : p[2] = d.user
    BY DEF OwedBy
  <2> HIDE DEF pairs
  <2>5. /\ h(t).at = g.at /\ h(t).since = g.since /\ h(t).task = t
        /\ h(t).pending = pairs(t) /\ h(t).owed = g.owed \cup OwedBy(t, pairs(t))
    BY <1>2 DEF Handler
  <2> HIDE DEF h
  <2>6. handler'[r] = h(t)
    BY <1>2, <2>1
  <2>7. \A d \in g.owed : Told(notifications', h(t), d)
    BY <2>2, <2>3, <2>5 DEF Told
  <2>8. \A d \in OwedBy(t, pairs(t)) : ToLookAt(h(t), d)
    BY <2>4, <2>5 DEF ToLookAt
  <2> QED
    BY <1>1, <1>2, <1>4, <2>2, <2>5, <2>6, <2>7, <2>8
<1>8. CASE CheckSent(r)
  <2> DEFINE k(p) == [g EXCEPT !.pending = @ \ {p}, !.row = p[1]]
             Sent(p) == AlreadySentToday(p[2], g.task.source, ConfigClient[g.task.config])
             h(p) == IF Sent(p) THEN k(p) ELSE [k(p) EXCEPT !.at = "create", !.user = p[2]]
  <2>1. PICK p \in NextPairs(g) : handler' = [handler EXCEPT ![r] = h(p)]
    BY <1>8 DEF CheckSent, Local
  <2>2. g.at = "loop" /\ UNCHANGED <<stage, notifications>>
    BY <1>8 DEF CheckSent, At, tracker
  <2>3. /\ k(p).at = "loop" /\ k(p).task = g.task /\ k(p).pending = g.pending \ {p}
        /\ k(p).owed = g.owed /\ k(p).since = g.since
    BY <1>2, <2>2 DEF Handler
  <2>4. DOMAIN k(p) = DOMAIN g /\ {"at", "user", "task", "pending", "owed", "since"} \subseteq DOMAIN g
    BY <1>2 DEF Handler
  <2> HIDE DEF k, Sent
  <2>5. /\ h(p).task = g.task /\ h(p).pending = g.pending \ {p}
        /\ h(p).owed = g.owed /\ h(p).since = g.since /\ h(p).at \in {"loop", "create"}
        /\ Sent(p) \/ (h(p).at = "create" /\ h(p).user = p[2])
    BY <2>3, <2>4
  <2> HIDE DEF h
  <2>6. handler'[r] = h(p)
    BY <1>2, <2>1
  <2>7. ASSUME NEW d \in g.owed
        PROVE  Told(notifications', h(p), d) \/ ToLookAt(h(p), d) \/ ToInsert(h(p), d)
    <3>1. CASE Told(notifications, g, d)
      BY <2>2, <2>5, <3>1 DEF Told
    <3>2. CASE ToLookAt(g, d) /\ ToLookAt(h(p), d)
      BY <3>2
    <3>3. CASE ToLookAt(g, d) /\ ~ToLookAt(h(p), d)
      <4>1. p[2] = d.user /\ g.task.source = d.source /\ ConfigClient[g.task.config] = d.client
        BY <2>5, <3>3 DEF ToLookAt
      <4>2. CASE Sent(p)
        <5>1. \E n \in notifications : n.user = d.user /\ n.source = d.source
                /\ n.client = d.client /\ n.day = today
          BY <4>1, <4>2 DEF Sent, AlreadySentToday
        <5> QED
          BY <1>2, <2>2, <2>5, <5>1 DEF Told
      <4>3. CASE ~Sent(p)
        BY <2>5, <4>1, <4>3 DEF ToInsert
      <4> QED
        BY <4>2, <4>3
    <3> QED
      BY <1>3, <2>2, <3>1, <3>2, <3>3 DEF ToInsert
  <2> QED
    BY <1>1, <1>2, <1>4, <2>2, <2>5, <2>6, <2>7
<1>9. CASE CreateNotification(r)
  <2> DEFINE h == [g EXCEPT !.at = "loop", !.user = Null]
  <2>1. h.at = "loop" /\ h.owed = g.owed /\ h.since = g.since /\ h.pending = g.pending
        /\ h.task = g.task
    BY <1>2 DEF Handler
  <2>2. handler' = [handler EXCEPT ![r] = h] /\ UNCHANGED stage /\ g.at = "create"
    BY <1>9 DEF CreateNotification, Local, At, tracker
  <2> HIDE DEF h
  <2>3. handler'[r] = h
    BY <1>2, <2>2
  <2>4. New(r) \in Notification /\ notifications' = notifications \cup {New(r)}
    BY <1>9, NewTyped
  <2>5. New(r).day = today /\ New(r).user = g.user /\ New(r).source = g.task.source
        /\ New(r).client = ConfigClient[g.task.config]
    BY DEF New
  <2>6. ASSUME NEW d \in g.owed PROVE Told(notifications', h, d) \/ ToLookAt(h, d)
    <3>1. CASE Told(notifications, g, d)
      BY <2>1, <2>4, <3>1 DEF Told
    <3>2. CASE ToLookAt(g, d)
      BY <2>1, <3>2 DEF ToLookAt
    <3>3. CASE ToInsert(g, d)
      <4>1. New(r).user = d.user /\ New(r).source = d.source /\ New(r).client = d.client
            /\ New(r).day >= h.since
        BY <1>2, <2>1, <2>5, <3>3 DEF ToInsert
      <4> QED
        BY <2>4, <4>1 DEF Told
    <3> QED
      BY <1>3, <3>1, <3>2, <3>3
  <2> QED
    BY <1>1, <1>2, <1>4, <2>1, <2>2, <2>3, <2>6
<1>10. CASE FinishHandler(r)
  <2> DEFINE h == [Idle EXCEPT !.owed = g.owed, !.since = g.since]
  <2>1. h.owed = g.owed /\ h.since = g.since
    BY DEF Idle
  <2>2. handler' = [handler EXCEPT ![r] = h] /\ UNCHANGED notifications
        /\ g.at = "loop" /\ g.pending = {} /\ stage' = [stage EXCEPT ![r] = "returned"]
    BY <1>10 DEF FinishHandler, Local, At, Tracker!Reach
  <2> HIDE DEF h
  <2>3. handler'[r] = h /\ stage'[r] = "returned"
    BY <1>2, <2>2 DEF Typed, Tracker!TrackerTypeOK
  <2>4. \A d \in g.owed : Told(notifications, g, d)
    BY <1>3, <2>2 DEF ToLookAt, ToInsert
  <2>5. \A d \in h.owed : Told(notifications', h, d)
    BY <2>1, <2>2, <2>4 DEF Told
  <2> QED
    BY <1>1, <1>2, <1>4, <2>1, <2>3, <2>5
<1> QED
  BY <1>5, <1>6, <1>7, <1>8, <1>9, <1>10 DEF HandlerStep

(* Every statement of the tracker, and its failures.                       *)
LEMMA TrackStepOwing ==
  ASSUME NEW r \in Run, Typed, OwingInv, TrackRun(r) \/ RunFault(r)
  PROVE  OwingInv'
<1>1. /\ stage[r] # "idle" /\ Tracker!Running(r)
      /\ stage'[r] \in {"linking", "over", "threw", "lost"}
      /\ \A q \in Run \ {r} : stage'[q] = stage[q]
      /\ UNCHANGED <<world, notifications, handler>>
  BY TrackerFrame
<1>2. /\ executions \in [Run -> {Null, "RUNNING", "SUCCESS", "FAILED"}]
      /\ stage \in [Run -> Tracker!Stage] /\ lastExecution \in [{JobCode} -> Run \cup {Null}]
  BY DEF Typed, Tracker!TrackerTypeOK
<1>3. \A d : Told(notifications, handler[r], d)' = Told(notifications, handler[r], d)
  BY <1>1 DEF Told
<1>4. ASSUME NEW q \in Run \ {r}, executions'[q] = executions[q] PROVE Owing(q)'
  <2>1. \A d : Told(notifications, handler[q], d)' = Told(notifications, handler[q], d)
               /\ ToLookAt(handler[q], d)' = ToLookAt(handler[q], d)
               /\ ToInsert(handler[q], d)' = ToInsert(handler[q], d)
    BY <1>1 DEF Told, ToLookAt, ToInsert
  <2> QED
    BY <1>1, <1>4, <2>1 DEF OwingInv, Owing, world
<1>5. CASE Tracker!MarkSuccess(r)
  <2>1. stage[r] = "returned" /\ stage'[r] = "linking" /\ executions'[r] = "SUCCESS"
        /\ UNCHANGED lastExecution /\ \A q \in Run \ {r} : executions'[q] = executions[q]
    BY <1>2, <1>5 DEF Tracker!MarkSuccess, Tracker!Reach
  <2>2. Owing(r)'
    BY <1>1, <1>3, <2>1 DEF OwingInv, Owing, world
  <2>3. LinkedIsOver'
    BY <1>1, <1>2, <2>1 DEF OwingInv, LinkedIsOver
  <2> QED
    BY <1>4, <2>1, <2>2, <2>3 DEF OwingInv
<1>6. CASE Tracker!SetLastExecution(r)
  <2>1. stage[r] = "linking" /\ stage'[r] = "over" /\ UNCHANGED executions
        /\ lastExecution' = [lastExecution EXCEPT ![JobCode] = r]
    BY <1>2, <1>6 DEF Tracker!SetLastExecution, Tracker!Reach
  <2>2. Owing(r)' /\ executions[r] = "SUCCESS"
    BY <1>1, <1>3, <2>1 DEF OwingInv, Owing, world
  <2>3. LinkedIsOver'
    BY <1>2, <2>1, <2>2 DEF LinkedIsOver
  <2> QED
    BY <1>4, <2>1, <2>2, <2>3 DEF OwingInv
<1>7. CASE Tracker!MarkFailed(r)
  <2>1. stage[r] = "threw" /\ stage'[r] = "over" /\ executions'[r] = "FAILED"
        /\ UNCHANGED lastExecution /\ \A q \in Run \ {r} : executions'[q] = executions[q]
    BY <1>2, <1>7 DEF Tracker!MarkFailed, Tracker!Reach
  <2>2. Owing(r)'
    BY <1>1, <1>3, <2>1 DEF OwingInv, Owing, world
  <2>3. LinkedIsOver'
    BY <1>1, <1>2, <2>1 DEF OwingInv, LinkedIsOver
  <2> QED
    BY <1>4, <2>1, <2>2, <2>3 DEF OwingInv
<1>8. CASE RunFault(r)
  <2>1. stage'[r] \in {"threw", "lost"} /\ stage[r] # "over" /\ UNCHANGED <<executions, lastExecution>>
    BY <1>2, <1>8 DEF RunFault, Tracker!TrackFault, Tracker!StatementFails, Tracker!Abandon,
                      Tracker!Reach, Tracker!Running
  <2>2. Owing(r)'
    BY <1>1, <1>3, <2>1 DEF OwingInv, Owing, world
  <2>3. LinkedIsOver'
    BY <1>1, <1>2, <2>1 DEF OwingInv, LinkedIsOver
  <2> QED
    BY <1>4, <2>1, <2>2, <2>3 DEF OwingInv
<1> QED
  BY <1>5, <1>6, <1>7, <1>8 DEF TrackRun, Tracker!Track, RunFault

LEMMA NextOwingInv == Typed /\ OwingInv /\ [Next]_avars => OwingInv'
<1> SUFFICES ASSUME Typed, OwingInv, [Next]_avars PROVE OwingInv'
  OBVIOUS
<1>0. Typed'
  BY NextTyped
<1>1. ASSUME NEW r \in Run, StartRun(r) PROVE OwingInv'
  <2>1. stage[r] = "idle" /\ stage' = [stage EXCEPT ![r] = "handler"]
        /\ executions' = [executions EXCEPT ![r] = "RUNNING"]
        /\ UNCHANGED <<world, notifications, handler, lastExecution>>
    BY <1>1 DEF StartRun, Tracker!BeginTrack, Tracker!Reach
  <2>2. /\ stage'[r] = "handler" /\ executions'[r] = "RUNNING"
        /\ \A q \in Run \ {r} : stage'[q] = stage[q] /\ executions'[q] = executions[q]
    BY <2>1 DEF Typed, Tracker!TrackerTypeOK
  <2>3. handler[r].at = "configs" /\ handler[r].owed = {}
    BY <2>1 DEF OwingInv, Owing, Idle
  <2>4. Owing(r)'
    BY <2>1, <2>2, <2>3 DEF OwingInv, Owing, world
  <2>5. today \in Int
    BY DEF Typed, AlertTypeOK
  <2>6. \A q \in Run \ {r} : Owing(q)'
    BY <1>0, <2>1, <2>2, <2>5, OwingStays DEF OwingInv, world
  <2>7. LinkedIsOver'
    BY <2>1, <2>2 DEF OwingInv, LinkedIsOver, Typed, Tracker!TrackerTypeOK
  <2> QED
    BY <2>4, <2>6, <2>7 DEF OwingInv
<1>2. ASSUME NEW r \in Run, HandlerStep(r) PROVE OwingInv'
  <2>1. /\ stage[r] = "handler" /\ stage'[r] \in {"handler", "returned"}
        /\ \A q \in Run \ {r} : stage'[q] = stage[q] /\ handler'[q] = handler[q]
        /\ UNCHANGED <<world, executions, lastExecution>>
    BY <1>2, HandlerStepFrame
  <2>2. notifications \subseteq notifications' /\ today \in Int
    <3>1. CreateNotification(r) => notifications' = notifications \cup {New(r)}
      BY NewTyped
    <3>2. CreateNotification(r) \/ notifications' = notifications
      BY <1>2 DEF HandlerStep, LoadConfigs, LoadUsers, SelectRows, CheckSent, FinishHandler
    <3> QED
      BY <3>1, <3>2 DEF Typed, AlertTypeOK
  <2>3. \A q \in Run \ {r} : Owing(q)'
    BY <1>0, <2>1, <2>2, OwingStays DEF OwingInv, world
  <2>4. Owing(r)'
    BY <1>0, <1>2, HandlerStepOwing DEF OwingInv
  <2>5. LinkedIsOver'
    BY <2>1 DEF OwingInv, LinkedIsOver, Typed, Tracker!TrackerTypeOK
  <2> QED
    BY <2>3, <2>4, <2>5 DEF OwingInv
<1>3. CASE \/ \E c \in Config : CreateConfig(c) \/ UpdateConfig(c) \/ DeleteConfig(c)
           \/ \E s \in Source, l \in Licence : LicenceMoves(s, l)
           \/ \E u \in User : ToggleUser(u)
           \/ NextDay
           \/ UNCHANGED avars
  <2>1. UNCHANGED <<stage, executions, lastExecution, notifications, handler>>
    BY <1>3 DEF CreateConfig, UpdateConfig, DeleteConfig, LicenceMoves, ToggleUser, Change,
                NextDay, tracker, avars
  <2>2. today \in Int /\ today <= today'
    <3>1. today \in Int
      BY DEF Typed, AlertTypeOK
    <3>2. today' = today \/ today' = today + 1
      BY <1>3 DEF CreateConfig, UpdateConfig, DeleteConfig, LicenceMoves, ToggleUser, Change,
                  NextDay, avars
    <3> QED
      BY <3>1, <3>2
  <2>3. \A q \in Run : Owing(q)'
    BY <1>0, <2>1, <2>2, OwingStays DEF OwingInv
  <2>4. LinkedIsOver'
    BY <2>1 DEF OwingInv, LinkedIsOver
  <2> QED
    BY <2>3, <2>4 DEF OwingInv
<1> QED
  BY <1>1, <1>2, <1>3, TrackStepOwing DEF Next

(* A run recorded as SUCCESS left nobody out, and the last execution shown *)
(* is one that succeeded, whatever runs overlap, fail or die, and whatever *)
(* is edited meanwhile.                                                    *)
THEOREM SuccessTold == Spec => []SuccessIsTrue
<1>1. Typed /\ OwingInv => SuccessIsTrue
  <2> SUFFICES ASSUME Typed, OwingInv PROVE SuccessIsTrue
    OBVIOUS
  <2>1. SuccessMeansNotified
    BY DEF OwingInv, Owing, Told, SuccessMeansNotified
  <2>2. Tracker!LastExecutionSucceeded
    BY DEF OwingInv, LinkedIsOver, Tracker!LastExecutionSucceeded
  <2> QED
    BY <2>1, <2>2 DEF SuccessIsTrue
<1>2. Typed /\ OwingInv /\ [Next]_avars => OwingInv'
  BY NextOwingInv
<1> QED
  BY <1>1, <1>2, InitTyped, NextTyped, InitOwingInv, PTL DEF Spec
=============================================================================
