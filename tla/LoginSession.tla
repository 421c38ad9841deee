---------------------------- MODULE LoginSession ----------------------------
(***************************************************************************)
(* Logins, sessions and passwords over lic_users.  A login is a SELECT, a  *)
(* slow comparison and one to three statements, each committing alone; a   *)
(* session is a signed copy of columns of the row as the SELECT saw them,  *)
(* compared with the row at each request through token_version.            *)
(***************************************************************************)
EXTENDS UserAccount

CONSTANTS
  Browser,         \* where people log in
  Threshold,       \* LOGIN_LOCKOUT_THRESHOLD
  Window,          \* LOGIN_LOCKOUT_WINDOW_MS
  MaxFailed,       \* bound: no login starts on a counter of that value
  MaxTokenVersion, \* bound: no password request starts on such a version
  MaxClock         \* bound: the last instant

(* The seeds leave the counters of failures at their default, zero.        *)
ASSUME LoginAssumption ==
  /\ Threshold \in Nat \ {0} /\ Window \in Nat
  /\ \A u \in Account : SeededUsers[u] # NoAccount => SeededUsers[u].failed = 0

VARIABLES
  clock,
  logins,    \* the login each browser has started
  sessions,  \* the token each browser holds
  lockouts,  \* LOGIN_FAILED_LOCKOUT audit rows since the last right password
  silenced,  \* history: accounts for which the process died just before that row
  overtaken, \* history: another login was open on them at the last right password
  crowded,   \* history: accounts two logins were open on at once
  wrong,     \* history: wrong passwords typed since the last right one
  handed     \* history: the password last handed to the account's owner

loginVars ==
  <<clock, logins, sessions, lockouts, silenced, overtaken, crowded, wrong, handed>>
portalVars == <<accountVars, loginVars>>

NoLogin == [stage |-> "idle"]

NoSession == [user |-> NoAccount]

Login ==
  {NoLogin}
    \cup [stage : {"compare", "audit", "open"}, user : Account, seen : UserRow,
          typed : Password]

Session ==
  {NoSession}
    \cup [user : Account, role : UserRole, tokenVersion : Nat, proved : Password]

(* RecordLoginAttemptUseCase.isLockedOut.                                  *)
IsLockedOut(row) ==
  row.failed >= Threshold /\ row.failedAt # Never /\ clock - row.failedAt < Window

LoginInit ==
  /\ clock = 0
  /\ logins = [b \in Browser |-> NoLogin]
  /\ sessions = [b \in Browser |-> NoSession]
  /\ lockouts = [u \in Account |-> 0]
  /\ silenced = {} /\ overtaken = {} /\ crowded = {}
  /\ wrong = [u \in Account |-> 0]
  /\ handed = [u \in Account |->
       IF SeededUsers[u] = NoAccount THEN Never ELSE SeededUsers[u].password]

PortalInit == AccountInit /\ LoginInit

Tick ==
  /\ clock < MaxClock
  /\ clock' = clock + 1
  /\ UNCHANGED <<accountVars, logins, sessions, lockouts, silenced, overtaken, crowded,
                 wrong, handed>>

-----------------------------------------------------------------------------
(* Mutant: the lockout is not looked at before the comparison.             *)
BeginLoginUnchecked(b, u) ==
  /\ logins[b] = NoLogin
  /\ sessions[b] = NoSession
  /\ Registered(u) /\ users[u].actif /\ users[u].failed < MaxFailed
  /\ \E typed \in Password :
       logins' = [logins EXCEPT ![b] = [stage |-> "compare", user |-> u,
                                        seen |-> users[u], typed |-> typed]]
  /\ crowded' = IF \E a \in Browser : logins[a] # NoLogin /\ logins[a].user = u
                THEN crowded \cup {u} ELSE crowded
  /\ UNCHANGED <<accountVars, clock, sessions, lockouts, silenced, overtaken, wrong,
                 handed>>

(* authorize: the SELECT of an active account, refused at once during a    *)
(* lockout.                                                                *)
BeginLogin(b, u) ==
  /\ logins[b] = NoLogin
  /\ sessions[b] = NoSession
  /\ Registered(u) /\ users[u].actif /\ users[u].failed < MaxFailed
  /\ ~IsLockedOut(users[u])
  /\ \E typed \in Password :
       logins' = [logins EXCEPT ![b] = [stage |-> "compare", user |-> u,
                                        seen |-> users[u], typed |-> typed]]
  /\ crowded' = IF \E a \in Browser : logins[a] # NoLogin /\ logins[a].user = u
                THEN crowded \cup {u} ELSE crowded
  /\ UNCHANGED <<accountVars, clock, sessions, lockouts, silenced, overtaken, wrong,
                 handed>>

AtStage(b, stage) == logins[b].stage = stage

GoTo(b, login) == logins' = [logins EXCEPT ![b] = login]

FailureCount(seen) == seen.failed + 1

(* Mutant: the lockout is logged one failure late.                         *)
LogsAbove(count) == count = Threshold + 1

(* recordFailure logs the failure that reaches the threshold, only that.   *)
LogsLockout(count) == count = Threshold

(* recordFailure: the counter as read, plus one; then, if it has reached   *)
(* the threshold, an audit row in a statement of its own.                  *)
RecordFailure(b) ==
  LET login == logins[b]
      u     == login.user
      count == FailureCount(login.seen)
  IN  /\ AtStage(b, "compare")
      /\ login.typed # login.seen.password
      /\ users' = [users EXCEPT ![u].failed = count, ![u].failedAt = clock]
      /\ wrong' = [wrong EXCEPT ![u] = @ + 1]
      /\ GoTo(b, IF LogsLockout(count) THEN [login EXCEPT !.stage = "audit"] ELSE NoLogin)
      /\ UNCHANGED <<usersTold, accountRequests, contended, clock, sessions, lockouts,
                     silenced, overtaken, crowded, handed>>

AuditLockout(b) ==
  /\ AtStage(b, "audit")
  /\ lockouts' = [lockouts EXCEPT ![logins[b].user] = @ + 1]
  /\ GoTo(b, NoLogin)
  /\ UNCHANGED <<accountVars, clock, sessions, silenced, overtaken, crowded, wrong, handed>>

Beside(b, u) == \E a \in Browser \ {b} : logins[a] # NoLogin /\ logins[a].user = u

(* recordSuccess: the counters go back to zero, and the log is counted     *)
(* from here on.                                                           *)
RecordSuccess(b) ==
  LET u == logins[b].user
  IN  /\ AtStage(b, "compare")
      /\ logins[b].typed = logins[b].seen.password
      /\ users' = [users EXCEPT ![u].failed = 0, ![u].failedAt = Never]
      /\ wrong' = [wrong EXCEPT ![u] = 0]
      /\ lockouts' = [lockouts EXCEPT ![u] = 0]
      /\ silenced' = silenced \ {u}
      /\ overtaken' = IF Beside(b, u) THEN overtaken \cup {u} ELSE overtaken \ {u}
      /\ GoTo(b, [logins[b] EXCEPT !.stage = "open"])
      /\ UNCHANGED <<usersTold, accountRequests, contended, clock, sessions, crowded,
                     handed>>

(* Mutant: the token takes the version of the row as it is by then.        *)
IssueFreshToken(b) ==
  [user |-> logins[b].user, role |-> logins[b].seen.role,
   tokenVersion |-> users[logins[b].user].tokenVersion, proved |-> logins[b].typed]

(* jwt: id, role and token version of the row the SELECT returned.         *)
IssueToken(b) ==
  [user |-> logins[b].user, role |-> logins[b].seen.role,
   tokenVersion |-> logins[b].seen.tokenVersion, proved |-> logins[b].typed]

(* derniere_connexion is set, and the browser gets its token.              *)
OpenSession(b) ==
  /\ AtStage(b, "open")
  /\ sessions' = [sessions EXCEPT ![b] = IssueToken(b)]
  /\ GoTo(b, NoLogin)
  /\ UNCHANGED <<accountVars, clock, lockouts, silenced, overtaken, crowded, wrong, handed>>

(* A statement fails, or the process dies: the login goes no further.      *)
LoginDies(b) ==
  /\ logins[b] # NoLogin
  /\ silenced' = IF AtStage(b, "audit") THEN silenced \cup {logins[b].user} ELSE silenced
  /\ GoTo(b, NoLogin)
  /\ UNCHANGED <<accountVars, clock, sessions, lockouts, overtaken, crowded, wrong, handed>>

(* signOut, or the eight hours of the cookie are over.                     *)
CloseSession(b) ==
  /\ sessions[b] # NoSession
  /\ sessions' = [sessions EXCEPT ![b] = NoSession]
  /\ UNCHANGED <<accountVars, clock, logins, lockouts, silenced, overtaken, crowded, wrong,
                 handed>>

(* The session callback, at each request: the token version is compared    *)
(* with the row, nothing else is.                                          *)
LiveSession(b) ==
  /\ sessions[b] # NoSession
  /\ Registered(sessions[b].user)
  /\ users[sessions[b].user].tokenVersion = sessions[b].tokenVersion

(* requireRole: the role is that of the token.                             *)
HasRole(b, role) == LiveSession(b) /\ sessions[b].role = role

-----------------------------------------------------------------------------
(* ChangePasswordUseCase, up to its UPDATE: the current password is proved *)
(* on the row as read.                                                     *)
BeginChangePassword(q, b) ==
  LET u == sessions[b].user
  IN  /\ LiveSession(b)
      /\ users[u].tokenVersion < MaxTokenVersion
      /\ \E new \in Password :
           OpenAccount(q, [op |-> "changePassword", user |-> u,
                           proved |-> users[u].password, new |-> new])
      /\ UNCHANGED loginVars

(* UserRepositoryPg.updatePassword and resetPassword: the version is       *)
(* incremented in place, and the audit row says so.                        *)
SetPassword(u, new, mustChange) ==
  /\ users' = [users EXCEPT ![u].password = new, ![u].mustChange = mustChange,
                            ![u].tokenVersion = @ + 1]
  /\ usersTold' = [usersTold EXCEPT ![u].tokenVersion = @ + 1]

CommitChangePassword(q) ==
  LET request == accountRequests[q]
  IN  /\ request.op = "changePassword"
      /\ SetPassword(request.user, request.new, FALSE)
      /\ handed' = [handed EXCEPT ![request.user] = request.new]
      /\ CloseAccount(q)
      /\ UNCHANGED <<clock, logins, sessions, lockouts, silenced, overtaken, crowded, wrong>>

(* ResetUserPasswordUseCase for an administrator, who is shown the         *)
(* password (the mail sent besides may fail).                              *)
ResetPassword(u) ==
  /\ Registered(u)
  /\ users[u].tokenVersion < MaxTokenVersion
  /\ contended' = IF \E q \in AccountSession : u \in AccountOf(accountRequests[q])
                  THEN contended \cup {u} ELSE contended
  /\ \E new \in Password :
       /\ SetPassword(u, new, TRUE)
       /\ handed' = [handed EXCEPT ![u] = new]
  /\ UNCHANGED <<accountRequests, clock, logins, sessions, lockouts, silenced,
                 overtaken, crowded, wrong>>

(* RequestPasswordResetUseCase: the account of the address is active; its  *)
(* reset commits; then the mail leaves, or fails.                          *)
BeginForgot(q, u) ==
  /\ Registered(u) /\ users[u].actif
  /\ users[u].tokenVersion < MaxTokenVersion
  /\ \E new \in Password :
       OpenAccount(q, [op |-> "forgot", user |-> u, new |-> new])
  /\ UNCHANGED loginVars

CommitForgot(q) ==
  LET request == accountRequests[q]
  IN  /\ request.op = "forgot"
      /\ SetPassword(request.user, request.new, TRUE)
      /\ accountRequests' = [accountRequests EXCEPT ![q].op = "mail"]
      /\ UNCHANGED <<contended, loginVars>>

(* Mutant: the mail is rendered with the password the account had.         *)
MailPrevious(q) == handed[accountRequests[q].user]

MailedPassword(q) == accountRequests[q].new

SendPassword(q) ==
  /\ accountRequests[q].op = "mail"
  /\ handed' = [handed EXCEPT ![accountRequests[q].user] = MailedPassword(q)]
  /\ CloseAccount(q)
  /\ UNCHANGED <<users, usersTold, clock, logins, sessions, lockouts, silenced,
                 overtaken, crowded, wrong>>

(* The error is logged and shown; the password stays the one nobody has.   *)
MailFails(q) ==
  /\ accountRequests[q].op = "mail"
  /\ CloseAccount(q)
  /\ handed' = [handed EXCEPT ![accountRequests[q].user] = Never]
  /\ UNCHANGED <<users, usersTold, clock, logins, sessions, lockouts, silenced,
                 overtaken, crowded, wrong>>

-----------------------------------------------------------------------------
(* A new account's owner is handed the password it was created with.       *)
HandNewPassword ==
  handed' = [u \in Account |->
    IF ~Registered(u) /\ Registered(u)' THEN users'[u].password ELSE handed[u]]

LoginNext ==
  \/ \E b \in Browser :
       \/ \E u \in Account : BeginLogin(b, u)
       \/ RecordFailure(b)
       \/ AuditLockout(b)
       \/ RecordSuccess(b)
       \/ OpenSession(b)
       \/ LoginDies(b)
       \/ CloseSession(b)
  \/ Tick

PasswordNext ==
  \/ \E q \in AccountSession :
       \/ \E b \in Browser : BeginChangePassword(q, b)
       \/ CommitChangePassword(q)
       \/ \E u \in Account : BeginForgot(q, u)
       \/ CommitForgot(q)
       \/ SendPassword(q)
       \/ MailFails(q)
  \/ \E b \in Browser, u \in Account : HasRole(b, "SADMIN") /\ ResetPassword(u)

AdminNext ==
  \E q \in AccountSession :
    \/ /\ \/ \E b \in Browser :
               HasRole(b, "SADMIN") /\ AdminUseCase(q, sessions[b].user)
          \/ BeginBootstrap(q)
       /\ UNCHANGED loginVars
    \/ /\ AccountCommit(q)
       /\ HandNewPassword
       /\ UNCHANGED <<clock, logins, sessions, lockouts, silenced, overtaken, crowded, wrong>>

PortalNext == LoginNext \/ PasswordNext \/ AdminNext

PortalSpec == PortalInit /\ [][PortalNext]_portalVars

-----------------------------------------------------------------------------
(* The table, the log, the logins and the sessions hold values of their    *)
(* types.                                                                  *)
PortalTypeOK ==
  /\ AccountTypeOK
  /\ clock \in Nat
  /\ logins \in [Browser -> Login]
  /\ sessions \in [Browser -> Session]
  /\ lockouts \in [Account -> Nat]
  /\ silenced \subseteq Account
  /\ overtaken \subseteq Account
  /\ crowded \subseteq Account
  /\ wrong \in [Account -> Nat]
  /\ handed \in [Account -> Password \cup {Never}]

(* A session that passes the check was opened with the password the        *)
(* account has now: a change or a reset that commits between the SELECT of *)
(* a login and its token, or ever after, ends it.                          *)
LiveSessionProved ==
  \A b \in Browser :
    LiveSession(b) => sessions[b].proved = users[sessions[b].user].password

(* The log accounts for each revocation of an account's sessions, however  *)
(* changes and resets overlap: none is lost by another.                    *)
RevocationsTold ==
  \A u \in Account : Registered(u) => users[u].tokenVersion = usersTold[u].tokenVersion

(* The owner of an account was handed the password it has, unless a mail   *)
(* failed, is still to leave, or requests for the account overlapped.      *)
QuietPasswordKnown ==
  \A u \in Account :
    \/ ~Registered(u)
    \/ u \in contended
    \/ handed[u] \in {users[u].password, Never}
    \/ \E q \in AccountSession : /\ accountRequests[q].op = "mail"
                                 /\ accountRequests[q].user = u

(* A session that passes the check was proved by the password of today,    *)
(* which its owner knows, and every revocation of sessions has its audit   *)
(* row.                                                                    *)
SessionsProved ==
  PortalTypeOK /\ LiveSessionProved /\ RevocationsTold /\ QuietPasswordKnown

(* As long as no two logins of an account overlap, its counter is the      *)
(* number of wrong passwords since the last right one.                     *)
QuietCounterExact ==
  \A u \in Account :
    Registered(u) /\ u \notin crowded => users[u].failed = wrong[u]

AuditDue(u) == \E b \in Browser : AtStage(b, "audit") /\ logins[b].user = u

(* The failures that reach the threshold have their LOGIN_FAILED_LOCKOUT   *)
(* row since the last right password, written or about to be, unless the   *)
(* process died just before it: when failures overlap, the counter does    *)
(* not jump over the threshold.  It does when a right password sets it to  *)
(* zero while another login of the account is about to write its own.      *)
LockoutLogged ==
  \A u \in Account :
    Registered(u) /\ users[u].failed >= Threshold /\ u \notin overtaken =>
      lockouts[u] > 0 \/ u \in silenced \/ AuditDue(u)

LockoutRows(u) ==
  lockouts[u] + (IF AuditDue(u) THEN 1 ELSE 0) + (IF u \in silenced THEN 1 ELSE 0)

(* "Emis UNIQUEMENT quand le seuil 5 est atteint pour la premiere fois":   *)
(* as long as no two logins of the account overlap, the failures since the *)
(* last right password have one row, written, about to be or lost, when    *)
(* they have reached the threshold, and none before.  A lockout that one   *)
(* more failure starts again after the window has no second row.           *)
QuietLoggedOnce ==
  \A u \in Account :
    Registered(u) /\ u \notin crowded =>
      LockoutRows(u) = IF users[u].failed >= Threshold THEN 1 ELSE 0

(* Failed logins are counted one by one and their lockout is logged once   *)
(* when they come one by one; it is logged even when they do not.          *)
LockoutExact == QuietCounterExact /\ LockoutLogged /\ QuietLoggedOnce

(* A lockout ends with its window and not before, as long as no two logins *)
(* of the account overlap.                                                 *)
QuietLockoutHolds ==
  [][\A u \in Account :
       Registered(u) /\ u \notin crowded /\ IsLockedOut(users[u]) =>
         users'[u].failed = users[u].failed]_portalVars

-----------------------------------------------------------------------------
(* What comments promise and the steps refute.                             *)

(* "Lockout 60 min apres 5 echecs": a login that read the counter before   *)
(* the lockout writes its own count over it, or resets it.                 *)
LockoutHolds ==
  [][\A u \in Account :
       Registered(u) /\ IsLockedOut(users[u]) =>
         users'[u].failed >= users[u].failed]_portalVars

(* "Emis UNIQUEMENT quand le seuil 5 est atteint pour la premiere fois":   *)
(* each of two logins that have read the failure before it reaches it.     *)
LoggedOnce == \A u \in Account : lockouts[u] <= 1

(* A session acts with the role its account has: a change of role leaves   *)
(* the tokens as they are.                                                 *)
SessionRoleCurrent ==
  \A b \in Browser :
    LiveSession(b) => sessions[b].role = users[sessions[b].user].role

(* A deactivated account acts no more: its sessions live on.               *)
SessionAccountActive ==
  \A b \in Browser : LiveSession(b) => users[sessions[b].user].actif
=============================================================================
