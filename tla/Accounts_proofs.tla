--------------------------- MODULE Accounts_proofs ---------------------------
(***************************************************************************)
(* Proofs about UserAccount, LoginSession and RateLimit: accounts and      *)
(* their log, sessions and passwords, counters of failures and lockouts,   *)
(* and the windows of the rate limit, for any number of accounts,          *)
(* administrators, browsers, web processes and keys.                       *)
(***************************************************************************)
EXTENDS LoginSession, RateLimit, TLAPS

-----------------------------------------------------------------------------
(***************************************************************************)
(* Accounts, sessions and lockouts.                                        *)
(***************************************************************************)

(* A login, a session or a request is of an account that exists.           *)
Known ==
  /\ \A b \in Browser :
       /\ logins[b] # NoLogin => Registered(logins[b].user)
       /\ sessions[b] # NoSession => Registered(sessions[b].user)
  /\ \A q \in AccountSession : \A u \in AccountOf(accountRequests[q]) : Registered(u)

Typed == PortalTypeOK /\ Known

(* The rewriting of an account's row and of what the log tells of it.      *)
Rewrites(u, r, t) ==
  /\ Registered(u)
  /\ users' = [users EXCEPT ![u] = r] /\ usersTold' = [usersTold EXCEPT ![u] = t]
  /\ r \in UserRow /\ t \in ToldRow
  /\ r.matricule = users[u].matricule /\ r.email = users[u].email

KeepsSecret(u, r, t) ==
  /\ r.password = users[u].password /\ r.tokenVersion = users[u].tokenVersion
  /\ t.tokenVersion = usersTold[u].tokenVersion

RenewsSecret(u, r, t) ==
  /\ r.tokenVersion = users[u].tokenVersion + 1
  /\ t.tokenVersion = usersTold[u].tokenVersion + 1

KeepsCounter(u, r) == r.failed = users[u].failed /\ r.failedAt = users[u].failedAt

KeepsProfile(u, r, t) ==
  /\ r.profil = users[u].profil /\ r.role = users[u].role
  /\ t.profil = usersTold[u].profil /\ t.role = usersTold[u].role

KeepsFlag(u, r, t) == r.actif = users[u].actif /\ t.actif = usersTold[u].actif

-----------------------------------------------------------------------------
(* The fields of a request by its operation.                               *)
LEMMA RequestFields ==
  ASSUME NEW request \in AccountRequest
  PROVE  /\ request.op \in {"idle", "createUser", "bootstrap", "updateUser", "toggleUser",
                            "changePassword", "forgot", "mail"}
         /\ request.op = "idle" => request = AccountIdle /\ AccountOf(request) = {}
         /\ request.op \in {"createUser", "bootstrap"} =>
              request.row \in UserRow /\ AccountOf(request) = {}
         /\ request.op \in {"updateUser", "toggleUser", "changePassword", "forgot", "mail"} =>
              request.user \in Account /\ AccountOf(request) = {request.user}
         /\ request.op = "updateUser" => request.seen \in UserRow /\ request.patched \in UserRow
         /\ request.op = "toggleUser" => request.actif \in BOOLEAN
         /\ request.op \in {"changePassword", "forgot", "mail"} => request.new \in Password
<1>1. CASE request = AccountIdle
  BY <1>1 DEF AccountIdle, AccountOf
<1>2. CASE request \in [op : {"createUser", "bootstrap"}, row : UserRow]
  BY <1>2 DEF AccountOf
<1>3. CASE request \in [op : {"updateUser"}, user : Account, seen : UserRow, patched : UserRow]
  BY <1>3 DEF AccountOf
<1>4. CASE request \in [op : {"toggleUser"}, user : Account, actif : BOOLEAN]
  BY <1>4 DEF AccountOf
<1>5. CASE request \in [op : {"changePassword"}, user : Account, proved : Password,
                        new : Password]
  BY <1>5 DEF AccountOf
<1>6. CASE request \in [op : {"forgot", "mail"}, user : Account, new : Password]
  BY <1>6 DEF AccountOf
<1> QED
  BY <1>1, <1>2, <1>3, <1>4, <1>5, <1>6 DEF AccountRequest

(* The fields of a login that is open, and of a session.                   *)
LEMMA LoginFields ==
  ASSUME NEW login \in Login
  PROVE  /\ login.stage \in {"idle", "compare", "audit", "open"}
         /\ login.stage = "idle" <=> login = NoLogin
         /\ login # NoLogin =>
              login \in [stage : {"compare", "audit", "open"}, user : Account,
                         seen : UserRow, typed : Password]
  BY DEF Login, NoLogin

LEMMA SessionFields ==
  ASSUME NEW session \in Session, session # NoSession
  PROVE  session \in [user : Account, role : UserRole, tokenVersion : Nat, proved : Password]
  BY DEF Session, NoSession

LEMMA RowFields ==
  ASSUME AccountTypeOK, NEW u \in Account, Registered(u)
  PROVE  users[u] \in UserRow /\ usersTold[u] \in ToldRow
  BY DEF AccountTypeOK, Registered

(* Rewriting a row keeps the tables typed and every account registered.    *)
LEMMA RewritesTyped ==
  ASSUME AccountTypeOK, NEW u \in Account, NEW r, NEW t, Rewrites(u, r, t)
  PROVE  /\ users' \in [Account -> UserRow \cup {NoAccount}]
         /\ usersTold' \in [Account -> ToldRow \cup {NoAccount}]
         /\ users'[u] = r /\ usersTold'[u] = t
         /\ \A v \in Account \ {u} : users'[v] = users[v] /\ usersTold'[v] = usersTold[v]
         /\ \A v \in Account : Registered(v)' <=> Registered(v)
         /\ \A v \in Account : Registered(v)' <=> usersTold'[v] # NoAccount
<1>1. /\ users' \in [Account -> UserRow \cup {NoAccount}]
      /\ usersTold' \in [Account -> ToldRow \cup {NoAccount}]
      /\ users'[u] = r /\ usersTold'[u] = t
      /\ \A v \in Account \ {u} : users'[v] = users[v] /\ usersTold'[v] = usersTold[v]
  BY DEF AccountTypeOK, Rewrites
<1>2. r # NoAccount /\ t # NoAccount
  BY AccountAssumption DEF Rewrites
<1>3. \A v \in Account : Registered(v)' <=> Registered(v)
  BY <1>1, <1>2 DEF Registered, Rewrites
<1>4. \A v \in Account : Registered(v) <=> usersTold[v] # NoAccount
  BY DEF AccountTypeOK
<1>5. Registered(u)
  BY DEF Rewrites
<1>6. \A v \in Account : Registered(v)' <=> usersTold'[v] # NoAccount
  BY <1>1, <1>2, <1>3, <1>4, <1>5
<1> QED
  BY <1>1, <1>3, <1>6

-----------------------------------------------------------------------------
(* What each action that rewrites a row does to it.                        *)
LEMMA RecordFailureRewrites ==
  ASSUME Typed, NEW b \in Browser, RecordFailure(b)
  PROVE  \E r \in UserRow, t \in ToldRow :
           LET u == logins[b].user IN
           /\ u \in Account /\ Rewrites(u, r, t)
           /\ KeepsSecret(u, r, t) /\ KeepsProfile(u, r, t) /\ KeepsFlag(u, r, t)
           /\ r.failed = logins[b].seen.failed + 1 /\ r.failedAt = clock
<1> DEFINE u == logins[b].user
           row == users[u]
           r == [[row EXCEPT !.failed = FailureCount(logins[b].seen)] EXCEPT !.failedAt = clock]
<1>1. logins[b] # NoLogin
  BY DEF RecordFailure, AtStage, NoLogin
<1>2. u \in Account /\ logins[b].seen \in UserRow /\ Registered(u)
  BY <1>1, LoginFields DEF Typed, PortalTypeOK, Known
<1>3. row \in UserRow /\ usersTold[u] \in ToldRow /\ clock \in Nat
  BY <1>2, RowFields DEF Typed, PortalTypeOK
<1>4. FailureCount(logins[b].seen) \in Nat /\ FailureCount(logins[b].seen) = logins[b].seen.failed + 1
  BY <1>2 DEF FailureCount, UserRow
<1>5. /\ r \in UserRow /\ r.failed = FailureCount(logins[b].seen) /\ r.failedAt = clock
      /\ r.matricule = row.matricule /\ r.email = row.email /\ r.password = row.password
      /\ r.tokenVersion = row.tokenVersion /\ r.profil = row.profil /\ r.role = row.role
      /\ r.actif = row.actif
  BY <1>3, <1>4 DEF UserRow
<1>6. users' = [users EXCEPT ![u] = r]
  BY <1>2 DEF RecordFailure, Typed, PortalTypeOK, AccountTypeOK
<1>7. usersTold' = [usersTold EXCEPT ![u] = usersTold[u]]
  BY DEF RecordFailure, Typed, PortalTypeOK, AccountTypeOK
<1> HIDE DEF r
<1>8. Rewrites(u, r, usersTold[u])
  BY <1>2, <1>3, <1>5, <1>6, <1>7 DEF Rewrites
<1> r \in UserRow /\ usersTold[u] \in ToldRow
  BY <1>8 DEF Rewrites
<1> WITNESS r \in UserRow, usersTold[u] \in ToldRow
<1> QED
  BY <1>2, <1>4, <1>5, <1>8 DEF KeepsSecret, KeepsProfile, KeepsFlag

LEMMA RecordSuccessRewrites ==
  ASSUME Typed, NEW b \in Browser, RecordSuccess(b)
  PROVE  \E r \in UserRow, t \in ToldRow :
           LET u == logins[b].user IN
           /\ u \in Account /\ Rewrites(u, r, t)
           /\ KeepsSecret(u, r, t) /\ KeepsProfile(u, r, t) /\ KeepsFlag(u, r, t)
           /\ r.failed = 0 /\ r.failedAt = Never
<1> DEFINE u == logins[b].user
           row == users[u]
           r == [[row EXCEPT !.failed = 0] EXCEPT !.failedAt = Never]
<1>1. logins[b] # NoLogin
  BY DEF RecordSuccess, AtStage, NoLogin
<1>2. u \in Account /\ Registered(u)
  BY <1>1, LoginFields DEF Typed, PortalTypeOK, Known
<1>3. row \in UserRow /\ usersTold[u] \in ToldRow
  BY <1>2, RowFields DEF Typed, PortalTypeOK
<1>5. /\ r \in UserRow /\ r.failed = 0 /\ r.failedAt = Never
      /\ r.matricule = row.matricule /\ r.email = row.email /\ r.password = row.password
      /\ r.tokenVersion = row.tokenVersion /\ r.profil = row.profil /\ r.role = row.role
      /\ r.actif = row.actif
  BY <1>3 DEF UserRow
<1>6. users' = [users EXCEPT ![u] = r]
  BY <1>2 DEF RecordSuccess, Typed, PortalTypeOK, AccountTypeOK
<1>7. usersTold' = [usersTold EXCEPT ![u] = usersTold[u]]
  BY DEF RecordSuccess, Typed, PortalTypeOK, AccountTypeOK
<1> HIDE DEF r
<1>8. Rewrites(u, r, usersTold[u])
  BY <1>2, <1>3, <1>5, <1>6, <1>7 DEF Rewrites
<1> r \in UserRow /\ usersTold[u] \in ToldRow
  BY <1>8 DEF Rewrites
<1> WITNESS r \in UserRow, usersTold[u] \in ToldRow
<1> QED
  BY <1>2, <1>5, <1>8 DEF KeepsSecret, KeepsProfile, KeepsFlag

LEMMA SetPasswordRewrites ==
  ASSUME Typed, NEW u \in Account, NEW new \in Password, NEW mustChange \in BOOLEAN,
         Registered(u), SetPassword(u, new, mustChange)
  PROVE  \E r \in UserRow, t \in ToldRow :
           /\ Rewrites(u, r, t) /\ RenewsSecret(u, r, t) /\ KeepsCounter(u, r)
           /\ KeepsProfile(u, r, t) /\ KeepsFlag(u, r, t) /\ r.password = new
<1> DEFINE row == users[u]
           told == usersTold[u]
           r == [[[row EXCEPT !.password = new] EXCEPT !.mustChange = mustChange]
                   EXCEPT !.tokenVersion = @ + 1]
           t == [told EXCEPT !.tokenVersion = @ + 1]
<1>1. row \in UserRow /\ told \in ToldRow
  BY RowFields DEF Typed, PortalTypeOK
<1>2. row.tokenVersion + 1 \in Nat /\ told.tokenVersion + 1 \in Nat
  BY <1>1 DEF UserRow, ToldRow
<1>3. /\ r \in UserRow /\ r.password = new /\ r.tokenVersion = row.tokenVersion + 1
      /\ r.matricule = row.matricule /\ r.email = row.email /\ r.failed = row.failed
      /\ r.failedAt = row.failedAt /\ r.profil = row.profil /\ r.role = row.role
      /\ r.actif = row.actif
  BY <1>1, <1>2 DEF UserRow
<1>4. /\ t \in ToldRow /\ t.tokenVersion = told.tokenVersion + 1
      /\ t.profil = told.profil /\ t.role = told.role /\ t.actif = told.actif
  BY <1>1, <1>2 DEF ToldRow
<1>5. users' = [users EXCEPT ![u] = r] /\ usersTold' = [usersTold EXCEPT ![u] = t]
  BY DEF SetPassword, Typed, PortalTypeOK, AccountTypeOK
<1> HIDE DEF r, t
<1>6. Rewrites(u, r, t)
  BY <1>3, <1>4, <1>5 DEF Rewrites
<1> r \in UserRow /\ t \in ToldRow
  BY <1>6 DEF Rewrites
<1> WITNESS r \in UserRow, t \in ToldRow
<1> QED
  BY <1>3, <1>4, <1>6 DEF RenewsSecret, KeepsCounter, KeepsProfile, KeepsFlag

LEMMA CommitUpdateRewrites ==
  ASSUME Typed, NEW q \in AccountSession, CommitUpdateUser(q)
  PROVE  \E r \in UserRow, t \in ToldRow :
           LET request == accountRequests[q]
               u == request.user
               patched == request.patched
               seen == request.seen
           IN  /\ u \in Account /\ Rewrites(u, r, t)
               /\ KeepsSecret(u, r, t) /\ KeepsCounter(u, r) /\ KeepsFlag(u, r, t)
               /\ r.profil = patched.profil /\ r.role = patched.role
               /\ patched.profil = seen.profil \/ t.profil = patched.profil
               /\ patched.profil = seen.profil => t.profil = usersTold[u].profil
               /\ patched.role = seen.role \/ t.role = patched.role
               /\ patched.role = seen.role => t.role = usersTold[u].role
<1> DEFINE request == accountRequests[q]
           u == request.user
           patched == request.patched
           seen == request.seen
           row == users[u]
           told == usersTold[u]
           r == [[row EXCEPT !.profil = patched.profil] EXCEPT !.role = patched.role]
           p == IF patched.profil = seen.profil THEN told.profil ELSE patched.profil
           o == IF patched.role = seen.role THEN told.role ELSE patched.role
           t == [[told EXCEPT !.profil = p] EXCEPT !.role = o]
<1>1. request \in AccountRequest /\ request.op = "updateUser"
  BY DEF CommitUpdateUser, Typed, PortalTypeOK, AccountTypeOK
<1>2. u \in Account /\ patched \in UserRow /\ seen \in UserRow /\ AccountOf(request) = {u}
  BY <1>1, RequestFields
<1>3. Registered(u)
  BY <1>2 DEF Typed, Known
<1>4. row \in UserRow /\ told \in ToldRow
  BY <1>2, <1>3, RowFields DEF Typed, PortalTypeOK
<1>5. /\ r \in UserRow /\ r.profil = patched.profil /\ r.role = patched.role
      /\ r.matricule = row.matricule /\ r.email = row.email /\ r.failed = row.failed
      /\ r.failedAt = row.failedAt /\ r.password = row.password
      /\ r.tokenVersion = row.tokenVersion /\ r.actif = row.actif
  BY <1>2, <1>4 DEF UserRow
<1>6. p \in Profil \ Invalid /\ o \in UserRole
  BY <1>2, <1>4 DEF UserRow, ToldRow
<1>7. /\ patched.profil = seen.profil \/ p = patched.profil
      /\ patched.profil = seen.profil => p = told.profil
      /\ patched.role = seen.role \/ o = patched.role
      /\ patched.role = seen.role => o = told.role
  OBVIOUS
<1>8. users' = [users EXCEPT ![u] = r]
  BY <1>2 DEF CommitUpdateUser, Typed, PortalTypeOK, AccountTypeOK
<1>9. usersTold' = [usersTold EXCEPT ![u] = t]
  BY <1>2 DEF CommitUpdateUser, Typed, PortalTypeOK, AccountTypeOK
<1> HIDE DEF p, o
<1>10. /\ t \in ToldRow /\ t.profil = p /\ t.role = o
       /\ t.actif = told.actif /\ t.tokenVersion = told.tokenVersion
  BY <1>4, <1>6 DEF ToldRow
<1> HIDE DEF r, t
<1>11. Rewrites(u, r, t)
  BY <1>3, <1>5, <1>8, <1>9, <1>10 DEF Rewrites
<1> r \in UserRow /\ t \in ToldRow
  BY <1>11 DEF Rewrites
<1> WITNESS r \in UserRow, t \in ToldRow
<1> QED
  BY <1>2, <1>5, <1>7, <1>10, <1>11 DEF KeepsSecret, KeepsCounter, KeepsFlag

LEMMA CommitToggleRewrites ==
  ASSUME Typed, NEW q \in AccountSession, CommitToggleUser(q)
  PROVE  \E r \in UserRow, t \in ToldRow :
           LET u == accountRequests[q].user
           IN  /\ u \in Account /\ Rewrites(u, r, t)
               /\ KeepsSecret(u, r, t) /\ KeepsCounter(u, r) /\ KeepsProfile(u, r, t)
               /\ r.actif = t.actif
<1> DEFINE request == accountRequests[q]
           u == request.user
           row == users[u]
           told == usersTold[u]
           r == [row EXCEPT !.actif = request.actif]
           t == [told EXCEPT !.actif = request.actif]
<1>1. request \in AccountRequest /\ request.op = "toggleUser"
  BY DEF CommitToggleUser, Typed, PortalTypeOK, AccountTypeOK
<1>2. u \in Account /\ request.actif \in BOOLEAN /\ AccountOf(request) = {u}
  BY <1>1, RequestFields
<1>3. Registered(u)
  BY <1>2 DEF Typed, Known
<1>4. row \in UserRow /\ told \in ToldRow
  BY <1>2, <1>3, RowFields DEF Typed, PortalTypeOK
<1>5. /\ r \in UserRow /\ r.actif = request.actif
      /\ r.profil = row.profil /\ r.role = row.role
      /\ r.matricule = row.matricule /\ r.email = row.email /\ r.failed = row.failed
      /\ r.failedAt = row.failedAt /\ r.password = row.password
      /\ r.tokenVersion = row.tokenVersion
  BY <1>2, <1>4 DEF UserRow
<1>6. /\ t \in ToldRow /\ t.actif = request.actif /\ t.profil = told.profil
      /\ t.role = told.role /\ t.tokenVersion = told.tokenVersion
  BY <1>2, <1>4 DEF ToldRow
<1>7. users' = [users EXCEPT ![u] = r] /\ usersTold' = [usersTold EXCEPT ![u] = t]
  BY DEF CommitToggleUser
<1> HIDE DEF r, t
<1>8. Rewrites(u, r, t)
  BY <1>3, <1>5, <1>6, <1>7 DEF Rewrites
<1> r \in UserRow /\ t \in ToldRow
  BY <1>8 DEF Rewrites
<1> WITNESS r \in UserRow, t \in ToldRow
<1> QED
  BY <1>2, <1>5, <1>6, <1>8 DEF KeepsSecret, KeepsCounter, KeepsProfile

-----------------------------------------------------------------------------
LEMMA NewUserTyped ==
  ASSUME NEW input \in UserInput, NEW password \in Password, ValidUser(input)
  PROVE  /\ NewUser(input, password) \in UserRow
         /\ NewUser(input, password).failed = 0
         /\ NewUser(input, password).password = password
<1>1. /\ input.matricule \in Matricule /\ input.email \in Email /\ input.profil \in Profil
      /\ input.role \in UserRole
  BY DEF UserInput
<1>2. input.matricule \notin Invalid /\ input.email \notin Invalid /\ input.profil \notin Invalid
  BY DEF ValidUser
<1> QED
  BY <1>1, <1>2, AccountAssumption DEF NewUser, UserRow

LEMMA ToldTyped ==
  ASSUME NEW row \in UserRow
  PROVE  /\ Told(row) \in ToldRow
         /\ Told(row).profil = row.profil /\ Told(row).role = row.role
         /\ Told(row).actif = row.actif /\ Told(row).tokenVersion = row.tokenVersion
  BY DEF Told, ToldRow, UserRow

(* The INSERT of an account, by a form or by the boot.                     *)
LEMMA CommitUserInserts ==
  ASSUME Typed, NEW q \in AccountSession, NEW u \in Account, CommitUser(q, u)
  PROVE  LET row == accountRequests[q].row IN
         /\ row \in UserRow /\ ~Registered(u) /\ ~UserIndexRefuses(row)
         /\ users' \in [Account -> UserRow \cup {NoAccount}]
         /\ usersTold' \in [Account -> ToldRow \cup {NoAccount}]
         /\ users'[u] = row /\ usersTold'[u] = Told(row)
         /\ \A v \in Account \ {u} : users'[v] = users[v] /\ usersTold'[v] = usersTold[v]
         /\ \A v \in Account : Registered(v)' <=> Registered(v) \/ v = u
         /\ \A v \in Account : Registered(v)' <=> usersTold'[v] # NoAccount
<1> DEFINE row == accountRequests[q].row
<1>1. accountRequests[q] \in AccountRequest
      /\ accountRequests[q].op \in {"createUser", "bootstrap"}
  BY DEF CommitUser, Typed, PortalTypeOK, AccountTypeOK
<1>2. row \in UserRow /\ Told(row) \in ToldRow
  BY <1>1, RequestFields, ToldTyped
<1>3. row # NoAccount /\ Told(row) # NoAccount
  BY <1>2, AccountAssumption
<1>4. /\ ~Registered(u) /\ ~UserIndexRefuses(row)
      /\ users' = [users EXCEPT ![u] = row]
      /\ usersTold' = [usersTold EXCEPT ![u] = Told(row)]
  BY DEF CommitUser
<1> HIDE DEF row
<1>5. /\ users' \in [Account -> UserRow \cup {NoAccount}]
      /\ usersTold' \in [Account -> ToldRow \cup {NoAccount}]
      /\ users'[u] = row /\ usersTold'[u] = Told(row)
      /\ \A v \in Account \ {u} : users'[v] = users[v] /\ usersTold'[v] = usersTold[v]
  BY <1>2, <1>4 DEF Typed, PortalTypeOK, AccountTypeOK
<1>6. \A v \in Account : Registered(v)' <=> Registered(v) \/ v = u
  BY <1>3, <1>5 DEF Registered
<1>7. \A v \in Account : Registered(v) <=> usersTold[v] # NoAccount
  BY DEF Typed, PortalTypeOK, AccountTypeOK
<1>8. \A v \in Account : Registered(v)' <=> usersTold'[v] # NoAccount
  BY <1>3, <1>5, <1>6, <1>7
<1> QED
  BY <1>2, <1>4, <1>5, <1>6, <1>8 DEF row

LEMMA InitTyped == PortalInit => Typed
<1> SUFFICES ASSUME PortalInit PROVE Typed
  OBVIOUS
<1> USE AccountAssumption DEF PortalInit, AccountInit, LoginInit
<1>1. users \in [Account -> UserRow \cup {NoAccount}]
  OBVIOUS
<1>2. usersTold \in [Account -> ToldRow \cup {NoAccount}]
      /\ \A u \in Account : Registered(u) <=> usersTold[u] # NoAccount
  <2>1. \A u \in Account : SeededUsers[u] # NoAccount =>
          Told(SeededUsers[u]) \in ToldRow /\ Told(SeededUsers[u]) # NoAccount
    BY ToldTyped
  <2> QED
    BY <2>1 DEF Registered
<1>3. \A q \in AccountSession : AccountOf(accountRequests[q]) = {}
  BY DEF AccountIdle, AccountOf
<1>4. accountRequests \in [AccountSession -> AccountRequest] /\ contended \subseteq Account
  BY DEF AccountRequest
<1>5. logins \in [Browser -> Login] /\ sessions \in [Browser -> Session]
  BY DEF Login, Session
<1>6. handed \in [Account -> Password \cup {Never}]
  <2>1. \A u \in Account : SeededUsers[u] # NoAccount => SeededUsers[u].password \in Password
    BY DEF UserRow
  <2> QED
    BY <2>1
<1>7. PortalTypeOK
  BY <1>1, <1>2, <1>4, <1>5, <1>6 DEF PortalTypeOK, AccountTypeOK
<1>8. Known
  BY <1>3 DEF Known
<1> QED
  BY <1>7, <1>8 DEF Typed

(* What a step must show of the accounts, the requests and the browsers,   *)
(* each apart from the others.                                             *)
TablesOK ==
  /\ users \in [Account -> UserRow \cup {NoAccount}]
  /\ usersTold \in [Account -> ToldRow \cup {NoAccount}]
  /\ \A u \in Account : Registered(u) <=> usersTold[u] # NoAccount

RequestsOK ==
  /\ accountRequests \in [AccountSession -> AccountRequest]
  /\ contended \subseteq Account

BrowsersOK ==
  /\ logins \in [Browser -> Login]
  /\ sessions \in [Browser -> Session]

CountsOK ==
  /\ clock \in Nat
  /\ lockouts \in [Account -> Nat]
  /\ silenced \subseteq Account
  /\ overtaken \subseteq Account
  /\ crowded \subseteq Account
  /\ wrong \in [Account -> Nat]
  /\ handed \in [Account -> Password \cup {Never}]

LEMMA TypedParts == Typed => TablesOK /\ RequestsOK /\ BrowsersOK /\ CountsOK /\ Known
  BY DEF Typed, PortalTypeOK, AccountTypeOK, TablesOK, RequestsOK, BrowsersOK, CountsOK

LEMMA PartsTyped ==
  ASSUME TablesOK', RequestsOK', BrowsersOK', CountsOK', Known'
  PROVE  Typed'
  BY DEF Typed, PortalTypeOK, AccountTypeOK, TablesOK, RequestsOK, BrowsersOK, CountsOK

(* Accounts are never deleted, so a step that opens nothing new keeps      *)
(* everything known.                                                       *)
Stay == \A v \in Account : Registered(v) => Registered(v)'

LEMMA OpenTyped ==
  ASSUME Typed, NEW q \in AccountSession, NEW request \in AccountRequest,
         \A u \in AccountOf(request) : Registered(u),
         OpenAccount(q, request), UNCHANGED loginVars
  PROVE  Typed'
<1>1. /\ accountRequests' = [accountRequests EXCEPT ![q] = request]
      /\ UNCHANGED <<users, usersTold>>
      /\ contended' \subseteq contended \cup AccountOf(request)
  BY DEF OpenAccount
<1>2. AccountOf(request) \subseteq Account
  BY RequestFields
<1>3. RequestsOK'
  BY <1>1, <1>2 DEF Typed, PortalTypeOK, AccountTypeOK, RequestsOK
<1>4. TablesOK' /\ BrowsersOK' /\ CountsOK'
  BY <1>1, TypedParts DEF TablesOK, BrowsersOK, CountsOK, loginVars, Registered
<1>5. \A p \in AccountSession : accountRequests'[p] = request \/ accountRequests'[p] = accountRequests[p]
  BY <1>1 DEF Typed, PortalTypeOK, AccountTypeOK
<1>6. \A p \in AccountSession : \A u \in AccountOf(accountRequests'[p]) : users[u] # NoAccount
  BY <1>5 DEF Typed, Known, Registered
<1>7. \A b \in Browser :
         /\ logins[b] # NoLogin => users[logins[b].user] # NoAccount
         /\ sessions[b] # NoSession => users[sessions[b].user] # NoAccount
  BY DEF Typed, Known, Registered
<1>8. Known'
  BY <1>1, <1>6, <1>7 DEF Known, loginVars, Registered
<1> QED
  BY <1>3, <1>4, <1>8, PartsTyped

LEMMA CloseRequestsOK ==
  ASSUME RequestsOK, NEW q \in AccountSession, CloseAccount(q)
  PROVE  /\ RequestsOK'
         /\ accountRequests'[q] = AccountIdle /\ AccountOf(AccountIdle) = {}
         /\ \A p \in AccountSession \ {q} : accountRequests'[p] = accountRequests[p]
<1>1. AccountIdle \in AccountRequest /\ AccountOf(AccountIdle) = {}
  BY DEF AccountRequest, AccountIdle, AccountOf
<1> QED
  BY <1>1 DEF RequestsOK, CloseAccount

LEMMA KnownStays ==
  ASSUME Typed, Stay,
         \A b \in Browser :
           /\ logins'[b] # NoLogin => logins[b] # NoLogin /\ logins'[b].user = logins[b].user
           /\ sessions'[b] # NoSession =>
                \/ sessions'[b] = sessions[b]
                \/ logins[b] # NoLogin /\ sessions'[b].user = logins[b].user,
         \A q \in AccountSession :
           AccountOf(accountRequests'[q]) \subseteq AccountOf(accountRequests[q])
  PROVE  Known'
<1>1. \A b \in Browser : logins[b] # NoLogin => logins[b].user \in Account
  BY LoginFields DEF Typed, PortalTypeOK
<1>2. \A b \in Browser : sessions[b] # NoSession => sessions[b].user \in Account
  BY SessionFields DEF Typed, PortalTypeOK
<1>3. \A q \in AccountSession : AccountOf(accountRequests[q]) \subseteq Account
  BY RequestFields DEF Typed, PortalTypeOK, AccountTypeOK
<1>4. \A b \in Browser :
         /\ logins[b] # NoLogin => users'[logins[b].user] # NoAccount
         /\ sessions[b] # NoSession => users'[sessions[b].user] # NoAccount
  <2> TAKE b \in Browser
  <2>1. logins[b] # NoLogin => Registered(logins[b].user) /\ logins[b].user \in Account
    BY <1>1 DEF Typed, Known
  <2>2. sessions[b] # NoSession => Registered(sessions[b].user) /\ sessions[b].user \in Account
    BY <1>2 DEF Typed, Known
  <2> QED
    BY <2>1, <2>2 DEF Stay, Registered
<1>5. \A q \in AccountSession : \A u \in AccountOf(accountRequests'[q]) :
         users'[u] # NoAccount
  BY <1>3 DEF Typed, Known, Stay, Registered
<1>6. \A b \in Browser :
         /\ logins'[b] # NoLogin => users'[logins'[b].user] # NoAccount
         /\ sessions'[b] # NoSession => users'[sessions'[b].user] # NoAccount
  BY <1>4
<1> QED
  BY <1>5, <1>6 DEF Known, Registered

LEMMA LoginStepTyped ==
  ASSUME Typed, NEW b \in Browser,
         \/ \E u \in Account : BeginLogin(b, u)
         \/ RecordFailure(b) \/ AuditLockout(b) \/ RecordSuccess(b) \/ OpenSession(b)
         \/ LoginDies(b) \/ CloseSession(b)
  PROVE  Typed'
<1> DEFINE login == logins[b]
<1>1. /\ TablesOK /\ RequestsOK /\ BrowsersOK /\ CountsOK
      /\ login \in Login /\ clock \in Nat
      /\ \A v \in Account : Registered(v) => users[v] \in UserRow
  BY TypedParts, RowFields DEF BrowsersOK, CountsOK, Typed, PortalTypeOK
<1>2. NoLogin \in Login /\ NoSession \in Session
  BY DEF Login, Session
<1>3. login # NoLogin =>
        /\ login \in [stage : {"compare", "audit", "open"}, user : Account,
                      seen : UserRow, typed : Password]
        /\ Registered(login.user)
  BY <1>1, LoginFields DEF Typed, Known
<1>4. CASE \E u \in Account : BeginLogin(b, u)
  <2>1. PICK u \in Account : BeginLogin(b, u)
    BY <1>4
  <2>2. PICK typed \in Password :
          logins' = [logins EXCEPT ![b] = [stage |-> "compare", user |-> u,
                                           seen |-> users[u], typed |-> typed]]
    BY <2>1 DEF BeginLogin
  <2> DEFINE new == [stage |-> "compare", user |-> u, seen |-> users[u], typed |-> typed]
  <2>3. new \in Login /\ new.user = u /\ Registered(u)
    BY <1>1, <2>1 DEF Login, BeginLogin
  <2> HIDE DEF new
  <2>4. logins' = [logins EXCEPT ![b] = new]
    BY <2>2 DEF new
  <2>5. UNCHANGED <<accountVars, clock, sessions, lockouts, silenced, overtaken, wrong, handed>>
        /\ crowded' \subseteq Account
    BY <1>1, <2>1 DEF BeginLogin, CountsOK
  <2>6. BrowsersOK' /\ TablesOK' /\ RequestsOK' /\ CountsOK'
    BY <1>1, <2>3, <2>4, <2>5 DEF BrowsersOK, TablesOK, RequestsOK, CountsOK, accountVars,
                                  Registered
  <2>7. \A a \in Browser : logins'[a] = new \/ logins'[a] = logins[a]
    BY <1>1, <2>4 DEF BrowsersOK
  <2>8. Known'
    BY <2>3, <2>5, <2>7 DEF Typed, Known, accountVars, Registered
  <2> QED
    BY <2>6, <2>8, PartsTyped
<1>5. CASE RecordFailure(b)
  <2>1. PICK r \in UserRow, t \in ToldRow : login.user \in Account /\ Rewrites(login.user, r, t)
    BY <1>5, RecordFailureRewrites
  <2>2. TablesOK' /\ Stay
    BY <2>1, RewritesTyped DEF Typed, PortalTypeOK, TablesOK, Stay
  <2>3. login # NoLogin
    BY <1>5 DEF RecordFailure, AtStage, NoLogin
  <2>4. [login EXCEPT !.stage = "audit"] \in Login
        /\ [login EXCEPT !.stage = "audit"].user = login.user
    BY <1>3, <2>3 DEF Login
  <2>5. PICK new \in Login : /\ logins' = [logins EXCEPT ![b] = new]
                             /\ new # NoLogin => new.user = login.user
    BY <1>2, <1>5, <2>4 DEF RecordFailure, GoTo
  <2>6. BrowsersOK' /\ \A a \in Browser \ {b} : logins'[a] = logins[a]
    BY <1>1, <1>5, <2>5 DEF BrowsersOK, RecordFailure
  <2>7. logins'[b] = new
    BY <1>1, <2>5 DEF BrowsersOK
  <2>8. wrong' \in [Account -> Nat]
    BY <1>1, <1>5, <2>1 DEF RecordFailure, CountsOK
  <2>9. CountsOK' /\ RequestsOK' /\ UNCHANGED <<sessions, accountRequests>>
    BY <1>1, <1>5, <2>8 DEF RecordFailure, CountsOK, RequestsOK
  <2>10. Known'
    BY <2>2, <2>3, <2>5, <2>6, <2>7, <2>9, KnownStays
  <2> QED
    BY <2>2, <2>6, <2>9, <2>10, PartsTyped
<1>6. CASE AuditLockout(b)
  <2>1. login # NoLogin
    BY <1>6 DEF AuditLockout, AtStage, NoLogin
  <2>2. /\ logins' = [logins EXCEPT ![b] = NoLogin]
        /\ lockouts' \in [Account -> Nat]
        /\ UNCHANGED <<accountVars, clock, sessions, silenced, overtaken, crowded, wrong,
                       handed>>
    BY <1>1, <1>3, <1>6, <2>1 DEF AuditLockout, GoTo, CountsOK
  <2>3. TablesOK' /\ RequestsOK' /\ CountsOK' /\ BrowsersOK' /\ Stay
    BY <1>1, <1>2, <2>2 DEF TablesOK, RequestsOK, CountsOK, BrowsersOK, Stay, accountVars, Registered
  <2>4. \A a \in Browser : logins'[a] = NoLogin \/ logins'[a] = logins[a]
    BY <1>1, <2>2 DEF BrowsersOK
  <2>5. Known'
    BY <2>2, <2>3, <2>4, KnownStays DEF accountVars
  <2> QED
    BY <2>3, <2>5, PartsTyped
<1>7. CASE RecordSuccess(b)
  <2>1. PICK r \in UserRow, t \in ToldRow : login.user \in Account /\ Rewrites(login.user, r, t)
    BY <1>7, RecordSuccessRewrites
  <2>2. TablesOK' /\ Stay
    BY <2>1, RewritesTyped DEF Typed, PortalTypeOK, TablesOK, Stay
  <2>3. login # NoLogin
    BY <1>7 DEF RecordSuccess, AtStage, NoLogin
  <2> DEFINE new == [login EXCEPT !.stage = "open"]
  <2>4. new \in Login /\ new.user = login.user
    BY <1>3, <2>3 DEF Login
  <2>5. logins' = [logins EXCEPT ![b] = new]
    BY <1>7 DEF RecordSuccess, GoTo
  <2> HIDE DEF new
  <2>6. BrowsersOK' /\ (\A a \in Browser \ {b} : logins'[a] = logins[a]) /\ logins'[b] = new
    BY <1>1, <1>7, <2>4, <2>5 DEF BrowsersOK, RecordSuccess
  <2>7. /\ wrong' \in [Account -> Nat] /\ lockouts' \in [Account -> Nat]
        /\ silenced' \subseteq Account /\ overtaken' \subseteq Account
    BY <1>1, <1>7, <2>1 DEF RecordSuccess, CountsOK
  <2>8. CountsOK' /\ RequestsOK' /\ UNCHANGED <<sessions, accountRequests>>
    BY <1>1, <1>7, <2>7 DEF RecordSuccess, CountsOK, RequestsOK
  <2>9. Known'
    BY <2>2, <2>3, <2>4, <2>6, <2>8, KnownStays
  <2> QED
    BY <2>2, <2>6, <2>8, <2>9, PartsTyped
<1>8. CASE OpenSession(b)
  <2>1. login # NoLogin
    BY <1>8 DEF OpenSession, AtStage, NoLogin
  <2>2. IssueToken(b) \in Session /\ IssueToken(b).user = login.user
    BY <1>3, <2>1 DEF IssueToken, Session, UserRow
  <2>3. /\ logins' = [logins EXCEPT ![b] = NoLogin]
        /\ sessions' = [sessions EXCEPT ![b] = IssueToken(b)]
        /\ UNCHANGED <<accountVars, clock, lockouts, silenced, overtaken, crowded, wrong, handed>>
    BY <1>8 DEF OpenSession, GoTo
  <2>4. TablesOK' /\ RequestsOK' /\ CountsOK' /\ BrowsersOK' /\ Stay
    BY <1>1, <1>2, <2>2, <2>3
       DEF TablesOK, RequestsOK, CountsOK, BrowsersOK, Stay, accountVars, Registered
  <2>5. /\ \A a \in Browser : logins'[a] = NoLogin \/ logins'[a] = logins[a]
        /\ \A a \in Browser \ {b} : sessions'[a] = sessions[a]
        /\ sessions'[b] = IssueToken(b)
    BY <1>1, <2>3 DEF BrowsersOK
  <2>6. Known'
    BY <2>1, <2>2, <2>3, <2>4, <2>5, KnownStays DEF accountVars
  <2> QED
    BY <2>4, <2>6, PartsTyped
<1>9. CASE LoginDies(b)
  <2>1. /\ logins' = [logins EXCEPT ![b] = NoLogin]
        /\ silenced' \subseteq Account
        /\ UNCHANGED <<accountVars, clock, sessions, lockouts, overtaken, crowded, wrong,
                       handed>>
    BY <1>1, <1>3, <1>9 DEF LoginDies, GoTo, CountsOK
  <2>2. TablesOK' /\ RequestsOK' /\ CountsOK' /\ BrowsersOK' /\ Stay
    BY <1>1, <1>2, <2>1 DEF TablesOK, RequestsOK, CountsOK, BrowsersOK, Stay, accountVars, Registered
  <2>3. \A a \in Browser : logins'[a] = NoLogin \/ logins'[a] = logins[a]
    BY <1>1, <2>1 DEF BrowsersOK
  <2>4. Known'
    BY <2>1, <2>2, <2>3, KnownStays DEF accountVars
  <2> QED
    BY <2>2, <2>4, PartsTyped
<1>10. CASE CloseSession(b)
  <2>1. /\ sessions' = [sessions EXCEPT ![b] = NoSession]
        /\ UNCHANGED <<accountVars, clock, logins, lockouts, silenced, overtaken, crowded, wrong, handed>>
    BY <1>10 DEF CloseSession
  <2>2. TablesOK' /\ RequestsOK' /\ CountsOK' /\ BrowsersOK' /\ Stay
    BY <1>1, <1>2, <2>1 DEF TablesOK, RequestsOK, CountsOK, BrowsersOK, Stay, accountVars, Registered
  <2>3. \A a \in Browser : sessions'[a] = NoSession \/ sessions'[a] = sessions[a]
    BY <1>1, <2>1 DEF BrowsersOK
  <2>4. Known'
    BY <2>1, <2>2, <2>3, KnownStays DEF accountVars
  <2> QED
    BY <2>2, <2>4, PartsTyped
<1> QED
  BY <1>4, <1>5, <1>6, <1>7, <1>8, <1>9, <1>10

(* A commit writes one account's row and closes its request, or leaves it  *)
(* open to send a mail.                                                    *)
LEMMA CommitTyped ==
  ASSUME Typed, TablesOK', Stay, RequestsOK', NEW q \in AccountSession,
         \A p \in AccountSession :
           AccountOf(accountRequests'[p]) \subseteq AccountOf(accountRequests[p]),
         UNCHANGED <<clock, logins, sessions, lockouts, silenced, overtaken, crowded, wrong>>,
         handed' \in [Account -> Password \cup {Never}]
  PROVE  Typed'
<1>1. BrowsersOK' /\ CountsOK'
  BY TypedParts DEF BrowsersOK, CountsOK
<1>2. Known'
  BY KnownStays
<1> QED
  BY <1>1, <1>2, PartsTyped

LEMMA PasswordStepTyped ==
  ASSUME Typed, PasswordNext
  PROVE  Typed'
<1>1. /\ TablesOK /\ RequestsOK /\ BrowsersOK /\ CountsOK
  BY TypedParts
<1>2. ASSUME NEW q \in AccountSession, NEW b \in Browser, BeginChangePassword(q, b)
      PROVE  Typed'
  <2> DEFINE u == sessions[b].user
             request(new) == [op |-> "changePassword", user |-> u,
                              proved |-> users[u].password, new |-> new]
  <2>1. sessions[b] # NoSession /\ Registered(u)
    BY <1>2 DEF BeginChangePassword, LiveSession
  <2>2. u \in Account /\ users[u] \in UserRow
    BY <1>1, <2>1, SessionFields, RowFields DEF BrowsersOK, Typed, PortalTypeOK
  <2>3. PICK new \in Password : OpenAccount(q, request(new))
    BY <1>2 DEF BeginChangePassword
  <2>4. request(new) \in AccountRequest /\ AccountOf(request(new)) = {u}
    BY <2>2 DEF AccountRequest, AccountOf, UserRow
  <2>5. UNCHANGED loginVars
    BY <1>2 DEF BeginChangePassword
  <2> HIDE DEF request, u
  <2> QED
    BY <2>1, <2>3, <2>4, <2>5, OpenTyped
<1>3. ASSUME NEW q \in AccountSession, CommitChangePassword(q) PROVE Typed'
  <2> DEFINE u == accountRequests[q].user
             new == accountRequests[q].new
  <2>1. /\ u \in Account /\ new \in Password /\ AccountOf(accountRequests[q]) = {u}
    BY <1>1, <1>3, RequestFields DEF CommitChangePassword, RequestsOK
  <2>2. Registered(u)
    BY <2>1 DEF Typed, Known
  <2>3. SetPassword(u, new, FALSE) /\ CloseAccount(q)
        /\ handed' = [handed EXCEPT ![u] = new]
        /\ UNCHANGED <<clock, logins, sessions, lockouts, silenced, overtaken, crowded, wrong>>
    BY <1>3 DEF CommitChangePassword
  <2> HIDE DEF u, new
  <2>4. PICK r \in UserRow, t \in ToldRow : Rewrites(u, r, t)
    BY <2>1, <2>2, <2>3, SetPasswordRewrites
  <2>5. TablesOK' /\ Stay
    BY <2>1, <2>4, RewritesTyped DEF Typed, PortalTypeOK, TablesOK, Stay
  <2>6. RequestsOK' /\ \A p \in AccountSession :
          AccountOf(accountRequests'[p]) \subseteq AccountOf(accountRequests[p])
    BY <1>1, <2>3, CloseRequestsOK
  <2>7. handed' \in [Account -> Password \cup {Never}]
    BY <1>1, <2>1, <2>3 DEF CountsOK
  <2> QED
    BY <2>3, <2>5, <2>6, <2>7, CommitTyped
<1>4. ASSUME NEW q \in AccountSession, NEW u \in Account, BeginForgot(q, u) PROVE Typed'
  <2> DEFINE request(new) == [op |-> "forgot", user |-> u, new |-> new]
  <2>1. PICK new \in Password : OpenAccount(q, request(new))
    BY <1>4 DEF BeginForgot
  <2>2. request(new) \in AccountRequest /\ AccountOf(request(new)) = {u}
    BY DEF AccountRequest, AccountOf
  <2>3. UNCHANGED loginVars /\ Registered(u)
    BY <1>4 DEF BeginForgot
  <2> HIDE DEF request
  <2> QED
    BY <2>1, <2>2, <2>3, OpenTyped
<1>5. ASSUME NEW q \in AccountSession, CommitForgot(q) PROVE Typed'
  <2> DEFINE request == accountRequests[q]
             u == request.user
             mail == [request EXCEPT !.op = "mail"]
  <2>1. request \in AccountRequest /\ request.op = "forgot"
    BY <1>1, <1>5 DEF CommitForgot, RequestsOK
  <2>2. /\ u \in Account /\ request.new \in Password /\ AccountOf(request) = {u}
    BY <2>1, RequestFields
  <2>3. request \in [op : {"forgot", "mail"}, user : Account, new : Password]
    BY <2>1 DEF AccountRequest, AccountIdle
  <2>4. mail \in AccountRequest /\ AccountOf(mail) = {u}
    BY <2>3 DEF AccountRequest, AccountOf
  <2>5. Registered(u)
    BY <2>2 DEF Typed, Known
  <2>6. SetPassword(u, request.new, TRUE) /\ accountRequests' = [accountRequests EXCEPT ![q] = mail]
        /\ UNCHANGED <<contended, loginVars>>
    BY <1>5 DEF CommitForgot
  <2>7. PICK r \in UserRow, t \in ToldRow : Rewrites(u, r, t)
    BY <2>2, <2>5, <2>6, SetPasswordRewrites
  <2>8. TablesOK' /\ Stay
    BY <2>2, <2>7, RewritesTyped DEF Typed, PortalTypeOK, TablesOK, Stay
  <2> HIDE DEF mail
  <2>9. RequestsOK'
    BY <1>1, <2>4, <2>6 DEF RequestsOK
  <2>10. \A p \in AccountSession :
          AccountOf(accountRequests'[p]) \subseteq AccountOf(accountRequests[p])
    BY <1>1, <2>2, <2>4, <2>6 DEF RequestsOK
  <2> QED
    BY <1>1, <2>6, <2>8, <2>9, <2>10, CommitTyped DEF loginVars, CountsOK
<1>6. ASSUME NEW q \in AccountSession, SendPassword(q) \/ MailFails(q) PROVE Typed'
  <2>1. accountRequests[q] \in AccountRequest /\ accountRequests[q].op = "mail"
    BY <1>1, <1>6 DEF SendPassword, MailFails, RequestsOK
  <2>2. accountRequests[q].new \in Password
    BY <2>1, RequestFields
  <2>3. CloseAccount(q) /\ UNCHANGED <<users, usersTold>>
        /\ UNCHANGED <<clock, logins, sessions, lockouts, silenced, overtaken, crowded, wrong>>
    BY <1>6 DEF SendPassword, MailFails
  <2>4. handed' \in [Account -> Password \cup {Never}]
    BY <1>1, <1>6, <2>2 DEF SendPassword, MailFails, MailedPassword, CountsOK
  <2>5. TablesOK' /\ Stay
    BY <1>1, <2>3 DEF TablesOK, Stay, Registered
  <2>6. RequestsOK' /\ \A p \in AccountSession :
          AccountOf(accountRequests'[p]) \subseteq AccountOf(accountRequests[p])
    BY <1>1, <2>3, CloseRequestsOK
  <2> QED
    BY <2>3, <2>4, <2>5, <2>6, CommitTyped
<1>7. ASSUME NEW u \in Account, ResetPassword(u) PROVE Typed'
  <2>1. PICK new \in Password : SetPassword(u, new, TRUE) /\ handed' = [handed EXCEPT ![u] = new]
    BY <1>7 DEF ResetPassword
  <2>2. Registered(u) /\ contended' \subseteq contended \cup {u}
        /\ UNCHANGED <<accountRequests, clock, logins, sessions, lockouts, silenced,
                       overtaken, crowded, wrong>>
    BY <1>7 DEF ResetPassword
  <2>3. PICK r \in UserRow, t \in ToldRow : Rewrites(u, r, t)
    BY <2>1, <2>2, SetPasswordRewrites
  <2>4. TablesOK' /\ Stay
    BY <2>3, RewritesTyped DEF Typed, PortalTypeOK, TablesOK, Stay
  <2>5. RequestsOK' /\ handed' \in [Account -> Password \cup {Never}]
    BY <1>1, <2>1, <2>2 DEF RequestsOK, CountsOK
  <2>6. BrowsersOK' /\ CountsOK'
    BY <1>1, <2>2, <2>5 DEF BrowsersOK, CountsOK
  <2>7. Known'
    BY <2>2, <2>4, KnownStays
  <2> QED
    BY <2>4, <2>5, <2>6, <2>7, PartsTyped
<1> QED
  BY <1>2, <1>3, <1>4, <1>5, <1>6, <1>7 DEF PasswordNext

LEMMA HandedTyped ==
  ASSUME Typed, TablesOK', HandNewPassword
  PROVE  handed' \in [Account -> Password \cup {Never}]
<1>1. handed \in [Account -> Password \cup {Never}]
  BY TypedParts DEF CountsOK
<1>2. \A u \in Account : users'[u] # NoAccount => users'[u].password \in Password
  BY DEF TablesOK, UserRow
<1> QED
  BY <1>1, <1>2 DEF HandNewPassword, Registered

LEMMA AdminStepTyped ==
  ASSUME Typed, AdminNext
  PROVE  Typed'
<1>1. /\ TablesOK /\ RequestsOK /\ BrowsersOK /\ CountsOK
  BY TypedParts
<1>2. ASSUME NEW q \in AccountSession, NEW u \in Account,
             BeginUpdateUser(q, u), UNCHANGED loginVars
      PROVE  Typed'
  <2> DEFINE patched(p, o) == [users[u] EXCEPT !.profil = p, !.role = o]
             request(p, o) == [op |-> "updateUser", user |-> u, seen |-> users[u],
                               patched |-> patched(p, o)]
  <2>1. PICK p \in Profil, o \in UserRole :
          ValidProfil(p) /\ OpenAccount(q, request(p, o))
    BY <1>2 DEF BeginUpdateUser
  <2>2. Registered(u) /\ users[u] \in UserRow
    BY <1>2, RowFields DEF BeginUpdateUser, Typed, PortalTypeOK
  <2>3. patched(p, o) \in UserRow
    BY <2>1, <2>2 DEF ValidProfil, UserRow
  <2> HIDE DEF patched
  <2>4. request(p, o) \in AccountRequest /\ AccountOf(request(p, o)) = {u}
    BY <2>2, <2>3 DEF AccountRequest, AccountOf
  <2> HIDE DEF request
  <2> QED
    BY <1>2, <2>1, <2>2, <2>4, OpenTyped
<1>3. ASSUME NEW q \in AccountSession, NEW u \in Account, NEW a,
             BeginToggleUser(q, a, u), UNCHANGED loginVars
      PROVE  Typed'
  <2> DEFINE request == [op |-> "toggleUser", user |-> u, actif |-> ~users[u].actif]
  <2>1. Registered(u) /\ OpenAccount(q, request)
    BY <1>3 DEF BeginToggleUser
  <2>2. users[u].actif \in BOOLEAN
    BY <2>1, RowFields DEF Typed, PortalTypeOK, UserRow
  <2>3. request \in AccountRequest /\ AccountOf(request) = {u}
    BY <2>2 DEF AccountRequest, AccountOf
  <2> HIDE DEF request
  <2> QED
    BY <1>3, <2>1, <2>3, OpenTyped
<1>4. ASSUME NEW q \in AccountSession, BeginCreateUser(q) \/ BeginBootstrap(q),
             UNCHANGED loginVars
      PROVE  Typed'
  <2>1. PICK op \in {"createUser", "bootstrap"}, row \in UserRow :
          OpenAccount(q, [op |-> op, row |-> row])
    <3>1. CASE BeginCreateUser(q)
      BY <3>1, NewUserTyped DEF BeginCreateUser
    <3>2. CASE BeginBootstrap(q)
      BY <3>2, NewUserTyped, AccountAssumption DEF BeginBootstrap
    <3> QED
      BY <1>4, <3>1, <3>2
  <2> DEFINE request == [op |-> op, row |-> row]
  <2>2. request \in AccountRequest /\ AccountOf(request) = {}
    BY DEF AccountRequest, AccountOf
  <2>3. OpenAccount(q, request)
    BY <2>1
  <2> HIDE DEF request
  <2> QED
    BY <1>4, <2>2, <2>3, OpenTyped
<1>5. ASSUME NEW q \in AccountSession, AccountCommit(q), HandNewPassword,
             UNCHANGED <<clock, logins, sessions, lockouts, silenced, overtaken, crowded, wrong>>
      PROVE  Typed'
  <2>1. TablesOK' /\ Stay
    <3>1. ASSUME NEW u \in Account, CommitUser(q, u) PROVE TablesOK' /\ Stay
      BY <3>1, CommitUserInserts DEF TablesOK, Stay
    <3>2. CASE RejectUser(q)
      BY <1>1, <3>2 DEF RejectUser, TablesOK, Stay, Registered
    <3>3. CASE CommitUpdateUser(q)
      BY <3>3, CommitUpdateRewrites, RewritesTyped DEF Typed, PortalTypeOK, TablesOK, Stay
    <3>4. CASE CommitToggleUser(q)
      BY <3>4, CommitToggleRewrites, RewritesTyped DEF Typed, PortalTypeOK, TablesOK, Stay
    <3> QED
      BY <1>5, <3>1, <3>2, <3>3, <3>4 DEF AccountCommit
  <2>2. CloseAccount(q)
    BY <1>5 DEF AccountCommit, CommitUser, RejectUser, CommitUpdateUser, CommitToggleUser
  <2>3. RequestsOK' /\ \A p \in AccountSession :
          AccountOf(accountRequests'[p]) \subseteq AccountOf(accountRequests[p])
    BY <1>1, <2>2, CloseRequestsOK
  <2>4. handed' \in [Account -> Password \cup {Never}]
    BY <1>5, <2>1, HandedTyped
  <2> QED
    BY <1>5, <2>1, <2>3, <2>4, CommitTyped
<1> QED
  BY <1>2, <1>3, <1>4, <1>5 DEF AdminNext, AdminUseCase

LEMMA NextTyped == Typed /\ [PortalNext]_portalVars => Typed'
<1> SUFFICES ASSUME Typed, [PortalNext]_portalVars PROVE Typed'
  OBVIOUS
<1>1. CASE LoginNext
  <2>1. CASE Tick
    <3>1. TablesOK' /\ RequestsOK' /\ BrowsersOK' /\ CountsOK' /\ Stay
      BY <2>1, TypedParts DEF Tick, TablesOK, RequestsOK, BrowsersOK, CountsOK, accountVars,
                              Registered, Stay
    <3>2. Known'
      BY <2>1, <3>1, KnownStays DEF Tick, accountVars
    <3> QED
      BY <3>1, <3>2, PartsTyped
  <2> QED
    BY <1>1, <2>1, LoginStepTyped DEF LoginNext
<1>2. CASE UNCHANGED portalVars
  <2>1. TablesOK' /\ RequestsOK' /\ BrowsersOK' /\ CountsOK' /\ Stay
    BY <1>2, TypedParts DEF portalVars, TablesOK, RequestsOK, BrowsersOK, CountsOK,
                            accountVars, loginVars, Registered, Stay
  <2>2. Known'
    BY <1>2, <2>1, KnownStays DEF portalVars, accountVars, loginVars
  <2> QED
    BY <2>1, <2>2, PartsTyped
<1> QED
  BY <1>1, <1>2, PasswordStepTyped, AdminStepTyped DEF PortalNext

(* The accounts, their log, the requests, the logins and the sessions hold *)
(* values of their types, and all are of accounts that exist.              *)
THEOREM PortalTypeCorrect == PortalSpec => []PortalTypeOK
<1>1. Typed => PortalTypeOK
  BY DEF Typed
<1> QED
  BY <1>1, InitTyped, NextTyped, PTL DEF PortalSpec

-----------------------------------------------------------------------------
(* The columns of an account that a step may write, by who takes it: a     *)
(* login writes counters, a password request secrets, an administrator     *)
(* names, roles and flags; and only the latter registers accounts.         *)
SameSecret(v) ==
  /\ users'[v].password = users[v].password
  /\ users'[v].tokenVersion = users[v].tokenVersion
  /\ usersTold'[v].tokenVersion = usersTold[v].tokenVersion

NewSecret(v) ==
  /\ users'[v].tokenVersion = users[v].tokenVersion + 1
  /\ usersTold'[v].tokenVersion = usersTold[v].tokenVersion + 1

SameCounter(v) ==
  users'[v].failed = users[v].failed /\ users'[v].failedAt = users[v].failedAt

SameProfile(v) ==
  /\ users'[v].profil = users[v].profil /\ users'[v].role = users[v].role
  /\ usersTold'[v].profil = usersTold[v].profil /\ usersTold'[v].role = usersTold[v].role

SameFlag(v) ==
  users'[v].actif = users[v].actif /\ usersTold'[v].actif = usersTold[v].actif

SameIdentity(v) ==
  users'[v].matricule = users[v].matricule /\ users'[v].email = users[v].email

SameRow(v) == users'[v] = users[v] /\ usersTold'[v] = usersTold[v]

SameAccounts == \A v \in Account : Registered(v)' <=> Registered(v)

LEMMA SameRowKeeps ==
  ASSUME NEW v, SameRow(v)
  PROVE  /\ SameSecret(v) /\ SameCounter(v) /\ SameProfile(v) /\ SameFlag(v)
         /\ SameIdentity(v)
  BY DEF SameRow, SameSecret, SameCounter, SameProfile, SameFlag, SameIdentity

LEMMA RewritesColumns ==
  ASSUME Typed, NEW u \in Account, NEW r, NEW t, Rewrites(u, r, t)
  PROVE  /\ SameAccounts
         /\ SameIdentity(u)
         /\ KeepsSecret(u, r, t) => SameSecret(u)
         /\ RenewsSecret(u, r, t) => NewSecret(u)
         /\ KeepsCounter(u, r) => SameCounter(u)
         /\ KeepsProfile(u, r, t) => SameProfile(u)
         /\ KeepsFlag(u, r, t) => SameFlag(u)
         /\ users'[u] = r /\ usersTold'[u] = t
         /\ \A v \in Account \ {u} : SameRow(v)
  BY RewritesTyped
     DEF Typed, PortalTypeOK, SameAccounts, SameIdentity, SameSecret, NewSecret,
         SameCounter, SameProfile, SameFlag, SameRow, KeepsSecret, RenewsSecret,
         KeepsCounter, KeepsProfile, KeepsFlag, Rewrites

LEMMA LoginColumns ==
  ASSUME Typed, LoginNext
  PROVE  /\ SameAccounts
         /\ UNCHANGED <<accountRequests, contended, handed>>
         /\ \A v \in Account : SameSecret(v) /\ SameProfile(v) /\ SameFlag(v) /\ SameIdentity(v)
<1>1. UNCHANGED <<accountRequests, contended, handed>>
  BY DEF LoginNext, BeginLogin, RecordFailure, AuditLockout, RecordSuccess, OpenSession,
         LoginDies, CloseSession, Tick, accountVars
<1>2. CASE UNCHANGED <<users, usersTold>>
  BY <1>1, <1>2, SameRowKeeps DEF SameAccounts, Registered, SameRow
<1>3. ASSUME NEW b \in Browser, RecordFailure(b) \/ RecordSuccess(b)
      PROVE  /\ SameAccounts
             /\ \A v \in Account : SameSecret(v) /\ SameProfile(v) /\ SameFlag(v) /\ SameIdentity(v)
  <2> DEFINE u == logins[b].user
  <2>1. PICK r \in UserRow, t \in ToldRow :
          /\ u \in Account /\ Rewrites(u, r, t)
          /\ KeepsSecret(u, r, t) /\ KeepsProfile(u, r, t) /\ KeepsFlag(u, r, t)
    BY <1>3, RecordFailureRewrites, RecordSuccessRewrites
  <2> HIDE DEF u
  <2> QED
    BY <2>1, RewritesColumns, SameRowKeeps
<1> QED
  BY <1>1, <1>2, <1>3
     DEF LoginNext, BeginLogin, AuditLockout, OpenSession, LoginDies, CloseSession, Tick,
         accountVars

LEMMA SetPasswordColumns ==
  ASSUME Typed, NEW u \in Account, NEW new \in Password, NEW m \in BOOLEAN,
         Registered(u), SetPassword(u, new, m)
  PROVE  /\ SameAccounts
         /\ users'[u].password = new /\ NewSecret(u)
         /\ \A v \in Account : SameCounter(v) /\ SameProfile(v) /\ SameFlag(v) /\ SameIdentity(v)
         /\ \A v \in Account \ {u} : SameRow(v)
<1>1. PICK r \in UserRow, t \in ToldRow :
        /\ Rewrites(u, r, t) /\ RenewsSecret(u, r, t) /\ KeepsCounter(u, r)
        /\ KeepsProfile(u, r, t) /\ KeepsFlag(u, r, t) /\ r.password = new
  BY SetPasswordRewrites
<1> QED
  BY <1>1, RewritesColumns, SameRowKeeps

LEMMA PasswordColumns ==
  ASSUME Typed, PasswordNext
  PROVE  /\ SameAccounts
         /\ \A v \in Account : SameCounter(v) /\ SameProfile(v) /\ SameFlag(v) /\ SameIdentity(v)
         /\ \A v \in Account : SameSecret(v) \/ NewSecret(v)
         /\ UNCHANGED <<clock, logins, sessions, lockouts, silenced, overtaken, crowded, wrong>>
<1>1. UNCHANGED <<clock, logins, sessions, lockouts, silenced, overtaken, crowded, wrong>>
  BY DEF PasswordNext, BeginChangePassword, CommitChangePassword, BeginForgot, CommitForgot,
         SendPassword, MailFails, ResetPassword, loginVars
<1>2. CASE UNCHANGED <<users, usersTold>>
  BY <1>1, <1>2, SameRowKeeps DEF SameAccounts, Registered, SameRow
<1>3. ASSUME NEW q \in AccountSession, CommitChangePassword(q) \/ CommitForgot(q)
      PROVE  \E u \in Account, new \in Password, m \in BOOLEAN :
               Registered(u) /\ SetPassword(u, new, m)
  <2>1. accountRequests[q] \in AccountRequest /\ accountRequests[q].op \in {"changePassword", "forgot"}
    BY <1>3 DEF CommitChangePassword, CommitForgot, Typed, PortalTypeOK, AccountTypeOK
  <2>2. /\ accountRequests[q].user \in Account /\ accountRequests[q].new \in Password
        /\ AccountOf(accountRequests[q]) = {accountRequests[q].user}
    BY <2>1, RequestFields
  <2>3. Registered(accountRequests[q].user)
    BY <2>2 DEF Typed, Known
  <2> QED
    BY <1>3, <2>2, <2>3 DEF CommitChangePassword, CommitForgot
<1>4. ASSUME NEW u \in Account, ResetPassword(u)
      PROVE  \E new \in Password, m \in BOOLEAN : Registered(u) /\ SetPassword(u, new, m)
  BY <1>4 DEF ResetPassword
<1>5. \/ UNCHANGED <<users, usersTold>>
      \/ \E u \in Account, new \in Password, m \in BOOLEAN :
           Registered(u) /\ SetPassword(u, new, m)
  BY <1>3, <1>4 DEF PasswordNext, BeginChangePassword, BeginForgot, SendPassword, MailFails,
                    OpenAccount
<1> QED
  BY <1>1, <1>2, <1>5, SetPasswordColumns, SameRowKeeps

(* An administrator's step: the row that the INSERT adds, or the columns   *)
(* that the UPDATE leaves.                                                 *)
Inserted(v) ==
  /\ ~Registered(v) /\ users'[v] \in UserRow /\ usersTold'[v] = Told(users'[v])
  /\ ~UserIndexRefuses(users'[v])
  /\ \A w \in Account \ {v} : SameRow(w)

LEMMA AdminColumns ==
  ASSUME Typed, AdminNext
  PROVE  /\ UNCHANGED <<clock, logins, sessions, lockouts, silenced, overtaken, crowded, wrong>>
         /\ \/ \E v \in Account : Inserted(v)
            \/ /\ SameAccounts
               /\ \A v \in Account : SameSecret(v) /\ SameCounter(v) /\ SameIdentity(v)
               /\ \A v \in Account : SameFlag(v) \/ users'[v].actif = usersTold'[v].actif
<1>1. UNCHANGED <<clock, logins, sessions, lockouts, silenced, overtaken, crowded, wrong>>
  BY DEF AdminNext, loginVars
<1>2. CASE UNCHANGED <<users, usersTold>>
  BY <1>1, <1>2, SameRowKeeps DEF SameAccounts, Registered, SameRow
<1>3. ASSUME NEW q \in AccountSession, NEW u \in Account, CommitUser(q, u) PROVE Inserted(u)
  BY <1>3, CommitUserInserts DEF Inserted, SameRow
<1>4. ASSUME NEW q \in AccountSession, CommitUpdateUser(q)
      PROVE  /\ SameAccounts
             /\ \A v \in Account : SameSecret(v) /\ SameCounter(v) /\ SameIdentity(v) /\ SameFlag(v)
  <2> DEFINE u == accountRequests[q].user
  <2>1. PICK r \in UserRow, t \in ToldRow :
          /\ u \in Account /\ Rewrites(u, r, t)
          /\ KeepsSecret(u, r, t) /\ KeepsCounter(u, r) /\ KeepsFlag(u, r, t)
    BY <1>4, CommitUpdateRewrites
  <2> HIDE DEF u
  <2> QED
    BY <2>1, RewritesColumns, SameRowKeeps
<1>5. ASSUME NEW q \in AccountSession, CommitToggleUser(q)
      PROVE  /\ SameAccounts
             /\ \A v \in Account : SameSecret(v) /\ SameCounter(v) /\ SameIdentity(v)
             /\ \A v \in Account : SameFlag(v) \/ users'[v].actif = usersTold'[v].actif
             /\ \A v \in Account : SameProfile(v)
  <2> DEFINE u == accountRequests[q].user
  <2>1. PICK r \in UserRow, t \in ToldRow :
          /\ u \in Account /\ Rewrites(u, r, t)
          /\ KeepsSecret(u, r, t) /\ KeepsCounter(u, r) /\ KeepsProfile(u, r, t)
          /\ r.actif = t.actif
    BY <1>5, CommitToggleRewrites
  <2> HIDE DEF u
  <2> QED
    BY <2>1, RewritesColumns, SameRowKeeps
<1>6. ASSUME NEW q \in AccountSession, AccountCommit(q)
      PROVE  \/ UNCHANGED <<users, usersTold>>
             \/ \E u \in Account : CommitUser(q, u)
             \/ CommitUpdateUser(q) \/ CommitToggleUser(q)
  BY <1>6 DEF AccountCommit, RejectUser
<1> QED
  BY <1>1, <1>2, <1>3, <1>4, <1>5, <1>6
     DEF AdminNext, AdminUseCase, BeginCreateUser, BeginUpdateUser, BeginToggleUser,
         BeginBootstrap, OpenAccount

LEMMA AdminInserts ==
  ASSUME Typed, AdminNext
  PROVE  \/ \E q \in AccountSession, u \in Account : CommitUser(q, u)
         \/ SameAccounts /\ \A v \in Account : SameCounter(v)
<1>1. CASE UNCHANGED <<users, usersTold>>
  BY <1>1 DEF SameAccounts, Registered, SameCounter
<1>2. ASSUME NEW q \in AccountSession, CommitUpdateUser(q) \/ CommitToggleUser(q)
      PROVE  SameAccounts /\ \A v \in Account : SameCounter(v)
  <2> DEFINE u == accountRequests[q].user
  <2>1. PICK r \in UserRow, t \in ToldRow :
          u \in Account /\ Rewrites(u, r, t) /\ KeepsCounter(u, r)
    BY <1>2, CommitUpdateRewrites, CommitToggleRewrites
  <2> HIDE DEF u
  <2> QED
    BY <2>1, RewritesColumns, SameRowKeeps
<1>3. ASSUME NEW q \in AccountSession, AccountCommit(q)
      PROVE  \/ UNCHANGED <<users, usersTold>>
             \/ \E u \in Account : CommitUser(q, u)
             \/ CommitUpdateUser(q) \/ CommitToggleUser(q)
  BY <1>3 DEF AccountCommit, RejectUser
<1> QED
  BY <1>1, <1>2, <1>3
     DEF AdminNext, AdminUseCase, BeginCreateUser, BeginUpdateUser, BeginToggleUser,
         BeginBootstrap, OpenAccount

-----------------------------------------------------------------------------
(* The secret a login read, or a session was opened with, is that of the   *)
(* row as long as the version is: every change of password increments it.  *)
Proves(u, version, password) ==
  /\ version <= users[u].tokenVersion
  /\ version = users[u].tokenVersion => password = users[u].password

SecretInv ==
  /\ \A b \in Browser :
       logins[b] # NoLogin =>
         /\ Proves(logins[b].user, logins[b].seen.tokenVersion, logins[b].seen.password)
         /\ logins[b].stage = "open" => logins[b].typed = logins[b].seen.password
  /\ \A b \in Browser :
       sessions[b] # NoSession =>
         Proves(sessions[b].user, sessions[b].tokenVersion, sessions[b].proved)

LEMMA InitSecretInv == PortalInit => SecretInv /\ RevocationsTold
<1> SUFFICES ASSUME PortalInit PROVE SecretInv /\ RevocationsTold
  OBVIOUS
<1>1. SecretInv
  BY DEF PortalInit, LoginInit, SecretInv
<1>2. \A u \in Account : Registered(u) => usersTold[u] = Told(users[u]) /\ users[u] \in UserRow
  BY AccountAssumption DEF PortalInit, AccountInit, Registered
<1>3. RevocationsTold
  BY <1>2, ToldTyped DEF RevocationsTold
<1> QED
  BY <1>1, <1>3

(* Versions only grow, and the password stays while the version does.      *)
SecretsGrow ==
  \A v \in Account : Registered(v) =>
    /\ users'[v].tokenVersion \in Nat
    /\ \/ /\ users'[v].tokenVersion = users[v].tokenVersion
          /\ users'[v].password = users[v].password
       \/ users'[v].tokenVersion = users[v].tokenVersion + 1

LEMMA SecretsStep ==
  ASSUME Typed, Typed', [PortalNext]_portalVars, RevocationsTold
  PROVE  SecretsGrow /\ RevocationsTold'
<1>1. \A v \in Account : Registered(v) => users[v] \in UserRow /\ usersTold[v] \in ToldRow
  BY RowFields DEF Typed, PortalTypeOK
<1>2. \A v \in Account : Registered(v) =>
        /\ users[v].tokenVersion \in Nat
        /\ users[v].tokenVersion = usersTold[v].tokenVersion
  BY <1>1 DEF UserRow, RevocationsTold
<1>3. CASE SameAccounts /\ \A v \in Account : SameSecret(v) \/ NewSecret(v)
  BY <1>2, <1>3 DEF SecretsGrow, RevocationsTold, SameSecret, NewSecret, SameAccounts
<1>4. ASSUME NEW u \in Account, Inserted(u) PROVE SecretsGrow /\ RevocationsTold'
  <2>1. \A v \in Account : Registered(v) => SameRow(v)
    BY <1>4 DEF Inserted
  <2>2. users'[u].tokenVersion = usersTold'[u].tokenVersion
    BY <1>4, ToldTyped DEF Inserted
  <2>3. \A v \in Account \ {u} : Registered(v)' <=> Registered(v)
    BY <1>4 DEF Inserted, SameRow, Registered
  <2>4. SecretsGrow
    BY <1>2, <2>1 DEF SecretsGrow, SameRow
  <2>5. RevocationsTold'
    BY <1>2, <1>4, <2>2, <2>3 DEF RevocationsTold, Inserted, SameRow
  <2> QED
    BY <2>4, <2>5
<1>5. CASE UNCHANGED portalVars
  BY <1>3, <1>5 DEF portalVars, accountVars, SameAccounts, SameSecret, Registered
<1> QED
  BY <1>3, <1>4, <1>5, LoginColumns, PasswordColumns, AdminColumns DEF PortalNext

LEMMA ProvesStays ==
  ASSUME SecretsGrow, NEW u \in Account, Registered(u), users[u].tokenVersion \in Nat,
         NEW version \in Nat, NEW password, Proves(u, version, password)
  PROVE  /\ version <= users'[u].tokenVersion
         /\ version = users'[u].tokenVersion => password = users'[u].password
  BY DEF SecretsGrow, Proves

LEMMA NextSecretInv ==
  ASSUME Typed, Typed', SecretInv, RevocationsTold, [PortalNext]_portalVars
  PROVE  SecretInv' /\ RevocationsTold'
<1>1. SecretsGrow /\ RevocationsTold'
  BY SecretsStep
<1>2. \A v \in Account : Registered(v) => users[v] \in UserRow /\ users[v].tokenVersion \in Nat
  BY RowFields DEF Typed, PortalTypeOK, UserRow
<1> DEFINE Holds(u, version, password) ==
             /\ version <= users'[u].tokenVersion
             /\ version = users'[u].tokenVersion => password = users'[u].password
           LoginHolds(login) ==
             login # NoLogin =>
               /\ Holds(login.user, login.seen.tokenVersion, login.seen.password)
               /\ login.stage = "open" => login.typed = login.seen.password
           SessionHolds(session) ==
             session # NoSession => Holds(session.user, session.tokenVersion, session.proved)
<1>3. \A b \in Browser : LoginHolds(logins[b])
  <2> SUFFICES ASSUME NEW b \in Browser, logins[b] # NoLogin PROVE LoginHolds(logins[b])
    OBVIOUS
  <2>1. /\ logins[b].user \in Account /\ logins[b].seen \in UserRow
        /\ Registered(logins[b].user)
    BY LoginFields DEF Typed, PortalTypeOK, Known
  <2>2. logins[b].seen.tokenVersion \in Nat
    BY <2>1 DEF UserRow
  <2> QED
    BY <1>1, <1>2, <2>1, <2>2, ProvesStays DEF SecretInv
<1>4. \A b \in Browser : SessionHolds(sessions[b])
  <2> SUFFICES ASSUME NEW b \in Browser, sessions[b] # NoSession PROVE SessionHolds(sessions[b])
    OBVIOUS
  <2>1. /\ sessions[b].user \in Account /\ sessions[b].tokenVersion \in Nat
        /\ Registered(sessions[b].user)
    BY SessionFields DEF Typed, PortalTypeOK, Known
  <2> QED
    BY <1>1, <1>2, <2>1, ProvesStays DEF SecretInv
<1>5. SUFFICES \A b \in Browser : LoginHolds(logins'[b]) /\ SessionHolds(sessions'[b])
  BY <1>1 DEF SecretInv, Proves
<1>6. CASE UNCHANGED <<logins, sessions>>
  BY <1>3, <1>4, <1>6
<1>7. CASE LoginNext
  <2>0. /\ logins \in [Browser -> Login] /\ sessions \in [Browser -> Session]
        /\ NoLogin.stage = "idle"
    BY DEF Typed, PortalTypeOK, NoLogin
  <2>1. ASSUME NEW b \in Browser, NEW u \in Account, BeginLogin(b, u)
        PROVE  (\A a \in Browser : LoginHolds(logins'[a])) /\ UNCHANGED sessions
    <3>1. PICK typed \in Password :
            logins' = [logins EXCEPT ![b] = [stage |-> "compare", user |-> u,
                                             seen |-> users[u], typed |-> typed]]
      BY <2>1 DEF BeginLogin
    <3> DEFINE new == [stage |-> "compare", user |-> u, seen |-> users[u], typed |-> typed]
    <3>2. Registered(u) /\ users' = users /\ sessions' = sessions
      BY <2>1 DEF BeginLogin, accountVars
    <3>3. Holds(u, users[u].tokenVersion, users[u].password)
      BY <1>2, <3>2
    <3>4. LoginHolds(new)
      BY <3>3
    <3> HIDE DEF new
    <3>5. \A a \in Browser : logins'[a] = new \/ logins'[a] = logins[a]
      BY <2>0, <3>1 DEF new
    <3> QED
      BY <1>3, <3>2, <3>4, <3>5
  <2>2. ASSUME NEW b \in Browser, RecordFailure(b)
        PROVE  (\A a \in Browser : LoginHolds(logins'[a])) /\ UNCHANGED sessions
    <3> DEFINE audit == [logins[b] EXCEPT !.stage = "audit"]
    <3>1. logins[b].stage = "compare"
      BY <2>2 DEF RecordFailure, AtStage
    <3>2. /\ audit.user = logins[b].user /\ audit.seen = logins[b].seen
          /\ audit.stage = "audit" /\ logins[b] # NoLogin
      BY <2>0, <3>1, LoginFields
    <3>3. LoginHolds(audit)
      BY <1>3, <3>2
    <3>4. (logins' = [logins EXCEPT ![b] = audit] \/ logins' = [logins EXCEPT ![b] = NoLogin])
          /\ UNCHANGED sessions
      BY <2>2 DEF RecordFailure, GoTo
    <3> HIDE DEF audit
    <3>5. \A a \in Browser : logins'[a] \in {audit, NoLogin, logins[a]}
      BY <2>0, <3>4
    <3> QED
      BY <1>3, <3>3, <3>4, <3>5
  <2>3. ASSUME NEW b \in Browser, RecordSuccess(b)
        PROVE  (\A a \in Browser : LoginHolds(logins'[a])) /\ UNCHANGED sessions
    <3> DEFINE open == [logins[b] EXCEPT !.stage = "open"]
    <3>1. logins[b].stage = "compare" /\ logins[b].typed = logins[b].seen.password
      BY <2>3 DEF RecordSuccess, AtStage
    <3>2. /\ open.user = logins[b].user /\ open.seen = logins[b].seen
          /\ open.typed = logins[b].typed /\ logins[b] # NoLogin
      BY <2>0, <3>1, LoginFields
    <3>3. LoginHolds(open)
      BY <1>3, <3>1, <3>2
    <3>4. logins' = [logins EXCEPT ![b] = open] /\ UNCHANGED sessions
      BY <2>3 DEF RecordSuccess, GoTo
    <3> HIDE DEF open
    <3>5. \A a \in Browser : logins'[a] \in {open, logins[a]}
      BY <2>0, <3>4
    <3> QED
      BY <1>3, <3>3, <3>4, <3>5
  <2>4. ASSUME NEW b \in Browser, OpenSession(b)
        PROVE  \A a \in Browser : LoginHolds(logins'[a]) /\ SessionHolds(sessions'[a])
    <3>1. logins[b].stage = "open" /\ logins[b] # NoLogin
      BY <2>0, <2>4 DEF OpenSession, AtStage
    <3>2. logins[b].typed = logins[b].seen.password
      BY <3>1 DEF SecretInv
    <3>3. SessionHolds(IssueToken(b))
      <4>1. /\ IssueToken(b).user = logins[b].user
            /\ IssueToken(b).tokenVersion = logins[b].seen.tokenVersion
            /\ IssueToken(b).proved = logins[b].typed
        BY DEF IssueToken
      <4> QED
        BY <1>3, <3>1, <3>2, <4>1
    <3>4. /\ logins' = [logins EXCEPT ![b] = NoLogin]
          /\ sessions' = [sessions EXCEPT ![b] = IssueToken(b)]
      BY <2>4 DEF OpenSession, GoTo
    <3>5. \A a \in Browser : /\ logins'[a] \in {NoLogin, logins[a]}
                             /\ sessions'[a] \in {IssueToken(b), sessions[a]}
      BY <2>0, <3>4
    <3> QED
      BY <1>3, <1>4, <3>3, <3>5
  <2>5. ASSUME NEW b \in Browser, AuditLockout(b) \/ LoginDies(b) \/ CloseSession(b)
        PROVE  \A a \in Browser : LoginHolds(logins'[a]) /\ SessionHolds(sessions'[a])
    <3>1. \A a \in Browser : /\ logins'[a] \in {NoLogin, logins[a]}
                             /\ sessions'[a] \in {NoSession, sessions[a]}
      BY <2>0, <2>5 DEF AuditLockout, LoginDies, CloseSession, GoTo
    <3> QED
      BY <1>3, <1>4, <3>1
  <2>6. Tick => UNCHANGED <<logins, sessions>>
    BY DEF Tick
  <2> HIDE DEF LoginHolds, SessionHolds
  <2> QED
    BY <1>3, <1>4, <1>7, <2>1, <2>2, <2>3, <2>4, <2>5, <2>6 DEF LoginNext
<1> HIDE DEF LoginHolds, SessionHolds
<1> QED
  BY <1>6, <1>7, PasswordColumns, AdminColumns DEF PortalNext, portalVars, loginVars

-----------------------------------------------------------------------------
(* What the requests of an account share: two that are open at once have   *)
(* left it in "contended".  A mail about to leave holds the password of    *)
(* the account, and an update the profile it read, unless it is there.     *)
Contends ==
  \A p, q \in AccountSession :
    p # q => AccountOf(accountRequests[p]) \cap AccountOf(accountRequests[q]) \subseteq contended

MailHolds ==
  \A q \in AccountSession :
    accountRequests[q].op = "mail" =>
      \/ accountRequests[q].user \in contended
      \/ users[accountRequests[q].user].password = accountRequests[q].new

UpdateHolds ==
  \A q \in AccountSession :
    accountRequests[q].op = "updateUser" =>
      \/ accountRequests[q].user \in contended
      \/ /\ users[accountRequests[q].user].profil = accountRequests[q].seen.profil
         /\ users[accountRequests[q].user].role = accountRequests[q].seen.role

QuietInv ==
  /\ Contends /\ MailHolds /\ UpdateHolds
  /\ QuietPasswordKnown /\ LogTellsAccount

LEMMA InitQuietInv == PortalInit => QuietInv /\ UsersUnique
<1> SUFFICES ASSUME PortalInit PROVE QuietInv /\ UsersUnique
  OBVIOUS
<1>1. \A q \in AccountSession :
         accountRequests[q].op = "idle" /\ AccountOf(accountRequests[q]) = {}
  BY DEF PortalInit, AccountInit, AccountIdle, AccountOf
<1>2. Contends /\ MailHolds /\ UpdateHolds
  BY <1>1 DEF Contends, MailHolds, UpdateHolds
<1>3. \A u \in Account : Registered(u) =>
        /\ users[u] \in UserRow /\ usersTold[u] = Told(users[u])
        /\ handed[u] = users[u].password
  BY AccountAssumption DEF PortalInit, AccountInit, LoginInit, Registered
<1>4. QuietPasswordKnown
  BY <1>3 DEF QuietPasswordKnown
<1>5. LogTellsAccount
  BY <1>3, ToldTyped DEF LogTellsAccount
<1>6. UsersUnique
  BY AccountAssumption DEF PortalInit, AccountInit, Registered, UsersUnique
<1> QED
  BY <1>2, <1>4, <1>5, <1>6 DEF QuietInv

(* How the requests move: they stay, one opens, one closes, or one that    *)
(* has reset a password goes on to its mail.                               *)
RequestsStay == UNCHANGED accountRequests /\ contended \subseteq contended'

Closes(q) ==
  /\ accountRequests'[q].op = "idle" /\ AccountOf(accountRequests'[q]) = {}
  /\ \A p \in AccountSession \ {q} : accountRequests'[p] = accountRequests[p]
  /\ UNCHANGED contended

LEMMA CloseCloses ==
  ASSUME Typed, NEW q \in AccountSession, CloseAccount(q)
  PROVE  Closes(q)
<1>1. RequestsOK
  BY TypedParts
<1>2. AccountIdle.op = "idle"
  BY DEF AccountIdle
<1>3. UNCHANGED contended
  BY DEF CloseAccount
<1> QED
  BY <1>1, <1>2, <1>3, CloseRequestsOK DEF Closes

(* A request that opens finds its session idle and its rows as they are.   *)
LEMMA OpenKeepsQuiet ==
  ASSUME Typed, QuietInv, NEW q \in AccountSession, NEW request \in AccountRequest,
         OpenAccount(q, request), UNCHANGED handed,
         request.op \in {"createUser", "bootstrap", "updateUser", "toggleUser",
                         "changePassword", "forgot"},
         request.op = "updateUser" =>
           /\ users[request.user].profil = request.seen.profil
           /\ users[request.user].role = request.seen.role
  PROVE  QuietInv'
<1>1. /\ accountRequests' = [accountRequests EXCEPT ![q] = request]
      /\ accountRequests[q] = AccountIdle
      /\ UNCHANGED <<users, usersTold>>
      /\ contended' = contended \cup
           {u \in AccountOf(request) :
              \E p \in AccountSession : u \in AccountOf(accountRequests[p])}
  BY DEF OpenAccount
<1>2. /\ accountRequests'[q] = request
      /\ \A p \in AccountSession \ {q} : accountRequests'[p] = accountRequests[p]
  BY <1>1 DEF Typed, PortalTypeOK, AccountTypeOK
<1>3. accountRequests[q].op = "idle"
  BY <1>1 DEF AccountIdle
<1>4. Contends'
  BY <1>1, <1>2 DEF QuietInv, Contends
<1>5. MailHolds'
  BY <1>1, <1>2 DEF QuietInv, MailHolds
<1>6. UpdateHolds'
  BY <1>1, <1>2 DEF QuietInv, UpdateHolds
<1>7. QuietPasswordKnown'
  BY <1>1, <1>2, <1>3 DEF QuietInv, QuietPasswordKnown, Registered
<1>8. LogTellsAccount'
  BY <1>1 DEF QuietInv, LogTellsAccount, Registered
<1> QED
  BY <1>4, <1>5, <1>6, <1>7, <1>8 DEF QuietInv

(* The rows a request names are of accounts that exist.                    *)
LEMMA RequestsKnown ==
  ASSUME Typed, NEW q \in AccountSession,
         accountRequests[q].op \in {"updateUser", "toggleUser", "changePassword", "forgot", "mail"}
  PROVE  /\ accountRequests[q].user \in Account /\ Registered(accountRequests[q].user)
         /\ AccountOf(accountRequests[q]) = {accountRequests[q].user}
<1>1. accountRequests[q] \in AccountRequest
  BY DEF Typed, PortalTypeOK, AccountTypeOK
<1>2. accountRequests[q].user \in Account /\ AccountOf(accountRequests[q]) = {accountRequests[q].user}
  BY <1>1, RequestFields
<1> QED
  BY <1>2 DEF Typed, Known

LEMMA LoginKeepsQuiet ==
  ASSUME Typed, QuietInv, LoginNext
  PROVE  QuietInv'
<1>1. /\ SameAccounts
      /\ UNCHANGED <<accountRequests, contended, handed>>
      /\ \A v \in Account : SameSecret(v) /\ SameProfile(v) /\ SameFlag(v)
  BY LoginColumns
<1>2. \A q \in AccountSession :
        accountRequests[q].op \in {"mail", "updateUser"} => accountRequests[q].user \in Account
  BY RequestsKnown
<1>3. Contends'
  BY <1>1 DEF QuietInv, Contends
<1>4. MailHolds' /\ UpdateHolds'
  BY <1>1, <1>2 DEF QuietInv, MailHolds, UpdateHolds, SameSecret, SameProfile
<1>5. QuietPasswordKnown'
  BY <1>1 DEF QuietInv, QuietPasswordKnown, SameAccounts, SameSecret
<1>6. LogTellsAccount'
  BY <1>1 DEF QuietInv, LogTellsAccount, SameAccounts, SameProfile, SameFlag
<1> QED
  BY <1>3, <1>4, <1>5, <1>6 DEF QuietInv

LEMMA PasswordKeepsQuiet ==
  ASSUME Typed, QuietInv, PasswordNext
  PROVE  QuietInv'
<1>1. /\ SameAccounts
      /\ \A v \in Account : SameProfile(v) /\ SameFlag(v)
  BY PasswordColumns
<1>2. ASSUME contended \subseteq contended' PROVE LogTellsAccount'
  BY <1>1, <1>2 DEF QuietInv, LogTellsAccount, SameAccounts, SameProfile, SameFlag
<1>3. ASSUME NEW q \in AccountSession, NEW b \in Browser, BeginChangePassword(q, b)
      PROVE  QuietInv'
  <2> DEFINE u == sessions[b].user
             request(new) == [op |-> "changePassword", user |-> u,
                              proved |-> users[u].password, new |-> new]
  <2>1. sessions[b] # NoSession /\ Registered(u)
    BY <1>3 DEF BeginChangePassword, LiveSession
  <2>2. u \in Account /\ users[u] \in UserRow
    BY <2>1, SessionFields, RowFields DEF Typed, PortalTypeOK
  <2>3. PICK new \in Password : OpenAccount(q, request(new))
    BY <1>3 DEF BeginChangePassword
  <2>4. request(new) \in AccountRequest /\ request(new).op = "changePassword"
    BY <2>2 DEF AccountRequest, UserRow
  <2>5. UNCHANGED handed
    BY <1>3 DEF BeginChangePassword, loginVars
  <2> HIDE DEF request, u
  <2> QED
    BY <2>3, <2>4, <2>5, OpenKeepsQuiet
<1>4. ASSUME NEW q \in AccountSession, NEW u \in Account, BeginForgot(q, u) PROVE QuietInv'
  <2> DEFINE request(new) == [op |-> "forgot", user |-> u, new |-> new]
  <2>1. PICK new \in Password : OpenAccount(q, request(new))
    BY <1>4 DEF BeginForgot
  <2>2. request(new) \in AccountRequest /\ request(new).op = "forgot"
    BY DEF AccountRequest
  <2>3. UNCHANGED handed
    BY <1>4 DEF BeginForgot, loginVars
  <2> HIDE DEF request
  <2> QED
    BY <2>1, <2>2, <2>3, OpenKeepsQuiet
<1>5. ASSUME NEW q \in AccountSession, CommitChangePassword(q) PROVE QuietInv'
  <2> DEFINE u == accountRequests[q].user
             new == accountRequests[q].new
  <2>1. accountRequests[q].op = "changePassword" /\ accountRequests[q] \in AccountRequest
    BY <1>5 DEF CommitChangePassword, Typed, PortalTypeOK, AccountTypeOK
  <2>2. /\ u \in Account /\ Registered(u) /\ AccountOf(accountRequests[q]) = {u}
        /\ new \in Password
    BY <2>1, RequestsKnown, RequestFields
  <2>3. SetPassword(u, new, FALSE) /\ CloseAccount(q) /\ handed' = [handed EXCEPT ![u] = new]
    BY <1>5 DEF CommitChangePassword
  <2>4. Closes(q)
    BY <2>3, CloseCloses
  <2>5. /\ users'[u].password = new
        /\ \A v \in Account \ {u} : SameRow(v)
    BY <2>2, <2>3, SetPasswordColumns
  <2>6. handed'[u] = new /\ \A v \in Account \ {u} : handed'[v] = handed[v]
    BY <2>2, <2>3 DEF Typed, PortalTypeOK
  <2>7. \A p \in AccountSession \ {q} :
           accountRequests[p].op \in {"mail", "updateUser"} =>
             /\ accountRequests[p].user \in Account
             /\ accountRequests[p].user = u => u \in contended
    BY <2>2, RequestsKnown DEF QuietInv, Contends
  <2> HIDE DEF u, new
  <2>8. Contends'
    BY <2>4 DEF QuietInv, Contends, Closes
  <2>9. MailHolds'
    BY <2>4, <2>5, <2>7 DEF QuietInv, MailHolds, Closes, SameRow
  <2>10. UpdateHolds'
    BY <1>1, <2>4, <2>7 DEF QuietInv, UpdateHolds, Closes, SameProfile
  <2>11. QuietPasswordKnown'
    BY <1>1, <2>1, <2>4, <2>5, <2>6
       DEF QuietInv, QuietPasswordKnown, Closes, SameRow, SameAccounts
  <2> QED
    BY <1>2, <2>4, <2>8, <2>9, <2>10, <2>11 DEF QuietInv, Closes
<1>6. ASSUME NEW q \in AccountSession, CommitForgot(q) PROVE QuietInv'
  <2> DEFINE u == accountRequests[q].user
             new == accountRequests[q].new
             mail == [accountRequests[q] EXCEPT !.op = "mail"]
  <2>1. accountRequests[q].op = "forgot" /\ accountRequests[q] \in AccountRequest
    BY <1>6 DEF CommitForgot, Typed, PortalTypeOK, AccountTypeOK
  <2>2. /\ u \in Account /\ Registered(u) /\ AccountOf(accountRequests[q]) = {u}
        /\ new \in Password
    BY <2>1, RequestsKnown, RequestFields
  <2>3. SetPassword(u, new, TRUE) /\ accountRequests' = [accountRequests EXCEPT ![q] = mail]
        /\ UNCHANGED <<contended, handed>>
    BY <1>6 DEF CommitForgot, loginVars
  <2>4. accountRequests[q] \in [op : {"forgot", "mail"}, user : Account, new : Password]
    BY <2>1 DEF AccountRequest, AccountIdle
  <2>5. mail.op = "mail" /\ mail.user = u /\ mail.new = new /\ AccountOf(mail) = {u}
    BY <2>4 DEF AccountOf
  <2>6. /\ users'[u].password = new
        /\ \A v \in Account \ {u} : SameRow(v)
    BY <2>2, <2>3, SetPasswordColumns
  <2>7. \A p \in AccountSession \ {q} :
           accountRequests[p].op \in {"mail", "updateUser"} =>
             /\ accountRequests[p].user \in Account
             /\ accountRequests[p].user = u => u \in contended
    BY <2>2, RequestsKnown DEF QuietInv, Contends
  <2> HIDE DEF mail
  <2>8. /\ accountRequests'[q] = mail
        /\ \A p \in AccountSession \ {q} : accountRequests'[p] = accountRequests[p]
    BY <2>3 DEF Typed, PortalTypeOK, AccountTypeOK
  <2> HIDE DEF u, new
  <2>9. Contends'
    BY <2>2, <2>3, <2>5, <2>8 DEF QuietInv, Contends
  <2>10. MailHolds'
    BY <2>3, <2>5, <2>6, <2>7, <2>8 DEF QuietInv, MailHolds, SameRow
  <2>11. UpdateHolds'
    BY <1>1, <2>3, <2>5, <2>7, <2>8 DEF QuietInv, UpdateHolds, SameProfile
  <2>12. QuietPasswordKnown'
    BY <1>1, <2>1, <2>3, <2>5, <2>6, <2>8
       DEF QuietInv, QuietPasswordKnown, SameRow, SameAccounts
  <2> QED
    BY <1>2, <2>3, <2>9, <2>10, <2>11, <2>12 DEF QuietInv
<1>7. ASSUME NEW q \in AccountSession, SendPassword(q) \/ MailFails(q) PROVE QuietInv'
  <2> DEFINE u == accountRequests[q].user
  <2>1. accountRequests[q].op = "mail" /\ CloseAccount(q) /\ UNCHANGED <<users, usersTold>>
    BY <1>7 DEF SendPassword, MailFails
  <2>2. u \in Account
    BY <2>1, RequestsKnown
  <2>3. Closes(q)
    BY <2>1, CloseCloses
  <2>4. /\ handed'[u] = accountRequests[q].new \/ handed'[u] = Never
        /\ \A v \in Account \ {u} : handed'[v] = handed[v]
    BY <1>7, <2>2 DEF SendPassword, MailFails, MailedPassword, Typed, PortalTypeOK
  <2>5. u \in contended \/ users[u].password = accountRequests[q].new
    BY <2>1 DEF QuietInv, MailHolds
  <2>6. Contends' /\ MailHolds' /\ UpdateHolds'
    BY <2>1, <2>3 DEF QuietInv, Contends, MailHolds, UpdateHolds, Closes
  <2>7. QuietPasswordKnown'
    <3> SUFFICES ASSUME NEW v \in Account, users[v] # NoAccount, v \notin contended
                 PROVE  \/ handed'[v] \in {users[v].password, Never}
                        \/ \E p \in AccountSession : /\ accountRequests'[p].op = "mail"
                                                     /\ accountRequests'[p].user = v
      BY <2>1, <2>3 DEF QuietPasswordKnown, Registered, Closes
    <3>1. CASE v = u
      BY <2>4, <2>5, <3>1
    <3>2. CASE v # u
      BY <2>3, <2>4, <3>2 DEF QuietInv, QuietPasswordKnown, Registered, Closes
    <3> QED
      BY <3>1, <3>2
  <2> QED
    BY <1>2, <2>3, <2>6, <2>7 DEF QuietInv, Closes
<1>8. ASSUME NEW u \in Account, ResetPassword(u) PROVE QuietInv'
  <2>1. PICK new \in Password : SetPassword(u, new, TRUE) /\ handed' = [handed EXCEPT ![u] = new]
    BY <1>8 DEF ResetPassword
  <2>2. /\ Registered(u) /\ UNCHANGED accountRequests
        /\ contended \subseteq contended'
        /\ \A q \in AccountSession : u \in AccountOf(accountRequests[q]) => u \in contended'
    BY <1>8 DEF ResetPassword
  <2>3. /\ users'[u].password = new
        /\ \A v \in Account \ {u} : SameRow(v)
    BY <2>1, <2>2, SetPasswordColumns
  <2>4. handed'[u] = new /\ \A v \in Account \ {u} : handed'[v] = handed[v]
    BY <2>1 DEF Typed, PortalTypeOK
  <2>5. \A p \in AccountSession :
           accountRequests[p].op \in {"mail", "updateUser"} =>
             /\ accountRequests[p].user \in Account
             /\ accountRequests[p].user = u => u \in contended'
    BY <2>2, RequestsKnown
  <2>6. Contends'
    BY <2>2 DEF QuietInv, Contends
  <2>7. MailHolds'
    BY <2>2, <2>3, <2>5 DEF QuietInv, MailHolds, SameRow
  <2>8. UpdateHolds'
    BY <1>1, <2>2, <2>5 DEF QuietInv, UpdateHolds, SameProfile
  <2>9. QuietPasswordKnown'
    BY <1>1, <2>2, <2>3, <2>4 DEF QuietInv, QuietPasswordKnown, SameRow, SameAccounts
  <2> QED
    BY <1>2, <2>2, <2>6, <2>7, <2>8, <2>9 DEF QuietInv
<1> QED
  BY <1>3, <1>4, <1>5, <1>6, <1>7, <1>8 DEF PasswordNext

LEMMA AdminOpensQuiet ==
  ASSUME Typed, QuietInv, NEW q \in AccountSession, UNCHANGED loginVars,
         \/ BeginCreateUser(q) \/ BeginBootstrap(q)
         \/ \E u \in Account : BeginUpdateUser(q, u) \/ \E a : BeginToggleUser(q, a, u)
  PROVE  QuietInv'
<1>1. UNCHANGED handed
  BY DEF loginVars
<1>2. ASSUME NEW u \in Account, BeginUpdateUser(q, u) PROVE QuietInv'
  <2> DEFINE patched(p, o) == [users[u] EXCEPT !.profil = p, !.role = o]
             request(p, o) == [op |-> "updateUser", user |-> u, seen |-> users[u],
                               patched |-> patched(p, o)]
  <2>1. PICK p \in Profil, o \in UserRole :
          ValidProfil(p) /\ OpenAccount(q, request(p, o))
    BY <1>2 DEF BeginUpdateUser
  <2>2. users[u] \in UserRow
    BY <1>2, RowFields DEF BeginUpdateUser, Typed, PortalTypeOK
  <2>3. patched(p, o) \in UserRow
    BY <2>1, <2>2 DEF ValidProfil, UserRow
  <2> HIDE DEF patched
  <2>4. /\ request(p, o) \in AccountRequest /\ request(p, o).op = "updateUser"
        /\ request(p, o).user = u /\ request(p, o).seen = users[u]
    BY <2>2, <2>3 DEF AccountRequest
  <2> HIDE DEF request
  <2> QED
    BY <1>1, <2>1, <2>4, OpenKeepsQuiet
<1>3. ASSUME NEW u \in Account, NEW a, BeginToggleUser(q, a, u) PROVE QuietInv'
  <2> DEFINE request == [op |-> "toggleUser", user |-> u, actif |-> ~users[u].actif]
  <2>1. Registered(u) /\ OpenAccount(q, request)
    BY <1>3 DEF BeginToggleUser
  <2>2. users[u].actif \in BOOLEAN
    BY <2>1, RowFields DEF Typed, PortalTypeOK, UserRow
  <2>3. request \in AccountRequest /\ request.op = "toggleUser"
    BY <2>2 DEF AccountRequest
  <2> HIDE DEF request
  <2> QED
    BY <1>1, <2>1, <2>3, OpenKeepsQuiet
<1>4. CASE BeginCreateUser(q) \/ BeginBootstrap(q)
  <2>1. PICK op \in {"createUser", "bootstrap"}, row \in UserRow :
          OpenAccount(q, [op |-> op, row |-> row])
    <3>1. CASE BeginCreateUser(q)
      BY <3>1, NewUserTyped DEF BeginCreateUser
    <3>2. CASE BeginBootstrap(q)
      BY <3>2, NewUserTyped, AccountAssumption DEF BeginBootstrap
    <3> QED
      BY <1>4, <3>1, <3>2
  <2> DEFINE request == [op |-> op, row |-> row]
  <2>2. request \in AccountRequest /\ request.op = op
    BY DEF AccountRequest
  <2>3. OpenAccount(q, request)
    BY <2>1
  <2> HIDE DEF request
  <2> QED
    BY <1>1, <2>2, <2>3, OpenKeepsQuiet
<1> QED
  BY <1>2, <1>3, <1>4

LEMMA AdminCommitsQuiet ==
  ASSUME Typed, QuietInv, NEW q \in AccountSession, AccountCommit(q), HandNewPassword
  PROVE  QuietInv'
<1>1. accountRequests[q].op \in {"createUser", "bootstrap", "updateUser", "toggleUser"}
      /\ CloseAccount(q)
  BY DEF AccountCommit, CommitUser, RejectUser, CommitUpdateUser, CommitToggleUser
<1>2. Closes(q)
  BY <1>1, CloseCloses
<1>3. Contends'
  BY <1>2 DEF QuietInv, Contends, Closes
<1>4. \A p \in AccountSession :
        accountRequests[p].op \in {"mail", "updateUser"} =>
          accountRequests[p].user \in Account /\ Registered(accountRequests[p].user)
  BY RequestsKnown
<1>5. ASSUME NEW u \in Account, CommitUser(q, u)
      PROVE  MailHolds' /\ UpdateHolds' /\ QuietPasswordKnown' /\ LogTellsAccount'
  <2>1. /\ ~Registered(u) /\ users'[u] \in UserRow /\ usersTold'[u] = Told(users'[u])
        /\ \A v \in Account \ {u} : SameRow(v)
        /\ \A v \in Account : Registered(v)' <=> Registered(v) \/ v = u
    BY <1>5, CommitUserInserts DEF SameRow
  <2>2. MailHolds'
    BY <1>2, <1>4, <2>1 DEF QuietInv, MailHolds, Closes, SameRow
  <2>3. UpdateHolds'
    BY <1>2, <1>4, <2>1 DEF QuietInv, UpdateHolds, Closes, SameRow
  <2>4. handed'[u] = users'[u].password
        /\ \A v \in Account \ {u} : handed'[v] = handed[v]
    BY <2>1 DEF HandNewPassword
  <2>5. QuietPasswordKnown'
    BY <1>1, <1>2, <2>1, <2>4 DEF QuietInv, QuietPasswordKnown, Closes, SameRow
  <2>6. LogTellsAccount'
    BY <1>2, <2>1, ToldTyped DEF QuietInv, LogTellsAccount, Closes, SameRow
  <2> QED
    BY <2>2, <2>3, <2>5, <2>6
<1>6. ASSUME SameAccounts, \A v \in Account : SameSecret(v)
      PROVE  MailHolds' /\ QuietPasswordKnown'
  <2>1. MailHolds'
    BY <1>2, <1>4, <1>6 DEF QuietInv, MailHolds, Closes, SameSecret
  <2>2. \A v \in Account : handed'[v] = handed[v]
    BY <1>6 DEF HandNewPassword, SameAccounts
  <2>3. QuietPasswordKnown'
    BY <1>1, <1>2, <1>6, <2>2 DEF QuietInv, QuietPasswordKnown, Closes, SameSecret, SameAccounts
  <2> QED
    BY <2>1, <2>3
<1>7. ASSUME SameAccounts, \A v \in Account : SameSecret(v) /\ SameProfile(v),
             \A v \in Account : SameFlag(v) \/ users'[v].actif = usersTold'[v].actif
      PROVE  MailHolds' /\ UpdateHolds' /\ QuietPasswordKnown' /\ LogTellsAccount'
  <2>1. UpdateHolds'
    BY <1>2, <1>4, <1>7 DEF QuietInv, UpdateHolds, Closes, SameProfile
  <2>2. LogTellsAccount'
    BY <1>2, <1>7 DEF QuietInv, LogTellsAccount, Closes, SameProfile, SameFlag, SameAccounts
  <2> QED
    BY <1>6, <1>7, <2>1, <2>2
<1>8. ASSUME RejectUser(q)
      PROVE  MailHolds' /\ UpdateHolds' /\ QuietPasswordKnown' /\ LogTellsAccount'
  <2>1. UNCHANGED <<users, usersTold>>
    BY <1>8 DEF RejectUser
  <2> QED
    BY <1>7, <2>1 DEF SameAccounts, Registered, SameSecret, SameProfile, SameFlag
<1>9. ASSUME CommitToggleUser(q)
      PROVE  MailHolds' /\ UpdateHolds' /\ QuietPasswordKnown' /\ LogTellsAccount'
  <2> DEFINE u == accountRequests[q].user
  <2>1. PICK r \in UserRow, t \in ToldRow :
          /\ u \in Account /\ Rewrites(u, r, t)
          /\ KeepsSecret(u, r, t) /\ KeepsCounter(u, r) /\ KeepsProfile(u, r, t)
          /\ r.actif = t.actif
    BY <1>9, CommitToggleRewrites
  <2> HIDE DEF u
  <2> QED
    BY <1>7, <2>1, RewritesColumns, SameRowKeeps
<1>10. ASSUME CommitUpdateUser(q)
      PROVE  MailHolds' /\ UpdateHolds' /\ QuietPasswordKnown' /\ LogTellsAccount'
  <2> DEFINE request == accountRequests[q]
             u == request.user
             seen == request.seen
             patched == request.patched
  <2>1. PICK r \in UserRow, t \in ToldRow :
          /\ u \in Account /\ Rewrites(u, r, t)
          /\ KeepsSecret(u, r, t) /\ KeepsCounter(u, r) /\ KeepsFlag(u, r, t)
          /\ r.profil = patched.profil /\ r.role = patched.role
          /\ patched.profil = seen.profil \/ t.profil = patched.profil
          /\ patched.profil = seen.profil => t.profil = usersTold[u].profil
          /\ patched.role = seen.role \/ t.role = patched.role
          /\ patched.role = seen.role => t.role = usersTold[u].role
    BY <1>10, CommitUpdateRewrites
  <2>2. request.op = "updateUser"
    BY <1>10 DEF CommitUpdateUser
  <2>3. u \in contended \/ (users[u].profil = seen.profil /\ users[u].role = seen.role)
    BY <2>2 DEF QuietInv, UpdateHolds
  <2>4. Registered(u) /\ AccountOf(request) = {u}
    BY <2>2, RequestsKnown
  <2>5. \A p \in AccountSession \ {q} :
           accountRequests[p].op \in {"mail", "updateUser"} =>
             /\ accountRequests[p].user \in Account
             /\ accountRequests[p].user = u => u \in contended
    BY <2>4, RequestsKnown DEF QuietInv, Contends
  <2>6. /\ SameAccounts /\ \A v \in Account : SameSecret(v) /\ SameFlag(v)
        /\ users'[u] = r /\ usersTold'[u] = t
        /\ \A v \in Account \ {u} : SameRow(v)
    <3> HIDE DEF u
    <3> QED
      BY <2>1, RewritesColumns, SameRowKeeps
  <2>7. u \in contended \/ (r.profil = t.profil /\ r.role = t.role)
    BY <2>1, <2>3, <2>4 DEF QuietInv, LogTellsAccount
  <2> HIDE DEF u, seen, patched, request
  <2>8. UpdateHolds'
    BY <1>2, <2>5, <2>6 DEF QuietInv, UpdateHolds, Closes, SameRow
  <2>9. LogTellsAccount'
    BY <1>2, <2>6, <2>7 DEF QuietInv, LogTellsAccount, Closes, SameRow, SameFlag, SameAccounts
  <2> QED
    BY <1>6, <2>6, <2>8, <2>9
<1>11. MailHolds' /\ UpdateHolds' /\ QuietPasswordKnown' /\ LogTellsAccount'
  BY <1>5, <1>8, <1>9, <1>10 DEF AccountCommit
<1> QED
  BY <1>3, <1>11 DEF QuietInv

LEMMA NextQuietInv ==
  ASSUME Typed, QuietInv, [PortalNext]_portalVars
  PROVE  QuietInv'
<1>1. CASE AdminNext
  BY <1>1, AdminOpensQuiet, AdminCommitsQuiet DEF AdminNext, AdminUseCase
<1>2. CASE UNCHANGED portalVars
  BY <1>2 DEF portalVars, accountVars, loginVars, QuietInv, Contends, MailHolds, UpdateHolds,
              QuietPasswordKnown, LogTellsAccount, Registered
<1> QED
  BY <1>1, <1>2, LoginKeepsQuiet, PasswordKeepsQuiet DEF PortalNext

LEMMA NextUnique ==
  ASSUME Typed, UsersUnique, [PortalNext]_portalVars
  PROVE  UsersUnique'
<1>1. CASE SameAccounts /\ \A v \in Account : SameIdentity(v)
  BY <1>1 DEF UsersUnique, SameAccounts, SameIdentity
<1>2. ASSUME NEW u \in Account, Inserted(u) PROVE UsersUnique'
  <2>1. \A v \in Account \ {u} : users'[v] = users[v]
    BY <1>2 DEF Inserted, SameRow
  <2>2. \A v \in Account : users[v] # NoAccount =>
          users[v].matricule # users'[u].matricule /\ users[v].email # users'[u].email
    BY <1>2 DEF Inserted, UserIndexRefuses, MatriculeTaken, EmailTaken, Registered
  <2> QED
    BY <2>1, <2>2 DEF UsersUnique, Registered
<1>3. CASE UNCHANGED portalVars
  BY <1>3 DEF portalVars, accountVars, UsersUnique, Registered
<1> QED
  BY <1>1, <1>2, <1>3, LoginColumns, PasswordColumns, AdminColumns DEF PortalNext

-----------------------------------------------------------------------------
PortalInv == Typed /\ SecretInv /\ RevocationsTold /\ QuietInv /\ UsersUnique

LEMMA InitPortalInv == PortalInit => PortalInv
  BY InitTyped, InitSecretInv, InitQuietInv DEF PortalInv

LEMMA NextPortalInv == PortalInv /\ [PortalNext]_portalVars => PortalInv'
<1> SUFFICES ASSUME PortalInv, [PortalNext]_portalVars PROVE PortalInv'
  OBVIOUS
<1>1. Typed'
  BY NextTyped DEF PortalInv
<1>2. SecretInv' /\ RevocationsTold'
  BY <1>1, NextSecretInv DEF PortalInv
<1>3. QuietInv' /\ UsersUnique'
  BY NextQuietInv, NextUnique DEF PortalInv
<1> QED
  BY <1>1, <1>2, <1>3 DEF PortalInv

(* Whatever logins, changes of password, resets and administrators         *)
(* overlap, a session that the check lets through was opened with the      *)
(* password of today, every revocation has its audit row, and the owner of *)
(* an account nobody contends for knows its password.                      *)
THEOREM SessionsAreProved == PortalSpec => []SessionsProved
<1>1. PortalInv => SessionsProved
  <2> SUFFICES ASSUME PortalInv PROVE SessionsProved
    OBVIOUS
  <2>1. LiveSessionProved
    BY DEF PortalInv, SecretInv, Proves, LiveSessionProved, LiveSession
  <2> QED
    BY <2>1 DEF PortalInv, Typed, QuietInv, SessionsProved
<1> QED
  BY <1>1, InitPortalInv, NextPortalInv, PTL DEF PortalSpec

(* No two accounts share a matricule or an address, and the log is true of *)
(* who is active, whatever overlaps, and of names and roles where nothing  *)
(* does.                                                                   *)
THEOREM AccountsAreExact == PortalSpec => []AccountsExact
<1>1. PortalInv => AccountsExact
  BY DEF PortalInv, Typed, PortalTypeOK, QuietInv, AccountsExact
<1> QED
  BY <1>1, InitPortalInv, NextPortalInv, PTL DEF PortalSpec

-----------------------------------------------------------------------------
(* What the counters rest on.  A login that compares holds the counter of  *)
(* the account, which is not locked out, unless another overlapped it; one *)
(* that read a counter at the threshold follows the one that logged it; an *)
(* account starts at zero.                                                 *)
Locked(row, instant) ==
  row.failed >= Threshold /\ row.failedAt # Never /\ instant - row.failedAt < Window

Logged(u) == lockouts[u] > 0 \/ u \in silenced \/ AuditDue(u)

DueAfter(u) == \E b \in Browser : logins'[b].stage = "audit" /\ logins'[b].user = u

LoggedAfter(u) == lockouts'[u] > 0 \/ u \in silenced' \/ DueAfter(u)

RowsAfter(u) ==
  lockouts'[u] + (IF DueAfter(u) THEN 1 ELSE 0) + (IF u \in silenced' THEN 1 ELSE 0)

RowsExpected(u) == IF Registered(u) /\ users[u].failed >= Threshold THEN 1 ELSE 0

Crowds ==
  \A a, b \in Browser :
    a # b /\ logins[a] # NoLogin /\ logins[b] # NoLogin /\ logins[a].user = logins[b].user
    => logins[a].user \in crowded

CompareHolds ==
  \A b \in Browser :
    logins[b].stage = "compare" =>
      \/ logins[b].user \in crowded
      \/ /\ logins[b].seen.failed = users[logins[b].user].failed
         /\ ~Locked(users[logins[b].user], clock)

SeenLogged ==
  \A b \in Browser :
    logins[b].stage = "compare" /\ logins[b].seen.failed >= Threshold =>
      logins[b].user \in overtaken \/ Logged(logins[b].user)

RowsExact ==
  \A u \in Account :
    u \notin crowded \/ ~Registered(u) => LockoutRows(u) = RowsExpected(u)

NeverTyped == \A u \in Account : ~Registered(u) => wrong[u] = 0

NewRows ==
  \A q \in AccountSession :
    accountRequests[q].op \in {"createUser", "bootstrap"} => accountRequests[q].row.failed = 0

CounterInv ==
  /\ Crowds /\ CompareHolds /\ SeenLogged /\ NeverTyped
  /\ QuietCounterExact /\ LockoutLogged /\ RowsExact

LEMMA InitCounterInv == PortalInit => CounterInv /\ NewRows
<1> SUFFICES ASSUME PortalInit PROVE CounterInv /\ NewRows
  OBVIOUS
<1>1. Crowds /\ CompareHolds /\ SeenLogged /\ NewRows
  BY DEF PortalInit, AccountInit, LoginInit, Crowds, CompareHolds, SeenLogged, NewRows, NoLogin,
         AccountIdle
<1>2. NeverTyped /\ QuietCounterExact
  BY LoginAssumption
     DEF PortalInit, AccountInit, LoginInit, NeverTyped, QuietCounterExact, Registered
<1>3. LockoutLogged
  BY LoginAssumption DEF PortalInit, AccountInit, LockoutLogged, Registered
<1>4. RowsExact
  <2> SUFFICES ASSUME NEW u \in Account
               PROVE  LockoutRows(u) = RowsExpected(u)
    BY DEF RowsExact
  <2>1. ~AuditDue(u) /\ u \notin silenced /\ lockouts[u] = 0
    BY DEF PortalInit, LoginInit, AuditDue, AtStage, NoLogin
  <2>2. RowsExpected(u) = 0
    BY LoginAssumption DEF PortalInit, AccountInit, RowsExpected, Registered
  <2> QED
    BY <2>1, <2>2 DEF LockoutRows
<1> QED
  BY <1>1, <1>2, <1>3, <1>4 DEF CounterInv

(* A row that waits for its INSERT counts no failure.                      *)
LEMMA NextNewRows ==
  ASSUME Typed, NewRows, [PortalNext]_portalVars
  PROVE  NewRows'
<1>1. ASSUME NEW q \in AccountSession, NEW request, OpenAccount(q, request),
             request.op \in {"createUser", "bootstrap"} => request.row.failed = 0
      PROVE  NewRows'
  <2>1. \A p \in AccountSession : accountRequests'[p] \in {request, accountRequests[p]}
    BY <1>1 DEF OpenAccount, Typed, PortalTypeOK, AccountTypeOK
  <2> QED
    BY <1>1, <2>1 DEF NewRows
<1>2. ASSUME NEW q \in AccountSession, CloseAccount(q) PROVE NewRows'
  BY <1>2, CloseCloses DEF NewRows, Closes
<1>3. ASSUME NEW q \in AccountSession, CommitForgot(q) PROVE NewRows'
  <2> DEFINE mail == [accountRequests[q] EXCEPT !.op = "mail"]
  <2>1. accountRequests[q].op = "forgot" /\ accountRequests[q] \in AccountRequest
        /\ accountRequests' = [accountRequests EXCEPT ![q] = mail]
    BY <1>3 DEF CommitForgot, Typed, PortalTypeOK, AccountTypeOK
  <2>2. accountRequests[q] \in [op : {"forgot", "mail"}, user : Account, new : Password]
    BY <2>1 DEF AccountRequest, AccountIdle
  <2>3. mail.op = "mail"
    BY <2>2
  <2> HIDE DEF mail
  <2>4. \A p \in AccountSession : accountRequests'[p] \in {mail, accountRequests[p]}
    BY <2>1 DEF Typed, PortalTypeOK, AccountTypeOK
  <2> QED
    BY <2>3, <2>4 DEF NewRows
<1>4. CASE UNCHANGED accountRequests
  BY <1>4 DEF NewRows
<1>5. CASE PasswordNext
  <2>1. ASSUME NEW q \in AccountSession, NEW b \in Browser, BeginChangePassword(q, b)
        PROVE  NewRows'
    BY <1>1, <2>1 DEF BeginChangePassword
  <2>2. ASSUME NEW q \in AccountSession, NEW u \in Account, BeginForgot(q, u) PROVE NewRows'
    BY <1>1, <2>2 DEF BeginForgot
  <2> QED
    BY <1>2, <1>3, <1>4, <1>5, <2>1, <2>2
       DEF PasswordNext, CommitChangePassword, SendPassword, MailFails, ResetPassword
<1>6. CASE AdminNext
  <2>1. ASSUME NEW q \in AccountSession, BeginCreateUser(q) PROVE NewRows'
    <3>1. PICK input \in UserInput, password \in Password :
            /\ ValidUser(input)
            /\ OpenAccount(q, [op |-> "createUser", row |-> NewUser(input, password)])
      BY <2>1 DEF BeginCreateUser
    <3> QED
      BY <1>1, <3>1, NewUserTyped
  <2>2. ASSUME NEW q \in AccountSession, BeginBootstrap(q) PROVE NewRows'
    <3>1. PICK password \in Password :
            OpenAccount(q, [op |-> "bootstrap", row |-> NewUser(InitialAdmin, password)])
      BY <2>2 DEF BeginBootstrap
    <3> QED
      BY <1>1, <3>1, NewUserTyped, AccountAssumption
  <2>3. ASSUME NEW q \in AccountSession, NEW u \in Account, BeginUpdateUser(q, u) PROVE NewRows'
    BY <1>1, <2>3 DEF BeginUpdateUser
  <2>4. ASSUME NEW q \in AccountSession, NEW u \in Account, NEW a, BeginToggleUser(q, a, u)
        PROVE  NewRows'
    BY <1>1, <2>4 DEF BeginToggleUser
  <2>5. ASSUME NEW q \in AccountSession, AccountCommit(q) PROVE CloseAccount(q)
    BY <2>5 DEF AccountCommit, CommitUser, RejectUser, CommitUpdateUser, CommitToggleUser
  <2> QED
    BY <1>2, <1>6, <2>1, <2>2, <2>3, <2>4, <2>5 DEF AdminNext, AdminUseCase
<1> QED
  BY <1>4, <1>5, <1>6, LoginColumns DEF PortalNext, portalVars, accountVars

(* A step that leaves logins and counters alone, but for accounts that it  *)
(* creates with none.                                                      *)
LEMMA CountersStay ==
  ASSUME Typed, CounterInv,
         UNCHANGED <<clock, logins, lockouts, silenced, overtaken, crowded, wrong>>,
         \A v \in Account :
           Registered(v) => Registered(v)' /\ SameCounter(v),
         \A v \in Account :
           ~Registered(v) /\ Registered(v)' => users'[v].failed = 0
  PROVE  CounterInv'
<1>1. \A b \in Browser : logins[b].stage = "compare" =>
        logins[b].user \in Account /\ Registered(logins[b].user)
  BY LoginFields DEF Typed, PortalTypeOK, Known, NoLogin
<1>2. Crowds' /\ SeenLogged'
  BY DEF CounterInv, Crowds, SeenLogged, Logged, AuditDue, AtStage
<1>3. CompareHolds'
  BY <1>1 DEF CounterInv, CompareHolds, Locked, SameCounter
<1>4. NeverTyped' /\ QuietCounterExact'
  BY DEF CounterInv, NeverTyped, QuietCounterExact, SameCounter
<1>5. LockoutLogged'
  <2>1. \A v \in Account : Registered(v)' /\ users'[v].failed >= Threshold =>
          Registered(v) /\ users[v].failed >= Threshold
    BY LoginAssumption DEF SameCounter
  <2> QED
    BY <2>1 DEF CounterInv, LockoutLogged, AuditDue, AtStage
<1>6. RowsExact'
  <2> SUFFICES ASSUME NEW v \in Account, v \notin crowded \/ ~Registered(v)'
               PROVE  LockoutRows(v)' = RowsExpected(v)'
    BY DEF RowsExact
  <2>1. LockoutRows(v)' = LockoutRows(v)
    BY DEF LockoutRows, AuditDue, AtStage
  <2>2. LockoutRows(v) = RowsExpected(v)
    BY DEF CounterInv, RowsExact
  <2>3. RowsExpected(v)' = RowsExpected(v)
    <3>1. CASE Registered(v)
      BY <3>1 DEF RowsExpected, SameCounter
    <3>2. CASE ~Registered(v)
      BY <3>2, LoginAssumption DEF RowsExpected
    <3> QED
      BY <3>1, <3>2
  <2> QED
    BY <2>1, <2>2, <2>3
<1> QED
  BY <1>2, <1>3, <1>4, <1>5, <1>6 DEF CounterInv

LEMMA LoginCounters ==
  ASSUME Typed, CounterInv, LoginNext
  PROVE  CounterInv'
<1>1. /\ logins \in [Browser -> Login] /\ wrong \in [Account -> Nat]
      /\ lockouts \in [Account -> Nat]
      /\ NoLogin.stage = "idle" /\ clock \in Nat
      /\ \A v \in Account : Registered(v) => users[v] \in UserRow
  BY RowFields DEF Typed, PortalTypeOK, NoLogin
<1>2. \A b \in Browser : logins[b] # NoLogin =>
        /\ logins[b].user \in Account /\ logins[b].seen \in UserRow
        /\ Registered(logins[b].user)
  BY LoginFields DEF Typed, PortalTypeOK, Known
<1>3. \A u \in Account :
        Registered(u) /\ users[u].failed >= Threshold /\ u \notin overtaken => Logged(u)
  BY DEF CounterInv, LockoutLogged, Logged
<1>4. /\ (\A u \in Account :
            Registered(u)' /\ users'[u].failed >= Threshold /\ u \notin overtaken' =>
              LoggedAfter(u))
           => LockoutLogged'
      /\ (\A u \in Account :
            u \notin crowded' \/ ~Registered(u)' => RowsAfter(u) = RowsExpected(u)')
           => RowsExact'
  BY DEF LockoutLogged, LoggedAfter, DueAfter, AuditDue, AtStage, RowsExact, RowsAfter,
         LockoutRows
<1>12. \A u \in Account : u \notin crowded \/ ~Registered(u) => LockoutRows(u) = RowsExpected(u)
  BY DEF CounterInv, RowsExact
<1>5. ASSUME NEW b \in Browser, NEW u \in Account, BeginLogin(b, u) PROVE CounterInv'
  <2>1. PICK typed \in Password :
          logins' = [logins EXCEPT ![b] = [stage |-> "compare", user |-> u,
                                           seen |-> users[u], typed |-> typed]]
    BY <1>5 DEF BeginLogin
  <2> DEFINE new == [stage |-> "compare", user |-> u, seen |-> users[u], typed |-> typed]
  <2>2. new.stage = "compare" /\ new.user = u /\ new.seen = users[u]
    OBVIOUS
  <2> HIDE DEF new
  <2>3. /\ logins'[b] = new /\ \A a \in Browser \ {b} : logins'[a] = logins[a]
    BY <1>1, <2>1 DEF new
  <2>4. /\ UNCHANGED <<users, clock, lockouts, silenced, overtaken, wrong>>
        /\ Registered(u) /\ logins[b] = NoLogin /\ ~Locked(users[u], clock)
        /\ crowded \subseteq crowded'
        /\ \A a \in Browser : logins[a] # NoLogin /\ logins[a].user = u => u \in crowded'
    BY <1>5 DEF BeginLogin, accountVars, IsLockedOut, Locked
  <2>11. \A v : AuditDue(v) <=> DueAfter(v)
    BY <1>1, <2>2, <2>3, <2>4 DEF AuditDue, AtStage, DueAfter
  <2>5. \A v : Logged(v) => LoggedAfter(v)
    BY <2>4, <2>11 DEF Logged, LoggedAfter
  <2>6. Crowds'
    BY <2>2, <2>3, <2>4 DEF CounterInv, Crowds
  <2>7. CompareHolds'
    BY <2>2, <2>3, <2>4 DEF CounterInv, CompareHolds
  <2>8. SeenLogged'
    <3> SUFFICES ASSUME NEW a \in Browser, logins'[a].stage = "compare",
                        logins'[a].seen.failed >= Threshold,
                        logins'[a].user \notin overtaken
                 PROVE  LoggedAfter(logins'[a].user)
      BY <2>4 DEF SeenLogged, Logged, LoggedAfter, DueAfter, AuditDue, AtStage
    <3>1. CASE a = b
      BY <1>3, <2>2, <2>3, <2>4, <2>5, <3>1
    <3>2. CASE a # b
      BY <2>3, <2>5, <3>2 DEF CounterInv, SeenLogged
    <3> QED
      BY <3>1, <3>2
  <2>9. NeverTyped' /\ QuietCounterExact'
    BY <2>4 DEF CounterInv, NeverTyped, QuietCounterExact, Registered
  <2>10. LockoutLogged'
    BY <1>3, <1>4, <2>4, <2>5 DEF Registered
  <2>12. \A v \in Account : RowsAfter(v) = LockoutRows(v) /\ RowsExpected(v)' = RowsExpected(v)
    BY <2>4, <2>11 DEF RowsAfter, LockoutRows, RowsExpected, Registered
  <2>13. RowsExact'
    BY <1>4, <1>12, <2>4, <2>12 DEF Registered
  <2> QED
    BY <2>6, <2>7, <2>8, <2>9, <2>10, <2>13 DEF CounterInv
<1>6. ASSUME NEW b \in Browser, NEW r \in UserRow, NEW t \in ToldRow,
             logins[b].stage = "compare", Rewrites(logins[b].user, r, t),
             UNCHANGED <<clock, crowded>>,
             \A a \in Browser \ {b} : logins'[a] = logins[a],
             logins'[b].stage \in {"idle", "audit", "open"},
             logins'[b] # NoLogin => logins'[b].user = logins[b].user,
             \A v \in Account \ {logins[b].user} :
               /\ wrong'[v] = wrong[v] /\ lockouts'[v] = lockouts[v]
               /\ v \in silenced' <=> v \in silenced
               /\ v \in overtaken' <=> v \in overtaken,
             logins[b].user \notin crowded =>
               /\ r.failed = wrong'[logins[b].user]
               /\ RowsAfter(logins[b].user) = (IF r.failed >= Threshold THEN 1 ELSE 0),
             \/ ~Beside(b, logins[b].user)
             \/ logins[b].user \in overtaken'
             \/ /\ logins[b].user \notin overtaken
                /\ Logged(logins[b].user) => LoggedAfter(logins[b].user),
             r.failed >= Threshold /\ logins[b].user \notin overtaken' =>
               LoggedAfter(logins[b].user)
      PROVE  CounterInv'
  <2> DEFINE u == logins[b].user
  <2>1. logins[b] # NoLogin /\ u \in Account /\ Registered(u)
    BY <1>1, <1>2, <1>6
  <2>2. /\ SameAccounts /\ users'[u] = r
        /\ \A v \in Account \ {u} : users'[v] = users[v]
    BY <1>6, <2>1, RewritesColumns DEF SameRow
  <2>3. \A v \in Account \ {u} : AuditDue(v) <=> DueAfter(v)
    BY <1>1, <1>6 DEF AuditDue, AtStage, DueAfter
  <2>10. \A v \in Account \ {u} :
           /\ Logged(v) => LoggedAfter(v)
           /\ RowsAfter(v) = LockoutRows(v)
    BY <1>6, <2>3 DEF Logged, LoggedAfter, RowsAfter, LockoutRows
  <2>4. \A a \in Browser \ {b} : logins[a] # NoLogin /\ logins[a].user = u => u \in crowded
    BY <2>1 DEF CounterInv, Crowds
  <2>5. Crowds'
    BY <1>6, <2>1 DEF CounterInv, Crowds
  <2>6. CompareHolds'
    BY <1>1, <1>2, <1>6, <2>2, <2>4 DEF CounterInv, CompareHolds
  <2>7. SeenLogged'
    <3> SUFFICES ASSUME NEW a \in Browser, logins'[a].stage = "compare",
                        logins'[a].seen.failed >= Threshold,
                        logins'[a].user \notin overtaken'
                 PROVE  LoggedAfter(logins'[a].user)
      BY DEF SeenLogged, Logged, LoggedAfter, DueAfter, AuditDue, AtStage
    <3>1. /\ a # b /\ logins'[a] = logins[a] /\ logins[a] # NoLogin
          /\ logins[a].user \in Account
      BY <1>1, <1>2, <1>6
    <3>2. logins[a].user \in overtaken \/ Logged(logins[a].user)
      BY <3>1 DEF CounterInv, SeenLogged
    <3>3. CASE logins[a].user = u
      <4>1. Beside(b, u)
        BY <3>1, <3>3 DEF Beside
      <4> QED
        BY <1>6, <3>1, <3>2, <3>3, <4>1
    <3>4. CASE logins[a].user # u
      BY <1>6, <2>10, <3>1, <3>2, <3>4
    <3> QED
      BY <3>3, <3>4
  <2>8. NeverTyped' /\ QuietCounterExact'
    BY <1>6, <2>1, <2>2 DEF CounterInv, NeverTyped, QuietCounterExact, SameAccounts
  <2>9. LockoutLogged'
    BY <1>3, <1>4, <1>6, <2>2, <2>10 DEF SameAccounts
  <2>11. RowsExact'
    <3> SUFFICES ASSUME NEW v \in Account, v \notin crowded' \/ ~Registered(v)'
                 PROVE  RowsAfter(v) = RowsExpected(v)'
      BY <1>4
    <3>1. CASE v = u
      BY <1>6, <2>1, <2>2, <3>1 DEF SameAccounts, RowsExpected
    <3>2. CASE v # u
      <4>1. RowsExpected(v)' = RowsExpected(v) /\ (Registered(v)' <=> Registered(v))
        BY <2>2, <3>2 DEF SameAccounts, RowsExpected
      <4> QED
        BY <1>6, <1>12, <2>10, <3>2, <4>1
    <3> QED
      BY <3>1, <3>2
  <2> QED
    BY <2>5, <2>6, <2>7, <2>8, <2>9, <2>11 DEF CounterInv
<1>7. ASSUME NEW b \in Browser, RecordFailure(b) PROVE CounterInv'
  <2> DEFINE u == logins[b].user
             audit == [logins[b] EXCEPT !.stage = "audit"]
             count == logins[b].seen.failed + 1
  <2>1. PICK r \in UserRow, t \in ToldRow :
          Rewrites(u, r, t) /\ r.failed = count
    BY <1>7, RecordFailureRewrites
  <2>2. logins[b].stage = "compare" /\ logins[b] # NoLogin /\ u \in Account
        /\ logins[b].seen.failed \in Nat
    BY <1>1, <1>2, <1>7 DEF RecordFailure, AtStage, UserRow
  <2>3. audit.stage = "audit" /\ audit.user = u
    BY <1>1, <2>2, LoginFields
  <2>4. /\ UNCHANGED <<clock, crowded, lockouts, silenced, overtaken>>
        /\ logins' = [logins EXCEPT ![b] = IF count = Threshold THEN audit ELSE NoLogin]
        /\ wrong' = [wrong EXCEPT ![u] = wrong[u] + 1]
    BY <1>7 DEF RecordFailure, GoTo, LogsLockout, FailureCount
  <2> HIDE DEF audit
  <2>5. /\ \A a \in Browser \ {b} : logins'[a] = logins[a]
        /\ logins'[b] = IF count = Threshold THEN audit ELSE NoLogin
    BY <1>1, <2>4
  <2>6. wrong'[u] = wrong[u] + 1 /\ \A v \in Account \ {u} : wrong'[v] = wrong[v]
    BY <1>1, <2>2, <2>4
  <2>7. u \notin crowded => count = wrong'[u]
    BY <1>2, <2>2, <2>6 DEF CounterInv, CompareHolds, QuietCounterExact
  <2>10. /\ AuditDue(u) => DueAfter(u)
         /\ count = Threshold => DueAfter(u)
         /\ count # Threshold => (DueAfter(u) <=> AuditDue(u))
    BY <1>1, <2>2, <2>3, <2>5 DEF AuditDue, AtStage, DueAfter
  <2>11. Logged(u) => LoggedAfter(u)
    BY <2>4, <2>10 DEF Logged, LoggedAfter
  <2>8. ASSUME count >= Threshold, u \notin overtaken PROVE LoggedAfter(u)
    <3>1. CASE count = Threshold
      BY <2>10, <3>1 DEF LoggedAfter
    <3>2. CASE count # Threshold
      <4>1. logins[b].seen.failed >= Threshold
        BY <2>2, <2>8, <3>2, LoginAssumption
      <4>2. Logged(u)
        BY <2>2, <2>8, <4>1 DEF CounterInv, SeenLogged
      <4> QED
        BY <2>11, <4>2
    <3> QED
      BY <3>1, <3>2
  <2>9. /\ logins'[b].stage \in {"idle", "audit", "open"}
        /\ logins'[b] # NoLogin => logins'[b].user = u
    BY <1>1, <2>3, <2>5
  <2>12. ASSUME u \notin crowded
         PROVE  RowsAfter(u) = IF count >= Threshold THEN 1 ELSE 0
    <3>1. LockoutRows(u) = (IF logins[b].seen.failed >= Threshold THEN 1 ELSE 0)
      BY <1>2, <1>12, <2>2, <2>12 DEF CounterInv, CompareHolds, RowsExpected
    <3>2. lockouts[u] \in Nat /\ lockouts'[u] = lockouts[u] /\ silenced' = silenced
      BY <1>1, <2>2, <2>4
    <3>3. CASE count = Threshold
      <4>1. ~(logins[b].seen.failed >= Threshold)
        BY <2>2, <3>3
      <4>2. lockouts[u] = 0 /\ u \notin silenced
        BY <3>1, <3>2, <4>1 DEF LockoutRows
      <4> QED
        BY <2>10, <3>2, <3>3, <4>2, LoginAssumption DEF RowsAfter
    <3>4. CASE count # Threshold
      <4>1. count >= Threshold <=> logins[b].seen.failed >= Threshold
        BY <2>2, <3>4, LoginAssumption
      <4>2. RowsAfter(u) = LockoutRows(u)
        BY <2>10, <3>2, <3>4 DEF RowsAfter, LockoutRows
      <4> QED
        BY <3>1, <4>1, <4>2
    <3> QED
      BY <3>3, <3>4
  <2> HIDE DEF count
  <2> QED
    BY <1>6, <2>1, <2>2, <2>4, <2>5, <2>6, <2>7, <2>8, <2>9, <2>11, <2>12
<1>8. ASSUME NEW b \in Browser, RecordSuccess(b) PROVE CounterInv'
  <2> DEFINE u == logins[b].user
             open == [logins[b] EXCEPT !.stage = "open"]
  <2>1. PICK r \in UserRow, t \in ToldRow : Rewrites(u, r, t) /\ r.failed = 0
    BY <1>8, RecordSuccessRewrites
  <2>2. logins[b].stage = "compare" /\ logins[b] # NoLogin /\ u \in Account
    BY <1>1, <1>2, <1>8 DEF RecordSuccess, AtStage
  <2>3. open.stage = "open" /\ open.user = u
    BY <1>1, <2>2, LoginFields
  <2>4. /\ UNCHANGED <<clock, crowded>>
        /\ logins' = [logins EXCEPT ![b] = open]
        /\ wrong' = [wrong EXCEPT ![u] = 0]
        /\ lockouts' = [lockouts EXCEPT ![u] = 0]
        /\ silenced' = silenced \ {u}
        /\ overtaken' = IF Beside(b, u) THEN overtaken \cup {u} ELSE overtaken \ {u}
    BY <1>8 DEF RecordSuccess, GoTo
  <2> HIDE DEF open
  <2>5. /\ \A a \in Browser \ {b} : logins'[a] = logins[a]
        /\ logins'[b] = open
    BY <1>1, <2>4
  <2>6. /\ wrong'[u] = 0 /\ lockouts'[u] = 0 /\ u \notin silenced'
        /\ \A v \in Account \ {u} :
             /\ wrong'[v] = wrong[v] /\ lockouts'[v] = lockouts[v]
             /\ v \in silenced' <=> v \in silenced
             /\ v \in overtaken' <=> v \in overtaken
    BY <1>1, <2>2, <2>4
  <2>7. ~(r.failed >= Threshold)
    BY <2>1, LoginAssumption
  <2>8. ~Beside(b, u) \/ u \in overtaken'
    BY <2>4
  <2>9. u \notin crowded => RowsAfter(u) = 0
    <3>1. ASSUME u \notin crowded PROVE ~DueAfter(u)
      <4>1. \A a \in Browser \ {b} : logins[a] # NoLogin => logins[a].user # u
        BY <2>2, <3>1 DEF CounterInv, Crowds
      <4> QED
        BY <1>1, <2>3, <2>5, <4>1 DEF DueAfter
    <3> QED
      BY <2>6, <3>1 DEF RowsAfter
  <2> QED
    BY <1>6, <2>1, <2>2, <2>3, <2>4, <2>5, <2>6, <2>7, <2>8, <2>9
<1>9. ASSUME NEW b \in Browser, AuditLockout(b) \/ OpenSession(b) \/ LoginDies(b)
      PROVE  CounterInv'
  <2> DEFINE u == logins[b].user
  <2>1. /\ logins' = [logins EXCEPT ![b] = NoLogin]
        /\ UNCHANGED <<users, clock, overtaken, crowded, wrong>>
    BY <1>9 DEF AuditLockout, OpenSession, LoginDies, GoTo, accountVars
  <2>2. /\ logins'[b] = NoLogin /\ \A a \in Browser \ {b} : logins'[a] = logins[a]
    BY <1>1, <2>1
  <2>8. \/ logins[b].stage # "audit" /\ UNCHANGED <<lockouts, silenced>>
        \/ /\ logins[b].stage = "audit" /\ silenced' = silenced
           /\ lockouts' = [lockouts EXCEPT ![u] = lockouts[u] + 1]
        \/ /\ logins[b].stage = "audit" /\ lockouts' = lockouts
           /\ silenced' = silenced \cup {u}
    BY <1>9 DEF AuditLockout, OpenSession, LoginDies, AtStage
  <2>9. logins[b].stage = "audit" => u \in Account /\ logins[b] # NoLogin /\ AuditDue(u)
    BY <1>1, <1>2 DEF AuditDue, AtStage
  <2>10. \A v : AuditDue(v) => DueAfter(v) \/ (v = u /\ logins[b].stage = "audit")
    BY <2>2 DEF AuditDue, AtStage, DueAfter
  <2>11. \A v : DueAfter(v) => AuditDue(v)
    BY <1>1, <2>2 DEF AuditDue, AtStage, DueAfter
  <2>3. \A v \in Account : Logged(v) => LoggedAfter(v)
    <3> SUFFICES ASSUME NEW v \in Account, Logged(v)
                 PROVE  LoggedAfter(v)
      OBVIOUS
    <3>1. lockouts[v] \in Nat /\ (v \in silenced => v \in silenced')
      BY <1>1, <2>8
    <3>2. lockouts'[v] >= lockouts[v] /\ lockouts'[v] \in Nat
      BY <1>1, <2>8, <3>1
    <3>3. v = u /\ logins[b].stage = "audit" => lockouts'[v] > 0 \/ v \in silenced'
      BY <1>1, <2>8, <3>1
    <3> QED
      BY <2>10, <3>1, <3>2, <3>3 DEF Logged, LoggedAfter
  <2>4. Crowds' /\ CompareHolds'
    BY <1>1, <2>1, <2>2 DEF CounterInv, Crowds, CompareHolds
  <2>5. SeenLogged'
    <3> SUFFICES ASSUME NEW a \in Browser, logins'[a].stage = "compare",
                        logins'[a].seen.failed >= Threshold,
                        logins'[a].user \notin overtaken
                 PROVE  LoggedAfter(logins'[a].user)
      BY <2>1 DEF SeenLogged, Logged, LoggedAfter, DueAfter, AuditDue, AtStage
    <3>1. a # b /\ logins'[a] = logins[a] /\ logins[a].user \in Account
      BY <1>1, <1>2, <2>2
    <3> QED
      BY <2>3, <3>1 DEF CounterInv, SeenLogged
  <2>6. NeverTyped' /\ QuietCounterExact'
    BY <2>1 DEF CounterInv, NeverTyped, QuietCounterExact, Registered
  <2>7. LockoutLogged'
    BY <1>3, <1>4, <2>1, <2>3 DEF Registered
  <2>12. RowsExact'
    <3> SUFFICES ASSUME NEW v \in Account, v \notin crowded \/ ~Registered(v)
                 PROVE  RowsAfter(v) = LockoutRows(v)
      <4>1. \A v \in Account : RowsExpected(v)' = RowsExpected(v)
        BY <2>1 DEF RowsExpected, Registered
      <4> QED
        BY <1>4, <1>12, <2>1, <4>1 DEF Registered
    <3>1. CASE v = u /\ logins[b].stage = "audit"
      <4>1. Registered(v) /\ v \notin crowded /\ AuditDue(v)
        BY <1>1, <1>2, <2>9, <3>1
      <4>2. LockoutRows(v) \in {0, 1} /\ lockouts[v] \in Nat
        BY <1>1, <1>12, <4>1 DEF RowsExpected
      <4>3. lockouts[v] = 0 /\ v \notin silenced /\ LockoutRows(v) = 1
        BY <4>1, <4>2 DEF LockoutRows
      <4>4. ~DueAfter(v)
        <5>1. \A a \in Browser \ {b} : logins[a] # NoLogin => logins[a].user # v
          BY <2>9, <3>1, <4>1 DEF CounterInv, Crowds
        <5> QED
          BY <1>1, <2>2, <5>1 DEF DueAfter
      <4>5. \/ lockouts'[v] = 1 /\ v \notin silenced'
            \/ lockouts'[v] = 0 /\ v \in silenced'
        BY <1>1, <2>8, <3>1, <4>3
      <4> QED
        BY <4>3, <4>4, <4>5 DEF RowsAfter
    <3>2. CASE ~(v = u /\ logins[b].stage = "audit")
      <4>1. AuditDue(v) <=> DueAfter(v)
        BY <2>10, <2>11, <3>2
      <4>2. lockouts'[v] = lockouts[v] /\ (v \in silenced' <=> v \in silenced)
        BY <1>1, <2>8, <3>2
      <4> QED
        BY <4>1, <4>2 DEF RowsAfter, LockoutRows
    <3> QED
      BY <3>1, <3>2
  <2> QED
    BY <2>4, <2>5, <2>6, <2>7, <2>12 DEF CounterInv
<1>10. ASSUME NEW b \in Browser, CloseSession(b) PROVE CounterInv'
  BY <1>10, CountersStay DEF CloseSession, accountVars, Registered, SameCounter
<1>11. CASE Tick
  <2>1. clock' = clock + 1
        /\ UNCHANGED <<users, logins, lockouts, silenced, overtaken, crowded, wrong>>
    BY <1>11 DEF Tick, accountVars
  <2>2. \A v \in Account : Registered(v) /\ ~Locked(users[v], clock) => ~Locked(users[v], clock')
    BY <1>1, <2>1, LoginAssumption DEF Locked, UserRow
  <2>3. CompareHolds'
    BY <1>1, <1>2, <2>1, <2>2 DEF CounterInv, CompareHolds
  <2>4. Crowds' /\ SeenLogged' /\ NeverTyped' /\ QuietCounterExact' /\ LockoutLogged'
    BY <2>1 DEF CounterInv, Crowds, SeenLogged, Logged, NeverTyped, QuietCounterExact,
                LockoutLogged, AuditDue, AtStage, Registered
  <2>5. RowsExact'
    BY <2>1 DEF CounterInv, RowsExact, RowsExpected, LockoutRows, AuditDue, AtStage, Registered
  <2> QED
    BY <2>3, <2>4, <2>5 DEF CounterInv
<1> QED
  BY <1>5, <1>7, <1>8, <1>9, <1>10, <1>11 DEF LoginNext

LEMMA NextCounterInv ==
  ASSUME Typed, CounterInv, NewRows, [PortalNext]_portalVars
  PROVE  CounterInv'
<1>1. CASE PasswordNext
  BY <1>1, CountersStay, PasswordColumns DEF SameAccounts
<1>2. CASE AdminNext
  <2>1. UNCHANGED <<clock, logins, lockouts, silenced, overtaken, crowded, wrong>>
    BY <1>2, AdminColumns
  <2>2. CASE SameAccounts /\ \A v \in Account : SameCounter(v)
    BY <2>1, <2>2, CountersStay DEF SameAccounts
  <2>3. ASSUME NEW q \in AccountSession, NEW u \in Account, CommitUser(q, u) PROVE CounterInv'
    <3>1. /\ ~Registered(u) /\ users'[u] = accountRequests[q].row
          /\ \A v \in Account \ {u} : users'[v] = users[v]
          /\ \A v \in Account : Registered(v)' <=> Registered(v) \/ v = u
      BY <2>3, CommitUserInserts
    <3>2. accountRequests[q].row.failed = 0
      BY <2>3 DEF CommitUser, NewRows
    <3>3. \A v \in Account : Registered(v) => Registered(v)' /\ SameCounter(v)
      BY <3>1 DEF SameCounter
    <3>4. \A v \in Account : ~Registered(v) /\ Registered(v)' => users'[v].failed = 0
      BY <3>1, <3>2
    <3> QED
      BY <2>1, <3>3, <3>4, CountersStay
  <2>4. \/ \E q \in AccountSession, u \in Account : CommitUser(q, u)
        \/ SameAccounts /\ \A v \in Account : SameCounter(v)
    BY <1>2, AdminInserts
  <2> QED
    BY <2>2, <2>3, <2>4
<1>3. CASE UNCHANGED portalVars
  BY <1>3, CountersStay DEF portalVars, accountVars, loginVars, Registered, SameCounter
<1> QED
  BY <1>1, <1>2, <1>3, LoginCounters DEF PortalNext

(* Failures are counted one by one, and their lockout is logged once, when *)
(* they come one by one; whatever logins overlap, failures that reach the  *)
(* threshold have their audit row since the last right password, written,  *)
(* about to be, or lost with the process.                                  *)
THEOREM LockoutIsExact == PortalSpec => []LockoutExact
<1> DEFINE Inv == PortalInv /\ CounterInv /\ NewRows
<1>1. PortalInit => Inv
  BY InitPortalInv, InitCounterInv
<1>2. Inv /\ [PortalNext]_portalVars => Inv'
  BY NextPortalInv, NextCounterInv, NextNewRows DEF PortalInv
<1>3. Inv => LockoutExact
  BY DEF CounterInv, LockoutExact, RowsExact, RowsExpected, QuietLoggedOnce
<1> QED
  BY <1>1, <1>2, <1>3, PTL DEF PortalSpec

(* A lockout that no two logins raced for keeps its counter until its      *)
(* window is over.                                                         *)
THEOREM LockoutLasts == PortalSpec => QuietLockoutHolds
<1> DEFINE Inv == PortalInv /\ CounterInv /\ NewRows
           Holds == \A u \in Account :
                      Registered(u) /\ u \notin crowded /\ IsLockedOut(users[u]) =>
                        users'[u].failed = users[u].failed
<1>1. PortalInit => Inv
  BY InitPortalInv, InitCounterInv
<1>2. Inv /\ [PortalNext]_portalVars => Inv'
  BY NextPortalInv, NextCounterInv, NextNewRows DEF PortalInv
<1>3. Inv /\ [PortalNext]_portalVars => [Holds]_portalVars
  <2> SUFFICES ASSUME Typed, CounterInv, PortalNext,
                      NEW u \in Account, Registered(u), u \notin crowded, IsLockedOut(users[u])
               PROVE  users'[u].failed = users[u].failed
    BY DEF PortalInv
  <2>1. CASE SameCounter(u)
    BY <2>1 DEF SameCounter
  <2>2. CASE UNCHANGED users
    BY <2>2
  <2>3. ASSUME NEW b \in Browser, RecordFailure(b) \/ RecordSuccess(b)
        PROVE  users'[u] = users[u]
    <3>1. /\ logins[b].stage = "compare" /\ logins[b].user \in Account
          /\ Registered(logins[b].user)
      BY <2>3, LoginFields
         DEF RecordFailure, RecordSuccess, AtStage, Typed, PortalTypeOK, Known, NoLogin
    <3>2. logins[b].user # u
      BY <3>1 DEF CounterInv, CompareHolds, IsLockedOut, Locked
    <3>3. PICK r \in UserRow, t \in ToldRow : Rewrites(logins[b].user, r, t)
      BY <2>3, RecordFailureRewrites, RecordSuccessRewrites
    <3> QED
      BY <3>1, <3>2, <3>3, RewritesTyped DEF Typed, PortalTypeOK
  <2>4. CASE LoginNext
    BY <2>2, <2>3, <2>4
       DEF LoginNext, BeginLogin, AuditLockout, OpenSession, LoginDies, CloseSession, Tick,
           accountVars
  <2>5. CASE PasswordNext
    BY <2>1, <2>5, PasswordColumns
  <2>6. CASE AdminNext
    <3>1. ASSUME NEW v \in Account, Inserted(v) PROVE users'[u] = users[u]
      BY <3>1 DEF Inserted, SameRow
    <3> QED
      BY <2>1, <2>6, <3>1, AdminColumns
  <2> QED
    BY <2>4, <2>5, <2>6 DEF PortalNext
<1> QED
  BY <1>1, <1>2, <1>3, PTL DEF PortalSpec, QuietLockoutHolds

-----------------------------------------------------------------------------
(***************************************************************************)
(* RateLimit: at most twice the maximum in the time of a window.           *)
(***************************************************************************)

RateTypeOK ==
  /\ now \in Nat
  /\ buckets \in [Key -> [count : Nat, resetAt : Int]]
  /\ allowed \in [Key -> Seq(Nat)]

(* The calls the bucket has let through; the count goes one further when a *)
(* call is refused, and stops there.                                       *)
Through(bucket) == IF bucket.count < MaxCalls THEN bucket.count ELSE MaxCalls

(* Calls go through in the order of time.                                  *)
InOrder(s) ==
  /\ \A i \in DOMAIN s : s[i] <= now
  /\ \A i, j \in DOMAIN s : i <= j => s[i] <= s[j]

(* The bucket's calls are the last ones, and its window starts with the    *)
(* first of them ...                                                       *)
WindowOfLast(bucket, s) ==
  LET m == Through(bucket)
  IN  /\ m <= Len(s)
      /\ bucket.count = 0 => Len(s) = 0 /\ bucket.resetAt < 0
      /\ m > 0 => s[Len(s) - m + 1] = bucket.resetAt - WindowMs

(* ... which came more than a window after the call MaxCalls before it.    *)
FarFromPrevious(bucket, s) ==
  \A i \in DOMAIN s :
    i <= Len(s) - Through(bucket) - MaxCalls + 1 =>
      (bucket.resetAt - WindowMs) - s[i] > WindowMs

Spread(s) ==
  \A i, j \in DOMAIN s : j - i >= 2 * MaxCalls => s[j] - s[i] > WindowMs

Limited(bucket, s) ==
  /\ InOrder(s)
  /\ WindowOfLast(bucket, s)
  /\ FarFromPrevious(bucket, s)
  /\ Spread(s)

RateInv == \A k \in Key : Limited(buckets[k], allowed[k])

LEMMA InitRateInv == RateInit => RateTypeOK /\ RateInv
<1> SUFFICES ASSUME RateInit
             PROVE  RateTypeOK /\ RateInv
  OBVIOUS
<1>1. RateTypeOK
  BY DEF RateInit, RateTypeOK, NoBucket
<1>2. ASSUME NEW k \in Key
      PROVE  Limited(buckets[k], allowed[k])
  <2>1. buckets[k] = NoBucket /\ allowed[k] = <<>>
    BY DEF RateInit
  <2>2. Len(<<>>) = 0 /\ DOMAIN <<>> = {}
    OBVIOUS
  <2>3. Through(NoBucket) = 0 /\ NoBucket.count = 0 /\ NoBucket.resetAt < 0
    BY RateAssumption DEF Through, NoBucket
  <2> QED
    BY <2>1, <2>2, <2>3
       DEF Limited, InOrder, WindowOfLast, FarFromPrevious, Spread
<1> QED
  BY <1>1, <1>2 DEF RateInv

LEMMA LaterInOrder ==
  ASSUME RateTypeOK, NEW k \in Key, NEW bucket, Limited(bucket, allowed[k]), Later
  PROVE  Limited(bucket, allowed[k])'
<1>1. InOrder(allowed[k])'
  <2>1. allowed[k] \in Seq(Nat)
    BY DEF RateTypeOK
  <2>2. \A i \in DOMAIN allowed[k] : allowed[k][i] \in Nat
    BY <2>1
  <2> QED
    BY <2>2 DEF Later, Limited, InOrder, RateTypeOK
<1> QED
  BY <1>1 DEF Later, Limited, WindowOfLast, FarFromPrevious, Spread

(* A call goes through in the window of its bucket or opens a new one.     *)
LEMMA CallLimited ==
  ASSUME RateTypeOK, NEW k \in Key, Limited(buckets[k], allowed[k]),
         CallInNewWindow(k) \/ CallInWindow(k), UNCHANGED now
  PROVE  Limited(buckets[k], allowed[k])'
<1> DEFINE s == allowed[k]
           t == Append(s, now)
           b == buckets[k]
           c == buckets'[k]
           n == Len(s)
           m == Through(b)
<1>1. /\ s \in Seq(Nat) /\ n \in Nat /\ now \in Nat
      /\ b \in [count : Nat, resetAt : Int]
      /\ MaxCalls \in Nat \ {0} /\ WindowMs \in Nat \ {0}
  BY RateAssumption DEF RateTypeOK
<1>2. allowed'[k] = t
  BY DEF CallInNewWindow, CallInWindow, RateTypeOK
<1>3. /\ Len(t) = n + 1 /\ DOMAIN t = 1 .. n + 1 /\ DOMAIN s = 1 .. n
      /\ t[n + 1] = now
      /\ \A i \in 1 .. n : t[i] = s[i] /\ s[i] \in Nat
  BY <1>1
<1>4. /\ InOrder(s) /\ WindowOfLast(b, s) /\ FarFromPrevious(b, s) /\ Spread(s)
  BY DEF Limited
<1>5. m \in 0 .. MaxCalls /\ (b.count = 0 <=> m = 0)
  BY <1>1 DEF Through
<1> HIDE DEF s, t, b, c, n, m
<1>6. /\ m <= n
      /\ m = 0 => n = 0 /\ b.resetAt < 0
      /\ m > 0 => s[n - m + 1] = b.resetAt - WindowMs
  BY <1>4, <1>5 DEF WindowOfLast, m, n
<1>7. \A i \in 1 .. n : i <= n - m - MaxCalls + 1 => (b.resetAt - WindowMs) - s[i] > WindowMs
  BY <1>3, <1>4 DEF FarFromPrevious, m, n
<1>8. /\ \A i \in 1 .. n : s[i] <= now
      /\ \A i, j \in 1 .. n : i <= j => s[i] <= s[j]
      /\ \A i, j \in 1 .. n : j - i >= 2 * MaxCalls => s[j] - s[i] > WindowMs
  BY <1>3, <1>4 DEF InOrder, Spread
<1>9. InOrder(t)
  BY <1>1, <1>3, <1>8 DEF InOrder
<1>10. CASE CallInNewWindow(k)
  <2>1. /\ b.resetAt < now
        /\ c = [count |-> 1, resetAt |-> now + WindowMs]
    BY <1>10 DEF CallInNewWindow, Over, FreshBucket, RateTypeOK, b, c
  <2>2. c.count = 1 /\ Through(c) = 1 /\ c.resetAt - WindowMs = now
    BY <1>1, <2>1 DEF Through
  <2>3. \A i \in 1 .. n : i <= n - m + 1 => now - s[i] > WindowMs
    <3> SUFFICES ASSUME NEW i \in 1 .. n, i <= n - m + 1
                 PROVE  now - s[i] > WindowMs
      OBVIOUS
    <3>1. m > 0 /\ n - m + 1 \in 1 .. n
      BY <1>1, <1>5, <1>6
    <3>2. s[i] <= b.resetAt - WindowMs
      BY <1>6, <1>8, <3>1
    <3> QED
      BY <1>1, <1>3, <2>1, <3>2
  <2>4. WindowOfLast(c, t)
    BY <1>1, <1>3, <2>2 DEF WindowOfLast
  <2>5. FarFromPrevious(c, t)
    <3> SUFFICES ASSUME NEW i \in 1 .. n + 1, i <= (n + 1) - 1 - MaxCalls + 1
                 PROVE  now - t[i] > WindowMs
      BY <1>3, <2>2 DEF FarFromPrevious
    <3>1. i \in 1 .. n /\ i <= n - m + 1
      BY <1>1, <1>5
    <3> QED
      BY <1>3, <2>3, <3>1
  <2>6. Spread(t)
    <3> SUFFICES ASSUME NEW i \in 1 .. n + 1, NEW j \in 1 .. n + 1, j - i >= 2 * MaxCalls
                 PROVE  t[j] - t[i] > WindowMs
      BY <1>3 DEF Spread
    <3>1. CASE j \in 1 .. n
      BY <1>1, <1>3, <1>8, <3>1
    <3>2. CASE j = n + 1
      <4>1. i \in 1 .. n /\ i <= n - m + 1
        BY <1>1, <1>5, <3>2
      <4> QED
        BY <1>3, <2>3, <3>2, <4>1
    <3> QED
      BY <1>1, <3>1, <3>2
  <2> QED
    BY <1>2, <1>9, <2>4, <2>5, <2>6 DEF Limited, InOrder, WindowOfLast, FarFromPrevious, Spread, c
<1>11. CASE CallInWindow(k)
  <2>1. /\ b.resetAt >= now /\ b.count < MaxCalls
        /\ c = [b EXCEPT !.count = b.count + 1]
    BY <1>1, <1>11 DEF CallInWindow, Over, RateTypeOK, b, c
  <2>2. c.count = b.count + 1 /\ c.resetAt = b.resetAt
    BY <1>1, <2>1
  <2>3. m = b.count /\ m > 0 /\ Through(c) = m + 1
    BY <1>1, <1>6, <2>1, <2>2 DEF Through, m
  <2>4. WindowOfLast(c, t)
    <3>1. n - m + 1 \in 1 .. n /\ (n + 1) - (m + 1) + 1 = n - m + 1
      BY <1>1, <1>5, <1>6, <2>3
    <3>2. t[n - m + 1] = c.resetAt - WindowMs
      BY <1>3, <1>6, <2>2, <2>3, <3>1
    <3>3. m + 1 <= n + 1 /\ c.count # 0
      BY <1>1, <1>5, <1>6, <2>2, <2>3
    <3> QED
      BY <1>3, <2>3, <3>1, <3>2, <3>3 DEF WindowOfLast
  <2>5. FarFromPrevious(c, t)
    <3> SUFFICES ASSUME NEW i \in 1 .. n + 1, i <= (n + 1) - (m + 1) - MaxCalls + 1
                 PROVE  (b.resetAt - WindowMs) - t[i] > WindowMs
      BY <1>3, <2>2, <2>3 DEF FarFromPrevious
    <3>1. i \in 1 .. n /\ i <= n - m - MaxCalls + 1
      BY <1>1, <1>5
    <3> QED
      BY <1>3, <1>7, <3>1
  <2>6. Spread(t)
    <3> SUFFICES ASSUME NEW i \in 1 .. n + 1, NEW j \in 1 .. n + 1, j - i >= 2 * MaxCalls
                 PROVE  t[j] - t[i] > WindowMs
      BY <1>3 DEF Spread
    <3>1. CASE j \in 1 .. n
      BY <1>1, <1>3, <1>8, <3>1
    <3>2. CASE j = n + 1
      <4>1. i \in 1 .. n /\ i <= n - m - MaxCalls + 1 /\ n - m + 1 \in 1 .. n
        <5>1. i <= n + 1 - 2 * MaxCalls /\ i <= n
          BY <1>1, <3>2
        <5>2. n - m + 1 \in 1 .. n /\ m <= MaxCalls
          BY <1>1, <1>5, <1>6, <2>3
        <5> QED
          BY <1>1, <1>5, <5>1, <5>2
      <4>2. (b.resetAt - WindowMs) - s[i] > WindowMs /\ b.resetAt - WindowMs <= now
        BY <1>6, <1>7, <1>8, <2>3, <4>1
      <4> QED
        BY <1>1, <1>3, <3>2, <4>1, <4>2
    <3> QED
      BY <1>1, <3>1, <3>2
  <2> QED
    BY <1>2, <1>9, <2>4, <2>5, <2>6 DEF Limited, InOrder, WindowOfLast, FarFromPrevious, Spread, c
<1> QED
  BY <1>10, <1>11

LEMMA RefusedLimited ==
  ASSUME RateTypeOK, NEW k \in Key, Limited(buckets[k], allowed[k]), CallRefused(k)
  PROVE  Limited(buckets[k], allowed[k])'
<1>1. /\ buckets'[k] = [buckets[k] EXCEPT !.count = buckets[k].count + 1]
      /\ buckets[k] \in [count : Nat, resetAt : Int] /\ buckets[k].count = MaxCalls
      /\ UNCHANGED <<now, allowed>>
  BY DEF CallRefused, RateTypeOK
<1>2. /\ buckets'[k].resetAt = buckets[k].resetAt
      /\ buckets'[k].count = MaxCalls + 1
  BY <1>1
<1>3. Through(buckets'[k]) = Through(buckets[k]) /\ buckets'[k].count # 0
  BY <1>1, <1>2, RateAssumption DEF Through
<1> QED
  BY <1>1, <1>2, <1>3 DEF Limited, InOrder, WindowOfLast, FarFromPrevious, Spread

LEMMA NextRateTypeOK ==
  ASSUME RateTypeOK, [RateNext]_rateVars
  PROVE  RateTypeOK'
<1>1. ASSUME NEW k \in Key, CallInNewWindow(k)
      PROVE  RateTypeOK'
  <2>1. FreshBucket \in [count : Nat, resetAt : Int]
    BY RateAssumption DEF FreshBucket, RateTypeOK
  <2> QED
    BY <1>1, <2>1 DEF CallInNewWindow, RateTypeOK
<1>2. ASSUME NEW k \in Key, CallInWindow(k) \/ CallRefused(k)
      PROVE  RateTypeOK'
  <2> DEFINE counted == [buckets[k] EXCEPT !.count = buckets[k].count + 1]
  <2>1. buckets[k] \in [count : Nat, resetAt : Int] /\ buckets[k].count + 1 \in Nat
    BY DEF RateTypeOK
  <2>2. counted \in [count : Nat, resetAt : Int]
    BY <2>1
  <2>3. buckets' = [buckets EXCEPT ![k] = counted]
    BY <1>2 DEF CallInWindow, CallRefused
  <2> HIDE DEF counted
  <2>4. buckets' \in [Key -> [count : Nat, resetAt : Int]]
    BY <2>2, <2>3 DEF RateTypeOK
  <2>5. allowed' \in [Key -> Seq(Nat)] /\ now' \in Nat
    <3>1. Append(allowed[k], now) \in Seq(Nat)
      BY DEF RateTypeOK
    <3>2. \/ UNCHANGED <<allowed, now>>
          \/ allowed' = [allowed EXCEPT ![k] = Append(allowed[k], now)] /\ UNCHANGED now
      BY <1>2 DEF CallInWindow, CallRefused
    <3> QED
      BY <3>1, <3>2 DEF RateTypeOK
  <2> QED
    BY <2>4, <2>5 DEF RateTypeOK
<1>3. CASE Later \/ UNCHANGED rateVars
  BY <1>3 DEF Later, rateVars, RateTypeOK
<1> QED
  BY <1>1, <1>2, <1>3 DEF RateNext

LEMMA NextRateInv ==
  ASSUME RateTypeOK, RateInv, [RateNext]_rateVars
  PROVE  RateInv'
<1> SUFFICES ASSUME NEW k \in Key
             PROVE  Limited(buckets[k], allowed[k])'
  BY DEF RateInv
<1>1. Limited(buckets[k], allowed[k])
  BY DEF RateInv
<1>2. CASE UNCHANGED <<now, buckets[k], allowed[k]>>
  BY <1>1, <1>2 DEF Limited, InOrder, WindowOfLast, FarFromPrevious, Spread
<1>3. CASE Later
  <2>1. buckets'[k] = buckets[k]
    BY <1>3 DEF Later
  <2> QED
    BY <1>1, <1>3, <2>1, LaterInOrder
       DEF Limited, InOrder, WindowOfLast, FarFromPrevious, Spread
<1>4. ASSUME NEW j \in Key, j # k,
             CallInNewWindow(j) \/ CallInWindow(j) \/ CallRefused(j)
      PROVE  UNCHANGED <<now, buckets[k], allowed[k]>>
  BY <1>4 DEF CallInNewWindow, CallInWindow, CallRefused, RateTypeOK
<1>5. CASE CallInNewWindow(k) \/ CallInWindow(k) \/ CallRefused(k)
  BY <1>1, <1>5, CallLimited, RefusedLimited DEF CallInNewWindow, CallInWindow
<1> QED
  BY <1>2, <1>3, <1>4, <1>5 DEF RateNext, rateVars

(* Among any 2 * MaxCalls + 1 calls of a key that went through, two are    *)
(* more than a window apart.                                               *)
THEOREM RateIsLimited == RateSpec => []TwiceAtMost
<1>1. RateTypeOK /\ RateInv /\ [RateNext]_rateVars => (RateTypeOK /\ RateInv)'
  BY NextRateTypeOK, NextRateInv
<1>2. RateInv => TwiceAtMost
  BY DEF RateInv, Limited, Spread, TwiceAtMost
<1> QED
  BY <1>1, <1>2, InitRateInv, PTL DEF RateSpec

=============================================================================
