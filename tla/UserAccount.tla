---------------------------- MODULE UserAccount ----------------------------
(***************************************************************************)
(* The rows of lic_users, as the use cases of the administrators and the   *)
(* boot of the web process change them at READ COMMITTED.  The row has no  *)
(* lock: each UPDATE sets the columns of its use case, with the values     *)
(* computed from the row that was read; only token_version is incremented  *)
(* in place.  Accounts are never deleted.                                  *)
(*                                                                         *)
(* The audit log is kept as what it tells of each account: the columns it  *)
(* was created with, changed by what each later audit row reports.         *)
(***************************************************************************)
EXTENDS Integers

CONSTANTS
  Account,        \* identities of lic_users rows
  Matricule,      \* matricules a form may send
  Email,          \* addresses a form may send
  Profil,         \* nom and prenom
  Invalid,        \* the strings the validators refuse
  Password,       \* what bcrypt distinguishes
  AccountSession, \* concurrent requests that write accounts
  InitialAdmin,   \* the INITIAL_ADMIN_* variables of the environment
  SeededUsers,    \* lic_users as the seeds left it
  NoAccount,      \* no row
  Never           \* a timestamp that is NULL

UserRole == {"SADMIN", "ADMIN", "USER"}

UserRow ==
  [matricule : Matricule \ Invalid, email : Email \ Invalid,
   profil : Profil \ Invalid, role : UserRole, actif : BOOLEAN,
   password : Password, mustChange : BOOLEAN, tokenVersion : Nat,
   failed : Nat, failedAt : Nat \cup {Never}]

UserInput == [matricule : Matricule, email : Email, profil : Profil, role : UserRole]

(* User.create validates each field before anything is read.               *)
ValidUser(input) == {input.matricule, input.email, input.profil} \cap Invalid = {}

(* withProfile validates what it is given.                                 *)
ValidProfil(profil) == profil \notin Invalid

NewUser(input, password) ==
  [matricule |-> input.matricule, email |-> input.email, profil |-> input.profil,
   role |-> input.role, actif |-> TRUE, password |-> password,
   mustChange |-> TRUE, tokenVersion |-> 0, failed |-> 0, failedAt |-> Never]

(* The columns of an account the log speaks of; a password change is       *)
(* reported as tokenVersionBumped.                                         *)
Told(row) == [profil |-> row.profil, role |-> row.role, actif |-> row.actif,
              tokenVersion |-> row.tokenVersion]

ToldRow == [profil : Profil \ Invalid, role : UserRole, actif : BOOLEAN,
            tokenVersion : Nat]

ASSUME AccountAssumption ==
  /\ NoAccount \notin UserRow /\ NoAccount \notin ToldRow
  /\ Never \notin Nat
  /\ InitialAdmin \in UserInput /\ ValidUser(InitialAdmin)
  /\ SeededUsers \in [Account -> UserRow \cup {NoAccount}]
  /\ \A u, v \in Account :
       /\ SeededUsers[u] # NoAccount /\ SeededUsers[v] # NoAccount /\ u # v
       => /\ SeededUsers[u].matricule # SeededUsers[v].matricule
          /\ SeededUsers[u].email # SeededUsers[v].email

VARIABLES
  users,           \* lic_users
  usersTold,       \* what the log tells of each account
  accountRequests, \* the request each session has open
  contended        \* history: accounts two open requests worked on at once

accountVars == <<users, usersTold, accountRequests, contended>>

-----------------------------------------------------------------------------
AccountIdle == [op |-> "idle"]

Registered(u) == users[u] # NoAccount

MatriculeTaken(m) == \E u \in Account : Registered(u) /\ users[u].matricule = m

EmailTaken(e) == \E u \in Account : Registered(u) /\ users[u].email = e

(* The unique indexes uq_users_matricule and uq_users_email.               *)
UserIndexRefuses(row) == MatriculeTaken(row.matricule) \/ EmailTaken(row.email)

AccountOf(request) == IF "user" \in DOMAIN request THEN {request.user} ELSE {}

(* A request opens on what it has read; accounts another open request      *)
(* works on are remembered.                                                *)
OpenAccount(q, request) ==
  /\ accountRequests[q] = AccountIdle
  /\ accountRequests' = [accountRequests EXCEPT ![q] = request]
  /\ contended' = contended \cup
       {u \in AccountOf(request) :
          \E p \in AccountSession : u \in AccountOf(accountRequests[p])}
  /\ UNCHANGED <<users, usersTold>>

CloseAccount(q) ==
  /\ accountRequests' = [accountRequests EXCEPT ![q] = AccountIdle]
  /\ UNCHANGED contended

AccountInit ==
  /\ users = SeededUsers
  /\ usersTold = [u \in Account |->
       IF SeededUsers[u] = NoAccount THEN NoAccount ELSE Told(SeededUsers[u])]
  /\ accountRequests = [q \in AccountSession |-> AccountIdle]
  /\ contended = {}

-----------------------------------------------------------------------------
(* CreateUserUseCase, up to its INSERT.                                    *)
BeginCreateUser(q) ==
  \E input \in UserInput :
    /\ ValidUser(input)
    /\ ~MatriculeTaken(input.matricule)
    /\ ~EmailTaken(input.email)
    /\ \E password \in Password :
         OpenAccount(q, [op |-> "createUser", row |-> NewUser(input, password)])

(* bootstrapAdmin, up to its INSERT: no SADMIN was active when it looked.  *)
BeginBootstrap(q) ==
  /\ ~ \E u \in Account : /\ Registered(u)
                          /\ users[u].role = "SADMIN" /\ users[u].actif
  /\ \E password \in Password :
       OpenAccount(q, [op |-> "bootstrap", row |-> NewUser(InitialAdmin, password)])

(* The INSERT; create-user's audit row is in its transaction, the          *)
(* bootstrap has none.                                                     *)
CommitUser(q, u) ==
  LET request == accountRequests[q]
  IN  /\ request.op \in {"createUser", "bootstrap"}
      /\ ~Registered(u)
      /\ ~UserIndexRefuses(request.row)
      /\ users' = [users EXCEPT ![u] = request.row]
      /\ usersTold' = [usersTold EXCEPT ![u] = Told(request.row)]
      /\ CloseAccount(q)

(* unique_violation: the transaction rolls back, or the boot goes on with  *)
(* an error in its log.                                                    *)
RejectUser(q) ==
  /\ accountRequests[q].op \in {"createUser", "bootstrap"}
  /\ UserIndexRefuses(accountRequests[q].row)
  /\ CloseAccount(q)
  /\ UNCHANGED <<users, usersTold>>

(* UpdateUserUseCase, up to its UPDATE; a patch that changes nothing       *)
(* returns.                                                                *)
BeginUpdateUser(q, u) ==
  /\ Registered(u)
  /\ \E profil \in Profil, role \in UserRole :
       LET patched == [users[u] EXCEPT !.profil = profil, !.role = role]
       IN  /\ ValidProfil(profil)
           /\ patched # users[u]
           /\ OpenAccount(q, [op |-> "updateUser", user |-> u, seen |-> users[u],
                              patched |-> patched])

(* Mutant: the audit row reports the profil alone.                         *)
CommitUpdateProfilTold(q) ==
  LET request == accountRequests[q]
      patched == request.patched
      u       == request.user
  IN  /\ request.op = "updateUser"
      /\ users' = [users EXCEPT ![u].profil = patched.profil, ![u].role = patched.role]
      /\ usersTold' = [usersTold EXCEPT ![u].profil = patched.profil]
      /\ CloseAccount(q)

(* UserRepositoryPg.updateProfile sets nom, prenom and role as patched;    *)
(* the audit row reports those that differ from the row read.              *)
CommitUpdateUser(q) ==
  LET request == accountRequests[q]
      seen    == request.seen
      patched == request.patched
      u       == request.user
  IN  /\ request.op = "updateUser"
      /\ users' = [users EXCEPT ![u].profil = patched.profil, ![u].role = patched.role]
      /\ usersTold' = [usersTold EXCEPT
           ![u].profil = IF patched.profil = seen.profil THEN @ ELSE patched.profil,
           ![u].role = IF patched.role = seen.role THEN @ ELSE patched.role]
      /\ CloseAccount(q)

(* ToggleUserActiveUseCase, up to its UPDATE: an administrator does not    *)
(* deactivate himself.                                                     *)
BeginToggleUser(q, actor, u) ==
  /\ Registered(u)
  /\ u = actor => ~users[u].actif
  /\ OpenAccount(q, [op |-> "toggleUser", user |-> u, actif |-> ~users[u].actif])

(* Mutant: the UPDATE negates the column, the audit row reports what was   *)
(* computed from the row read.                                             *)
CommitToggleNegating(q) ==
  LET request == accountRequests[q]
  IN  /\ request.op = "toggleUser"
      /\ users' = [users EXCEPT ![request.user].actif = ~@]
      /\ usersTold' = [usersTold EXCEPT ![request.user].actif = request.actif]
      /\ CloseAccount(q)

CommitToggleUser(q) ==
  LET request == accountRequests[q]
  IN  /\ request.op = "toggleUser"
      /\ users' = [users EXCEPT ![request.user].actif = request.actif]
      /\ usersTold' = [usersTold EXCEPT ![request.user].actif = request.actif]
      /\ CloseAccount(q)

(* What an administrator with the SADMIN role may do to accounts; his      *)
(* password resets are Login's.                                            *)
AdminUseCase(q, actor) ==
  \/ BeginCreateUser(q)
  \/ \E u \in Account : BeginUpdateUser(q, u) \/ BeginToggleUser(q, actor, u)

AccountCommit(q) ==
  \/ \E u \in Account : CommitUser(q, u)
  \/ RejectUser(q)
  \/ CommitUpdateUser(q)
  \/ CommitToggleUser(q)

-----------------------------------------------------------------------------
AccountRequest ==
  {AccountIdle}
    \cup [op : {"createUser", "bootstrap"}, row : UserRow]
    \cup [op : {"updateUser"}, user : Account, seen : UserRow, patched : UserRow]
    \cup [op : {"toggleUser"}, user : Account, actif : BOOLEAN]
    \cup [op : {"changePassword"}, user : Account, proved : Password, new : Password]
    \cup [op : {"forgot", "mail"}, user : Account, new : Password]

(* The table, the log and the open requests hold rows of their types.      *)
AccountTypeOK ==
  /\ users \in [Account -> UserRow \cup {NoAccount}]
  /\ usersTold \in [Account -> ToldRow \cup {NoAccount}]
  /\ \A u \in Account : Registered(u) <=> usersTold[u] # NoAccount
  /\ accountRequests \in [AccountSession -> AccountRequest]
  /\ contended \subseteq Account

(* Two requests, one of them the boot of a second web process, that both   *)
(* found a matricule and an address free never both insert them.           *)
UsersUnique ==
  \A u, v \in Account :
    /\ Registered(u) /\ Registered(v)
    /\ users[u].matricule = users[v].matricule \/ users[u].email = users[v].email
    => u = v

(* However toggles overlap, the last USER_ACTIVATED or USER_DEACTIVATED    *)
(* row is true of the account; its names and its role are those of its     *)
(* audit rows as long as no two requests worked on it at once.             *)
LogTellsAccount ==
  \A u \in Account : Registered(u) =>
    /\ users[u].actif = usersTold[u].actif
    /\ u \notin contended => /\ users[u].profil = usersTold[u].profil
                             /\ users[u].role = usersTold[u].role

(* The accounts and their log are exact: matricules and addresses are      *)
(* unique, and the log tells who is active, and the rest if nothing overlaps. *)
AccountsExact == AccountTypeOK /\ UsersUnique /\ LogTellsAccount

-----------------------------------------------------------------------------
(* What comments and the audit promise and the steps refute.               *)

(* toggle-user-active: an administrator does not deactivate himself so     *)
(* that a SADMIN remains.  Two that deactivate each other, or one that     *)
(* gives himself another role, leave none.                                 *)
SadminRemains ==
  \E u \in Account : Registered(u) /\ users[u].role = "SADMIN" /\ users[u].actif

(* The log tells the role: a rename that read the account before a change  *)
(* of role committed writes the old role back and reports the names only.  *)
LogTellsRole == \A u \in Account : Registered(u) => users[u].role = usersTold[u].role
=============================================================================
