----------------------------- MODULE MCAccounts -----------------------------
(* lic_users, in four scenes: the logins of one account, right and wrong;  *)
(* its sessions while its password changes; two administrators and the     *)
(* boot of a web process at work on the accounts; and the calls of one key *)
(* under the rate limit.                                                   *)
EXTENDS LoginSession, RateLimit, TLC

CONSTANTS ada, bob, eve, zoe, none, bad

VARIABLE scene

MCUser(matricule, email) ==
  NewUser([matricule |-> matricule, email |-> email, profil |-> "p", role |-> "SADMIN"],
          "pw1")

MCSeededUsers ==
  (ada :> MCUser("m1", "e1")) @@ (bob :> MCUser("m2", "e2")) @@ (eve :> none) @@ (zoe :> none)

MCInitialAdmin ==
  [matricule |-> "m3", email |-> "e3", profil |-> "p", role |-> "SADMIN"]

MCMatricule == {"m1", "m2", "m3"}
MCEmail == {"e1", "e2", "e3", bad}
MCProfil == {"p", "q", bad}
MCPassword == {"pw1", "pw2"}

(* The scene "admin" starts when both administrators have logged in.       *)
MCSession(b) ==
  [user |-> IF b = "b1" THEN ada ELSE bob, role |-> "SADMIN", tokenVersion |-> 0,
   proved |-> "pw1"]

MCInit ==
  /\ scene \in {"login", "password", "admin", "rate"}
  /\ AccountInit /\ RateInit
  /\ clock = 0
  /\ logins = [b \in Browser |-> NoLogin]
  /\ sessions = [b \in Browser |-> IF scene = "admin" THEN MCSession(b) ELSE NoSession]
  /\ lockouts = [u \in Account |-> 0]
  /\ silenced = {} /\ overtaken = {} /\ crowded = {}
  /\ wrong = [u \in Account |-> 0]
  /\ handed = [u \in Account |-> IF u \in {eve, zoe} THEN Never ELSE "pw1"]

(* The scenes "login" and "password" are about one account; the second has *)
(* no wrong password, and no time but that of its own steps.               *)
OnlyAda ==
  /\ \A b \in Browser : logins'[b] # NoLogin => logins'[b].user = ada
  /\ \A q \in AccountSession : AccountOf(accountRequests'[q]) \subseteq {ada}
  /\ users'[bob] = users[bob]
  /\ scene = "password" => users'[ada].failed = 0 /\ clock' = clock

(* The scene "admin" is about the rows of one profil and two roles, and    *)
(* renames and changes of role are bob's; eve is registered before zoe.    *)
OnlyAdmins ==
  /\ users'[zoe] # none => users[eve] # none
  /\ \A q \in AccountSession :
       LET request == accountRequests'[q]
       IN  /\ "row" \in DOMAIN request =>
                /\ request.row = [NewUser(MCInitialAdmin, "pw1") EXCEPT !.role = request.row.role]
                /\ request.row.role # "USER"
           /\ "patched" \in DOMAIN request =>
                request.user = bob /\ request.patched.role # "USER"

MCNext ==
  /\ UNCHANGED scene
  /\ \/ scene = "login" /\ LoginNext /\ OnlyAda /\ UNCHANGED rateVars
     \/ scene = "password" /\ (LoginNext \/ PasswordNext) /\ OnlyAda /\ UNCHANGED rateVars
     \/ scene = "admin" /\ AdminNext /\ OnlyAdmins /\ UNCHANGED rateVars
     \/ scene = "rate" /\ RateNext /\ UNCHANGED portalVars

MCSpec == MCInit /\ [][MCNext]_<<portalVars, rateVars, scene>>
=============================================================================
