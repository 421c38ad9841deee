\* Logins and sessions, administrators, and the rate limit.
SPECIFICATION MCSpec
CONSTANTS
  ada = ada  bob = bob  eve = eve  zoe = zoe  none = none  bad = bad
  Account = {ada, bob, eve, zoe}
  Matricule <- MCMatricule
  Email <- MCEmail
  Profil <- MCProfil
  Invalid = {bad}
  Password <- MCPassword
  AccountSession = {q1, q2}
  InitialAdmin <- MCInitialAdmin
  SeededUsers <- MCSeededUsers
  NoAccount = none
  Never = never
  Browser = {"b1", "b2"}
  Threshold = 2
  Window = 2
  MaxFailed = 4
  MaxTokenVersion = 2
  MaxClock = 3
  Key = {key}
  MaxCalls = 2
  WindowMs = 2
  MaxNow = 6
INVARIANTS
  SessionsProved
  AccountsExact
  LockoutExact
  TwiceAtMost
PROPERTIES
  QuietLockoutHolds
CHECK_DEADLOCK FALSE
