\* Two runs one after the other over two licences of one client, two days.
SPECIFICATION Spec
CONSTANTS
  a = a
  Client = {a}
  Licence = {l1, l2}
  Config = {g1}
  User = {u1, u2}
  Admin = {u1, u2}
  Run = {r1, r2}
  Threshold = {1}
  Null = Null
  Overlap = FALSE
  MaxDay = 1
  MaxChange = 1
  MaxFault = 1
  ClientOf <- LicencesOfOne
  ConfigClient <- ConfigsOfOne
SYMMETRY AlertSymmetry
INVARIANT NotificationsExact
\* Nobody has to launch a run, and the days end.
CHECK_DEADLOCK FALSE
