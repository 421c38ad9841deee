\* Two runs at once, which end unless they are killed.
SPECIFICATION FairSpec
CONSTANTS
  a = a
  Client = {a}
  Licence = {l1}
  Config = {g1}
  User = {u1}
  Admin = {u1}
  Run = {r1, r2}
  Threshold = {1}
  Null = Null
  Overlap = TRUE
  MaxDay = 0
  MaxChange = 1
  MaxFault = 1
  ClientOf <- LicencesOfOne
  ConfigClient <- ConfigsOfOne
INVARIANT SuccessIsTrue
\* Nobody has to launch a run, and the days end.
CHECK_DEADLOCK FALSE
PROPERTY RunsEnd
