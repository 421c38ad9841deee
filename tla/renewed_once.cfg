\* Two validations of one renouvellement.
SPECIFICATION MCSpec
CONSTANTS
  Keep = Keep
  None = None
  Licence = {l1}
  Renouvellement = {r1}
  Session = {q1, q2}
  ExpireRun = {x1}
  RenewRun = {}
  Period <- MCShortPeriod
  ProfileInput <- NoInput
  DatePatch <- MCDatePatch
  RenewWindow = 1
  RenewDuration = 2
  MaxDay = 0
  MaxVersion = 2
  MaxFault = 0
INVARIANT RenewedOnce
