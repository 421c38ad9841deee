\* One licence: two requests and the expire job, or one request and both jobs.
SPECIFICATION MCSpec
CONSTANTS
  Keep = Keep
  None = None
  Licence = {l1}
  Renouvellement = {r1, r2}
  Session = {q1, q2}
  ExpireRun = {x1}
  RenewRun = {y1}
  Period <- MCPeriod
  ProfileInput <- MCProfileInput
  DatePatch <- MCDatePatch
  RenewWindow = 1
  RenewDuration = 2
  MaxDay = 3
  MaxVersion = 2
  MaxFault = 1
INVARIANT TypeOK
INVARIANT StaleWriteRefused
INVARIANT AuditExact
INVARIANT ValidatedPeriodApplied
PROPERTY ExpireLeftOnlyByRenewal
PROPERTY LicencesAreAtomic
INVARIANT OneProposalPerLicence
PROPERTY OverdueExpires
PROPERTY JobsPropose
