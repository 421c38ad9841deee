\* One import of two entries, which runs on, beside one request.
SPECIFICATION FairImportSpec
CONSTANTS
  Liaison = {i1}
  Produit = {}
  Article = {1, 2}
  Volume = {1}
  VolumeInput <- MCVolumeInput
  Term <- MCTerm
  Session = {q1}
  User = User
  Null = Null
  Keep = Keep
  MaxEdit = 2
  MaxFault = 1
  Import = {m1}
  Code = {"HSM", "KERNEL", "OTHER"}
  CodeOf <- MCCodeOf
  BadVolume = BadVolume
  HealthcheckFile <- MCFile
INVARIANT ImportExact
PROPERTY ImportEndsLogged
PROPERTY QuietImportKeepsContract
