\* Two requests that edit the content of one licence or generate its file, and that run on.
SPECIFICATION FairSpec
CONSTANTS
  Liaison = {i1}
  Produit = {p1}
  Article = {a1}
  Volume = {1}
  VolumeInput <- MCVolumeInput
  Term <- MCTwoTerms
  Session = {q1, q2}
  User = User
  Null = Null
  Keep = Keep
  MaxEdit = 2
  MaxFault = 1
INVARIANT QuietGenerationFresh
PROPERTY EventuallyFresh
