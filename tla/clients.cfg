\* Two clients and two requests at a time; one client with two entites and a
\* contact, and two requests at a time.
SPECIFICATION MCSpec
CONSTANTS
  Code <- Codes
  Name <- Names
  Field <- Fields
  Value <- Values
  Malformed <- Bad
  k1 = k1  k2 = k2  n1 = n1  n2 = n2  badName = badName
  contact = contact  x1 = x1
  Null = Null
  Keep = Keep
  Client = {c1, c2}
  ClientSession = {q1, q2}
  NoClient = NoClient
  NewInput <- MCNewInput
  PatchInput <- MCPatchInput
  MaxClientVersion = 2
  Owner = {o1}
  Entite = {e1, e2}
  Contact = {t1}
  Nom = {m1, m2}
  Detail = {d1}
  Blank = Blank
  DossierSession = {q1, q2}
  NoRow = NoRow
INVARIANTS
  ClientsExact
  StaleClientWriteRefused
  DossierExact
PROPERTIES
  ResilieFinal
  ClientsAtomic
  OnlyEditsUndoToggles
SYMMETRY Symmetry
CHECK_DEADLOCK FALSE
