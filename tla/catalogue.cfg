\* Reference tables, volume snapshots, lists by identity.
SPECIFICATION MCSpec
CONSTANTS
  reg1 = reg1  reg2 = reg2  pay1 = pay1  pay2 = pay2  tm1 = tm1 
  dev1 = dev1  dev2 = dev2  lan1 = lan1  lan2 = lan2  typ1 = typ1  typ2 = typ2
  pro1 = pro1  pro2 = pro2  art1 = art1  art2 = art2
  none = none  bad = bad
  Ref <- MCRef
  TableOf <- MCTableOf
  RefCode <- MCRefCode
  Libelle <- MCLibelle
  RefInvalid = {bad}
  Editor = {q1, q2}
  SeededRefs <- MCSeededRefs
  NoRef = none
  Deleted = deleted
  Link = {"k1", "k2"}
  MaxVolume = 1
  NoVolume = null
  Execution = {e1, e2}
  MaxMonth = 1
  MaxHeld = 4
  Kind = "id"
  Limit = 2
  MaxExport = 4
  PerMs = 2
  MaxRows = 4
  MaxInstant = 1
SYMMETRY MCSymmetry
INVARIANTS
  RefsExact
  SnapshotsExact
  PagesExact
PROPERTIES
  OnlyStaleEditsReactivate
CHECK_DEADLOCK FALSE
