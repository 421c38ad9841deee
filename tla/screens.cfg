\* The pages in a browser, and the reload of the demonstration data.
SPECIFICATION MCSpec
CONSTANTS
  DemoCode = {"c1", "c2"}
  Pilot = {"c1"}
  Rich = {"a1", "a2"}
  Notice = {"n1"}
  Reload = {w1, w2}
  MaxCopies = 2
  MaxReloads = 2
  MaxPurges = 1
  MaxFailures = 1
  ca = ca  cb = cb  ea = ea  eb = eb
  Client = {ca, cb}
  NoClient = noc
  Entite = {ea, eb}
  NoEntite = noe
  EntiteOwner <- MCEntiteOwner
  LockedClient = noc
  WizardArticle = {a1}
  WizardProduit <- MCWizardProduit
  Controlled = {a1}
  AskedVolume = {1, badVolume}
  BadVolume = badVolume
  Unchecked = unchecked
  WizardPeriod <- MCWizardPeriod
  MaxMade = 1
  Screen = {"licence", "client", "clients"}
  Champ <- MCChamp
  Vide = ""
  Valeur = {"", "x"}
  Statut = {"ACTIF", "EXPIRE"}
  MaxMoved = 2
  HcFile = {"f1", "f2", "f3", "f4"}
  FileKey <- MCFileKey
  FileForm <- MCFileForm
  FileLine <- MCFileLine
  HcKey = {"k", "l"}
  HcVolume = {1, 2}
  Absent = absent
  NullVolume = nullVolume
  Detached = detached
  MaxImports = 2
  MaxUpdates = 1
  ClientCode = {"c1", "c2"}
  KnownName <- MCKnownName
  OtherName = "x"
  NoName = ""
  MaxContacts = 2
  MaxDrafted = 2
  TableScreen = {"regions", "pays", "devises", "langues", "typesContact", "teamMembers", "catalogues", "users", "articles", "renouvellements", "entites", "contacts", "alerts"}
  m1 = m1  m2 = m2  s1 = s1
  MainRow = {m1, m2}
  PartRow = {s1}
  PartOf <- MCPartOf
  FirstRows = {m1, s1}
  SelfRow = m1
  Watched <- MCWatched
  FirstValue = "x"
  Typed = {"", "y"}
  Blank = ""
  Gone = gone
  MaxMoves = 2
  Place = {"audit", "renewals", "notifications"}
  MaxEntries = 3
  CreatedAt <- MCCreatedAt
  PerMs = 2
  FilteredPage = {"clients", "licences", "volumes", "files"}
  ta = ta  tb = tb
  Tag = {ta, tb}
  NoFilter = all
  PerPage = 1
  MaxTagged = 3
  MaxVisits = 3
  PageLength = 2
  BellLength = 1
  MaxSending = 3
  MaxLost = 1
INVARIANTS
  WizardExact
  ReloadsExact
  
  WalksExact
PROPERTIES
  DialogsExact
CHECK_DEADLOCK FALSE
