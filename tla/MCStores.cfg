SPECIFICATION Spec
CONSTANTS
  a = a
  b = b
  c = c
  ann = ann
  bob = bob
  trim = trim
  asha = asha
  key = key
  Slots = {1}
  Schedule = {1}
  Callers <- CallersVal
  Contacts <- ContactsVal
  ContactOf <- ContactOfVal
  MaxTables = 2
  MaxRefs = 2
  Items <- ItemsVal
  Team <- TeamVal
  Seeded <- ItemsVal
  Days = {"mon"}
  Values = {1, 2}
  Clients <- ClientsVal
  Keys <- KeysVal
  KeyOf <- KeyOfVal
  ServicesOf <- ServicesOfVal
  DayOf <- DayOfVal
  Editors = {"patch"}
  MaxPushes = 1
  MaxChanges = 1
  MaxRestarts = 1
  Threads = {"t1", "t2"}
  Emails = {"ann"}
  Nobody = "nobody"
  MaxKeys = 3
  MaxCrashes = 1
  Handlers = {"h1", "h2"}
  Addresses = {"ann", "bob"}
  Links = {"l1", "l2"}
  MaxSessions = 3
  MaxStops = 1
  Versions = {1, 2}
  Admins = {"a1", "a2"}
  MaxOps = 4
  Docs = {1, 2}
  NoDoc = NoDoc
  Texts = {0, 2, 5}
  ChunkWords = 3
  OverlapWords = 1
  TopK = 1
  Deleters = {"d1"}
  MaxUploads = 2
  MaxEnquiries = 1
  MaxCuts = 1
INVARIANTS
  NeverOverbooked
  AnsweredOrdersAreWhole
  LinkOpensOneSession
  WorkerServesWhatIsStored
PROPERTIES
  OldKeysStayDead
CHECK_DEADLOCK FALSE
