SPECIFICATION Spec
CONSTANTS
  Requests = {"r1", "r2"}
  Secrets = {"A"}
  Required = {"A"}
  Releases = {1, 2}
  MaxAsked = 5
  v1 = v1
  v2 = v2
  Visitors <- VisitorsVal
  Messages = {"m1", "m2"}
  PageSize = 4
  DailyTokens = 1
  MaxDays = 1
  Agents <- AgentsVal
  Doctor = 0
  Setups <- SetupsVal
  Servers <- ServersVal
  Timeout = 3
  Delays <- DelaysVal
  Durations = {1, 3}
  MaxCalls <- CallsVal
  MaxTroubles = 2
  Readers = {r1, r2}
  Installers = {i1}
  User = user
  MaxWrites = 3
  Paths = {"app"}
  Mentioned <- MentionedVal
  MaxTurns = 3
  Browsers = {b1, b2}
  Commands = {c1}
  Admin = admin
  Others = {ann}
  TTL = 0
  MaxPasswords = 2
  MaxTime = 1
  Writers = {w1, w2}
  Pages = {p1}
  MaxEvents = 4
  MaxOpens = 2
INVARIANTS
  QuietWritesHold
  FinishedRunsAreCounted
  RefusedOnce
  CleanBillHolds
  StaleOnlyByPrompt
  FollowUpStays
  AnnouncedPasswordOpens
  EndedStreamIsComplete
CHECK_DEADLOCK FALSE
