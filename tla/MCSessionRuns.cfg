SPECIFICATION Spec
CONSTANTS
  c1 = c1
  c2 = c2
  k1 = k1
  r1 = r1
  r2 = r2
  NoRun = NoRun
  Clients <- ClientsVal
  Killers <- KillersVal
  Runs <- RunsVal
  MaxCrashes = 1
INVARIANTS
  OneTurnUnlessRaced
  KillHitsItsTarget
PROPERTIES
  EveryRunFinishes
  ImplementsContract
CHECK_DEADLOCK FALSE
