SPECIFICATION FairSpec
CONSTANTS
  r1 = r1
  r2 = r2
  h1 = h1
  h2 = h2
  e1 = e1
  e2 = e2
  Runs = {r1}
  ThreadOf <- OneThread
  Handlers = {h1, h2}
  Execs = {e1, e2}
  Tools = {"read", "edit"}
  Mutating = {"edit"}
  EditedFile <- EditsOnly
  Files = {"file"}
  Fingerprint <- OwnFingerprint
  Policies = {"OnRequest"}
  MaxTurns = 1
  MaxIdentical = 9
  MaxFailures = 2
  MaxEdits = 2
  MaxParseRetries = 0
  MaxCommands = 2
  MaxSteps = 6
INVARIANT NoOrphanRun
PROPERTY EveryExecutionEnds
CHECK_DEADLOCK FALSE
