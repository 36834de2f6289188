SPECIFICATION Spec
CONSTANTS
  r1 = r1
  r2 = r2
  h1 = h1
  h2 = h2
  e1 = e1
  e2 = e2
  Runs = {r1}
  ThreadOf <- OneThread
  Handlers = {h1}
  Execs = {e1, e2}
  Tools = {"read", "edit"}
  Mutating = {"edit"}
  EditedFile <- EditsOnly
  Files = {"file"}
  Fingerprint <- OwnFingerprint
  Policies = {"Auto", "OnRequest", "ReadOnly"}
  MaxTurns = 2
  MaxIdentical = 2
  MaxFailures = 1
  MaxEdits = 1
  MaxParseRetries = 1
  MaxCommands = 2
  MaxSteps = 12
SYMMETRY Slots
INVARIANT TypeOK
INVARIANT ToolsRunWithConsent
INVARIANT AllowOnce
INVARIANT PausedRunsShowTheirEffects
PROPERTY StepsAreKept
CHECK_DEADLOCK FALSE
