CONSTANTS
  write = write
  exec = exec
  read = read
  look = look
  typo = typo
  None = None
  Sigs = {write}
  Kind <- MCKind
  Batches <- MCBatches
  MaxLoops = 3
  MaxToolCalls = 2
  MaxTurns = 2
  MaxCrashes = 0
  MaxFaults = 0
  Faults = {"prepare"}
SPECIFICATION Spec
INVARIANTS PendingCanBeResumed
CHECK_DEADLOCK FALSE
