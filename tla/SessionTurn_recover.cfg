CONSTANTS
  write = write
  exec = exec
  read = read
  look = look
  typo = typo
  None = None
  Sigs = {write, read, look}
  Kind <- MCKind
  Batches <- MCBatches
  MaxLoops = 3
  MaxToolCalls = 2
  MaxTurns = 2
  MaxCrashes = 2
  MaxFaults = 1
  Faults = {"save", "save_pending", "power"}
SPECIFICATION FairSpec
INVARIANTS Recoverable ResumeContinues
PROPERTIES TurnEnds
CHECK_DEADLOCK FALSE
