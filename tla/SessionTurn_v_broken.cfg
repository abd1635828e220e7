CONSTANTS
  write = write
  exec = exec
  read = read
  look = look
  typo = typo
  None = None
  Sigs = {write, typo}
  Kind <- MCKind
  Batches <- MCBatches
  MaxLoops = 3
  MaxToolCalls = 2
  MaxTurns = 2
  MaxCrashes = 2
  MaxFaults = 0
  Faults = {}
SPECIFICATION Spec
INVARIANTS Reopenable
CHECK_DEADLOCK FALSE
