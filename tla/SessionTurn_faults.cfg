CONSTANTS
  write = write
  exec = exec
  read = read
  look = look
  typo = typo
  None = None
  Sigs = {write, exec}
  Kind <- MCKind
  Batches <- MCBatches
  MaxLoops = 3
  MaxToolCalls = 2
  MaxTurns = 2
  MaxCrashes = 2
  MaxFaults = 1
  Faults = {"prepare", "save", "save_pending", "delete_pending", "delete", "power"}
SPECIFICATION Spec
INVARIANTS EffectOnce NothingIsLost ShownApprovalIsDurable
PROPERTIES RollbackExact ImplementsConversation
CHECK_DEADLOCK FALSE
