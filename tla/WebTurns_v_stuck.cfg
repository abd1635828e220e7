CONSTANTS
  first = first
  again = again
  other = other
  fourth = fourth
  del1 = del1
  None = None
  Requests = {first, again}
  Deletes = {}
  Key <- MCKey
  MaxSlots = 2
  MaxEntries = 3
  Departures = {"yield"}
  Expiry = FALSE
  Overruns = FALSE
SPECIFICATION Spec
INVARIANTS OpenEntriesAreServed
CHECK_DEADLOCK FALSE
