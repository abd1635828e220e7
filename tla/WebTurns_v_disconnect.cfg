CONSTANTS
  first = first
  again = again
  other = other
  fourth = fourth
  del1 = del1
  None = None
  Requests = {first, other}
  Deletes = {del1}
  Key <- MCKey
  MaxSlots = 2
  MaxEntries = 3
  Departures = {"poll"}
  Expiry = FALSE
  Overruns = FALSE
SPECIFICATION Spec
INVARIANTS TurnUnderLock
CHECK_DEADLOCK FALSE
