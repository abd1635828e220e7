CONSTANTS
  first = first
  again = again
  other = other
  fourth = fourth
  del1 = del1
  None = None
  Requests = {first, other, fourth}
  Deletes = {del1}
  Key <- MCKey
  MaxSlots = 3
  MaxEntries = 3
  Departures = {}
  Expiry = FALSE
  Overruns = FALSE
SPECIFICATION Spec
INVARIANTS OneTransaction
CHECK_DEADLOCK FALSE
