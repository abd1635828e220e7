CONSTANTS
  first = first
  again = again
  other = other
  fourth = fourth
  del1 = del1
  None = None
  Requests = {first, again, other}
  Deletes = {del1}
  Key <- MCKey
  MaxSlots = 2
  MaxEntries = 2
  Departures = {"poll", "yield", "early"}
  Expiry = TRUE
  Overruns = TRUE
SPECIFICATION FairSpec
INVARIANTS AnswerPerKey SerialUntilDeleted SlotsExact OrphansWereDropped
PROPERTIES ImplementsTurnService DeletedWhileServed RepetitionsEnd
CHECK_DEADLOCK FALSE
