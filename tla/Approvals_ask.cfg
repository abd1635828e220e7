CONSTANTS
  None = None
  MaxAttempts = 2
  MaxQuestions = 2
  MaxAnswers = 2
SPECIFICATION FairSpec
INVARIANTS BridgeInStep RegisteredIsWaiting AcceptedFits CancelledWasLeft
PROPERTIES ImplementsPermission AcceptedArrives WorkersEnd
CHECK_DEADLOCK FALSE
