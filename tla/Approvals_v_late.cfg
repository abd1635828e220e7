CONSTANTS
  None = None
  MaxAttempts = 2
  MaxQuestions = 2
  MaxAnswers = 2
SPECIFICATION Spec
INVARIANTS AnswersItsPreview
CHECK_DEADLOCK FALSE
