CONSTANTS
  write1 = write1
  write2 = write2
  write3 = write3
  here = here
  there = there
  base = base
  foreign = foreign
  None = None
  Writers = {write1, write2}
  Places = {here, there}
  Original = {base}
  Foreign = {foreign}
  MaxEdits = 3
  MaxTurns = 2
  MaxRecords = 2
  MaxDeletions = 2
  RotationCount = 2
  Capacity = 1
  MaxMonths = 1
  MaxEnds = 1
  TextSizes = {1, 2}
  ToolSizes = {1}
  CallIds = {"a", "b"}
  PromptSize = 1
  MaxContext = 6
  MaxSummary = 2
  MaxDialogues = 3
  MaxGroups = 1
  Starts = {"s1", "s2"}
  NoStart = "none"
  DocumentCount = 2
  Texts = {"t1", "t2"}
  Dimensions = {2, 3}
  MaxChanges = 2
  MaxFailures = 1
  Terminals = {"A", "B"}
  SessionNames = {"x", "y"}
  Nowhere = "nowhere"
  MaxQuestions = 2
  MaxMishaps = 1
SPECIFICATION PartsSpec
INVARIANTS PartsTypeOK OnePreviewOneWrite ReportedSurvives RotationIsSound DeletedIsGone Restorable UsesItsContext NothingUnsaid IndexSurvives DeletedChunksGo AnsweredIsSavedOrTold ApprovalsStayHome OpensAgain
PROPERTIES ReplacesPreview
CHECK_DEADLOCK FALSE
