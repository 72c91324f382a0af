SPECIFICATION WorkspaceSpec
CONSTANTS
  c1 = c1  Conns <- OneConn  FirstConns <- OneConn  MaxId = 2  MaxRevisions = 1
  plain = plain  split = split  chart = chart  Values <- Looks  First = plain
  Timeouts = TRUE  MaxEdits = 3
  ChatProviders = {"p1"}  MaxMarks = 4
  MaxTurns = 2  MaxDeltas = 2
  MaxRuns = 2  MaxGuestLoads = 2  MaxAttempts = 1
  MaxQueryEdits = 3  MaxRowsAnswered = 3  RowsOnPage = 2
INVARIANT TabsAreTrue
INVARIANT SavesAreTrue
INVARIANT WorkspaceSurvives
INVARIANT AnswersAreWhole
INVARIANT ChartIsCurrent
INVARIANT QueryTabIsTrue
PROPERTY SavesInOrder
PROPERTY DrainCompletes
PROPERTY TurnsEnd
CHECK_DEADLOCK FALSE
