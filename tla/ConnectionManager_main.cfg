SPECIFICATION FairSpec
CONSTANTS
  r1 = r1
  r2 = r2
  Callers <- TwoRequests
  MaxRefreshTurns = 2
  MaxCatalog = 3
INVARIANTS
  NoLostInvalidation
  StaleAnswerWasOutrun
  ClosedIsFinal
PROPERTIES
  ImplementsManagedDriver
  RequestsAnswered
  CloseCompletes
