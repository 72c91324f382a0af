SPECIFICATION BoundedSpec
CONSTANTS
  r1 = r1
  r2 = r2
  Callers <- TwoRequests
  MaxRefreshTurns = 2
  MaxCatalog = 2
PROPERTY CloseCompletes
