SPECIFICATION SpatialSpec
CONSTANTS
  Width = 4
  Height = 3
  CellSize = 5
  Maps <- MCMaps
  Speeds <- MCSpeeds
  Budgets <- MCBudgets
  Reach <- MCReach
  Policies <- MCPolicies
  Roundings <- MCRoundings
  None = None
  MaxMoves = 1
INVARIANTS SpatialTypeOK SearchIsExact SightIsMutual AreasAgree
PROPERTY ThreatsAddUp
CHECK_DEADLOCK FALSE
