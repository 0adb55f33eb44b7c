SPECIFICATION CreatorSpec
CONSTANTS
  Actors = {a1}
  Blank = blank
  Catalog <- MCCatalog
  Step <- MCStep
  Requires <- MCRequires
  Conflicts <- MCConflicts
  Unlock <- MCUnlock
  Grants <- MCGrants
  Trains <- MCTrains
  Bonus <- MCBonus
  BaseHP <- MCBaseHP
  GainHP <- MCGainHP
  Groups <- MCGroups
  Members <- MCMembers
  Least <- MCLeast
  Most <- MCMost
  Abilities <- MCAbilities
  Policy <- MCPolicy
  LastLevel = 3
  MaxInFlight = 2
INVARIANTS CreatorTypeOK RecordsAreLegal BooksAgree ReviewIsCurrent
PROPERTIES CharactersOnlyGrow
CHECK_DEADLOCK FALSE
