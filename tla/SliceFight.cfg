CONSTANTS
  HP = 2
  Casts = 2
  None = None
  Actors <- Duel
  MaxHP <- MCMaxHP
  StartHP <- MCStartHP
  StartTemp = {0}
  ZeroHPRule <- MCRule
  WalkingSpeed <- MCSpeed
  DexMod <- MCZero
  Rank <- MCRank
  DamageTypes = {"force"}
  Immune <- MCPlain
  Resistant <- MCPlain
  Vulnerable <- MCPlain
  ConditionIds <- MCConditions
  Unconscious = "unconscious"
  ManualConditions = {}
  BlockedBy <- MCBlockedBy
  WindowIds = {}
  Amounts = {1, 2}
  Feet = {1}
  InitiativeRolls = {10}
  SaveRolls = {1, 10, 20}
  MaxRound = 4
  Team <- MCTeam
  Book <- MCBook
  Pools <- MCPools
SPECIFICATION SliceSpec
INVARIANTS SliceTypeOK ConcentrationAgrees ConditionsHaveASpell DurationsFollowRounds EndedFightsHaveOneWinner
CHECK_DEADLOCK FALSE
