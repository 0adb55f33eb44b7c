CONSTANTS
  Cast <- Two
  HP = 2
  Speed = 0
  Wounds = FALSE
  Actors <- Two
  MaxHP <- MCMaxHP
  StartHP <- MCStartHP
  StartTemp = {0}
  ZeroHPRule <- MCRule
  WalkingSpeed <- MCSpeed
  DexMod <- MCDexMod
  Rank <- MCRank
  DamageTypes = {"cold", "slashing"}
  Immune <- MCImmune
  Resistant <- MCResistant
  Vulnerable <- MCVulnerable
  ConditionIds <- MCConditions
  Unconscious = "unconscious"
  ManualConditions = {"slowed"}
  BlockedBy <- MCBlockedBy
  WindowIds = {"w1"}
  Amounts = {1}
  Feet = {0, 1}
  InitiativeRolls = {10}
  SaveRolls = {1, 10, 20}
  MaxRound = 2
SPECIFICATION HSpec
INVARIANTS TypeOK LifeMatchesHitPoints TurnsAreShared ReactionsAreRationed
PROPERTIES DeathIsFinal KeepsPromise
CHECK_DEADLOCK FALSE
