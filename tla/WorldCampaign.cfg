CONSTANTS
  Area <- MCArea
  Start = "square"
  Exits <- MCExits
  Parties <- MCParties
  Flag <- MCFlag
  Node <- MCNode
  Dialogues <- MCDialogues
  Replies <- MCReplies
  Quests <- MCQuests
  Interactions <- MCInteractions
  Item <- MCItem
  Shops <- MCShops
  Wares <- MCWares
  Slot <- MCSlot
  Fits <- MCFits
  Gates <- MCGates
  None = None
  OnSale = 1
  Premade = {"mira"}
  Quantities = {1, 2}
  MaxRests = 1
SPECIFICATION Spec
INVARIANTS WorldTypeOK VictoryCanBeRecorded VictoriesAreEarned EquippedIsOwned TradingNeverPays OffersAreHonoured TalkCanBeLeft
