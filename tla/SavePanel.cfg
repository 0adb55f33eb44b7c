CONSTANT MaxSaves = 4
SPECIFICATION PanelSpec
INVARIANTS SaveTypeOK OneFaultLosesNothing
PROPERTIES PanelFreesItself
