CONSTANTS
  WinIds = {"w1", "w2"}
  WidIds = {"d1"}
  Widgets <- MCWidgets
  Parent <- MCParent
  ParentWindow <- MCParentWindow
  WidgetAt <- MCWidgetAt
  Kinds = {"key", "move", "leave", "destroy", "resize"}
  MaxEvents = 4
  NoWidget = NoWidget
  NoWindow = NoWindow
  Missing = Missing
  Null = Null
SPECIFICATION FairSpec
INVARIANT TypeOK
INVARIANT WindowCount
PROPERTY AppExitsAfterLastWindow
CHECK_DEADLOCK FALSE
