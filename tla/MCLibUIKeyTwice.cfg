CONSTANTS
  WinIds = {"w1", "w2"}
  WidIds = {"d1"}
  Widgets <- MCWidgets
  Parent <- MCParent
  ParentWindow <- MCParentWindow
  WidgetAt <- MCWidgetAt
  Kinds = {"key", "move", "destroy"}
  MaxEvents = 4
  NoWidget = NoWidget
  NoWindow = NoWindow
  Missing = Missing
  Null = Null
SPECIFICATION Spec
CHECK_DEADLOCK FALSE
INVARIANT HandlerCalledOnce
