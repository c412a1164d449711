\* One send of two files, two servers dropped on the split view, two connects, one folder.
CONSTANTS
  MoveBatches = {1}
  MoveJobs = {11, 12}
  MaxMoveRetries = 1
  MaxSheets = 2
  PaneServers = {1, 2}
  MaxAttempts = 2
  MaxLayoutTabs = 3
  MaxLayoutSteps = 1
  MaxViewCalls = 2
  MaxViewEvents = 2
  Dirs = {1}
  MaxChanges = 2
  MaxLoads = 1
  MaxLosses = 1
  MaxPlanChanges = 1
  MaxPaneSteps = 3
  MaxPaneTurns = 1
  BookPlaces = {1, 2}
  BookUsers = {0, 1, 2}
  MaxBookSteps = 4
  MaxBookRows = 3
  MaxFilterSteps = 4
  CustomKinds = {1}
  SendIds = {1, 2}
  MaxShelfActs = 4
  MoveRuns = {1, 2}
  StripTabs = 3
  MaxStripTabs = 4
  MaxStripActs = 4
  RowWidths = {0, 760, 1000}
  PointerMoves = {60, 300}
  RawWidths = {10, 300}
  MaxSideActs = 3
  PanelSends = {1, 2}
  OthersBatches = {100}
  MaxPanelActs = 4
  BarWidths = {280, 420, 650, 880, 1000}
  WidestBar = 1300
  BarPlaces = {1, 2}
  MaxBarActs = 4
  MenuPanes = {1, 2}
  MaxMenuActs = 5
  Askers = {1, 2}
  MaxSheetActs = 4
SPECIFICATION Spec
INVARIANTS SendSafe FolderViewSafe ViewSafe  ChoicesKept
PROPERTIES WindowSettles
\* Each store is at rest when nobody asks anything of it any more.
CHECK_DEADLOCK FALSE
