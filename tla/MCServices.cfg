\* Each service of the main process with two of what it serves, and a bound on what users ask.
CONSTANTS
  RelayJobs = {1, 2}
  Servers = {1, 2}
  RelaySlots = 1
  RelayRetries = 1
  MaxRelayAgain = 1
  SlabSize = 2
  SlabCount = 2
  RangeLength = 5
  Sendings = {4, 5, 6}
  FileSizes = {3, 5, 6}
  SegmentMin = 3
  SegmentSize = 2
  MaxLimit = 3
  MaxBreaks = 1
  ThumbKeys = {1, 2}
  ThumbViewers = {1, 2}
  ThumbSlots = 2
  MaxThumbRequests = 3
  MaxThumbCancels = 2
  Folders = {1, 2, 3}
  GalleryViewers = {1, 2}
  GallerySlots = 2
  MaxGalleryRequests = 4
  MaxMutations = 1
  AgentCalls = {1, 2}
  DeleteItems = 2
  MaxAgentStops = 2
  MaxAgentRetries = 1
  AppRuns = {1, 2}
  MaxSwitches = 3
  MaxTokens = 2
  MaxUpdateCommands = 4
  Rows = {1}
  Addresses = {1, 2}
  MaxWrites = 2
  MaxReveals = 1
  ToolCalls = {1, 2}
  MaxOthers = 1
  ReadCalls = {1, 2}
  MaxReadSteps = 4
  MaxResets = 2
  MaxTokensGiven = 3
  MaxAppSteps = 2
  MediaFiles = {12, 22, 36, 46, 59}
  MediaLimit = 10
  EvictRows = 2
  FileLimit = 8
  MediaAsks = {1, 2, 3}
  MaxMediaActs = 4
  Places = {1, 2}
  DbFolders = {1, 2}
  RecentLimit = 2
  MaxDbActs = 2
  MaxStarts = 2
SPECIFICATION Spec
INVARIANTS RelaySafe UpSafe RangePlanSafe DiskSafe ThumbSafe GallerySafe AgentSafe CommandsSafe  UpdateSafe
           VaultSafe
PROPERTIES ServicesSettle
\* Each service is at rest when nothing is asked of it any more.
CHECK_DEADLOCK FALSE
