\* What is said of the file of a cancelled download.
CONSTANTS
  Jobs = {"small"}
  Batches <- SmallOnly
  Downloads = {"small"}
  Large = {}
  Exclusive = {"small"}
  Locked = {}
  Borrows = {}
  Segments = 2
  MaxSlots = 1
  MaxRetries = 1
  MaxLoginFailures = 2
  MaxRevivals = 1
  Clearing = FALSE
SPECIFICATION Spec
INVARIANTS CancelLeavesNothing
CHECK_DEADLOCK FALSE
