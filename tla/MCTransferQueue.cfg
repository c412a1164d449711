\* A batch of a download that may be split and an upload, on two connections.
CONSTANTS
  Jobs = {"big", "up"}
  Batches <- BigAndUp
  Downloads = {"big"}
  Large = {"big"}
  Exclusive = {}
  Locked = {}
  Borrows = {}
  Segments = 2
  MaxSlots = 2
  MaxRetries = 1
  MaxLoginFailures = 2
  MaxRevivals = 1
  Clearing = FALSE
SPECIFICATION Spec
INVARIANTS NothingForgotten OneAttempt RangesTracked FailedLeavesNothing
PROPERTIES KeepsLifecycle
