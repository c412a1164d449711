\* A large download ends, with retries by the user and removal from the list.
CONSTANTS
  Jobs = {"big"}
  Batches <- BigOnly
  Downloads = {"big"}
  Large = {"big"}
  Exclusive = {}
  Locked = {}
  Borrows = {"relay"}
  Segments = 2
  MaxSlots = 1
  MaxRetries = 1
  MaxLoginFailures = 2
  MaxRevivals = 1
  Clearing = FALSE
SPECIFICATION FairSpec
PROPERTIES EveryJobSettles RevivalKept
CHECK_DEADLOCK FALSE
