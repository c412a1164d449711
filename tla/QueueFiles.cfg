\* An agent's large download: whose file is at the path, through two retries by the user.
CONSTANTS
  Jobs = {"big"}
  Batches <- BigOnly
  Downloads = {"big"}
  Large = {"big"}
  Exclusive = {"big"}
  Locked = {}
  Borrows = {}
  Segments = 3
  MaxSlots = 2
  MaxRetries = 1
  MaxLoginFailures = 2
  MaxRevivals = 2
  Clearing = TRUE
SPECIFICATION Spec
INVARIANTS CompletedIntact NoLateRemoval
