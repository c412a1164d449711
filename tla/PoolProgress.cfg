\* Two callers without symmetry: every request to the pool is answered.
CONSTANTS
  Callers = {r1, r2}
  Clients = {c1, c2, c3}
  NoClient = NoClient
  MaxTransfers = 2
  DefaultTransfers = 2
  MaxRefusals = 1
  MaxCooldown = 1
SPECIFICATION FairSpec
PROPERTIES EveryAskAnswered
