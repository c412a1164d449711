\* Three callers, at most two transfers, one login retry after a refusal.
CONSTANTS
  Callers = {r1, r2, r3}
  Clients = {c1, c2, c3, c4}
  NoClient = NoClient
  MaxTransfers = 2
  DefaultTransfers = 2
  MaxRefusals = 1
  MaxCooldown = 1
SPECIFICATION Spec
SYMMETRY Symmetry
INVARIANTS CountersExact ClientsInOnePlace FallbackExclusive
PROPERTIES  LoginsWithinLimit
