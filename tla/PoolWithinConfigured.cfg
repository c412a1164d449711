\* What the header of the file promises about the upper bound.
CONSTANTS
  Callers = {r1, r2, r3}
  Clients = {c1, c2, c3, c4}
  NoClient = NoClient
  MaxTransfers = 2
  DefaultTransfers = 2
  MaxRefusals = 1
  MaxCooldown = 1
SPECIFICATION Spec
SYMMETRY Symmetry
PROPERTIES LoginsWithinConfigured
