\* What the header of the class promises about the cap after a 421.
CONSTANTS
  Callers = {r1, r2, r3, r4}
  Clients = {c1, c2, c3, c4}
  NoClient = NoClient
  MaxTransfers = 3
  DefaultTransfers = 3
  MaxRefusals = 1
  MaxCooldown = 1
SPECIFICATION Spec
SYMMETRY Symmetry
PROPERTIES CapCoversHeld
