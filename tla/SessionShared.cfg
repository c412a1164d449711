\* What the comment on mainClientLock promises.
CONSTANTS
  Dials = {d1}
  Tasks = {t1, t2}
  Clients = {c1, c2, c3, c4, c5}
  NoClient = NoClient
  NoLogin = NoLogin
SPECIFICATION Spec
INVARIANTS OneTaskPerClient
