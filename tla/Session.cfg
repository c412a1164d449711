\* Two logins and two tasks under way together; no symmetry, for EveryTaskEnds.
CONSTANTS
  Dials = {d1, d2}
  Tasks = {t1, t2}
  Clients = {c1, c2, c3, c4}
  NoClient = NoClient
  NoLogin = NoLogin
SPECIFICATION FairSpec
INVARIANTS SessionHonest ChainSerialises
PROPERTIES StartsOnSession NoResurrection LoginsShared SocketsKept EveryTaskEnds
