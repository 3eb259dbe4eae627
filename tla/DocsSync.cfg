SPECIFICATION Spec
CONSTANTS
  Docs = {d1, d2}
  Paths = {p1, p2}
  Requests = {r1}
  MaxClock = 4
  NoPath = NoPath
SYMMETRY Symmetry
INVARIANT TypeOK
INVARIANT CalmSyncIsExact
INVARIANT LagIsReported
PROPERTY PushKeepsOthers
