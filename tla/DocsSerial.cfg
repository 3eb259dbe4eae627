SPECIFICATION Spec
CONSTANTS
  t1 = t1
  t2 = t2
  Tasks = {t1, t2}
  h1 = h1
  Handlers = {h1}
  v1 = v1
  v2 = v2
  Versions = {v1, v2}
  d1 = d1
  d2 = d2
  Topics = {d1, d2}
  Modes = {"full", "additive"}
  NoVersion = NoVersion
  NoTask = NoTask
  LostTask = LostTask
  Faults = {"kill", "dbfail", "exception", "docfail", "delete"}
SYMMETRY Symmetry
INVARIANTS
  AtMostOneLiveTask
  ErrorIffFailed
