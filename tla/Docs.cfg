SPECIFICATION Spec
CONSTANTS
  t1 = t1
  t2 = t2
  Tasks = {t1, t2}
  h1 = h1
  Handlers = {h1}
  v1 = v1
  Versions = {v1}
  d1 = d1
  d2 = d2
  Topics = {d1, d2}
  Modes = {"full"}
  NoVersion = NoVersion
  NoTask = NoTask
  LostTask = LostTask
  Faults = {"exception", "reset"}
SYMMETRY Symmetry
INVARIANT GeneratingHasOwner
INVARIANT QuietIsSettled
INVARIANT FingerprintMeansDocs
