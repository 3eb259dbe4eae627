SPECIFICATION FairSpec
CONSTANTS
  t1 = t1
  Tasks = {t1}
  h1 = h1
  Handlers = {h1}
  v1 = v1
  Versions = {v1}
  d1 = d1
  Topics = {d1}
  Modes = {"full"}
  NoVersion = NoVersion
  NoTask = NoTask
  LostTask = LostTask
  Faults = {"kill", "dbfail", "exception", "docfail", "delete", "reset", "time"}
PROPERTIES
  Recovers
