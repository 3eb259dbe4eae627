SPECIFICATION FairSpec
CONSTANTS
  u1 = u1
  Users = {u1}
  j1 = j1
  j2 = j2
  Jobs = {j1, j2}
  h1 = h1
  Handlers = {h1}
  MaxRequests = 2
  MaxCorrections = 2
  NoUser = NoUser
  Features = {"background", "sync", "cancel", "raise", "kill", "hour", "day", "cleanup"}
INVARIANTS
  ResultIffCompleted
  LateWorkBounded
  EndedIsSettled
PROPERTIES
  ImplementsView
  JobsEnd
