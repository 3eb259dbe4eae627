SPECIFICATION Spec
CONSTANTS
    Parts = {"digests", "summaries", "dashboard"}
    Jobs = {"weekly"}
    Instances = {i1, i2}
    Prefs = {p1}
    Day = 2
    LastHour = 1
    MaxManual = 1
    MaxCrashes = 1
    Repos = {x1, x2}
    SummaryRuns = {r1, r2}
    MaxTime = 3
    Window = 1
    Unreliable = FALSE
    Users = {u1, u2}
    Orgs = {o1, o2}
    Fresh = 1
    MaxClock = 1
    Rows = {"r1", "r2", "r3"}
    ProductOf <- TwoProducts
    Upstream <- Shared
    Authors = {"Ann", "ann"}
    Members = {"m1", "m2"}
    Username <- OneIsKnown
    Fold <- LowerCase
    Touched <- ThreeFiles
    Period = 2
    Extended = 3
    DayLen = 2
    FirstTime = 3
    LastTime = 5
    Page = 2
    MaxCommits = 2
    Readers = {u1}
    ChatRepos = {c1, c2}
    Caches = {"files"}
    Reach = 1
    Rounds = 1
    LiveTime = 1
    KeptTime = 1
CHECK_DEADLOCK FALSE
INVARIANT MailsBoundedByBatches
 
 
 
