SPECIFICATION Spec
CONSTANTS
    Parts = {"change"}
    Installs = {i1, i2}
    Orgs = {o1}
    AppRepos = {r1}
    Admins = {a1, a2}
    MaxNews = 2
    MaxHooks = 2
    NoOrg = NoOrg
    Products = {p1}
    Gids = {g1, g2}
    Names = {n1, n2}
    OtherNames = {n3}
    OneRequest = {q1}
    OtherRequests = {q2}
    BaseLimit = 1
    MaxRows = 2
    NoGid = NoGid
    NoName = NoName
    NoProduct = NoProduct
    NRepos = 2
    Limit = 2
    MaxCommits = 4
    MaxClock = 3
CHECK_DEADLOCK FALSE
PROPERTY RefreshFollowsRename
