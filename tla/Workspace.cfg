SPECIFICATION Spec
CONSTANTS
    Requests = {q1, q2}
    Products = {p1}
    Docs = {d1}
    Defaults = {technical, conceptual}
    Slugs = {c1}
    SectionIds = 4
    NoProduct = NoProduct
    NoDoc = NoDoc
    NoSlug = NoSlug
    Users = {u1, u2}
    Keys = {k1}
    EntryIds = 2
    ApiKeys = {a1}
    Titles = {t1}
    Window = 2
    Limit = 1
    MaxTime = 4
    MaxItems = 2
    Jobs = {j1, j2}
    Handlers = {h1}
    NoUser = NoUser
    MaxWork = 2
    Warm = 1
    Expired = 2
    NoRow = NoRow
    McpKeys = {k1}
    Kinds = {"document", "item"}
    Types = {"a", "b"}
    PageSize = 1
    MaxThings = 3
    LastStep = 3
    PartnerProducts = {"p1", "p2"}
    FeedSize = 1
    MaxEntries = 2
    LastDay = 2
SYMMETRY Symmetry
CHECK_DEADLOCK FALSE
INVARIANT SectionsHoldTogether
INVARIANT VariablesHoldTogether
INVARIANT WithinLimit
INVARIANT TeamTextsAreFresh
INVARIANT InterfacesMissNothing
 
