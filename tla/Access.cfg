SPECIFICATION Spec
CONSTANTS
    Users = {u1, u2, u3}
    Products = {p1}
    Requests = {r1, r2}
    Ranks = {"member", "admin", "owner"}
    Grants = {"admin"}
    MaxRequests = 5
SYMMETRY Symmetry
CHECK_DEADLOCK FALSE
INVARIANT TypeOK
INVARIANT OwnerRemains
INVARIANT AccessFollowsMembership
 
PROPERTY OthersKeepTheirs
