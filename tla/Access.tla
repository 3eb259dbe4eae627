------------------------------- MODULE Access -------------------------------
(***************************************************************************)
(* One organization: its members and their roles, its products, and who    *)
(* may reach which product. Every request reads first (membership, role,   *)
(* products, access rows), writes what it decided and commits; requests of *)
(* different people overlap, and nothing locks what a request has read.    *)
(*                                                                         *)
(* A request in flight is the change it has planned, with the values it    *)
(* read: what its UPDATEs, INSERTs and DELETEs then find may be different. *)
(***************************************************************************)
EXTENDS Naturals, FiniteSets

CONSTANTS
    Users, Products, Requests,
    Ranks,         \* roles that are handed out: a subset of Roles
    Grants,        \* access levels that are handed out: a subset of Levels
    MaxRequests    \* bound: requests made

VARIABLES
    org,        \* the organizations row: whether it is there, its owner_id
    role,       \* organization_members: the role of each user
    products,   \* products rows: whether they have an organization, and their maker
    access,     \* product_access: the level of each user, by product
    accounts,   \* users rows
    req,        \* requests in flight
    made,       \* requests made
    barred,     \* history: from whom somebody took a product away
    calm        \* history: no two requests have overlapped

vars == <<org, role, products, access, accounts, req, made, barred, calm>>

Roles == {"none", "viewer", "member", "admin", "owner"}
Levels == {"null", "none", "viewer", "editor", "admin"}

\* The roles and levels are the program's, the table of users has finitely many
\* rows, and the bound is a number.
ASSUME AccessAssumption ==
    Ranks \subseteq Roles /\ Grants \subseteq Levels /\ IsFiniteSet(Users) /\ MaxRequests \in Nat

Idle == [op |-> "none"]
Running == {r \in Requests : req[r] # Idle}

\* The roles of at least admin in ROLE_HIERARCHY.
Privileged(x) == x \in {"owner", "admin"}
Members == {u \in Users : role[u] # "none"}
Owners == {u \in Users : role[u] = "owner"}
Kept == {p \in Products : products[p].state = "kept"}       \* get_by_organization
Exists(p) == products[p].state # "none"
HasRows(u) == \E p \in Products : access[p][u] # "null"

OnlyOwner(u) == Owners = {u}

\* What somebody may do with a product.
Effective(p, u) ==
    IF products[p].state # "kept" \/ role[u] = "none" THEN "none"
    ELSE IF Privileged(role[u]) THEN "admin"
    ELSE IF access[p][u] = "null" THEN "none" ELSE access[p][u]

\* Types of the state, and: rows only refer to rows that exist.
TypeOK ==
    /\ org \in [live: BOOLEAN, owner: Users]
    /\ role \in [Users -> Roles]
    /\ products \in [Products -> [state: {"none", "kept", "orphan"}, maker: Users]]
    /\ access \in [Products -> [Users -> Levels]]
    /\ Members \subseteq accounts /\ accounts \subseteq Users
    /\ org.live => org.owner \in accounts
    /\ ~org.live => Members = {} /\ Kept = {}
    /\ \A p \in Products : Exists(p) => products[p].maker \in accounts
    /\ \A p \in Products, u \in Users :
          access[p][u] # "null" => Exists(p) /\ u \in accounts
    /\ made \in 0 .. MaxRequests
    /\ calm \in BOOLEAN

-----------------------------------------------------------------------------
(* Requests: what they check and what they plan.                           *)

Ask(r, q) ==
    /\ req[r] = Idle /\ made < MaxRequests
    /\ req' = [req EXCEPT ![r] = q]
    /\ made' = made + 1
    /\ calm' = (calm /\ Running = {})
    /\ UNCHANGED <<org, role, products, access, accounts, barred>>

\* A role from old to new ("none": no membership) and, on the products that
\* were listed, a row of the given level ("null": no row, "keep": as it is).
Plan(u, old, new, level, on) ==
    [op |-> "plan", whom |-> u, old |-> old, new |-> new, level |-> level,
     was |-> [p \in on |-> access[p][u]]]

\* An admin hands out the lower roles only.
MayAssign(c, new) == Privileged(role[c]) /\ (role[c] = "admin" => ~Privileged(new))

AddMember(r) ==
    \E c \in Members, u \in accounts \ Members, new \in Ranks \ {"none"} :
      /\ MayAssign(c, new)
      /\ Ask(r, Plan(u, "none", new, IF Privileged(new) THEN "keep" ELSE "viewer", Kept))

\* Wrong variant: whoever is demoted keeps the rows, that is none.
OnChange_NoGrant(old, new) ==
    IF ~Privileged(old) /\ Privileged(new) THEN "null" ELSE "keep"

\* A demotion grants the products to view, a promotion removes the rows.
OnChange(old, new) ==
    CASE Privileged(old) /\ ~Privileged(new) -> "viewer"
      [] ~Privileged(old) /\ Privileged(new) -> "null"
      [] OTHER -> "keep"

MayChange(c, u, new) ==
    /\ c # u /\ MayAssign(c, new)
    /\ role[c] = "admin" => ~Privileged(role[u])
    /\ OnlyOwner(u) => new = "owner"

UpdateRole(r) ==
    \E c \in Members, u \in Members, new \in Ranks \ {"none"} :
      /\ MayChange(c, u, new)
      /\ Ask(r, Plan(u, role[u], new, OnChange(role[u], new), Kept))

\* Wrong variant: the last owner may leave.
MayRemove_Last(c, u) ==
    c # u => Privileged(role[c]) /\ (role[c] = "admin" => ~Privileged(role[u]))

\* Anybody may leave; admins remove the lower roles.
MayRemove(c, u) ==
    /\ c # u => Privileged(role[c]) /\ (role[c] = "admin" => ~Privileged(role[u]))
    /\ ~OnlyOwner(u)

\* Wrong variant: the rows stay behind.
RemoveMember_KeepsRows(r) ==
    \E c \in Members, u \in Members :
      MayRemove(c, u) /\ Ask(r, Plan(u, role[u], "none", "keep", Kept))

RemoveMember(r) ==
    \E c \in Members, u \in Members :
      MayRemove(c, u) /\ Ask(r, Plan(u, role[u], "none", "null", Kept))

\* Access to one product: rows of owners and admins are not made.
SetCollaborator(r) ==
    \E p \in Kept, c \in Members, u \in Members, l \in Grants :
      /\ Effective(p, c) = "admin"
      /\ ~Privileged(role[u])
      /\ Ask(r, Plan(u, role[u], role[u], l, {p}))

RemoveCollaborator(r) ==
    \E p \in Kept, c \in Members, u \in accounts :
      /\ Effective(p, c) = "admin" /\ c # u
      /\ Ask(r, Plan(u, role[u], role[u], "null", {p}))

\* Access to all products at once; "none" removes the rows.
BulkSetAccess(r) ==
    \E c \in Members, u \in Members, l \in Grants \union {"null"} :
      /\ Privileged(role[c]) /\ ~Privileged(role[u])
      /\ l # "none"
      /\ Ask(r, Plan(u, role[u], role[u], l, Kept))

TransferOwnership(r) ==
    \E c \in Owners, u \in Members :
      /\ c # u /\ org.owner = c
      /\ Ask(r, [op |-> "transfer", by |-> c, whom |-> u, old |-> role[u]])

\* The members that are there get a row each, unless they are left out.
CreateProduct(r) ==
    \E c \in Members, p \in Products :
      /\ ~Exists(p)
      /\ \A s \in Running : req[s].op = "create" => req[s].product # p
      /\ LET low == {u \in Members : ~Privileged(role[u])} IN
           \E l \in [low -> {"null", "viewer"} \union (Grants \ {"none"})] :
             Ask(r, [op |-> "create", by |-> c, product |-> p, rows |-> l])

DeleteProduct(r) ==
    \E p \in Kept, c \in Members :
      Effective(p, c) = "admin" /\ Ask(r, [op |-> "drop", product |-> p])

DeleteOrganization(r) == \E c \in Owners : Ask(r, [op |-> "dissolve"])

\* Wrong variant: any owner may take the organization along.
Deletable_Shared(u) == org.live /\ org.owner = u

\* The preview: an organization one owns is deleted with the account when it
\* has one member, and must have been transferred when it has more.
Deletable(u) == org.live /\ org.owner = u /\ Cardinality(Members) = 1

DeleteAccount(r) ==
    \E u \in accounts :
      /\ org.live /\ org.owner = u => Deletable(u)
      /\ Ask(r, [op |-> "leave", by |-> u, dissolve |-> Deletable(u)])

-----------------------------------------------------------------------------
(* Commits. A request whose statements fail is rolled back as a whole.     *)

Finish(r) == req' = [req EXCEPT ![r] = Idle] /\ UNCHANGED <<made, calm>>

\* Whether the INSERT, UPDATE or DELETE of a membership finds what it needs.
RoleFits(q) ==
    q.old # q.new /\ q.new # "none" =>
      IF q.old = "none"
      THEN org.live /\ role[q.whom] = "none" /\ q.whom \in accounts
      ELSE role[q.whom] # "none"

\* Wrong variant: rows are written without a look at what they refer to.
RowsFit_Unchecked(q) == TRUE

\* The same for access rows: an INSERT finds none, an UPDATE finds one.
RowsFit(q) ==
    q.level \notin {"keep", "null"} =>
      \A p \in DOMAIN q.was :
         IF q.was[p] = "null"
         THEN access[p][q.whom] = "null" /\ Exists(p) /\ q.whom \in accounts
         ELSE access[p][q.whom] # "null"

\* Only rows that were found are deleted, only other levels written.
RowAfter(q, p) ==
    CASE q.level = "keep" \/ p \notin DOMAIN q.was -> access[p][q.whom]
      [] q.level = q.was[p] -> access[p][q.whom]
      [] OTHER -> q.level

CommitPlan(r) ==
    LET q == req[r] IN
    /\ q.op = "plan" /\ RoleFits(q) /\ RowsFit(q)
    /\ role' = IF q.old = q.new THEN role ELSE [role EXCEPT ![q.whom] = q.new]
    /\ access' = [p \in Products |-> [access[p] EXCEPT ![q.whom] = RowAfter(q, p)]]
    /\ barred' = LET touched == (DOMAIN q.was) \X {q.whom} IN
                 CASE q.level = "keep" -> barred
                   [] q.level \in {"null", "none"} /\ q.old = q.new -> barred \union touched
                   [] OTHER -> barred \ touched
    /\ Finish(r)
    /\ UNCHANGED <<org, products, accounts>>

CommitTransfer(r) ==
    LET q == req[r] IN
    /\ q.op = "transfer" /\ org.live
    /\ role[q.by] # "none" /\ (q.old # "owner" => role[q.whom] # "none")
    /\ q.whom \in accounts
    /\ org' = [org EXCEPT !.owner = q.whom]
    /\ role' = [role EXCEPT ![q.by] = "admin",
                            ![q.whom] = IF q.old = "owner" THEN @ ELSE "owner"]
    /\ Finish(r)
    /\ UNCHANGED <<products, access, accounts, barred>>

CommitCreate(r) ==
    LET q == req[r]
        low == DOMAIN q.rows
    IN
    /\ q.op = "create" /\ org.live
    /\ q.by \in accounts /\ {u \in low : q.rows[u] # "null"} \subseteq accounts
    /\ products' = [products EXCEPT ![q.product] = [state |-> "kept", maker |-> q.by]]
    /\ access' = [access EXCEPT ![q.product] =
                     [u \in Users |-> IF u \in low THEN q.rows[u] ELSE "null"]]
    /\ barred' = {b \in barred : b[1] # q.product}
                   \union {<<q.product, u>> : u \in {v \in low : q.rows[v] = "null"}}
    /\ Finish(r)
    /\ UNCHANGED <<org, role, accounts>>

CommitDrop(r) ==
    LET p == req[r].product IN
    /\ req[r].op = "drop"
    /\ products' = [products EXCEPT ![p].state = "none"]
    /\ access' = [access EXCEPT ![p] = [u \in Users |-> "null"]]
    /\ Finish(r)
    /\ UNCHANGED <<org, role, accounts, barred>>

\* The members go with the organization; the products are only cut loose.
Dissolve ==
    /\ org' = [org EXCEPT !.live = FALSE]
    /\ role' = [u \in Users |-> "none"]
    /\ products' = [p \in Products |->
                      IF p \in Kept THEN [products[p] EXCEPT !.state = "orphan"] ELSE products[p]]

CommitDissolve(r) ==
    /\ req[r].op = "dissolve"
    /\ Dissolve
    /\ Finish(r)
    /\ UNCHANGED <<access, accounts, barred>>

\* Memberships, rows and products of the account have their user set to NULL,
\* which their columns refuse: an account goes only when it has none.
CommitLeave(r) ==
    LET q == req[r] IN
    /\ req[r].op = "leave" /\ q.by \in accounts
    /\ IF q.dissolve THEN Dissolve ELSE UNCHANGED <<org, role, products>>
    /\ role'[q.by] = "none" /\ ~HasRows(q.by)
    /\ org'.live => org'.owner # q.by
    /\ \A p \in Products : Exists(p) => products[p].maker # q.by
    /\ accounts' = accounts \ {q.by}
    /\ Finish(r)
    /\ UNCHANGED <<access, barred>>

\* A failing statement, an exception or a crash before the commit.
Rollback(r) ==
    /\ req[r] # Idle
    /\ Finish(r)
    /\ UNCHANGED <<org, role, products, access, accounts, barred>>

\* The first request with somebody's token makes the users row.
SignUp(u) ==
    /\ u \notin accounts
    /\ accounts' = accounts \union {u}
    /\ UNCHANGED <<org, role, products, access, req, made, barred, calm>>

\* An invitation to somebody unknown makes the row, whatever becomes of the
\* request that goes on to add the member.
Invite(u) ==
    /\ u \notin accounts
    /\ \E c \in Members : Privileged(role[c])
    /\ accounts' = accounts \union {u}
    /\ UNCHANGED <<org, role, products, access, req, made, barred, calm>>

-----------------------------------------------------------------------------
\* The founder has just made the organization.
Init ==
    \E founder \in Users :
      /\ org = [live |-> TRUE, owner |-> founder]
      /\ role = [u \in Users |-> IF u = founder THEN "owner" ELSE "none"]
      /\ products = [p \in Products |-> [state |-> "none", maker |-> founder]]
      /\ access = [p \in Products |-> [u \in Users |-> "null"]]
      /\ \E known \in SUBSET Users : accounts = known \union {founder}
      /\ req = [r \in Requests |-> Idle]
      /\ made = 0 /\ barred = {} /\ calm = TRUE

Decide(r) ==
    \/ AddMember(r) \/ UpdateRole(r) \/ RemoveMember(r)
    \/ SetCollaborator(r) \/ RemoveCollaborator(r) \/ BulkSetAccess(r)
    \/ TransferOwnership(r) \/ CreateProduct(r) \/ DeleteProduct(r)
    \/ DeleteOrganization(r) \/ DeleteAccount(r)

Commit(r) ==
    \/ CommitPlan(r) \/ CommitTransfer(r) \/ CommitCreate(r) \/ CommitDrop(r)
    \/ CommitDissolve(r) \/ CommitLeave(r) \/ Rollback(r)

Next == (\E r \in Requests : Decide(r) \/ Commit(r)) \/ \E u \in Users : SignUp(u) \/ Invite(u)

Spec == Init /\ [][Next]_vars

-----------------------------------------------------------------------------
(* Properties.                                                             *)

\* Requests that follow each other leave the organization with an owner,
\* whoever promotes, demotes, transfers, leaves or deletes an account.
OwnerRemains == calm /\ org.live => Owners # {}

\* The same for requests that overlap.
SomeOwnerRemains == org.live => Owners # {}

\* Without overlaps nobody but members has access rows on the products of the
\* organization: whoever comes back later starts anew.
NoStrayAccess ==
    calm => \A p \in Kept, u \in Users : access[p][u] # "null" => u \in Members

\* Without overlaps a member or viewer has a row on every product, through
\* promotions, demotions, transfers and new products, unless somebody took it
\* away or left it out.
MembersSeeProducts ==
    calm => \A p \in Kept, u \in Members :
               ~Privileged(role[u]) /\ access[p][u] = "null" => <<p, u>> \in barred

\* Access rows follow membership, both ways.
AccessFollowsMembership == NoStrayAccess /\ MembersSeeProducts

\* Whose deletion of an account removes the organization, who is a member of
\* it, is its only member.
OthersKeepTheirs ==
    [][ org.live /\ ~org'.live /\ accounts' # accounts /\ calm
          => (org.owner \in Members => Members = {org.owner}) ]_vars

\* Nobody loses the organization with somebody else's account.
DeletionSparesOthers ==
    [][ org.live /\ ~org'.live /\ accounts' # accounts => Members \subseteq accounts \ accounts' ]_vars

\* A product belongs to an organization as long as it exists.
ProductsHaveAnOrganization == \A p \in Products : products[p].state # "orphan"
=============================================================================
