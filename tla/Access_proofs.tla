---------------------------- MODULE Access_proofs ----------------------------
(***************************************************************************)
(* Proofs about Access and RowPolicies, for any numbers of users, products *)
(* and requests.                                                           *)
(***************************************************************************)
EXTENDS RowPolicies, FiniteSetTheorems, TLAPS

-----------------------------------------------------------------------------
(* Requests in flight: what they carry.                                    *)

PlanRequests ==
    [op: {"plan"}, whom: Users, old: Roles, new: Roles, level: Levels \union {"keep"},
     was: UNION {[on -> Levels] : on \in SUBSET Products}]
TransferRequests == [op: {"transfer"}, by: Users, whom: Users, old: Roles]
CreateRequests ==
    [op: {"create"}, by: Users, product: Products,
     rows: UNION {[low -> Levels] : low \in SUBSET Users}]
DropRequests == [op: {"drop"}, product: Products]
DissolveRequests == [op: {"dissolve"}]
LeaveRequests == [op: {"leave"}, by: Users, dissolve: BOOLEAN]

RequestsOK ==
    req \in [Requests -> {Idle} \union PlanRequests \union TransferRequests \union CreateRequests
                           \union DropRequests \union DissolveRequests \union LeaveRequests]

LEMMA PlanTypes ==
    ASSUME TypeOK, NEW u \in Users, NEW old \in Roles, NEW new \in Roles,
           NEW level \in Levels \union {"keep"}, NEW on \in SUBSET Products
    PROVE  Plan(u, old, new, level, on) \in PlanRequests
<1>1. [p \in on |-> access[p][u]] \in [on -> Levels]
    BY DEF TypeOK
<1> QED  BY <1>1 DEF Plan, PlanRequests

\* A request in flight is of the kind its operation says.
LEMMA RequestKinds ==
    ASSUME RequestsOK, NEW r \in Requests
    PROVE  /\ req[r].op = "plan" => req[r] \in PlanRequests
           /\ req[r].op = "transfer" => req[r] \in TransferRequests
           /\ req[r].op = "create" => req[r] \in CreateRequests
           /\ req[r].op = "drop" => req[r] \in DropRequests
           /\ req[r].op = "leave" => req[r] \in LeaveRequests
BY DEF RequestsOK, Idle, PlanRequests, TransferRequests, CreateRequests, DropRequests,
       DissolveRequests, LeaveRequests

LEMMA PlanParts ==
    ASSUME NEW q \in PlanRequests
    PROVE  /\ q.op = "plan" /\ q.whom \in Users /\ q.old \in Roles /\ q.new \in Roles
           /\ q.level \in Levels \union {"keep"}
           /\ DOMAIN q.was \subseteq Products
           /\ \A p \in DOMAIN q.was : q.was[p] \in Levels
BY DEF PlanRequests

LEMMA CreateParts ==
    ASSUME NEW q \in CreateRequests
    PROVE  /\ q.by \in Users /\ q.product \in Products
           /\ DOMAIN q.rows \subseteq Users
           /\ \A u \in DOMAIN q.rows : q.rows[u] \in Levels
BY DEF CreateRequests

\* Asking changes the requests only.
LEMMA AskTypes ==
    ASSUME TypeOK, RequestsOK, NEW r \in Requests, NEW q, Ask(r, q),
           q \in PlanRequests \union TransferRequests \union CreateRequests
                  \union DropRequests \union DissolveRequests \union LeaveRequests
    PROVE  TypeOK' /\ RequestsOK'
<1>1. made' \in 0 .. MaxRequests
    BY AccessAssumption DEF Ask, TypeOK
<1>2. calm' \in BOOLEAN
    BY DEF Ask, TypeOK
<1>3. /\ Members' = Members /\ Kept' = Kept
      /\ \A p \in Products : Exists(p)' = Exists(p)
    BY DEF Ask, Members, Kept, Exists
<1>4. TypeOK'
    BY <1>1, <1>2, <1>3 DEF Ask, TypeOK
<1>5. RequestsOK'
    BY DEF Ask, RequestsOK
<1> QED  BY <1>4, <1>5

LEMMA LevelsHandedOut == {"keep", "viewer", "null"} \subseteq Levels \union {"keep"} /\ "none" \in Roles
BY DEF Levels, Roles

LEMMA MemberTypes == Members \subseteq Users /\ Kept \subseteq Products /\ Owners \subseteq Users
BY DEF Members, Kept, Owners

LEMMA DecideTypes ==
    ASSUME TypeOK, RequestsOK, NEW r \in Requests, Decide(r)
    PROVE  TypeOK' /\ RequestsOK'
<1> USE LevelsHandedOut, MemberTypes
<1>0. /\ \A u \in Users : role[u] \in Roles
      /\ accounts \subseteq Users
      /\ \A u \in Users, o, n \in Roles, level \in Levels \union {"keep"}, on \in SUBSET Products :
            Ask(r, Plan(u, o, n, level, on)) => TypeOK' /\ RequestsOK'
    BY PlanTypes, AskTypes DEF TypeOK
<1>1. CASE AddMember(r)
    BY <1>0, <1>1, AccessAssumption DEF AddMember
<1>2. CASE UpdateRole(r)
    <2>1. \A o, n \in Roles : OnChange(o, n) \in Levels \union {"keep"}
        BY DEF OnChange
    <2> QED  BY <1>0, <1>2, <2>1, AccessAssumption DEF UpdateRole
<1>3. CASE RemoveMember(r)
    BY <1>0, <1>3 DEF RemoveMember
<1>4. CASE SetCollaborator(r)
    BY <1>0, <1>4, AccessAssumption DEF SetCollaborator
<1>5. CASE RemoveCollaborator(r)
    BY <1>0, <1>5 DEF RemoveCollaborator
<1>6. CASE BulkSetAccess(r)
    BY <1>0, <1>6, AccessAssumption DEF BulkSetAccess
<1>7. CASE TransferOwnership(r)
    <2>1. \A c, u \in Users :
             [op |-> "transfer", by |-> c, whom |-> u, old |-> role[u]] \in TransferRequests
        BY <1>0 DEF TransferRequests
    <2> QED  BY <1>7, <2>1, AskTypes DEF TransferOwnership
<1>8. CASE CreateProduct(r)
    <2>1. PICK c \in Members, p \in Products :
             \E l \in [{u \in Members : ~Privileged(role[u])}
                          -> {"null", "viewer"} \union (Grants \ {"none"})] :
               Ask(r, [op |-> "create", by |-> c, product |-> p, rows |-> l])
        BY <1>8 DEF CreateProduct
    <2>2. PICK l \in [{u \in Members : ~Privileged(role[u])}
                          -> {"null", "viewer"} \union (Grants \ {"none"})] :
             Ask(r, [op |-> "create", by |-> c, product |-> p, rows |-> l])
        BY <2>1
    <2>3. l \in UNION {[low -> Levels] : low \in SUBSET Users}
        <3> DEFINE low == {u \in Members : ~Privileged(role[u])}
        <3>1. low \in SUBSET Users
            OBVIOUS
        <3>2. l \in [low -> Levels]
            BY <2>2, AccessAssumption DEF Levels
        <3> HIDE DEF low
        <3> QED  BY <3>1, <3>2
    <2>4. [op |-> "create", by |-> c, product |-> p, rows |-> l] \in CreateRequests
        BY <2>3 DEF CreateRequests
    <2> QED  BY <2>2, <2>4, AskTypes
<1>9. CASE DeleteProduct(r)
    <2>1. \A p \in Products : [op |-> "drop", product |-> p] \in DropRequests
        BY DEF DropRequests
    <2> QED  BY <1>9, <2>1, AskTypes DEF DeleteProduct
<1>10. CASE DeleteOrganization(r)
    <2>1. [op |-> "dissolve"] \in DissolveRequests
        BY DEF DissolveRequests
    <2> QED  BY <1>10, <2>1, AskTypes DEF DeleteOrganization
<1>11. CASE DeleteAccount(r)
    <2>1. \A u \in Users : [op |-> "leave", by |-> u, dissolve |-> Deletable(u)] \in LeaveRequests
        BY DEF LeaveRequests, Deletable
    <2> QED  BY <1>0, <1>11, <2>1, AskTypes DEF DeleteAccount
<1> QED
    BY <1>1, <1>2, <1>3, <1>4, <1>5, <1>6, <1>7, <1>8, <1>9, <1>10, <1>11 DEF Decide

-----------------------------------------------------------------------------
(* Commits.                                                                *)

LEMMA FinishTypes ==
    ASSUME TypeOK, RequestsOK, NEW r \in Requests, Finish(r)
    PROVE  RequestsOK' /\ made' \in 0 .. MaxRequests /\ calm' \in BOOLEAN
BY DEF Finish, TypeOK, RequestsOK

\* What a plan's access rows become, level by level.
LEMMA RowCases ==
    ASSUME NEW q, NEW p
    PROVE  \/ RowAfter(q, p) = access[p][q.whom]
           \/ /\ RowAfter(q, p) = q.level
              /\ q.level # "keep" /\ p \in DOMAIN q.was /\ q.level # q.was[p]
BY DEF RowAfter

LEMMA PlanRows ==
    ASSUME TypeOK, RequestsOK, NEW r \in Requests, CommitPlan(r)
    PROVE  /\ access' \in [Products -> [Users -> Levels]]
           /\ \A p \in Products, u \in Users :
                access'[p][u] = IF u = req[r].whom THEN RowAfter(req[r], p) ELSE access[p][u]
<1> DEFINE q == req[r]
<1>1. q \in PlanRequests
    BY RequestKinds DEF CommitPlan
<1>2. /\ q.whom \in Users /\ q.level \in Levels \union {"keep"}
    BY <1>1, PlanParts
<1>3. \A p \in Products : RowAfter(q, p) \in Levels
    BY <1>2, RowCases DEF TypeOK
<1>4. access' = [p \in Products |-> [access[p] EXCEPT ![q.whom] = RowAfter(q, p)]]
    BY DEF CommitPlan
<1> HIDE DEF q
<1>5. \A p \in Products : access[p] \in [Users -> Levels]
    BY DEF TypeOK
<1>6. \A p \in Products : [access[p] EXCEPT ![q.whom] = RowAfter(q, p)] \in [Users -> Levels]
    BY <1>2, <1>3, <1>5
<1>7. \A p \in Products, u \in Users :
         access'[p][u] = IF u = q.whom THEN RowAfter(q, p) ELSE access[p][u]
    BY <1>2, <1>4, <1>5
<1> QED  BY <1>4, <1>6, <1>7 DEF q

\* The membership a plan leaves: it is there only in an organization that is.
LEMMA PlanRole ==
    ASSUME TypeOK, RequestsOK, NEW r \in Requests, CommitPlan(r)
    PROVE  /\ role' \in [Users -> Roles]
           /\ Members' \subseteq accounts
           /\ ~org.live => Members' = {}
<1> DEFINE q == req[r]
<1>1. q \in PlanRequests
    BY RequestKinds DEF CommitPlan
<1>2. q.whom \in Users /\ q.old \in Roles /\ q.new \in Roles
    BY <1>1, PlanParts
<1>3. /\ role' = IF q.old = q.new THEN role ELSE [role EXCEPT ![q.whom] = q.new]
      /\ RoleFits(q)
    BY DEF CommitPlan
<1> HIDE DEF q
<1>4. role' \in [Users -> Roles]
    BY <1>2, <1>3 DEF TypeOK
<1>5. CASE q.old = q.new \/ q.new = "none"
    <2>1. Members' \subseteq Members
        BY <1>2, <1>3, <1>5 DEF Members, TypeOK
    <2> QED  BY <1>4, <2>1 DEF TypeOK
<1>6. CASE q.old # q.new /\ q.new # "none"
    <2>1. q.whom \in accounts /\ org.live
        BY <1>2, <1>3, <1>6 DEF RoleFits, TypeOK, Members
    <2>2. Members' \subseteq Members \union {q.whom}
        BY <1>2, <1>3 DEF Members, TypeOK
    <2> QED  BY <1>4, <2>1, <2>2 DEF TypeOK
<1> QED  BY <1>5, <1>6

LEMMA PlanCommitTypes ==
    ASSUME TypeOK, RequestsOK, NEW r \in Requests, CommitPlan(r)
    PROVE  TypeOK' /\ RequestsOK'
<1> DEFINE q == req[r]
<1>1. q \in PlanRequests
    BY RequestKinds DEF CommitPlan
<1>2. /\ q.whom \in Users /\ DOMAIN q.was \subseteq Products
      /\ \A p \in DOMAIN q.was : q.was[p] \in Levels
    BY <1>1, PlanParts
<1>3. RowsFit(q)
    BY DEF CommitPlan
<1>4. UNCHANGED <<org, products, accounts>> /\ Finish(r)
    BY DEF CommitPlan
<1>5. \A p \in Products, u \in Users :
         access'[p][u] = IF u = q.whom THEN RowAfter(q, p) ELSE access[p][u]
    BY PlanRows
<1> HIDE DEF q
<1>6. \A p \in Products, u \in Users :
         access'[p][u] # "null" => Exists(p) /\ u \in accounts
    <2> SUFFICES ASSUME NEW p \in Products, NEW u \in Users, access'[p][u] # "null"
                 PROVE  Exists(p) /\ u \in accounts
        OBVIOUS
    <2>1. CASE access'[p][u] = access[p][u]
        BY <2>1 DEF TypeOK
    <2>2. CASE access'[p][u] # access[p][u]
        <3>1. /\ u = q.whom /\ p \in DOMAIN q.was
              /\ q.level \notin {"keep", "null"}
            BY <1>5, <2>2, RowCases
        <3> QED  BY <1>2, <1>3, <3>1 DEF RowsFit, TypeOK
    <2> QED  BY <2>1, <2>2
<1>7. Kept' = Kept /\ \A p \in Products : Exists(p)' = Exists(p)
    BY <1>4 DEF Kept, Exists
<1> QED  BY <1>4, <1>6, <1>7, PlanRows, PlanRole, FinishTypes DEF TypeOK

LEMMA TransferCommitTypes ==
    ASSUME TypeOK, RequestsOK, NEW r \in Requests, CommitTransfer(r)
    PROVE  TypeOK' /\ RequestsOK'
<1> DEFINE q == req[r]
<1>1. q.by \in Users /\ q.whom \in Users
    BY RequestKinds DEF CommitTransfer, TransferRequests
<1>2. /\ org.live /\ role[q.by] # "none" /\ q.whom \in accounts
      /\ org' = [org EXCEPT !.owner = q.whom]
      /\ role' = [role EXCEPT ![q.by] = "admin",
                              ![q.whom] = IF q.old = "owner" THEN @ ELSE "owner"]
      /\ Finish(r)
      /\ UNCHANGED <<products, access, accounts, barred>>
    BY DEF CommitTransfer
<1> HIDE DEF q
<1>3. q.by \in accounts
    BY <1>1, <1>2 DEF TypeOK, Members
<1>4. role' \in [Users -> Roles]
    BY <1>1, <1>2 DEF TypeOK, Roles
<1>5. Members' \subseteq Members \union {q.by, q.whom}
    BY <1>1, <1>2 DEF Members, TypeOK
<1>6. org' \in [live: BOOLEAN, owner: Users] /\ org'.live /\ org'.owner = q.whom
    BY <1>1, <1>2 DEF TypeOK
<1>7. \A p \in Products : Exists(p)' = Exists(p)
    BY <1>2 DEF Exists
<1> QED  BY <1>2, <1>3, <1>4, <1>5, <1>6, <1>7, FinishTypes DEF TypeOK

LEMMA CreateCommitTypes ==
    ASSUME TypeOK, RequestsOK, NEW r \in Requests, CommitCreate(r)
    PROVE  TypeOK' /\ RequestsOK'
<1> DEFINE q == req[r]
           low == DOMAIN q.rows
<1>1. /\ q.by \in Users /\ q.product \in Products /\ low \subseteq Users
      /\ \A u \in low : q.rows[u] \in Levels
    BY RequestKinds, CreateParts DEF CommitCreate
<1>2. /\ org.live
      /\ q.by \in accounts /\ {u \in low : q.rows[u] # "null"} \subseteq accounts
      /\ products' = [products EXCEPT ![q.product] = [state |-> "kept", maker |-> q.by]]
      /\ access' = [access EXCEPT ![q.product] =
                       [u \in Users |-> IF u \in low THEN q.rows[u] ELSE "null"]]
      /\ Finish(r)
      /\ UNCHANGED <<org, role, accounts>>
    BY DEF CommitCreate
<1> HIDE DEF q, low
<1>3. [u \in Users |-> IF u \in low THEN q.rows[u] ELSE "null"] \in [Users -> Levels]
    BY <1>1 DEF Levels
<1>4. access' \in [Products -> [Users -> Levels]]
    BY <1>1, <1>2, <1>3 DEF TypeOK
<1>5. products' \in [Products -> [state: {"none", "kept", "orphan"}, maker: Users]]
    BY <1>1, <1>2 DEF TypeOK
<1>6. \A p \in Products : Exists(p)' => products'[p].maker \in accounts
    BY <1>1, <1>2 DEF TypeOK, Exists
<1>7. \A p \in Products, u \in Users : access'[p][u] # "null" => Exists(p)' /\ u \in accounts
    BY <1>1, <1>2 DEF TypeOK, Exists
<1>8. Members' = Members
    BY <1>2 DEF Members
<1> QED  BY <1>2, <1>4, <1>5, <1>6, <1>7, <1>8, FinishTypes DEF TypeOK

LEMMA DropCommitTypes ==
    ASSUME TypeOK, RequestsOK, NEW r \in Requests, CommitDrop(r)
    PROVE  TypeOK' /\ RequestsOK'
<1> DEFINE p == req[r].product
<1>1. p \in Products
    BY RequestKinds DEF CommitDrop, DropRequests
<1>2. /\ products' = [products EXCEPT ![p].state = "none"]
      /\ access' = [access EXCEPT ![p] = [u \in Users |-> "null"]]
      /\ Finish(r)
      /\ UNCHANGED <<org, role, accounts, barred>>
    BY DEF CommitDrop
<1> HIDE DEF p
<1>3. products' \in [Products -> [state: {"none", "kept", "orphan"}, maker: Users]]
    BY <1>1, <1>2 DEF TypeOK
<1>4. access' \in [Products -> [Users -> Levels]]
    BY <1>1, <1>2 DEF TypeOK, Levels
<1>5. /\ \A x \in Products : Exists(x)' => Exists(x) /\ products'[x].maker = products[x].maker
      /\ \A x \in Products, u \in Users :
            access'[x][u] # "null" => Exists(x)' /\ access[x][u] # "null"
      /\ Kept' \subseteq Kept /\ Members' = Members
    BY <1>1, <1>2 DEF TypeOK, Exists, Kept, Members
<1> QED  BY <1>2, <1>3, <1>4, <1>5, FinishTypes DEF TypeOK

\* Without an organization there are no members, and no product is kept.
LEMMA DissolveTypes ==
    ASSUME TypeOK, Dissolve
    PROVE  /\ org' \in [live: BOOLEAN, owner: Users] /\ ~org'.live
           /\ role' \in [Users -> Roles] /\ Members' = {} /\ Kept' = {}
           /\ products' \in [Products -> [state: {"none", "kept", "orphan"}, maker: Users]]
           /\ \A p \in Products : Exists(p)' = Exists(p) /\ products'[p].maker = products[p].maker
<1>1. org' \in [live: BOOLEAN, owner: Users] /\ ~org'.live
    BY DEF TypeOK, Dissolve
<1>2. role' \in [Users -> Roles] /\ Members' = {}
    BY DEF Dissolve, Roles, Members
<1>3. /\ products' \in [Products -> [state: {"none", "kept", "orphan"}, maker: Users]]
      /\ \A p \in Products : Exists(p)' = Exists(p) /\ products'[p].maker = products[p].maker
      /\ Kept' = {}
    BY DEF TypeOK, Dissolve, Kept, Exists
<1> QED  BY <1>1, <1>2, <1>3

LEMMA DissolveCommitTypes ==
    ASSUME TypeOK, RequestsOK, NEW r \in Requests, CommitDissolve(r)
    PROVE  TypeOK' /\ RequestsOK'
<1>1. Dissolve /\ Finish(r) /\ UNCHANGED <<access, accounts, barred>>
    BY DEF CommitDissolve
<1> QED  BY <1>1, DissolveTypes, FinishTypes DEF TypeOK

LEMMA LeaveCommitTypes ==
    ASSUME TypeOK, RequestsOK, NEW r \in Requests, CommitLeave(r)
    PROVE  TypeOK' /\ RequestsOK'
<1> DEFINE u == req[r].by
<1>1. u \in Users
    BY RequestKinds DEF CommitLeave, LeaveRequests
<1>2. /\ Dissolve \/ UNCHANGED <<org, role, products>>
      /\ role'[u] = "none" /\ ~HasRows(u)
      /\ org'.live => org'.owner # u
      /\ \A p \in Products : Exists(p) => products[p].maker # u
      /\ accounts' = accounts \ {u}
      /\ Finish(r)
      /\ UNCHANGED <<access, barred>>
    BY DEF CommitLeave
<1> HIDE DEF u
<1>3. \A p \in Products, v \in Users : access[p][v] # "null" => v # u
    BY <1>2 DEF HasRows
<1>4. Members' \subseteq Members \ {u}
    <2>1. Members' \subseteq Members
        BY <1>2, DissolveTypes DEF Members
    <2>2. u \notin Members'
        BY <1>2 DEF Members
    <2> QED  BY <2>1, <2>2
<1>5. CASE Dissolve
    BY <1>2, <1>3, <1>4, <1>5, DissolveTypes, FinishTypes DEF TypeOK
<1>6. CASE UNCHANGED <<org, role, products>>
    <2>1. Kept' = Kept /\ \A p \in Products : Exists(p)' = Exists(p)
        BY <1>6 DEF Kept, Exists
    <2> QED  BY <1>2, <1>3, <1>4, <1>6, <2>1, FinishTypes DEF TypeOK
<1> QED  BY <1>2, <1>5, <1>6

LEMMA CommitTypes ==
    ASSUME TypeOK, RequestsOK, NEW r \in Requests, Commit(r)
    PROVE  TypeOK' /\ RequestsOK'
<1>1. CASE Rollback(r)
    <2>1. UNCHANGED <<org, role, products, access, accounts>> /\ Finish(r)
        BY <1>1 DEF Rollback
    <2>2. Members' = Members /\ Kept' = Kept /\ \A p \in Products : Exists(p)' = Exists(p)
        BY <2>1 DEF Members, Kept, Exists
    <2> QED  BY <2>1, <2>2, FinishTypes DEF TypeOK
<1> QED
    BY <1>1, PlanCommitTypes, TransferCommitTypes, CreateCommitTypes, DropCommitTypes,
       DissolveCommitTypes, LeaveCommitTypes DEF Commit

\* New accounts disturb nothing else.
NewAccount(u) ==
    /\ u \in Users /\ accounts' = accounts \union {u}
    /\ UNCHANGED <<org, role, products, access, req, made, barred, calm>>

LEMMA NewAccountTypes ==
    ASSUME TypeOK, RequestsOK, NEW u \in Users, NewAccount(u)
    PROVE  TypeOK' /\ RequestsOK'
<1>1. Members' = Members /\ Kept' = Kept /\ \A p \in Products : Exists(p)' = Exists(p)
    BY DEF NewAccount, Members, Kept, Exists
<1> QED  BY <1>1 DEF NewAccount, TypeOK, RequestsOK

\* Every step is a request that is made, one that ends, a new account, or none.
LEMMA Steps ==
    ASSUME [Next]_vars
    PROVE  \/ \E r \in Requests : Decide(r) \/ Commit(r)
           \/ \E u \in Users : NewAccount(u)
           \/ UNCHANGED vars
BY DEF Next, SignUp, Invite, NewAccount

LEMMA InitTypes == Init => TypeOK /\ RequestsOK
<1> SUFFICES ASSUME Init PROVE TypeOK /\ RequestsOK
    OBVIOUS
<1>1. PICK founder \in Users :
        /\ org = [live |-> TRUE, owner |-> founder]
        /\ role = [u \in Users |-> IF u = founder THEN "owner" ELSE "none"]
        /\ products = [p \in Products |-> [state |-> "none", maker |-> founder]]
        /\ access = [p \in Products |-> [u \in Users |-> "null"]]
        /\ \E known \in SUBSET Users : accounts = known \union {founder}
        /\ req = [r \in Requests |-> Idle]
        /\ made = 0 /\ barred = {} /\ calm = TRUE
    BY DEF Init
<1>2. Members = {founder} /\ \A p \in Products : ~Exists(p)
    BY <1>1 DEF Members, Exists
<1>3. role \in [Users -> Roles] /\ access \in [Products -> [Users -> Levels]]
    BY <1>1 DEF Roles, Levels
<1>4. made \in 0 .. MaxRequests
    BY <1>1, AccessAssumption
<1>5. products \in [Products -> [state: {"none", "kept", "orphan"}, maker: Users]]
    BY <1>1
<1> QED  BY <1>1, <1>2, <1>3, <1>4, <1>5 DEF TypeOK, RequestsOK

LEMMA TypeStep ==
    ASSUME TypeOK, RequestsOK, [Next]_vars
    PROVE  TypeOK' /\ RequestsOK'
<1>1. CASE UNCHANGED vars
    <2>1. Members' = Members /\ Kept' = Kept /\ \A p \in Products : Exists(p)' = Exists(p)
        BY <1>1 DEF vars, Members, Kept, Exists
    <2> QED  BY <1>1, <2>1 DEF vars, TypeOK, RequestsOK
<1> QED  BY <1>1, Steps, DecideTypes, CommitTypes, NewAccountTypes

\* Types; rows refer to rows that exist, whatever requests overlap: a member has
\* an account, an organization an owner's account, an access row a product and
\* an account.
THEOREM TypeCorrect == Spec => [](TypeOK /\ RequestsOK)
<1>1. TypeOK /\ RequestsOK /\ [Next]_vars => (TypeOK /\ RequestsOK)'
    BY TypeStep
<1> QED  BY <1>1, InitTypes, PTL DEF Spec

-----------------------------------------------------------------------------
(* While requests follow each other, the one in flight is up to date: what *)
(* it has read is still so when it commits.                                *)

Listed(q) == DOMAIN q.was

\* What a plan does to a membership, as far as the properties depend on it.
PlanIsCurrent(q) ==
    /\ q.old = role[q.whom]
    /\ \A p \in Listed(q) : q.was[p] = access[p][q.whom]
    /\ q.old # q.new =>
         /\ Listed(q) = Kept
         /\ q.new # "owner" => ~OnlyOwner(q.whom)
         /\ q.new = "none" => q.level = "null"
         /\ q.new # "none" /\ ~Privileged(q.new) =>
              \/ q.level = "viewer"
              \/ q.level = "keep" /\ q.old # "none" /\ ~Privileged(q.old)
    /\ q.old = q.new /\ q.old = "none" => q.level = "null"

IsCurrent(q) ==
    /\ q.op = "plan" => PlanIsCurrent(q)
    /\ q.op = "transfer" => role[q.by] = "owner" /\ q.by # q.whom /\ q.old = role[q.whom]
    /\ q.op = "create" => DOMAIN q.rows = {u \in Members : ~Privileged(role[u])}
    /\ q.op = "leave" /\ q.dissolve => Deletable(q.by)

Alone == \A r, s \in Requests : req[r] # Idle /\ req[s] # Idle => r = s
AllCurrent == \A r \in Requests : req[r] # Idle => IsCurrent(req[r])
CalmIsCurrent == calm => Alone /\ AllCurrent

Inv == TypeOK /\ RequestsOK /\ CalmIsCurrent /\ OwnerRemains /\ AccessFollowsMembership

\* What a request depends on is the organization, the roles, products and rows.
LEMMA StaysCurrent ==
    ASSUME UNCHANGED <<org, role, products, access>>, NEW q, IsCurrent(q)
    PROVE  IsCurrent(q)'
BY DEF IsCurrent, PlanIsCurrent, Listed, Deletable, OnlyOwner, Members, Owners, Kept

\* What a request plans is current when it is made.
LEMMA AskIsCurrent ==
    ASSUME Inv, NEW r \in Requests, NEW q, Ask(r, q), IsCurrent(q)
    PROVE  CalmIsCurrent'
<1>1. UNCHANGED <<org, role, products, access>> /\ req' = [req EXCEPT ![r] = q]
    BY DEF Ask
<1>2. calm' => \A s \in Requests : req[s] = Idle
    BY DEF Ask, Running
<1>3. calm' => Alone'
    BY <1>1, <1>2 DEF Alone, Inv, RequestsOK
<1>4. req'[r] = q /\ \A s \in Requests : s # r => req'[s] = req[s]
    BY <1>1 DEF Inv, RequestsOK
<1>5. IsCurrent(q)'
    BY <1>1, StaysCurrent
<1>6. IsCurrent(req[r])'
    BY <1>4, <1>5
<1>7. ASSUME calm', NEW s \in Requests, req'[s] # Idle
      PROVE  IsCurrent(req[s])'
    <2>1. s = r
        BY <1>2, <1>4, <1>7
    <2> QED  BY <1>6, <2>1
<1> QED  BY <1>3, <1>7 DEF CalmIsCurrent, AllCurrent

\* A plan is current when it has the role it read and changes it as the
\* endpoints do; its rows are those it lists.
LEMMA PlanAsksCurrent ==
    ASSUME Inv, NEW r \in Requests, NEW u \in Users, NEW new, NEW level, NEW on \in SUBSET Products,
           Ask(r, Plan(u, role[u], new, level, on)),
           role[u] # new =>
             /\ on = Kept
             /\ new # "owner" => ~OnlyOwner(u)
             /\ new = "none" => level = "null"
             /\ new # "none" /\ ~Privileged(new) =>
                  \/ level = "viewer"
                  \/ level = "keep" /\ role[u] # "none" /\ ~Privileged(role[u]),
           role[u] = new /\ new = "none" => level = "null"
    PROVE  CalmIsCurrent'
<1> DEFINE q == Plan(u, role[u], new, level, on)
<1>1. /\ q.op = "plan" /\ q.whom = u /\ q.old = role[u] /\ q.new = new /\ q.level = level
      /\ Listed(q) = on /\ \A p \in on : q.was[p] = access[p][u]
    BY DEF Plan, Listed
<1> HIDE DEF q
<1>2. PlanIsCurrent(q)
    BY <1>1 DEF PlanIsCurrent
<1>3. IsCurrent(q)
    BY <1>1, <1>2 DEF IsCurrent
<1> QED  BY <1>3, AskIsCurrent DEF q

LEMMA DecideIsCurrent ==
    ASSUME Inv, NEW r \in Requests, Decide(r)
    PROVE  CalmIsCurrent'
<1> USE MemberTypes
<1>0. /\ accounts \subseteq Users
      /\ \A u \in accounts \ Members : role[u] = "none"
      /\ \A u \in Members : role[u] # "none"
      /\ \A u \in Users : OnlyOwner(u) => role[u] = "owner"
    BY DEF Inv, TypeOK, Members, OnlyOwner, Owners
<1>1. CASE AddMember(r)
    <2>1. PICK c \in Members, u \in accounts \ Members, new \in Ranks \ {"none"} :
             Ask(r, Plan(u, role[u], new, IF Privileged(new) THEN "keep" ELSE "viewer", Kept))
        BY <1>0, <1>1 DEF AddMember
    <2> QED  BY <1>0, <2>1, PlanAsksCurrent
<1>2. CASE UpdateRole(r)
    <2>1. PICK c \in Members, u \in Members, new \in Ranks \ {"none"} :
             /\ MayChange(c, u, new)
             /\ Ask(r, Plan(u, role[u], new, OnChange(role[u], new), Kept))
        BY <1>2 DEF UpdateRole
    <2>2. new # "owner" => ~OnlyOwner(u)
        BY <2>1 DEF MayChange
    <2>3. ~Privileged(new) => OnChange(role[u], new) = IF Privileged(role[u]) THEN "viewer" ELSE "keep"
        BY DEF OnChange
    <2> QED  BY <1>0, <2>1, <2>2, <2>3, PlanAsksCurrent
<1>3. CASE RemoveMember(r)
    <2>1. PICK c \in Members, u \in Members :
             MayRemove(c, u) /\ Ask(r, Plan(u, role[u], "none", "null", Kept))
        BY <1>3 DEF RemoveMember
    <2>2. ~OnlyOwner(u)
        BY <2>1 DEF MayRemove
    <2> QED  BY <1>0, <2>1, <2>2, PlanAsksCurrent
<1>4. CASE SetCollaborator(r)
    <2>1. PICK p \in Kept, u \in Members, l \in Grants : Ask(r, Plan(u, role[u], role[u], l, {p}))
        BY <1>4 DEF SetCollaborator
    <2> QED  BY <1>0, <2>1, PlanAsksCurrent, SMTT(30)
<1>5. CASE RemoveCollaborator(r)
    <2>1. PICK p \in Kept, u \in accounts : Ask(r, Plan(u, role[u], role[u], "null", {p}))
        BY <1>5 DEF RemoveCollaborator
    <2> QED  BY <1>0, <2>1, PlanAsksCurrent, SMTT(30)
<1>6. CASE BulkSetAccess(r)
    <2>1. PICK u \in Members, l \in Grants \union {"null"} : Ask(r, Plan(u, role[u], role[u], l, Kept))
        BY <1>6 DEF BulkSetAccess
    <2> QED  BY <1>0, <2>1, PlanAsksCurrent
<1>7. CASE TransferOwnership(r)
    <2>1. PICK c \in Owners, u \in Members :
             c # u /\ Ask(r, [op |-> "transfer", by |-> c, whom |-> u, old |-> role[u]])
        BY <1>7 DEF TransferOwnership
    <2>2. IsCurrent([op |-> "transfer", by |-> c, whom |-> u, old |-> role[u]])
        BY <2>1 DEF IsCurrent, Owners
    <2> QED  BY <2>1, <2>2, AskIsCurrent
<1>8. CASE CreateProduct(r)
    <2>1. PICK c \in Members, p \in Products :
             \E l \in [{u \in Members : ~Privileged(role[u])}
                          -> {"null", "viewer"} \union (Grants \ {"none"})] :
               Ask(r, [op |-> "create", by |-> c, product |-> p, rows |-> l])
        BY <1>8 DEF CreateProduct
    <2>2. PICK l \in [{u \in Members : ~Privileged(role[u])}
                          -> {"null", "viewer"} \union (Grants \ {"none"})] :
             Ask(r, [op |-> "create", by |-> c, product |-> p, rows |-> l])
        BY <2>1
    <2>3. IsCurrent([op |-> "create", by |-> c, product |-> p, rows |-> l])
        BY <2>2 DEF IsCurrent
    <2> QED  BY <2>2, <2>3, AskIsCurrent
<1>9. CASE DeleteProduct(r)
    <2>1. PICK p \in Kept : Ask(r, [op |-> "drop", product |-> p])
        BY <1>9 DEF DeleteProduct
    <2>2. IsCurrent([op |-> "drop", product |-> p])
        BY DEF IsCurrent
    <2> QED  BY <2>1, <2>2, AskIsCurrent
<1>10. CASE DeleteOrganization(r)
    <2>1. IsCurrent([op |-> "dissolve"])
        BY DEF IsCurrent
    <2> QED  BY <1>10, <2>1, AskIsCurrent DEF DeleteOrganization
<1>11. CASE DeleteAccount(r)
    <2>1. PICK u \in accounts : Ask(r, [op |-> "leave", by |-> u, dissolve |-> Deletable(u)])
        BY <1>11 DEF DeleteAccount
    <2>2. IsCurrent([op |-> "leave", by |-> u, dissolve |-> Deletable(u)])
        BY DEF IsCurrent
    <2> QED  BY <2>1, <2>2, AskIsCurrent
<1> QED
    BY <1>1, <1>2, <1>3, <1>4, <1>5, <1>6, <1>7, <1>8, <1>9, <1>10, <1>11 DEF Decide

\* A commit ends the only request in flight.
LEMMA FinishIsCurrent ==
    ASSUME Inv, NEW r \in Requests, req[r] # Idle, Finish(r)
    PROVE  /\ CalmIsCurrent' /\ calm' = calm
           /\ calm => IsCurrent(req[r])
<1>1. calm' = calm /\ (calm => Alone /\ IsCurrent(req[r]))
    BY DEF Inv, CalmIsCurrent, AllCurrent, Finish
<1>2. calm => \A s \in Requests : req'[s] = Idle
    BY <1>1 DEF Finish, Alone, Inv, RequestsOK
<1> QED  BY <1>1, <1>2 DEF CalmIsCurrent, Alone, AllCurrent

-----------------------------------------------------------------------------
(* Who owns the organization and who sees its products, commit by commit.  *)

Good == OwnerRemains /\ AccessFollowsMembership

LEMMA NothingChanges ==
    ASSUME Inv, UNCHANGED <<org, role, products, access, barred>>, calm' => calm
    PROVE  Good'
<1>1. Owners' = Owners /\ Members' = Members /\ Kept' = Kept
    BY DEF Owners, Members, Kept
<1> QED
    BY <1>1 DEF Inv, Good, OwnerRemains, AccessFollowsMembership, NoStrayAccess, MembersSeeProducts

LEMMA AskIsGood ==
    ASSUME Inv, NEW r \in Requests, NEW q, Ask(r, q)
    PROVE  Good'
BY NothingChanges DEF Ask

LEMMA DecideIsGood ==
    ASSUME Inv, NEW r \in Requests, Decide(r)
    PROVE  Good'
<1>1. UNCHANGED <<org, role, products, access, barred>> /\ (calm' => calm)
    BY DEF Decide, AddMember, UpdateRole, RemoveMember, SetCollaborator, RemoveCollaborator,
           BulkSetAccess, TransferOwnership, CreateProduct, DeleteProduct, DeleteOrganization,
           DeleteAccount, Ask
<1> QED  BY <1>1, NothingChanges

\* A plan that is current takes the last owner from no organization.
LEMMA PlanOwner ==
    ASSUME Inv, NEW r \in Requests, CommitPlan(r)
    PROVE  OwnerRemains'
<1> DEFINE q == req[r]
<1>1. q \in PlanRequests
    BY RequestKinds DEF CommitPlan, Inv
<1>2. q.op = "plan" /\ q.whom \in Users /\ q.new \in Roles
    BY <1>1, PlanParts
<1>3. /\ role' = IF q.old = q.new THEN role ELSE [role EXCEPT ![q.whom] = q.new]
      /\ UNCHANGED org /\ Finish(r) /\ q # Idle
    BY <1>2 DEF CommitPlan, Idle
<1>4. calm' = calm /\ (calm => PlanIsCurrent(q))
    BY <1>2, <1>3, FinishIsCurrent DEF IsCurrent
<1> HIDE DEF q
<1> SUFFICES ASSUME calm, org.live PROVE Owners' # {}
    BY <1>3, <1>4 DEF OwnerRemains
<1>5. Owners # {}
    BY DEF Inv, OwnerRemains
<1>6. CASE q.old = q.new
    BY <1>3, <1>5, <1>6 DEF Owners
<1>7. CASE q.old # q.new /\ q.new = "owner"
    BY <1>2, <1>3, <1>7 DEF Owners, Inv, TypeOK
<1>8. CASE q.old # q.new /\ q.new # "owner"
    <2>1. Owners # {q.whom}
        BY <1>4, <1>8 DEF PlanIsCurrent, OnlyOwner
    <2>2. PICK u \in Owners : u # q.whom
        BY <1>5, <2>1
    <2> QED  BY <1>2, <1>3, <1>8, <2>2 DEF Owners, Inv, TypeOK
<1> QED  BY <1>6, <1>7, <1>8

\* A plan that is current gives access rows to members only.
LEMMA PlanStrays ==
    ASSUME Inv, NEW r \in Requests, CommitPlan(r)
    PROVE  NoStrayAccess'
<1> DEFINE q == req[r]
<1>1. q \in PlanRequests
    BY RequestKinds DEF CommitPlan, Inv
<1>2. q.op = "plan" /\ q.whom \in Users /\ q.new \in Roles
    BY <1>1, PlanParts
<1>3. /\ role' = IF q.old = q.new THEN role ELSE [role EXCEPT ![q.whom] = q.new]
      /\ UNCHANGED products /\ Finish(r) /\ q # Idle
    BY <1>2 DEF CommitPlan, Idle
<1>4. calm' = calm /\ (calm => PlanIsCurrent(q))
    BY <1>2, <1>3, FinishIsCurrent DEF IsCurrent
<1>5. \A p \in Products, u \in Users :
         access'[p][u] = IF u = q.whom THEN RowAfter(q, p) ELSE access[p][u]
    BY PlanRows DEF Inv
<1> HIDE DEF q
<1>6. \A u \in Users : u # q.whom => role'[u] = role[u]
    BY <1>2, <1>3 DEF Inv, TypeOK
<1>7. role'[q.whom] = IF q.old = q.new THEN role[q.whom] ELSE q.new
    BY <1>2, <1>3 DEF Inv, TypeOK
<1> SUFFICES ASSUME calm, NEW p \in Kept, NEW u \in Users, access'[p][u] # "null"
             PROVE  role'[u] # "none"
    BY <1>3, <1>4 DEF NoStrayAccess, Members, Kept
<1>8. p \in Products /\ \A v \in Users : access[p][v] # "null" => role[v] # "none"
    BY DEF Inv, AccessFollowsMembership, NoStrayAccess, Members, Kept
<1>9. CASE u # q.whom
    BY <1>5, <1>6, <1>8, <1>9
<1>10. CASE u = q.whom
    <2>1. SUFFICES ASSUME role'[u] = "none" PROVE FALSE
        OBVIOUS
    <2>2. q.level = "null" /\ (q.old # q.new => p \in DOMAIN q.was)
        BY <1>4, <1>7, <1>10, <2>1 DEF PlanIsCurrent, Listed
    <2>3. p \in DOMAIN q.was => q.was[p] = access[p][u]
        BY <1>4, <1>10 DEF PlanIsCurrent, Listed
    <2>4. RowAfter(q, p) # "null"
        BY <1>5, <1>8, <1>10
    <2>5. p \notin DOMAIN q.was /\ access[p][u] # "null"
        BY <1>10, <2>2, <2>3, <2>4 DEF RowAfter
    <2> QED  BY <1>7, <1>8, <1>10, <2>1, <2>2, <2>5
<1> QED  BY <1>9, <1>10

\* The member whom a plan is about keeps sight of the products, or is barred.
LEMMA PlanSight ==
    ASSUME Inv, NEW r \in Requests, CommitPlan(r)
    PROVE  MembersSeeProducts'
<1> DEFINE q == req[r]
           touched == (DOMAIN q.was) \X {q.whom}
<1>1. q \in PlanRequests
    BY RequestKinds DEF CommitPlan, Inv
<1>2. q.op = "plan" /\ q.whom \in Users /\ q.new \in Roles
    BY <1>1, PlanParts
<1>3. /\ role' = IF q.old = q.new THEN role ELSE [role EXCEPT ![q.whom] = q.new]
      /\ UNCHANGED products /\ Finish(r) /\ q # Idle
    BY <1>2 DEF CommitPlan, Idle
<1>4. calm' = calm /\ (calm => PlanIsCurrent(q))
    BY <1>2, <1>3, FinishIsCurrent DEF IsCurrent
<1>5. \A p \in Products, u \in Users :
         access'[p][u] = IF u = q.whom THEN RowAfter(q, p) ELSE access[p][u]
    BY PlanRows DEF Inv
<1>6. barred' = CASE q.level = "keep" -> barred
                  [] q.level \in {"null", "none"} /\ q.old = q.new -> barred \union touched
                  [] OTHER -> barred \ touched
    BY DEF CommitPlan
<1>7. /\ q.level = "keep" => barred' = barred
      /\ q.level \in {"null", "none"} /\ q.old = q.new => barred' = barred \union touched
      /\ barred \ touched \subseteq barred'
    BY <1>6
<1>8. \A p, u : <<p, u>> \in touched <=> p \in DOMAIN q.was /\ u = q.whom
    OBVIOUS
<1> HIDE DEF q, touched
<1>9. \A u \in Users : u # q.whom => role'[u] = role[u]
    BY <1>2, <1>3 DEF Inv, TypeOK
<1>10. role'[q.whom] = IF q.old = q.new THEN role[q.whom] ELSE q.new
    BY <1>2, <1>3 DEF Inv, TypeOK
<1> SUFFICES ASSUME calm, NEW p \in Kept, NEW u \in Users, role'[u] # "none",
                    ~Privileged(role'[u]), access'[p][u] = "null"
             PROVE  <<p, u>> \in barred'
    BY <1>3, <1>4 DEF MembersSeeProducts, Members, Kept
<1>11. /\ p \in Products
       /\ \A v \in Users : role[v] # "none" /\ ~Privileged(role[v]) /\ access[p][v] = "null"
                              => <<p, v>> \in barred
    BY DEF Inv, AccessFollowsMembership, MembersSeeProducts, Members, Kept
<1>12. CASE u # q.whom
    BY <1>5, <1>7, <1>8, <1>9, <1>11, <1>12
<1>13. CASE u = q.whom /\ q.old # q.new
    <2>1. p \in DOMAIN q.was /\ q.was[p] = access[p][u] /\ q.old = role[u]
        BY <1>4, <1>13 DEF PlanIsCurrent, Listed
    <2>2. /\ role'[u] = q.new /\ access'[p][u] = RowAfter(q, p)
        BY <1>5, <1>10, <1>11, <1>13
    <2>3. CASE q.level = "viewer"
        BY <1>13, <2>1, <2>2, <2>3 DEF RowAfter
    <2>4. CASE q.level = "keep" /\ q.old # "none" /\ ~Privileged(q.old)
        BY <1>7, <1>11, <1>13, <2>1, <2>2, <2>4 DEF RowAfter
    <2> QED  BY <1>4, <1>13, <2>2, <2>3, <2>4 DEF PlanIsCurrent
<1>14. CASE u = q.whom /\ q.old = q.new
    <2>1. p \in DOMAIN q.was => q.was[p] = access[p][u]
        BY <1>4, <1>14 DEF PlanIsCurrent, Listed
    <2>2. role[u] = role'[u] /\ access'[p][u] = RowAfter(q, p)
        BY <1>5, <1>10, <1>11, <1>14
    <2>3. CASE p \notin DOMAIN q.was \/ q.level = "keep"
        <3>1. access[p][u] = "null"
            BY <1>14, <2>2, <2>3 DEF RowAfter
        <3>2. <<p, u>> \in barred
            BY <1>11, <2>2, <3>1
        <3> QED  BY <1>7, <1>8, <2>3, <3>2
    <2>4. CASE p \in DOMAIN q.was /\ q.level # "keep"
        <3>1. q.level = "null"
            BY <1>14, <2>1, <2>2, <2>4 DEF RowAfter
        <3> QED  BY <1>7, <1>8, <1>14, <2>4, <3>1
    <2> QED  BY <2>3, <2>4
<1> QED  BY <1>12, <1>13, <1>14

LEMMA PlanCommitIsGood ==
    ASSUME Inv, NEW r \in Requests, CommitPlan(r)
    PROVE  CalmIsCurrent' /\ Good'
<1>1. Finish(r) /\ req[r] # Idle
    BY DEF CommitPlan, Idle
<1> QED
    BY <1>1, FinishIsCurrent, PlanOwner, PlanStrays, PlanSight DEF Good, AccessFollowsMembership

LEMMA TransferIsGood ==
    ASSUME Inv, NEW r \in Requests, CommitTransfer(r)
    PROVE  CalmIsCurrent' /\ Good'
<1> DEFINE q == req[r]
<1>1. q.by \in Users /\ q.whom \in Users /\ q.op = "transfer"
    BY RequestKinds DEF CommitTransfer, TransferRequests, Inv
<1>2. /\ role[q.by] # "none" /\ (q.old # "owner" => role[q.whom] # "none")
      /\ role' = [role EXCEPT ![q.by] = "admin",
                              ![q.whom] = IF q.old = "owner" THEN @ ELSE "owner"]
      /\ Finish(r) /\ q # Idle
      /\ UNCHANGED <<products, access, barred>>
    BY DEF CommitTransfer, Idle
<1>3. CalmIsCurrent' /\ calm' = calm /\ (calm => IsCurrent(q))
    BY <1>2, FinishIsCurrent
<1>4. calm => role[q.by] = "owner" /\ q.by # q.whom /\ q.old = role[q.whom]
    BY <1>1, <1>3 DEF IsCurrent
<1> HIDE DEF q
<1> SUFFICES ASSUME calm PROVE Good'
    BY <1>3 DEF Good, OwnerRemains, AccessFollowsMembership, NoStrayAccess, MembersSeeProducts
<1>5. /\ role' \in [Users -> Roles] /\ role'[q.whom] = "owner" /\ role'[q.by] = "admin"
      /\ \A u \in Users \ {q.by, q.whom} : role'[u] = role[u]
    BY <1>1, <1>2, <1>4 DEF Inv, TypeOK, Roles
<1>6. OwnerRemains'
    BY <1>1, <1>5 DEF OwnerRemains, Owners
<1>7. Members \subseteq Members'
    BY <1>5 DEF Members
<1>8. \A u \in Members' : ~Privileged(role'[u]) => u \in Members /\ ~Privileged(role[u])
    BY <1>5 DEF Members, Privileged
<1>9. Kept' = Kept
    BY <1>2 DEF Kept
<1> QED
    BY <1>2, <1>3, <1>6, <1>7, <1>8, <1>9
    DEF Inv, Good, AccessFollowsMembership, NoStrayAccess, MembersSeeProducts

\* Whoever was a member when the product was planned is one when it is made.
LEMMA CreateIsGood ==
    ASSUME Inv, NEW r \in Requests, CommitCreate(r)
    PROVE  CalmIsCurrent' /\ Good'
<1> DEFINE q == req[r]
           low == DOMAIN q.rows
<1>1. q.product \in Products /\ low \subseteq Users /\ q.op = "create"
    BY RequestKinds, CreateParts DEF CommitCreate, Inv
<1>2. /\ products' = [products EXCEPT ![q.product] = [state |-> "kept", maker |-> q.by]]
      /\ access' = [access EXCEPT ![q.product] =
                       [u \in Users |-> IF u \in low THEN q.rows[u] ELSE "null"]]
      /\ barred' = {b \in barred : b[1] # q.product}
                     \union {<<q.product, u>> : u \in {v \in low : q.rows[v] = "null"}}
      /\ Finish(r) /\ q # Idle
      /\ UNCHANGED <<org, role>>
    BY DEF CommitCreate, Idle
<1>3. CalmIsCurrent' /\ calm' = calm /\ (calm => IsCurrent(q))
    BY <1>2, FinishIsCurrent
<1>4. calm => low = {u \in Members : ~Privileged(role[u])}
    BY <1>1, <1>3 DEF IsCurrent
<1> HIDE DEF q, low
<1>5. /\ Kept' \subseteq Kept \union {q.product} /\ Kept \subseteq Products
      /\ \A p \in Products : p # q.product => access'[p] = access[p]
      /\ \A u \in Users : access'[q.product][u] = IF u \in low THEN q.rows[u] ELSE "null"
    BY <1>1, <1>2 DEF Kept, Inv, TypeOK
<1>6. Members' = Members /\ Owners' = Owners
    BY <1>2 DEF Members, Owners
<1>7. OwnerRemains'
    BY <1>2, <1>3, <1>6 DEF Inv, OwnerRemains
<1>8. NoStrayAccess'
    BY <1>1, <1>3, <1>4, <1>5, <1>6 DEF Inv, AccessFollowsMembership, NoStrayAccess
<1>9. MembersSeeProducts'
    <2> SUFFICES ASSUME calm, NEW p \in Kept', NEW u \in Members,
                        ~Privileged(role[u]), access'[p][u] = "null"
                 PROVE  <<p, u>> \in barred'
        BY <1>2, <1>3, <1>6 DEF MembersSeeProducts
    <2>1. u \in Users /\ u \in low
        BY <1>4, MemberTypes
    <2>2. CASE p = q.product
        BY <1>2, <1>5, <2>1, <2>2
    <2>3. CASE p # q.product
        <3>1. <<p, u>> \in barred
            BY <1>5, <2>3 DEF Inv, AccessFollowsMembership, MembersSeeProducts
        <3> QED  BY <1>2, <2>3, <3>1
    <2> QED  BY <2>2, <2>3
<1> QED  BY <1>3, <1>7, <1>8, <1>9 DEF Good, AccessFollowsMembership

LEMMA DropIsGood ==
    ASSUME Inv, NEW r \in Requests, CommitDrop(r)
    PROVE  CalmIsCurrent' /\ Good'
<1> DEFINE p == req[r].product
<1>1. p \in Products
    BY RequestKinds DEF CommitDrop, DropRequests, Inv
<1>2. /\ products' = [products EXCEPT ![p].state = "none"]
      /\ access' = [access EXCEPT ![p] = [u \in Users |-> "null"]]
      /\ Finish(r) /\ req[r] # Idle
      /\ UNCHANGED <<org, role, barred>>
    BY DEF CommitDrop, Idle
<1>3. CalmIsCurrent' /\ calm' = calm
    BY <1>2, FinishIsCurrent
<1> HIDE DEF p
<1>4. Members' = Members /\ Owners' = Owners
    BY <1>2 DEF Members, Owners
<1>5. Kept' = Kept \ {p} /\ \A x \in Kept : x # p => access'[x] = access[x]
    BY <1>1, <1>2 DEF Kept, Inv, TypeOK
<1> QED
    BY <1>2, <1>3, <1>4, <1>5
    DEF Inv, Good, OwnerRemains, AccessFollowsMembership, NoStrayAccess, MembersSeeProducts

\* Without an organization there is nobody and nothing to speak of.
LEMMA DissolveIsGood ==
    ASSUME Inv, Dissolve
    PROVE  Good'
BY DissolveTypes DEF Inv, Good, OwnerRemains, AccessFollowsMembership, NoStrayAccess,
                     MembersSeeProducts

LEMMA LeaveIsGood ==
    ASSUME Inv, NEW r \in Requests, CommitLeave(r)
    PROVE  CalmIsCurrent' /\ Good'
<1>1. /\ Dissolve \/ UNCHANGED <<org, role, products>>
      /\ Finish(r) /\ req[r] # Idle /\ UNCHANGED <<access, barred>>
    BY DEF CommitLeave, Idle
<1>2. CalmIsCurrent' /\ calm' = calm
    BY <1>1, FinishIsCurrent
<1> QED  BY <1>1, <1>2, DissolveIsGood, NothingChanges

LEMMA CommitIsGood ==
    ASSUME Inv, NEW r \in Requests, Commit(r)
    PROVE  CalmIsCurrent' /\ Good'
<1>1. CASE CommitDissolve(r)
    BY <1>1, FinishIsCurrent, DissolveIsGood DEF CommitDissolve, Idle
<1>2. CASE Rollback(r)
    BY <1>2, FinishIsCurrent, NothingChanges DEF Rollback
<1> QED
    BY <1>1, <1>2, PlanCommitIsGood, TransferIsGood, CreateIsGood, DropIsGood, LeaveIsGood
    DEF Commit

LEMMA RequestsStay ==
    ASSUME Inv, UNCHANGED <<org, role, products, access, req, calm>>
    PROVE  CalmIsCurrent'
<1>1. \A r \in Requests : IsCurrent(req[r]) => IsCurrent(req[r])'
    BY StaysCurrent
<1> QED  BY <1>1 DEF Inv, CalmIsCurrent, Alone, AllCurrent

LEMMA InitIsGood == Init => Inv
<1> SUFFICES ASSUME Init PROVE Inv
    OBVIOUS
<1>1. PICK founder \in Users :
        /\ role = [u \in Users |-> IF u = founder THEN "owner" ELSE "none"]
        /\ products = [p \in Products |-> [state |-> "none", maker |-> founder]]
        /\ req = [r \in Requests |-> Idle]
    BY DEF Init
<1>2. founder \in Owners /\ Kept = {}
    BY <1>1 DEF Owners, Kept
<1>3. CalmIsCurrent
    BY <1>1 DEF CalmIsCurrent, Alone, AllCurrent
<1> QED
    BY <1>2, <1>3, InitTypes DEF Inv, OwnerRemains, AccessFollowsMembership, NoStrayAccess,
       MembersSeeProducts

LEMMA StepKeepsInv == Inv /\ [Next]_vars => Inv'
<1> SUFFICES ASSUME Inv, [Next]_vars PROVE Inv'
    OBVIOUS
<1>1. CASE \E r \in Requests : Decide(r)
    BY <1>1, DecideTypes, DecideIsCurrent, DecideIsGood DEF Inv, Good
<1>2. CASE \E r \in Requests : Commit(r)
    BY <1>2, CommitTypes, CommitIsGood DEF Inv, Good
<1>3. CASE UNCHANGED <<org, role, products, access, req, calm, barred>>
    <2>1. CalmIsCurrent' /\ Good'
        BY <1>3, RequestsStay, NothingChanges
    <2>2. TypeOK' /\ RequestsOK'
        BY TypeStep DEF Inv
    <2> QED  BY <2>1, <2>2 DEF Inv, Good
<1> QED  BY <1>1, <1>2, <1>3, Steps DEF NewAccount, vars

LEMMA InvHolds == Spec => []Inv
BY InitIsGood, StepKeepsInv, PTL DEF Spec

\* Requests that follow each other leave the organization with an owner,
\* whoever promotes, demotes, transfers, leaves or deletes an account.
THEOREM OwnerStays == Spec => []OwnerRemains
<1>1. Inv => OwnerRemains
    BY DEF Inv
<1> QED  BY <1>1, InvHolds, PTL

\* Without overlapping requests access rows follow membership: nobody else has
\* one, and every member or viewer has one unless somebody took it away.
THEOREM AccessIsMembership == Spec => []AccessFollowsMembership
<1>1. Inv => AccessFollowsMembership
    BY DEF Inv
<1> QED  BY <1>1, InvHolds, PTL

\* Whose account takes the organization along is its only member.
LEMMA LeaveSparesOthers ==
    ASSUME Inv, NEW r \in Requests, CommitLeave(r), calm, org.live, ~org'.live
    PROVE  \E u : Members = {u}
<1>1. req[r].op = "leave" /\ req[r] # Idle /\ Finish(r) /\ req[r].dissolve
    BY DEF CommitLeave, Idle
<1>2. Cardinality(Members) = 1
    BY <1>1, FinishIsCurrent DEF IsCurrent, Deletable
<1>3. IsFiniteSet(Members)
    BY MemberTypes, AccessAssumption, FS_Subset
<1> QED  BY <1>2, <1>3, FS_Singleton

\* No other step touches both an account and the organization.
LEMMA OnlyLeavingDoesBoth ==
    ASSUME Inv, [Next]_vars, calm, org.live, ~org'.live, accounts' # accounts
    PROVE  org.owner \in Members => Members = {org.owner}
<1>1. PICK r \in Requests : Decide(r) \/ Commit(r)
    BY Steps DEF NewAccount, vars
<1>2. ~Decide(r)
    BY DEF Decide, AddMember, UpdateRole, RemoveMember, SetCollaborator, RemoveCollaborator,
           BulkSetAccess, TransferOwnership, CreateProduct, DeleteProduct, DeleteOrganization,
           DeleteAccount, Ask
<1>3. CommitLeave(r)
    BY <1>1, <1>2 DEF Commit, CommitPlan, CommitTransfer, CommitCreate, CommitDrop,
                      CommitDissolve, Rollback
<1>4. \E u : Members = {u}
    BY <1>3, LeaveSparesOthers
<1> QED  BY <1>4

\* Whose deletion of an account removes the organization, who is a member of
\* it, is its only member, as long as requests do not overlap.
THEOREM OthersKeep == Spec => OthersKeepTheirs
<1>1. Inv /\ [Next]_vars =>
        [ org.live /\ ~org'.live /\ accounts' # accounts /\ calm
            => (org.owner \in Members => Members = {org.owner}) ]_vars
    BY OnlyLeavingDoesBoth
<1> QED  BY <1>1, InvHolds, PTL DEF Spec, OthersKeepTheirs

-----------------------------------------------------------------------------
(* The policies: what they admit, table by table.                          *)

Has(table, command, needs) ==
    [table |-> table, command |-> command, needs |-> needs] \in Policies

\* The tables of the contents of a product: to be viewed and to be edited.
ContentTables ==
    {"work_items", "documents", "repositories", "document_sections", "document_subsections",
     "changelog_entries", "code_nodes", "code_edges", "infra_components"}

LEMMA PolicyHas ==
    ASSUME NEW t, NEW commands, NEW n, Policy(t, commands, n) \subseteq Policies, NEW c \in commands
    PROVE  Has(t, c, n)
BY DEF Policy, Has

LEMMA ReadWriteHas ==
    ASSUME NEW t, NEW read, NEW write, ReadWrite(t, read, write) \subseteq Policies
    PROVE  Has(t, "select", {read}) /\ \A c \in Writes : Has(t, c, {write})
<1>1. /\ Policy(t, {"select"}, {read}) \subseteq Policies
      /\ Policy(t, Writes, {write}) \subseteq Policies
    BY DEF ReadWrite
<1> QED  BY <1>1, PolicyHas

LEMMA OfContents ==
    ASSUME NEW t \in ContentTables
    PROVE  Has(t, "select", {"viewer"}) /\ \A c \in Writes : Has(t, c, {"editor"})
<1>1. ReadWrite(t, "viewer", "editor") \subseteq Policies
    BY DEF ContentTables, Policies, ContentPolicies, ProductPolicies, SectionPolicies,
           ChangelogPolicies, CodeGraphPolicies, InfraPolicies
<1> QED  BY <1>1, ReadWriteHas

LEMMA OfProducts ==
    /\ Has("products", "select", {"viewer"}) /\ Has("products", "update", {"editor"})
    /\ Has("products", "delete", {"admin"})
    /\ \A c \in Commands : Has("app_info", c, {"editor"}) /\ Has("product_access", c, {"admin"})
    /\ \A c \in {"select", "insert", "update"} : Has("product_api_keys", c, {"editor"})
<1>1. /\ Policy("products", {"select"}, {"viewer"}) \subseteq Policies
      /\ Policy("products", {"update"}, {"editor"}) \subseteq Policies
      /\ Policy("products", {"delete"}, {"admin"}) \subseteq Policies
    BY DEF Policies, ProductPolicies
<1>2. /\ Policy("app_info", Commands, {"editor"}) \subseteq Policies
      /\ Policy("product_access", Commands, {"admin"}) \subseteq Policies
    BY DEF Policies, ContentPolicies, GrantPolicies
<1>3. Policy("product_api_keys", {"select", "insert", "update"}, {"editor"}) \subseteq Policies
    BY DEF Policies, ProductKeyPolicies
<1> QED  BY <1>1, <1>2, <1>3, PolicyHas

LEMMA OfOrganizations ==
    /\ Has("organizations", "select", {"member"})
    /\ Has("organizations", "update", {"owner"}) /\ Has("organizations", "delete", {"owner"})
    /\ Has("organization_members", "select", {"member"})
    /\ \A c \in Writes : Has("organization_members", c, {"org admin"})
    /\ Has("organization_members", "delete", {"self"})
    /\ \A c \in {"select", "insert", "update"} : Has("org_api_keys", c, {"org admin"})
<1>1. /\ Policy("organizations", {"select"}, {"member"}) \subseteq Policies
      /\ Policy("organizations", {"update", "delete"}, {"owner"}) \subseteq Policies
      /\ ReadWrite("organization_members", "member", "org admin") \subseteq Policies
      /\ Policy("organization_members", {"delete"}, {"self"}) \subseteq Policies
    BY DEF Policies, OrganizationPolicies
<1>2. Policy("org_api_keys", {"select", "insert", "update"}, {"org admin"}) \subseteq Policies
    BY DEF Policies, OrgKeyPolicies
<1> QED  BY <1>1, <1>2, PolicyHas, ReadWriteHas

LEMMA OfPersons ==
    /\ \A c \in {"select", "update", "delete"} : Has("custom_doc_jobs", c, {"self"})
    /\ Has("custom_doc_jobs", "insert", {"editor", "self"})
    /\ \A c \in Commands : Has("user_preferences", c, {"self"}) /\ Has("org_digest_preferences", c, {"self"})
    /\ \A c \in {"select", "insert", "update"} : Has("feedback", c, {"self"})
<1>1. /\ Policy("custom_doc_jobs", {"select", "update", "delete"}, {"self"}) \subseteq Policies
      /\ Policy("custom_doc_jobs", {"insert"}, {"editor", "self"}) \subseteq Policies
    BY DEF Policies, GrantPolicies
<1>2. /\ Policy("user_preferences", Commands, {"self"}) \subseteq Policies
      /\ Policy("feedback", {"select", "insert", "update"}, {"self"}) \subseteq Policies
      /\ Policy("org_digest_preferences", Commands, {"self"}) \subseteq Policies
    BY DEF Policies, UserPolicies, DigestPolicies
<1> QED  BY <1>1, <1>2, PolicyHas

-----------------------------------------------------------------------------
(* The checks: what passes them is what the policies ask for.              *)

\* An access level includes the lower ones, a role the lower ones; owners and
\* admins have every level on the products of the organization.
LEMMA GrantedIsHeld ==
    ASSUME TypeOK, NEW u \in Users, NEW row \in Rows
    PROVE  /\ "viewer" \in Granted(u, row) => "viewer" \in Held(u, row)
           /\ "editor" \in Granted(u, row) => {"viewer", "editor"} \subseteq Held(u, row)
           /\ "admin" \in Granted(u, row) => {"viewer", "editor", "admin"} \subseteq Held(u, row)
           /\ "member" \in Granted(u, row) => "member" \in Held(u, row)
           /\ "org admin" \in Granted(u, row) => {"member", "org admin"} \subseteq Held(u, row)
           /\ "owner" \in Granted(u, row) => {"member", "org admin", "owner"} \subseteq Held(u, row)
           /\ "self" \in Granted(u, row) => "self" \in Held(u, row)
           /\ {"org admin", "listed"} \subseteq Granted(u, row) => "admin" \in Held(u, row)
<1> DEFINE p == row.product
<1>1. p \in Products /\ role[u] \in Roles /\ access[p][u] \in Levels
    BY DEF Rows, TypeOK
<1>2. /\ \A l \in Asked : l \in Granted(u, row) <=> Rank(Effective(p, u)) >= Rank(l)
      /\ \A g \in {"member", "org admin", "owner"} : g \in Granted(u, row) <=> g \in RoleGranted(u)
      /\ "self" \in Granted(u, row) <=> row.user = u
      /\ "listed" \in Granted(u, row) <=> p \in Kept
    BY DEF Granted, Asked, RoleGranted
<1>3. /\ \A l \in Asked : HasProductAccess(u, p, l) => l \in Held(u, row)
      /\ OrgRoleHeld(u) \subseteq Held(u, row)
      /\ row.user = u => "self" \in Held(u, row)
    BY DEF Held, Asked
<1>4. Rank("viewer") = 1 /\ Rank("editor") = 2 /\ Rank("admin") = 3 /\ Rank("none") = 0 /\ Rank("null") = 0
    BY DEF Rank
<1>5. /\ "member" \in RoleGranted(u) => role[u] # "none"
      /\ "org admin" \in RoleGranted(u) => Privileged(role[u])
      /\ "owner" \in RoleGranted(u) => role[u] = "owner"
    <2> DEFINE order == [none |-> 0, viewer |-> 1, member |-> 2, admin |-> 3, owner |-> 4]
    <2>1. \A g \in RoleGranted(u) :
             order[role[u]] >= CASE g = "member" -> 1 [] g = "org admin" -> 3 [] OTHER -> 4
        BY DEF RoleGranted
    <2>2. /\ "member" \in RoleGranted(u) => order[role[u]] >= 1
          /\ "org admin" \in RoleGranted(u) => order[role[u]] >= 3
          /\ "owner" \in RoleGranted(u) => order[role[u]] >= 4
        BY <2>1
    <2>3. /\ order["none"] = 0 /\ order["viewer"] = 1 /\ order["member"] = 2
          /\ order["admin"] = 3 /\ order["owner"] = 4
        OBVIOUS
    <2> HIDE DEF order
    <2>4. ~(0 >= 1) /\ ~(0 >= 3) /\ ~(1 >= 3) /\ ~(2 >= 3) /\ ~(0 >= 4) /\ ~(1 >= 4) /\ ~(2 >= 4) /\ ~(3 >= 4)
        OBVIOUS
    <2> QED  BY <1>1, <2>2, <2>3, <2>4, Zenon DEF Roles, Privileged
<1>6. /\ role[u] # "none" => "member" \in OrgRoleHeld(u)
      /\ Privileged(role[u]) => "org admin" \in OrgRoleHeld(u)
      /\ role[u] = "owner" => "owner" \in OrgRoleHeld(u)
    BY DEF OrgRoleHeld
<1>7. \A l \in Asked : Rank(Effective(p, u)) >= Rank(l) => HasProductAccess(u, p, l)
    <2> SUFFICES ASSUME NEW l \in Asked, Rank(Effective(p, u)) >= Rank(l)
                 PROVE  HasProductAccess(u, p, l)
        OBVIOUS
    <2>1. Rank(l) \in {1, 2, 3}
        BY <1>4 DEF Asked
    <2>2. Effective(p, u) # "none"
        BY <1>4, <2>1
    <2> HIDE DEF p
    <2>3. products[p].state = "kept" /\ role[u] # "none"
        BY <2>2 DEF Effective
    <2>4. Privileged(role[u]) \/ access[p][u] = "null" \/ Effective(p, u) = access[p][u]
        BY <2>3 DEF Effective
    <2>5. ~Privileged(role[u]) => access[p][u] # "null"
        BY <2>2, <2>3 DEF Effective
    <2> QED  BY <2>3, <2>4, <2>5 DEF HasProductAccess
<1>8. Privileged(role[u]) /\ p \in Kept => HasProductAccess(u, p, "admin")
    BY DEF HasProductAccess, Kept
<1>9. Privileged(role[u]) => role[u] # "none"
    BY DEF Privileged
<1> HIDE DEF p
<1>10. \A k, l \in Asked : k \in Granted(u, row) /\ Rank(k) >= Rank(l) => l \in Held(u, row)
    <2>1. Rank(Effective(p, u)) \in Nat
        BY DEF Rank
    <2>2. \A l \in Asked : Rank(l) \in Nat
        BY <1>4 DEF Asked
    <2> SUFFICES ASSUME NEW k \in Asked, NEW l \in Asked, k \in Granted(u, row), Rank(k) >= Rank(l)
                 PROVE  l \in Held(u, row)
        OBVIOUS
    <2>3. Rank(Effective(p, u)) >= Rank(k) /\ Rank(k) \in Nat /\ Rank(l) \in Nat
        BY <1>2, <2>2
    <2>4. Rank(Effective(p, u)) >= Rank(l)
        BY <2>1, <2>3
    <2> QED  BY <1>3, <1>7, <2>4
<1>11. /\ "viewer" \in Granted(u, row) => "viewer" \in Held(u, row)
       /\ "editor" \in Granted(u, row) => {"viewer", "editor"} \subseteq Held(u, row)
       /\ "admin" \in Granted(u, row) => {"viewer", "editor", "admin"} \subseteq Held(u, row)
    <2>1. "viewer" \in Asked /\ "editor" \in Asked /\ "admin" \in Asked
        BY DEF Asked
    <2>2. /\ Rank("viewer") >= Rank("viewer") /\ Rank("editor") >= Rank("viewer")
          /\ Rank("editor") >= Rank("editor") /\ Rank("admin") >= Rank("viewer")
          /\ Rank("admin") >= Rank("editor") /\ Rank("admin") >= Rank("admin")
        BY <1>4
    <2> QED  BY <1>10, <2>1, <2>2
<1>12. /\ "member" \in Granted(u, row) => "member" \in Held(u, row)
       /\ "org admin" \in Granted(u, row) => {"member", "org admin"} \subseteq Held(u, row)
       /\ "owner" \in Granted(u, row) => {"member", "org admin", "owner"} \subseteq Held(u, row)
    BY <1>2, <1>3, <1>5, <1>6, <1>9 DEF Privileged
<1>13. {"org admin", "listed"} \subseteq Granted(u, row) => "admin" \in Held(u, row)
    BY <1>2, <1>3, <1>5, <1>8 DEF Asked
<1> QED  BY <1>2, <1>3, <1>11, <1>12, <1>13

\* What a check must imply for a statement to be admitted: the row can be read,
\* and the statement be run on it.
Admitted(guard, t, c) ==
    \A u \in Users, row \in Rows :
       guard \subseteq Granted(u, row) => \E n \in Needed(t, c) : n \subseteq Held(u, row)

\* Whoever passes the check is found to be what a policy needs.
Gives(guard, needs) ==
    \A u \in Users, row \in Rows : guard \subseteq Granted(u, row) => needs \subseteq Held(u, row)

LEMMA Admits ==
    ASSUME NEW guard, NEW t, NEW c, NEW n, NEW m, Has(t, c, n), Has(t, "select", m),
           Gives(guard, n), Gives(guard, m)
    PROVE  Admitted(guard, t, c)
<1> DEFINE of(x) == {y.needs : y \in {z \in Policies : z.table = t /\ z.command = x}}
<1>1. n \in of(c) /\ m \in of("select")
    BY DEF Has
<1>2. Needed(t, c) = {x \union y : x \in of(c), y \in of("select")}
    BY DEF Needed
<1> HIDE DEF of
<1>3. n \union m \in Needed(t, c)
    BY <1>1, <1>2
<1> QED  BY <1>3 DEF Admitted, Gives

LEMMA ChecksGive ==
    ASSUME TypeOK
    PROVE  /\ Gives({"viewer"}, {"viewer"})
           /\ Gives({"editor"}, {"viewer"}) /\ Gives({"editor"}, {"editor"})
           /\ Gives({"admin"}, {"editor"}) /\ Gives({"admin"}, {"admin"})
           /\ Gives({"admin"}, {"viewer"}) /\ Gives({"org admin", "listed"}, {"admin"})
           /\ Gives({"member"}, {"member"})
           /\ Gives({"org admin"}, {"member"}) /\ Gives({"org admin"}, {"org admin"})
           /\ Gives({"owner"}, {"member"}) /\ Gives({"owner"}, {"org admin"})
           /\ Gives({"owner"}, {"owner"}) /\ Gives({"self"}, {"self"})
           /\ Gives({"self", "member"}, {"member"}) /\ Gives({"self", "member"}, {"self"})
           /\ Gives({"editor", "self"}, {"editor", "self"}) /\ Gives({"editor", "self"}, {"self"})
<1>1. /\ Gives({"viewer"}, {"viewer"})
      /\ Gives({"editor"}, {"viewer"}) /\ Gives({"editor"}, {"editor"})
      /\ Gives({"editor", "self"}, {"editor", "self"}) /\ Gives({"editor", "self"}, {"self"})
    BY GrantedIsHeld DEF Gives
<1>2. /\ Gives({"admin"}, {"editor"}) /\ Gives({"admin"}, {"admin"})
      /\ Gives({"admin"}, {"viewer"}) /\ Gives({"org admin", "listed"}, {"admin"})
    BY GrantedIsHeld DEF Gives
<1>3. /\ Gives({"member"}, {"member"})
      /\ Gives({"org admin"}, {"member"}) /\ Gives({"org admin"}, {"org admin"})
      /\ Gives({"owner"}, {"member"}) /\ Gives({"owner"}, {"org admin"})
      /\ Gives({"owner"}, {"owner"}) /\ Gives({"self"}, {"self"})
    BY GrantedIsHeld DEF Gives
<1>4. Gives({"self", "member"}, {"member"}) /\ Gives({"self", "member"}, {"self"})
    BY GrantedIsHeld DEF Gives
<1> QED  BY <1>1, <1>2, <1>3, <1>4

LEMMA ContentsAdmit ==
    ASSUME TypeOK, NEW t \in ContentTables
    PROVE  /\ Admitted({"viewer"}, t, "select")
           /\ \A c \in Commands : Admitted({"editor"}, t, c)
<1>1. Has(t, "select", {"viewer"}) /\ \A c \in Writes : Has(t, c, {"editor"})
    BY OfContents
<1>2. Admitted({"viewer"}, t, "select") /\ Admitted({"editor"}, t, "select")
    BY <1>1, ChecksGive, Admits
<1>3. \A c \in Writes : Admitted({"editor"}, t, c)
    BY <1>1, ChecksGive, Admits
<1> QED  BY <1>2, <1>3 DEF Writes

LEMMA ProductsAdmit ==
    ASSUME TypeOK
    PROVE  /\ Admitted({"viewer"}, "products", "select")
           /\ Admitted({"editor"}, "products", "update") /\ Admitted({"admin"}, "products", "delete")
           /\ \A c \in Commands : /\ Admitted({"editor"}, "app_info", c)
                                  /\ Admitted({"admin"}, "product_access", c)
                                  /\ Admitted({"org admin", "listed"}, "product_access", c)
           /\ Admitted({"editor"}, "product_api_keys", "select")
           /\ \A c \in {"insert", "update"} : Admitted({"admin"}, "product_api_keys", c)
<1>1. "select" \in Commands
    BY DEF Commands
<1>2. /\ Admitted({"viewer"}, "products", "select")
      /\ Admitted({"editor"}, "products", "update") /\ Admitted({"admin"}, "products", "delete")
    BY OfProducts, ChecksGive, Admits
<1>3. \A c \in Commands : Admitted({"editor"}, "app_info", c)
    BY <1>1, OfProducts, ChecksGive, Admits
<1>4. \A c \in Commands : /\ Admitted({"admin"}, "product_access", c)
                          /\ Admitted({"org admin", "listed"}, "product_access", c)
    BY <1>1, OfProducts, ChecksGive, Admits
<1>5. /\ Admitted({"editor"}, "product_api_keys", "select")
      /\ \A c \in {"insert", "update"} : Admitted({"admin"}, "product_api_keys", c)
    BY OfProducts, ChecksGive, Admits
<1> QED  BY <1>2, <1>3, <1>4, <1>5

LEMMA OrganizationsAdmit ==
    ASSUME TypeOK
    PROVE  /\ Admitted({"owner"}, "organizations", "update")
           /\ Admitted({"owner"}, "organizations", "delete")
           /\ Admitted({"owner"}, "organization_members", "update")
           /\ Admitted({"member"}, "organization_members", "select")
           /\ Admitted({"self", "member"}, "organization_members", "delete")
           /\ \A c \in Writes : Admitted({"org admin"}, "organization_members", c)
           /\ \A c \in {"select", "insert", "update"} : Admitted({"org admin"}, "org_api_keys", c)
<1>1. "update" \in Writes
    BY DEF Writes, Commands
<1>2. /\ Admitted({"owner"}, "organizations", "update")
      /\ Admitted({"owner"}, "organizations", "delete")
    BY OfOrganizations, ChecksGive, Admits
<1>3. /\ Admitted({"owner"}, "organization_members", "update")
      /\ Admitted({"member"}, "organization_members", "select")
      /\ Admitted({"self", "member"}, "organization_members", "delete")
    BY <1>1, OfOrganizations, ChecksGive, Admits
<1>4. /\ \A c \in Writes : Admitted({"org admin"}, "organization_members", c)
      /\ \A c \in {"select", "insert", "update"} : Admitted({"org admin"}, "org_api_keys", c)
    BY OfOrganizations, ChecksGive, Admits
<1> QED  BY <1>2, <1>3, <1>4

LEMMA PersonsAdmit ==
    ASSUME TypeOK
    PROVE  /\ Admitted({"editor", "self"}, "custom_doc_jobs", "insert")
           /\ \A c \in {"select", "update"} : Admitted({"self"}, "custom_doc_jobs", c)
           /\ \A c \in {"select", "insert", "update"} :
                 /\ Admitted({"self"}, "user_preferences", c)
                 /\ Admitted({"member", "self"}, "org_digest_preferences", c)
           /\ \A c \in {"select", "insert"} : Admitted({"self"}, "feedback", c)
<1>1. {"select", "insert", "update"} \subseteq Commands
    BY DEF Commands
<1>2. /\ Admitted({"editor", "self"}, "custom_doc_jobs", "insert")
      /\ \A c \in {"select", "update"} : Admitted({"self"}, "custom_doc_jobs", c)
    BY OfPersons, ChecksGive, Admits
<1>3. \A c \in {"select", "insert", "update"} :
         /\ Admitted({"self"}, "user_preferences", c)
         /\ Admitted({"member", "self"}, "org_digest_preferences", c)
    BY <1>1, OfPersons, ChecksGive, Admits
<1>4. \A c \in {"select", "insert"} : Admitted({"self"}, "feedback", c)
    BY OfPersons, ChecksGive, Admits
<1> QED  BY <1>2, <1>3, <1>4

AllAdmitted(calls) == \A e \in calls : Admitted(e.guard, e.table, e.command)

LEMMA CallAdmitted ==
    ASSUME NEW guard, NEW t, NEW commands, \A c \in commands : Admitted(guard, t, c)
    PROVE  AllAdmitted(Call(guard, t, commands))
BY DEF AllAdmitted, Call

LEMMA AllCallsAdmitted == TypeOK => AllAdmitted(Calls)
<1> SUFFICES ASSUME TypeOK PROVE AllAdmitted(Calls)
    OBVIOUS
<1>1. ASSUME NEW t \in ContentTables
      PROVE  /\ AllAdmitted(Call({"viewer"}, t, {"select"}))
             /\ \A commands \in SUBSET Commands : AllAdmitted(Call({"editor"}, t, commands))
    BY ContentsAdmit, CallAdmitted
<1>2. Writes \subseteq Commands /\ {"select", "insert", "update", "delete"} \subseteq Commands
    BY DEF Commands, Writes
<1>3. /\ AllAdmitted(WorkItemReads) /\ AllAdmitted(WorkItemWrites)
      /\ AllAdmitted(DocumentReads) /\ AllAdmitted(DocumentWrites)
      /\ AllAdmitted(LifecycleCalls) /\ AllAdmitted(MoveCalls)
      /\ AllAdmitted(RepositoryReads) /\ AllAdmitted(RepositoryWrites)
      /\ AllAdmitted(ChangelogReads) /\ AllAdmitted(ChangelogWrites) /\ AllAdmitted(SectionCalls)
    BY <1>1, <1>2
    DEF ContentTables, WorkItemReads, WorkItemWrites, DocumentReads, DocumentWrites,
        LifecycleCalls, MoveCalls, RepositoryReads, RepositoryWrites, ChangelogReads,
        ChangelogWrites, SectionCalls
<1>4. AllAdmitted(SubsectionCalls) /\ AllAdmitted(InfraCalls) /\ AllAdmitted(GraphCalls)
    <2>1. /\ AllAdmitted(Call({"editor"}, "document_sections", {"select"}))
          /\ AllAdmitted(Call({"editor"}, "document_subsections", Commands))
          /\ AllAdmitted(Call({"viewer"}, "infra_components", {"select"}))
          /\ AllAdmitted(Call({"editor"}, "infra_components", Writes))
          /\ AllAdmitted(Call({"viewer"}, "code_nodes", {"select"}))
          /\ AllAdmitted(Call({"viewer"}, "code_edges", {"select"}))
        BY <1>1, <1>2 DEF ContentTables
    <2> QED  BY <2>1 DEF AllAdmitted, SubsectionCalls, InfraCalls, GraphCalls
<1>5. /\ AllAdmitted(VariableCalls) /\ AllAdmitted(ListedProducts) /\ AllAdmitted(ProductReads)
      /\ AllAdmitted(CollaboratorCalls) /\ AllAdmitted(MemberAccessCalls)
    BY ProductsAdmit, CallAdmitted
    DEF VariableCalls, ListedProducts, ProductReads, CollaboratorCalls, MemberAccessCalls
<1>6. AllAdmitted(ProductKeyCalls) /\ AllAdmitted(ProductWrites)
    <2>1. /\ AllAdmitted(Call({"editor"}, "product_api_keys", {"select"}))
          /\ AllAdmitted(Call({"admin"}, "product_api_keys", {"insert", "update"}))
          /\ AllAdmitted(Call({"editor"}, "products", {"update"}))
          /\ AllAdmitted(Call({"admin"}, "products", {"delete"}))
        BY ProductsAdmit, CallAdmitted
    <2> QED  BY <2>1 DEF AllAdmitted, ProductKeyCalls, ProductWrites
<1>7. /\ AllAdmitted(OrgKeyCalls) /\ AllAdmitted(MemberReads) /\ AllAdmitted(MemberWrites)
      /\ AllAdmitted(LeaveCalls) /\ AllAdmitted(OwnerCalls)
    <2>1. /\ AllAdmitted(Call({"owner"}, "organizations", {"update", "delete"}))
          /\ AllAdmitted(Call({"owner"}, "organization_members", {"update"}))
        BY OrganizationsAdmit, CallAdmitted
    <2>2. AllAdmitted(OwnerCalls)
        BY <2>1 DEF AllAdmitted, OwnerCalls
    <2> QED
        BY <2>2, OrganizationsAdmit, CallAdmitted DEF OrgKeyCalls, MemberReads, MemberWrites, LeaveCalls
<1>8. /\ AllAdmitted(JobCalls) /\ AllAdmitted(JobStatusCalls) /\ AllAdmitted(PreferenceCalls)
      /\ AllAdmitted(FeedbackCalls) /\ AllAdmitted(DigestCalls)
    BY PersonsAdmit, CallAdmitted
    DEF JobCalls, JobStatusCalls, PreferenceCalls, FeedbackCalls, DigestCalls
<1> QED  BY <1>3, <1>4, <1>5, <1>6, <1>7, <1>8 DEF AllAdmitted, Calls

\* Without overlaps access rows are the members', so what they admit is what
\* the checks grant.
LEMMA RowsAreMembers ==
    ASSUME Inv, calm, NEW u \in Users, NEW p \in Products, NEW level \in Asked,
           HasProductAccess(u, p, level)
    PROVE  Rank(Effective(p, u)) >= Rank(level)
<1>1. /\ Rank("admin") = 3 /\ Rank("none") = 0 /\ Rank("null") = 0
      /\ Rank("viewer") = 1 /\ Rank("editor") = 2
    BY DEF Rank
<1>2. Rank(level) \in 1 .. 3
    BY <1>1 DEF Asked
<1>3. p \in Kept /\ (Privileged(role[u]) \/ Rank(access[p][u]) >= Rank(level))
    BY DEF HasProductAccess, Kept
<1>4. CASE Privileged(role[u])
    <2>1. Effective(p, u) = "admin"
        BY <1>3, <1>4 DEF Effective, Privileged, Kept
    <2> QED  BY <1>1, <1>2, <2>1
<1>5. CASE ~Privileged(role[u])
    <2>1. access[p][u] # "null"
        BY <1>1, <1>2, <1>3, <1>5
    <2>2. role[u] # "none"
        BY <1>3, <2>1 DEF Inv, AccessFollowsMembership, NoStrayAccess, Members
    <2>3. Effective(p, u) = access[p][u]
        BY <1>3, <1>5, <2>1, <2>2 DEF Effective, Kept
    <2> QED  BY <1>3, <1>5, <2>3
<1> QED  BY <1>4, <1>5

\* The checks of the endpoints and the policies of the database draw one line:
\* what passes a check is admitted, in every state; what is admitted passes the
\* check, unless requests have overlapped.
THEOREM ChecksAndPoliciesAgree == Spec => []PoliciesAgree
<1>1. Inv => ChecksImplyPolicies
    <2> SUFFICES ASSUME Inv, NEW u \in accounts, NEW row \in Rows, NEW e \in Calls,
                        e.guard \subseteq Granted(u, row)
                 PROVE  \E n \in Needed(e.table, e.command) : n \subseteq Held(u, row)
        BY DEF ChecksImplyPolicies, Demands
    <2> QED  BY AllCallsAdmitted DEF Inv, TypeOK, AllAdmitted, Admitted
<1>2. Inv => PoliciesAddNothing
    BY RowsAreMembers DEF PoliciesAddNothing
<1>3. Inv => PoliciesAgree
    BY <1>1, <1>2 DEF PoliciesAgree
<1> QED  BY <1>3, InvHolds, PTL
=============================================================================
