----------------------------- MODULE RowPolicies -----------------------------
(***************************************************************************)
(* The row-level policies of the tables, as the migrations declare them,   *)
(* beside the checks the endpoints make before they run the same           *)
(* statements. Both decide from memberships and access rows, in SQL and in *)
(* Python; this module compares them in every state of Access.             *)
(*                                                                         *)
(* A role that owns the tables is not bound by the policies; what is said  *)
(* here is what they admit to one that is. A statement is a command on a   *)
(* row, which belongs to a product of the organization and to a user.      *)
(***************************************************************************)
EXTENDS Access

Commands == {"select", "insert", "update", "delete"}
Writes == Commands \ {"select"}
Rows == [product : Products, user : Users]

Rank(level) ==
    CASE level = "admin" -> 3 [] level = "editor" -> 2 [] level = "viewer" -> 1 [] OTHER -> 0
Asked == {"viewer", "editor", "admin"}

-----------------------------------------------------------------------------
(* The policies.                                                           *)

\* Wrong variant: a member needs no access row to view.
HasProductAccess_Members(u, p, level) ==
    products[p].state = "kept" /\ (Privileged(role[u]) \/ Rank(access[p][u]) >= Rank(level)
                                     \/ (level = "viewer" /\ role[u] # "none"))

\* Wrong variant: owners and admins need access rows.
HasProductAccess_RowsOnly(u, p, level) ==
    products[p].state = "kept" /\ Rank(access[p][u]) >= Rank(level)

\* A product without an organization is nobody's; whether whoever has an
\* access row is still a member is not asked.
HasProductAccess(u, p, level) ==
    /\ products[p].state = "kept"
    /\ Privileged(role[u]) \/ Rank(access[p][u]) >= Rank(level)

\* is_org_member, is_org_admin, is_org_owner
OrgRoleHeld(u) ==
    {"member" : x \in {v \in {u} : role[v] # "none"}}
      \union {"org admin" : x \in {v \in {u} : Privileged(role[v])}}
      \union {"owner" : x \in {v \in {u} : role[v] = "owner"}}

\* What the policies find the current user to be, for a row.
Held(u, row) ==
    {l \in Asked : HasProductAccess(u, row.product, l)} \union OrgRoleHeld(u)
      \union {"anybody"} \union {"self" : x \in {u} \cap {row.user}}

Policy(table, commands, needs) ==
    {[table |-> table, command |-> c, needs |-> needs] : c \in commands}
ReadWrite(table, read, write) ==
    Policy(table, {"select"}, {read}) \union Policy(table, Writes, {write})

\* (the policies of system administrators are left out)
UserPolicies ==
    Policy("users", {"select", "update"}, {"self"})
      \union Policy("user_preferences", Commands, {"self"})
      \union Policy("feedback", {"select", "insert", "update"}, {"self"})

OrganizationPolicies ==
    Policy("organizations", {"select"}, {"member"})
      \union Policy("organizations", {"insert"}, {"self"})
      \union Policy("organizations", {"update", "delete"}, {"owner"})
      \union ReadWrite("organization_members", "member", "org admin")
      \union Policy("organization_members", {"delete"}, {"self"})

BillingPolicies ==
    Policy("subscriptions", {"select"}, {"member"})
      \union Policy("subscriptions", {"update"}, {"org admin"})
      \union Policy("usage_snapshots", {"select"}, {"member"})
      \union Policy("billing_events", {"select"}, {"org admin"})

ProductPolicies ==
    Policy("products", {"select"}, {"viewer"})
      \union Policy("products", {"update"}, {"editor"})
      \union Policy("products", {"insert"}, {"member", "self"})
      \union Policy("products", {"delete"}, {"admin"})
      \union ReadWrite("repositories", "viewer", "editor")

ContentPolicies ==
    ReadWrite("work_items", "viewer", "editor")
      \union ReadWrite("documents", "viewer", "editor")
      \union Policy("app_info", Commands, {"editor"})

GrantPolicies ==
    Policy("product_access", {"select"}, {"self"})
      \union Policy("product_access", Commands, {"admin"})
      \union Policy("custom_doc_jobs", {"select", "update", "delete"}, {"self"})
      \union Policy("custom_doc_jobs", {"select"}, {"editor"})
      \union Policy("custom_doc_jobs", {"insert"}, {"editor", "self"})

SectionPolicies ==
    Policy("progress_summary", {"select"}, {"viewer"})
      \union ReadWrite("document_sections", "viewer", "editor")
      \union ReadWrite("document_subsections", "viewer", "editor")
      \union Policy("commit_stats_cache", {"select"}, {"anybody"})

SummaryPolicies ==
    Policy("announcement", {"select"}, {"anybody"})
      \union Policy("dashboard_shipped_summary", {"select"}, {"viewer"})
      \union Policy("referral_codes", {"select", "insert"}, {"self"})

DiscountPolicies ==
    Policy("discount_codes", {"select", "update"}, {"anybody"})
      \union Policy("discount_redemptions", {"select"}, {"member"})
      \union Policy("discount_redemptions", {"insert", "delete"}, {"org admin"})

ProductKeyPolicies == Policy("product_api_keys", {"select", "insert", "update"}, {"editor"})
OrgKeyPolicies == Policy("org_api_keys", {"select", "insert", "update"}, {"org admin"})

ChangelogPolicies ==
    ReadWrite("changelog_entries", "viewer", "editor")
      \union ReadWrite("changelog_commits", "viewer", "editor")

CodeGraphPolicies ==
    ReadWrite("code_nodes", "viewer", "editor") \union ReadWrite("code_edges", "viewer", "editor")

DigestPolicies == Policy("org_digest_preferences", Commands, {"self"})
TeamPolicies ==
    Policy("team_contributor_summary", {"select", "insert", "update"}, {"member"})
      \union Policy("team_contributor_summary", {"delete"}, {"org admin"})
DashboardPolicies == Policy("dashboard_stats_cache", Commands, {"member"})
InfraPolicies == ReadWrite("infra_components", "viewer", "editor")
InstallationPolicies ==
    Policy("github_app_installations", {"select"}, {"member"})
      \union Policy("github_app_installations", Commands, {"org admin"})
      \union Policy("github_app_installation_repos", {"select"}, {"member"})
      \union Policy("github_app_installation_repos", Commands, {"org admin"})

Policies ==
    UserPolicies \union OrganizationPolicies \union BillingPolicies \union ProductPolicies
      \union ContentPolicies \union GrantPolicies \union SectionPolicies \union SummaryPolicies
      \union DiscountPolicies \union ProductKeyPolicies \union OrgKeyPolicies
      \union ChangelogPolicies \union CodeGraphPolicies \union DigestPolicies \union TeamPolicies
      \union DashboardPolicies \union InfraPolicies \union InstallationPolicies

\* One of the policies of a command suffices, and what is written is read:
\* what one must be found to be, in each way to be admitted.
Needed(table, command) ==
    LET of(c) == {x.needs : x \in {y \in Policies : y.table = table /\ y.command = c}}
    IN {n \union m : n \in of(command), m \in of("select")}

-----------------------------------------------------------------------------
(* The endpoints: the check they make and the statements that follow.      *)

\* require_org_access with the lowest role it takes.
RoleGranted(u) ==
    LET order == [none |-> 0, viewer |-> 1, member |-> 2, admin |-> 3, owner |-> 4] IN
    {g \in {"member", "org admin", "owner"} :
        order[role[u]] >= CASE g = "member" -> 1 [] g = "org admin" -> 3 [] OTHER -> 4}

\* What the checks find the caller to be: check_product_*_access and the like.
Granted(u, row) ==
    {l \in Asked : Rank(Effective(row.product, u)) >= Rank(l)} \union RoleGranted(u)
      \union {"self" : x \in {u} \cap {row.user}} \union {"listed" : x \in {row.product} \cap Kept}

Call(guard, table, commands) ==
    {[guard |-> guard, table |-> table, command |-> c] : c \in commands}

WorkItemReads == Call({"viewer"}, "work_items", {"select"})
WorkItemWrites == Call({"editor"}, "work_items", {"insert", "update"})
DocumentReads == Call({"viewer"}, "documents", {"select"})
DocumentWrites == Call({"editor"}, "documents", Writes)
LifecycleCalls == Call({"editor"}, "documents", {"update"})
\* (without list_sections, which makes the default ones for whoever may view)
SectionCalls == Call({"editor"}, "document_sections", Commands)
SubsectionCalls ==
    Call({"editor"}, "document_sections", {"select"})
      \union Call({"editor"}, "document_subsections", Commands)
MoveCalls == Call({"editor"}, "documents", {"update"})
RepositoryReads == Call({"viewer"}, "repositories", {"select"})
RepositoryWrites == Call({"editor"}, "repositories", Writes)
InfraCalls ==
    Call({"viewer"}, "infra_components", {"select"})
      \union Call({"editor"}, "infra_components", Writes)
ChangelogReads == Call({"viewer"}, "changelog_entries", {"select"})
ChangelogWrites == Call({"editor"}, "changelog_entries", Writes)
GraphCalls == Call({"viewer"}, "code_nodes", {"select"}) \union Call({"viewer"}, "code_edges", {"select"})
VariableCalls == Call({"editor"}, "app_info", Commands)
ProductKeyCalls ==
    Call({"editor"}, "product_api_keys", {"select"})
      \union Call({"admin"}, "product_api_keys", {"insert", "update"})
OrgKeyCalls == Call({"org admin"}, "org_api_keys", {"select", "insert", "update"})
ListedProducts == Call({"viewer"}, "products", {"select"})
ProductReads == Call({"viewer"}, "products", {"select"})
ProductWrites ==
    Call({"editor"}, "products", {"update"}) \union Call({"admin"}, "products", {"delete"})
CollaboratorCalls == Call({"admin"}, "product_access", Commands)
\* (for the products that get_by_organization lists)
MemberAccessCalls == Call({"org admin", "listed"}, "product_access", Commands)
MemberReads == Call({"member"}, "organization_members", {"select"})
MemberWrites == Call({"org admin"}, "organization_members", Writes)
LeaveCalls == Call({"self", "member"}, "organization_members", {"delete"})
OwnerCalls ==
    Call({"owner"}, "organizations", {"update", "delete"})
      \union Call({"owner"}, "organization_members", {"update"})
JobCalls == Call({"editor", "self"}, "custom_doc_jobs", {"insert"})
JobStatusCalls == Call({"self"}, "custom_doc_jobs", {"select", "update"})
PreferenceCalls == Call({"self"}, "user_preferences", {"select", "insert", "update"})
FeedbackCalls == Call({"self"}, "feedback", {"select", "insert"})
DigestCalls == Call({"member", "self"}, "org_digest_preferences", {"select", "insert", "update"})

Calls ==
    WorkItemReads \union WorkItemWrites \union DocumentReads \union DocumentWrites
      \union LifecycleCalls \union SectionCalls \union SubsectionCalls \union MoveCalls
      \union RepositoryReads \union RepositoryWrites \union InfraCalls \union ChangelogReads
      \union ChangelogWrites \union GraphCalls \union VariableCalls \union ProductKeyCalls
      \union OrgKeyCalls \union ListedProducts \union ProductReads \union ProductWrites
      \union CollaboratorCalls \union MemberAccessCalls \union MemberReads \union MemberWrites
      \union LeaveCalls \union OwnerCalls \union JobCalls \union JobStatusCalls
      \union PreferenceCalls \union FeedbackCalls \union DigestCalls

Demands == {[guard |-> e.guard, needs |-> Needed(e.table, e.command)] : e \in Calls}

\* Whatever an endpoint's check lets through, the policies admit: no statement
\* of a call that passed is refused or finds fewer rows than the check saw,
\* whoever is promoted, demoted, added or removed, in whatever order.
ChecksImplyPolicies ==
    \A u \in accounts, row \in Rows :
      LET granted == Granted(u, row)
          held == Held(u, row)
      IN \A d \in Demands : d.guard \subseteq granted => \E n \in d.needs : n \subseteq held

\* Without overlapping requests the policies admit nobody to a product whom
\* the checks refuse: nobody who left still has the rows the policies go by.
PoliciesAddNothing ==
    calm => \A u \in Users, p \in Products, level \in Asked :
              HasProductAccess(u, p, level) => Rank(Effective(p, u)) >= Rank(level)

\* The checks of the endpoints and the policies of the database draw one line.
PoliciesAgree == ChecksImplyPolicies /\ PoliciesAddNothing
=============================================================================
