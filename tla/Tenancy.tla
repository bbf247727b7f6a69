------------------------------ MODULE Tenancy ------------------------------
(***************************************************************************)
(* The multi-tenant visibility rules: memberships, current_tenant(), the   *)
(* row-level security policies of the tables and of the storage bucket,    *)
(* and the role order of the HTTP middleware.  Pure operators; the modules *)
(* of the request flows EXTEND this one.                                   *)
(***************************************************************************)
EXTENDS Naturals

CONSTANTS
    Orgs,     \* organizations rows
    Groups,   \* groups rows
    OrgOf,    \* groups.org_id
    General,  \* the groups with is_general = true
    Users     \* auth.users rows

ASSUME TenancyAssumption ==
    /\ OrgOf \in [Groups -> Orgs]
    /\ General \subseteq Groups

Role == {"member", "manager", "owner"}

\* The integer order of role.go: a higher rank has more permissions.
Rank == [member |-> 0, manager |-> 1, owner |-> 2]

\* RequireRole(min): the request is refused when tc.Role < minRole.
RoleAtLeast(t, min) == Rank[t.role] >= Rank[min]

Tenant == [org : Orgs, group : Groups, role : Role]

Membership == [user : Users, org : Orgs, group : Groups, role : Role]

\* The schema's UNIQUE (user_id, org_id, group_id).
UniqueMemberships(table) ==
    \A m, n \in table :
        m.user = n.user /\ m.org = n.org /\ m.group = n.group => m = n

(***************************************************************************)
(* current_tenant() is SELECT ... WHERE user_id = auth.uid() LIMIT 1, with *)
(* no ORDER BY: any of the user's memberships may be the row it returns,   *)
(* and two statements may see different ones.  The empty set is the user   *)
(* without memberships, for whom every policy below is NULL, hence false.  *)
(***************************************************************************)
CurrentTenant(table, user) ==
    {[org |-> m.org, group |-> m.group, role |-> m.role] :
        m \in {n \in table : n.user = user}}

\* Policy tenant_isolation ON groups, in its recursion-free form.
GroupVisible(t, g) ==
    /\ OrgOf[g] = t.org
    /\ t.role = "owner" \/ g = t.group \/ g \in General

(***************************************************************************)
(* The subquery the other policies share: SELECT g.id FROM groups g WHERE  *)
(* g.org_id = org AND (g.id = group OR g.is_general).  It runs as the      *)
(* caller, so the policy on groups filters it too.                         *)
(***************************************************************************)
TeamScope(t) ==
    {g \in Groups : /\ GroupVisible(t, g)
                    /\ OrgOf[g] = t.org
                    /\ g = t.group \/ g \in General}

\* Policy tenant_isolation ON agents (and, alike, ON memberships): an owner
\* sees every row of the organization.
AgentVisible(t, row) ==
    /\ row.org = t.org
    /\ t.role = "owner" \/ row.group \in TeamScope(t)

\* A faulty variant of the next policy: the owner exception of agents.
RunVisibleLikeAgent(t, row) == AgentVisible(t, row)

\* Policy runs_isolation ON runs: no exception for owners.
RunVisible(t, row) ==
    /\ row.org = t.org
    /\ row.group \in TeamScope(t)

\* A faulty variant: the organization alone decides.
CredentialVisibleOrgWide(t, org) == org = t.org

\* Policy credentials_owner ON org_credentials.
CredentialVisible(t, org) == org = t.org /\ t.role = "owner"

\* A faulty variant: the organization's segment alone decides.
ObjectVisibleOrgWide(t, path) == path[1] = t.org

(***************************************************************************)
(* Policy houston_tenant_isolation ON storage.objects, for an object       *)
(* <<org, seg, ...>>.  seg is compared as text with group ids: a segment   *)
(* that is no group's id (the literal "general") is in nobody's TeamScope. *)
(***************************************************************************)
ObjectVisible(t, path) ==
    /\ path[1] = t.org
    /\ t.role = "owner" \/ path[2] \in TeamScope(t)

(***************************************************************************)
(* The isolation rule the policies are there to implement: the caller is   *)
(* entitled to his organization's general layer and to his own group.      *)
(***************************************************************************)
Entitled(t, row) ==
    /\ row.org = t.org
    /\ OrgOf[row.group] = t.org
    /\ row.group = t.group \/ row.group \in General
=============================================================================
