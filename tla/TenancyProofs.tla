--------------------------- MODULE TenancyProofs ---------------------------
(***************************************************************************)
(* What the policies of the migrations amount to, for every tenancy.       *)
(***************************************************************************)
EXTENDS Tenancy, TLAPS

(***************************************************************************)
(* The subquery on groups inside the other policies is itself filtered by  *)
(* the policy on groups; that filter never removes a group it selects.     *)
(***************************************************************************)
LEMMA NestedPolicyHidesNothing ==
    ASSUME NEW t
    PROVE  TeamScope(t) =
             {g \in Groups : OrgOf[g] = t.org /\ (g = t.group \/ g \in General)}
  BY DEF TeamScope, GroupVisible

\* The policy on runs is the isolation rule: organization O and a group among
\* the general one and the caller's own (20260530000001_rls-postgres.sql:59-66).
THEOREM RunsPolicyIsIsolation ==
    ASSUME NEW t, NEW row, row.group \in Groups
    PROVE  RunVisible(t, row) <=> Entitled(t, row)
  BY NestedPolicyHidesNothing DEF RunVisible, Entitled

\* The policy on agents is the isolation rule with the owner's exception
\* (20260530000001_rls-postgres.sql:45-55).
THEOREM AgentsPolicyIsIsolationOrOwner ==
    ASSUME NEW t, NEW row, row.group \in Groups
    PROVE  AgentVisible(t, row) <=>
             Entitled(t, row) \/ (t.role = "owner" /\ row.org = t.org)
  BY NestedPolicyHidesNothing DEF AgentVisible, Entitled

\* The bucket shows and admits the objects of an agent's folder to those who may see
\* and write its row, and to nobody else (20260531000001_storage-layout-fix.sql:34-67):
\* the two writes of a creation are refused, or not, for the same tenants.
THEOREM ObjectsFollowAgents ==
    ASSUME NEW t, NEW org, NEW group
    PROVE  ObjectVisible(t, <<org, group>>) <=>
             AgentVisible(t, [org |-> org, group |-> group])
  BY DEF ObjectVisible, AgentVisible

\* A tenant may write agents in his own place, as the creation does, except when his
\* membership pairs an organization with another one's group, which no constraint of
\* the table excludes (20260530000000_db-schema.sql:34-41); then only as an owner.
THEOREM OwnPlaceIsWritable ==
    ASSUME NEW t \in Tenant
    PROVE  AgentVisible(t, [org |-> t.org, group |-> t.group]) <=>
             t.role = "owner" \/ OrgOf[t.group] = t.org
  BY NestedPolicyHidesNothing DEF AgentVisible, Tenant

\* Whoever may see a run may see its agent (placed alike): a readable run never
\* points to a hidden agent.  The converse fails, for owners.
THEOREM VisibleRunHasVisibleAgent ==
    ASSUME NEW t, NEW row, RunVisible(t, row)
    PROVE  AgentVisible(t, row)
  BY DEF RunVisible, AgentVisible

\* No policy, on tables or on the bucket, shows an owner or anybody else a row
\* or an object of a foreign organization.
THEOREM ForeignOrgHidden ==
    ASSUME NEW t, NEW row, NEW path
    PROVE  /\ row.org # t.org => ~AgentVisible(t, row) /\ ~RunVisible(t, row)
           /\ path[1] # t.org => ~ObjectVisible(t, path)
  BY DEF AgentVisible, RunVisible, ObjectVisible

\* RequireRole(RoleMember), the gate of the run flow, refuses nobody who has a
\* tenant (rbac.go:16).
LEMMA MemberGateIsOpen ==
    ASSUME NEW t \in Tenant
    PROVE  RoleAtLeast(t, "member")
  BY DEF Tenant, Role, RoleAtLeast, Rank
=============================================================================
