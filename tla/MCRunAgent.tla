----------------------------- MODULE MCRunAgent -----------------------------
(***************************************************************************)
(* Small instances of RunAgent: two organizations, the first with a        *)
(* general group and two teams, the second with a general group only.      *)
(***************************************************************************)
EXTENDS RunAgent, TLC

CONSTANTS o1, o2, gen1, red1, blue1, gen2, alice

MCOrgs    == {o1, o2}
MCGroups  == {gen1, red1, blue1, gen2}
MCOrgOf   == gen1 :> o1 @@ red1 :> o1 @@ blue1 :> o1 @@ gen2 :> o2
MCGeneral == {gen1, gen2}
MCUsers   == {alice}

\* Agents live in the red team.
MCPlaces == {[org |-> o1, group |-> red1]}

Member(g, role) ==
    [user |-> alice, org |-> MCOrgOf[g], group |-> g, role |-> role]

\* alice as a member of the red team, as an owner who is in another team and a
\* member of another organization, and in no group.
Careers == {{Member(red1, "member")},
            {Member(blue1, "owner"), Member(gen2, "member")}, {}}

\* alice stays a member of the red team: what goes wrong then is not a matter of
\* who may see what.
Steadfast == {{Member(red1, "member")}}

ASSUME TablesAreUnique == \A table \in Careers : UniqueMemberships(table)
=============================================================================
