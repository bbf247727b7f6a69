--------------------------- MODULE MCCreateAgent ---------------------------
(* Small instances of CreateAgent: one organization with a general group and a
   team, and a second organization. *)
EXTENDS CreateAgent, TLC

CONSTANTS o1, o2, gen1, red1, gen2, alice

MCOrgs    == {o1, o2}
MCGroups  == {gen1, red1, gen2}
MCOrgOf   == gen1 :> o1 @@ red1 :> o1 @@ gen2 :> o2
MCGeneral == {gen1, gen2}
MCUsers   == {alice}

As(g, role) == [user |-> alice, org |-> MCOrgOf[g], group |-> g, role |-> role]

\* A manager of the red team, demoted, removed, or moved to another organization.
Careers == {{As(red1, "manager")}, {As(red1, "member")}, {}, {As(gen2, "owner")}}
=============================================================================
