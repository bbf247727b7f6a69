---------------------------- MODULE MCHydration ----------------------------
(* Small instances of Hydration: an agent of the red team of the first
   organization, and a user with any membership, or with two. *)
EXTENDS Hydration, TLC

CONSTANTS o1, o2, gen1, red1, blue1, gen2, alice

MCOrgs    == {o1, o2}
MCGroups  == {gen1, red1, blue1, gen2}
MCOrgOf   == gen1 :> o1 @@ red1 :> o1 @@ blue1 :> o1 @@ gen2 :> o2
MCGeneral == {gen1, gen2}
MCUsers   == {alice}
RedAgent  == [org |-> o1, group |-> red1]

As(g, role) == [user |-> alice, org |-> MCOrgOf[g], group |-> g, role |-> role]

AllTables == {{}} \cup {{As(g, x)} : g \in MCGroups, x \in {"member", "owner"}}
                  \cup {{As(red1, "member"), As(blue1, "member")},
                        {As(red1, "owner"), As(gen2, "owner")}}

\* A member and an owner, to whom nothing happens.
Steady == {{As(red1, "member")}, {As(red1, "owner")}}
=============================================================================
