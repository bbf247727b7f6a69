--------------------------- MODULE MCOrchestrator ---------------------------
(* A small instance of Orchestrator: one creation and one run, of the same user
   or of users of different organizations. *)
EXTENDS Orchestrator, TLC

CONSTANTS o1, o2, gen1, red1, gen2, alice, bob

MCOrgs    == {o1, o2}
MCGroups  == {gen1, red1, gen2}
MCOrgOf   == gen1 :> o1 @@ red1 :> o1 @@ gen2 :> o2
MCGeneral == {gen1, gen2}
MCUsers   == {alice, bob}

As(user, g, role) == [user |-> user, org |-> MCOrgOf[g], group |-> g, role |-> role]

\* alice as a manager of the red team, next to bob in the other organization; both
\* in another role and team; alice removed.
Careers == {{As(alice, red1, "manager"), As(bob, gen2, "owner")},
            {As(alice, red1, "member"), As(bob, gen1, "owner")},
            {As(bob, red1, "member")}}
=============================================================================
