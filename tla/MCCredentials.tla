--------------------------- MODULE MCCredentials ---------------------------
(* A small instance of Credentials: two organizations of one group each. *)
EXTENDS Credentials, TLC

CONSTANTS o1, o2, g1, g2, alice, bob

MCOrgs   == {o1, o2}
MCGroups == {g1, g2}
MCOrgOf  == g1 :> o1 @@ g2 :> o2
MCUsers  == {alice, bob}

As(user, g, role) == [user |-> user, org |-> MCOrgOf[g], group |-> g, role |-> role]

\* alice as the owner of o1, of both organizations, and demoted; bob as another
\* owner of o1, as its member, and as the owner of o2.
Careers == {{As(alice, g1, "owner"), As(bob, g1, "owner")},
            {As(alice, g1, "owner"), As(alice, g2, "owner"), As(bob, g1, "member")},
            {As(alice, g1, "member"), As(bob, g2, "owner")}}

\* alice registers and rotates, bob revokes and asks, and writes to his own.
MCCalls == [user : {alice}, verb : {"register", "rotate"}, org : {o1}]
             \cup [user : {bob}, verb : {"revoke", "status"}, org : {o1}]
             \cup [user : {bob}, verb : {"rotate"}, org : {o2}]

Symmetry == Permutations(Requests)
=============================================================================
