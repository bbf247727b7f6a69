---------------------------- MODULE AgentCatalog ----------------------------
(***************************************************************************)
(* What readers of agents may rely on: an agent is a row and a CLAUDE.md   *)
(* in the bucket, the row comes first, neither is ever withdrawn, and the  *)
(* file may be missing for ever.                                           *)
(***************************************************************************)
CONSTANT Agents

VARIABLES
    rows,   \* agents with a row
    files   \* agents with a CLAUDE.md

Init == rows = {} /\ files = {}

Register(a) ==
    /\ a \notin rows
    /\ rows' = rows \cup {a}
    /\ UNCHANGED files

Publish(a) ==
    /\ a \in rows \ files
    /\ files' = files \cup {a}
    /\ UNCHANGED rows

Next == \E a \in Agents : Register(a) \/ Publish(a)

Spec == Init /\ [][Next]_<<rows, files>>
=============================================================================
