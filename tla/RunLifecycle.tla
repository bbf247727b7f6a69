---------------------------- MODULE RunLifecycle ----------------------------
(***************************************************************************)
(* What the runs table promises a reader of a run's status: a row is born  *)
(* pending, may be seen running, and ends done or error for good.  Nothing *)
(* is promised about ever getting there.                                   *)
(***************************************************************************)
CONSTANT Requests

VARIABLE runs   \* the status of the row each request inserts, if it does

Status == {"absent", "pending", "running", "done", "error"}

Final == {"done", "error"}

Init == runs = [r \in Requests |-> "absent"]

Create(r) ==
    /\ runs[r] = "absent"
    /\ runs' = [runs EXCEPT ![r] = "pending"]

Start(r) ==
    /\ runs[r] = "pending"
    /\ runs' = [runs EXCEPT ![r] = "running"]

\* The update to running is best effort, so a run may end from pending.
Finish(r, s) ==
    /\ runs[r] \in {"pending", "running"}
    /\ runs' = [runs EXCEPT ![r] = s]

Next == \E r \in Requests :
            Create(r) \/ Start(r) \/ \E s \in Final : Finish(r, s)

Spec == Init /\ [][Next]_runs
=============================================================================
