-------------------------------- MODULE Seed --------------------------------
(***************************************************************************)
(* scripts/seed.go: the fixture is inserted, or deleted (-teardown), by a  *)
(* process that makes one call after the other, outside any transaction,   *)
(* and exits at the first error.  Several processes may run one after      *)
(* another or at the same time, any of them may be cut short, and rows     *)
(* that are no part of the fixture come and go beside them.                *)
(***************************************************************************)
EXTENDS Naturals, Sequences

CONSTANT Processes

VARIABLES
    db,           \* the rows and storage objects that exist
    mode,         \* seed or teardown
    position,     \* the calls a process has completed
    outcome,      \* where a process stands, or how it ended
    undisturbed   \* no process of the other mode has run beside it

vars == <<db, mode, position, outcome, undisturbed>>

\* The foreign keys of the schema, row by row.  The last three are rows of others:
\* a run of a fixture agent, an agent and a membership beside the fixture's own.
References ==
    [userA |-> {}, userB |-> {}, userC |-> {}, org1 |-> {}, org2 |-> {},
     group11 |-> {"org1"}, group12 |-> {"org1"}, group21 |-> {"org2"},
     memberA |-> {"userA", "org1", "group11"},
     memberB |-> {"userB", "org1", "group12"},
     memberC |-> {"userC", "org2", "group21"},
     agent1 |-> {"org1", "group11"}, agent2 |-> {"org2", "group21"},
     object1 |-> {}, object2 |-> {},
     run |-> {"agent1", "org1", "group11", "userA"},
     agentX |-> {"org1", "group12"},
     memberX |-> {"userA", "org2", "group21"}]

Users       == {"userA", "userB", "userC"}
Memberships == {"memberA", "memberB", "memberC", "memberX"}
Others      == {"run", "agentX", "memberX"}
Fixture     == DOMAIN References \ Others

\* The agent whose CLAUDE.md an object is.
AgentOf == [object1 |-> "agent1", object2 |-> "agent2"]

\* runSeed: referenced rows first.
SeedOrder ==
    <<"userA", "userB", "userC", "org1", "org2", "group11", "group12", "group21",
      "memberA", "memberB", "memberC", "agent1", "agent2", "object1", "object2">>

\* Faulty variants of runTeardown: agents first; groups after the organizations.
TeardownAgentsFirst ==
    <<"agent1", "agent2", "object1", "object2", "memberA", "memberB", "memberC",
      "group11", "group12", "group21", "org1", "org2", "userA", "userB", "userC">>

TeardownOrgsFirst ==
    <<"object1", "object2", "agent1", "agent2", "memberA", "memberB", "memberC",
      "org1", "org2", "group11", "group12", "group21", "userA", "userB", "userC">>

\* runTeardown: "member" stands for all memberships of that user.
TeardownOrder ==
    <<"object1", "object2", "agent1", "agent2", "memberA", "memberB", "memberC",
      "group11", "group12", "group21", "org1", "org2", "userA", "userB", "userC">>

Steps(p) == IF mode[p] = "seed" THEN SeedOrder ELSE TeardownOrder

\* The step a running process is at.
At(p) == Steps(p)[position[p] + 1]

Running(p) == outcome[p] = "running"

Init ==
    /\ db = {}
    /\ mode \in [Processes -> {"seed", "teardown"}]
    /\ position = [p \in Processes |-> 0]
    /\ outcome = [p \in Processes |-> "idle"]
    /\ undisturbed = [p \in Processes |-> TRUE]

-----------------------------------------------------------------------------

(***************************************************************************)
(* createUser, upsertRow, upsertStorage.  A user, object or row whose id   *)
(* exists is left alone (422, x-upsert, ignore-duplicates).  A membership  *)
(* is posted without its primary key, the target of ignore-duplicates, so  *)
(* the one that exists is a violation of UNIQUE (user, org, group): 409.   *)
(***************************************************************************)
InsertRefused(x) ==
    \/ x \in Memberships \cap db
    \/ x \notin db /\ ~(References[x] \subseteq db)

\* deleteRow, deleteAuthUser, deleteStorage: memberships go by their user_id, and
\* with their user (ON DELETE CASCADE).
Drops(x) ==
    LET users == (References[x] \cup {x}) \cap Users
    IN {x} \cup {m \in Memberships :
                    x \in Memberships \cup Users /\ References[m] \cap users # {}}

\* No foreign key but the one of the memberships' users cascades.
DeleteRefused(x) == \E y \in db \ Drops(x) : x \in References[y]

Refused(p) == IF mode[p] = "seed" THEN InsertRefused(At(p)) ELSE DeleteRefused(At(p))

Effect(p) == IF mode[p] = "seed" THEN db \cup {At(p)} ELSE db \ Drops(At(p))

\* The process exists; both it and those of the other mode notice.
Start(p) ==
    LET others == {q \in Processes : Running(q) /\ mode[q] # mode[p]}
    IN  /\ outcome[p] = "idle"
        /\ outcome' = [outcome EXCEPT ![p] = "running"]
        /\ undisturbed' = [q \in Processes |->
              undisturbed[q] /\ q \notin others /\ (q = p => others = {})]
        /\ UNCHANGED <<db, mode, position>>

\* A faulty variant: the status of a reply is not looked at.
StepUnchecked(p) ==
    /\ Running(p)
    /\ db' = IF Refused(p) THEN db ELSE Effect(p)
    /\ position' = [position EXCEPT ![p] = @ + 1]
    /\ outcome' = [outcome EXCEPT ![p] =
                     IF position[p] + 1 = Len(Steps(p)) THEN "done" ELSE @]
    /\ UNCHANGED <<mode, undisturbed>>

\* A faulty variant: the process goes on after its last step.
StepEndless(p) ==
    /\ Running(p) /\ ~Refused(p)
    /\ db' = Effect(p)
    /\ position' = [position EXCEPT ![p] = @ + 1]
    /\ UNCHANGED <<mode, outcome, undisturbed>>

\* A call that succeeds; after the last, exit 0.
Step(p) ==
    /\ Running(p) /\ ~Refused(p)
    /\ db' = Effect(p)
    /\ position' = [position EXCEPT ![p] = @ + 1]
    /\ outcome' = [outcome EXCEPT ![p] =
                     IF position[p] + 1 = Len(Steps(p)) THEN "done" ELSE @]
    /\ UNCHANGED <<mode, undisturbed>>

\* fatalf: the server refuses, os.Exit(1).
Refuse(p) ==
    /\ Running(p) /\ Refused(p)
    /\ outcome' = [outcome EXCEPT ![p] = "refused"]
    /\ UNCHANGED <<db, mode, position, undisturbed>>

\* The call fails or its reply is lost (must), or the process is killed.
CutShort(p) ==
    /\ Running(p)
    /\ \/ ~Refused(p) /\ db' = Effect(p)
       \/ UNCHANGED db
    /\ outcome' = [outcome EXCEPT ![p] = "lost"]
    /\ UNCHANGED <<mode, position, undisturbed>>

\* Requests and tests add rows to the fixture and remove them again.
OtherRow(y) ==
    /\ \/ y \notin db /\ References[y] \subseteq db /\ db' = db \cup {y}
       \/ db' = db \ {y}
    /\ UNCHANGED <<mode, position, outcome, undisturbed>>

Next ==
    \/ \E p \in Processes : Start(p) \/ Step(p) \/ Refuse(p) \/ CutShort(p)
    \/ \E y \in Others : OtherRow(y)

Spec == Init /\ [][Next]_vars

-----------------------------------------------------------------------------

\* The type invariant of the script and of the database.
TypeOK ==
    /\ db \subseteq DOMAIN References
    /\ mode \in [Processes -> {"seed", "teardown"}]
    /\ position \in [Processes -> 0 .. Len(SeedOrder)]
    /\ outcome \in [Processes -> {"idle", "running", "done", "refused", "lost"}]
    /\ undisturbed \in [Processes -> BOOLEAN]
    /\ \A p \in Processes : Running(p) => position[p] < Len(Steps(p))

\* However seeds and teardowns are cut short, as long as none ran beside one of
\* the other mode, no storage object is left without its agent.
ObjectsHaveAgents ==
    (\A p \in Processes : undisturbed[p]) =>
        \A o \in DOMAIN AgentOf \cap db : AgentOf[o] \in db

\* A process that exits 0, no process of the other mode having run beside it, has
\* done all of its work, whatever was there before and is added or cut short
\* meanwhile: the whole fixture exists, or nothing of it does.
ExitZeroMeansDone ==
    [][\A p \in Processes :
        outcome'[p] = "done" /\ outcome[p] # "done" /\ undisturbed[p] =>
            IF mode[p] = "seed" THEN Fixture \subseteq db' ELSE Fixture \cap db' = {}]_vars

\* Such a process is refused for one of two reasons only, never because of what a
\* former process left: a seed finds a membership of the fixture in place, a
\* teardown meets a row that is not the fixture's.
RefusalsHaveCause ==
    [][\A p \in Processes :
        outcome'[p] = "refused" /\ outcome[p] # "refused" /\ undisturbed[p] =>
            IF mode[p] = "seed"
            THEN At(p) \in Memberships \cap db
            ELSE \E y \in Others \cap db : At(p) \in References[y]]_vars

\* seed.go:5: "Fully idempotent."  A seed that finds the whole fixture in place is
\* not refused.
SeedIsIdempotent ==
    [][\A p \in Processes :
        mode[p] = "seed" /\ Fixture \subseteq db =>
            ~(outcome[p] = "running" /\ outcome'[p] = "refused")]_vars

-----------------------------------------------------------------------------
\* The inductive invariant behind the safety properties.

\* Processes of different modes that run at the same time have noticed.
Apart ==
    \A p, q \in Processes :
        Running(p) /\ Running(q) /\ mode[p] # mode[q] => ~undisturbed[p]

\* What a process has inserted stays, and what it has deleted stays away, while it
\* runs and nobody disturbs it.
ProgressInv ==
    \A p \in Processes :
        /\ outcome[p] = "idle" => position[p] = 0
        /\ Running(p) /\ undisturbed[p] =>
            \A i \in 1 .. position[p] :
                IF mode[p] = "seed" THEN SeedOrder[i] \in db ELSE TeardownOrder[i] \notin db

IInv == TypeOK /\ Apart /\ ProgressInv /\ ObjectsHaveAgents
=============================================================================
