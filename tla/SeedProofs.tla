----------------------------- MODULE SeedProofs -----------------------------
(***************************************************************************)
(* Proofs about Seed, for any number of seeds and teardowns.               *)
(***************************************************************************)
EXTENDS Seed, TLAPS

\* The fixture is what either order goes through, each row once.
LEMMA OrdersCover ==
    /\ Len(SeedOrder) = 15 /\ Len(TeardownOrder) = 15
    /\ \A i \in 1..15 : SeedOrder[i] \in Fixture /\ TeardownOrder[i] \in Fixture
    /\ \A x \in Fixture : /\ \E i \in 1..15 : SeedOrder[i] = x
                          /\ \E i \in 1..15 : TeardownOrder[i] = x
  BY DEF SeedOrder, TeardownOrder, Fixture, References, Others

\* Seeding goes along the foreign keys, teardown against them (seed.go:82-142).
LEMMA SeedFollowsReferences ==
    \A k \in 1..15 : \A y \in References[SeedOrder[k]] :
        \E i \in 1 .. (k - 1) : SeedOrder[i] = y
  BY DEF SeedOrder, References

LEMMA TeardownFollowsReferences ==
    \A k \in 1..15 : \A y \in Fixture : TeardownOrder[k] \in References[y] =>
        \E i \in 1 .. (k - 1) : TeardownOrder[i] = y
  BY DEF TeardownOrder, References, Fixture, Others

\* An object is inserted after its agent and deleted before it.
LEMMA AgentsFollowReferences ==
    \A k \in 1..15 : \A o \in DOMAIN AgentOf :
        /\ SeedOrder[k] = o => \E i \in 1 .. (k - 1) : SeedOrder[i] = AgentOf[o]
        /\ TeardownOrder[k] = AgentOf[o] => \E i \in 1 .. (k - 1) : TeardownOrder[i] = o
  BY DEF SeedOrder, TeardownOrder, AgentOf

LEMMA RowKinds ==
    /\ Fixture \subseteq DOMAIN References /\ Others \subseteq DOMAIN References
    /\ Fixture \cap Others = {} /\ DOMAIN References \ Others = Fixture
    /\ \A o \in DOMAIN AgentOf : /\ o \in Fixture /\ AgentOf[o] \in Fixture
                                 /\ AgentOf[o] \notin Memberships
  BY DEF Fixture, References, Others, AgentOf, Memberships

LEMMA StepsLength ==
    ASSUME NEW p \in Processes
    PROVE  Len(Steps(p)) = 15 /\ Len(Steps(p))' = 15
  BY OrdersCover DEF Steps

LEMMA CallsLeft == TypeOK => \A q \in Processes : Running(q) => position[q] < 15
  BY StepsLength DEF TypeOK

\* What one call of a running process does to the database.
LEMMA CallFacts ==
    ASSUME TypeOK, NEW p \in Processes, Running(p)
    PROVE  /\ position[p] \in 0..14 /\ Len(Steps(p)) = 15
           /\ mode[p] = "seed" => /\ At(p) = SeedOrder[position[p] + 1]
                                  /\ Effect(p) = db \cup {At(p)}
           /\ mode[p] # "seed" => /\ At(p) = TeardownOrder[position[p] + 1]
                                  /\ Effect(p) \subseteq db /\ At(p) \notin Effect(p)
                                  /\ db \ Effect(p) \subseteq {At(p)} \cup Memberships
           /\ At(p) \in Fixture /\ Effect(p) \subseteq DOMAIN References
  <1>1. /\ position[p] \in 0..14 /\ Len(Steps(p)) = 15
        /\ mode[p] = "seed" => At(p) = SeedOrder[position[p] + 1]
        /\ mode[p] # "seed" => At(p) = TeardownOrder[position[p] + 1]
    <2>1. position[p] \in 0..15 /\ position[p] < 15
      BY OrdersCover, CallsLeft DEF TypeOK
    <2> QED
      BY <2>1, StepsLength DEF Steps, At
  <1>2. At(p) \in Fixture
    BY <1>1, OrdersCover
  <1>3. At(p) \in Drops(At(p)) /\ Drops(At(p)) \subseteq {At(p)} \cup Memberships
    BY DEF Drops
  <1> QED
    BY <1>1, <1>2, <1>3, RowKinds DEF TypeOK, Effect

\* A call takes nothing from those who run undisturbed beside it, and leaves no
\* object without its agent.
LEMMA CallKeepsProgress ==
    ASSUME IInv, NEW p \in Processes, Running(p), db' = Effect(p)
    PROVE  /\ \A q \in Processes : Running(q) /\ undisturbed[q] =>
                \A i \in 1 .. position[q] :
                    IF mode[q] = "seed" THEN SeedOrder[i] \in db' ELSE TeardownOrder[i] \notin db'
           /\ (\A q \in Processes : undisturbed[q]) =>
                \A o \in DOMAIN AgentOf \cap db' : AgentOf[o] \in db'
           /\ IF mode[p] = "seed" THEN At(p) \in db' ELSE At(p) \notin db'
  <1>1. CASE mode[p] = "seed"
    <2>1. db' = db \cup {At(p)} /\ At(p) = SeedOrder[position[p] + 1]
      BY <1>1, CallFacts DEF IInv
    <2>2. \A q \in Processes : Running(q) /\ undisturbed[q] => mode[q] = "seed"
      BY <1>1 DEF IInv, Apart
    <2>3. ASSUME undisturbed[p], NEW o \in DOMAIN AgentOf, At(p) = o
          PROVE  AgentOf[o] \in db
      <3> DEFINE k == position[p] + 1
      <3>0. k \in 1..15 /\ SeedOrder[k] = o /\ k - 1 = position[p]
        BY <2>1, <2>3, CallFacts DEF IInv
      <3> HIDE DEF k
      <3>1. PICK i \in 1 .. position[p] : SeedOrder[i] = AgentOf[o]
        BY <3>0, AgentsFollowReferences
      <3> QED
        BY <1>1, <2>3, <3>1 DEF IInv, ProgressInv
    <2> QED
      BY <1>1, <2>1, <2>2, <2>3 DEF IInv, ProgressInv, ObjectsHaveAgents
  <1>2. CASE mode[p] # "seed"
    <2>1. /\ db' \subseteq db /\ At(p) \notin db' /\ At(p) = TeardownOrder[position[p] + 1]
          /\ db \ db' \subseteq {At(p)} \cup Memberships
      BY <1>2, CallFacts DEF IInv
    <2>2. \A q \in Processes : Running(q) /\ undisturbed[q] => mode[q] # "seed"
      BY <1>2 DEF IInv, Apart
    <2>3. ASSUME undisturbed[p], NEW o \in DOMAIN AgentOf, At(p) = AgentOf[o]
          PROVE  o \notin db
      <3> DEFINE k == position[p] + 1
      <3>0. k \in 1..15 /\ TeardownOrder[k] = AgentOf[o] /\ k - 1 = position[p]
        BY <2>1, <2>3, CallFacts DEF IInv
      <3> HIDE DEF k
      <3>1. PICK i \in 1 .. position[p] : TeardownOrder[i] = o
        BY <3>0, AgentsFollowReferences
      <3> QED
        BY <1>2, <2>3, <3>1 DEF IInv, ProgressInv
    <2>4. (\A q \in Processes : undisturbed[q]) =>
            \A o \in DOMAIN AgentOf \cap db' : AgentOf[o] \in db'
      BY <2>1, <2>3, RowKinds DEF IInv, ObjectsHaveAgents
    <2> QED
      BY <1>2, <2>1, <2>2, <2>4 DEF IInv, ProgressInv
  <1> QED
    BY <1>1, <1>2

LEMMA InitIInv == Init => IInv
  BY OrdersCover DEF Init, IInv, TypeOK, Apart, ProgressInv, ObjectsHaveAgents, Running

\* Two processes of different modes cannot both go on undisturbed.
LEMMA StartIInv == ASSUME IInv, NEW p \in Processes, Start(p) PROVE IInv'
  <1> DEFINE others == {q \in Processes : Running(q) /\ mode[q] # mode[p]}
  <1>1. /\ outcome[p] = "idle" /\ outcome' = [outcome EXCEPT ![p] = "running"]
        /\ undisturbed' = [q \in Processes |->
              undisturbed[q] /\ q \notin others /\ (q = p => others = {})]
        /\ UNCHANGED <<db, mode, position>>
    BY DEF Start
  <1>2. TypeOK'
    <2>1. \A q \in Processes : Running(q)' => position[q] < 15
      <3>1. \A q \in Processes : Running(q)' => Running(q) \/ position[q] = 0
        BY <1>1 DEF IInv, TypeOK, Running, ProgressInv
      <3> QED
        BY <3>1, CallsLeft DEF IInv
    <2> QED
      BY <1>1, <2>1, StepsLength DEF IInv, TypeOK
  <1>3. Apart'
    BY <1>1 DEF IInv, TypeOK, Apart, Running
  <1>4. ProgressInv'
    BY <1>1 DEF IInv, TypeOK, ProgressInv, Running
  <1>5. ObjectsHaveAgents'
    BY <1>1 DEF IInv, ObjectsHaveAgents
  <1> QED
    BY <1>2, <1>3, <1>4, <1>5 DEF IInv

LEMMA StepIInv == ASSUME IInv, NEW p \in Processes, Step(p) PROVE IInv'
  <1>1. /\ Running(p) /\ db' = Effect(p)
        /\ position' = [position EXCEPT ![p] = @ + 1]
        /\ outcome' = [outcome EXCEPT ![p] = IF position[p] + 1 = 15 THEN "done" ELSE @]
        /\ UNCHANGED <<mode, undisturbed>>
    BY CallFacts DEF Step, IInv
  <1>2. /\ position[p] \in 0..14 /\ Effect(p) \subseteq DOMAIN References
        /\ At(p) = IF mode[p] = "seed" THEN SeedOrder[position[p] + 1]
                                       ELSE TeardownOrder[position[p] + 1]
    BY <1>1, CallFacts DEF IInv
  <1>3. TypeOK'
    <2>1. \A q \in Processes : Running(q)' => position'[q] < 15
      <3>1. ASSUME NEW q \in Processes, Running(q)'
            PROVE  /\ Running(q) /\ position[q] < 15
                   /\ IF q = p THEN position'[q] = position[q] + 1 /\ position[p] + 1 # 15
                               ELSE position'[q] = position[q]
        BY <1>1, <3>1, CallsLeft DEF IInv, TypeOK, Running
      <3> QED
        BY <1>2, <3>1
    <2>2. position' \in [Processes -> 0 .. Len(SeedOrder)]
      BY <1>1, <1>2, OrdersCover DEF IInv, TypeOK
    <2> QED
      BY <1>1, <1>2, <2>1, <2>2, StepsLength DEF IInv, TypeOK
  <1>4. Apart'
    BY <1>1 DEF IInv, TypeOK, Apart, Running
  <1>5. ProgressInv'
    BY <1>1, <1>2, CallKeepsProgress DEF IInv, TypeOK, ProgressInv, Running
  <1>6. ObjectsHaveAgents'
    BY <1>1, CallKeepsProgress DEF ObjectsHaveAgents
  <1> QED
    BY <1>3, <1>4, <1>5, <1>6 DEF IInv

LEMMA EndIInv ==
    ASSUME IInv, NEW p \in Processes, Refuse(p) \/ CutShort(p)
    PROVE  IInv'
  <1>1. /\ Running(p) /\ db' \in {db, Effect(p)}
        /\ \E end \in {"refused", "lost"} : outcome' = [outcome EXCEPT ![p] = end]
        /\ UNCHANGED <<mode, position, undisturbed>>
    BY DEF Refuse, CutShort
  <1>2. \A q \in Processes : Running(q)' => Running(q) /\ q # p
    BY <1>1 DEF IInv, TypeOK, Running
  <1>3. TypeOK'
    BY <1>1, <1>2, CallFacts DEF IInv, TypeOK, Steps
  <1>4. Apart'
    BY <1>1, <1>2 DEF IInv, Apart
  <1>5. ProgressInv'
    BY <1>1, <1>2, CallKeepsProgress DEF IInv, TypeOK, ProgressInv
  <1>6. ObjectsHaveAgents'
    BY <1>1, CallKeepsProgress DEF IInv, ObjectsHaveAgents
  <1> QED
    BY <1>3, <1>4, <1>5, <1>6 DEF IInv

LEMMA OtherRowIInv == ASSUME IInv, NEW y \in Others, OtherRow(y) PROVE IInv'
  <1>1. /\ db' \in {db \cup {y}, db \ {y}}
        /\ UNCHANGED <<mode, position, outcome, undisturbed>>
    BY DEF OtherRow
  <1>2. \A x \in Fixture : x \in db' <=> x \in db
    BY <1>1, RowKinds
  <1>3. TypeOK'
    BY <1>1, RowKinds DEF IInv, TypeOK, Running, Steps
  <1>4. Apart'
    BY <1>1 DEF IInv, Apart, Running
  <1>5. ProgressInv'
    <2>1. \A p \in Processes : position[p] \in 0..15
      BY OrdersCover DEF IInv, TypeOK
    <2> QED
      BY <1>1, <1>2, <2>1, OrdersCover DEF IInv, ProgressInv, Running
  <1>6. ObjectsHaveAgents'
    BY <1>1, <1>2, RowKinds DEF IInv, ObjectsHaveAgents
  <1> QED
    BY <1>3, <1>4, <1>5, <1>6 DEF IInv

LEMMA NextIInv == IInv /\ [Next]_vars => IInv'
  <1>1. IInv /\ UNCHANGED vars => IInv'
    BY DEF vars, IInv, TypeOK, Apart, ProgressInv, ObjectsHaveAgents, Running, Steps
  <1> QED
    BY <1>1, StartIInv, StepIInv, EndIInv, OtherRowIInv DEF Next

\* The inductive invariant of the script (seed.go:82-142).
THEOREM SeedInvariance == Spec => []IInv
  BY InitIInv, NextIInv, PTL DEF Spec

\* The types, and a running process has a call left to make.
THEOREM SeedTyping == Spec => []TypeOK
  <1>1. IInv => TypeOK
    BY DEF IInv
  <1> QED
    BY SeedInvariance, <1>1, PTL

\* No object is left without its agent by seeds and teardowns that are cut short
\* anywhere, because one inserts an object after its agent and the other deletes it
\* before (seed.go:82-142).
THEOREM ObjectsKeepAgents == Spec => []ObjectsHaveAgents
  <1>1. IInv => ObjectsHaveAgents
    BY DEF IInv
  <1> QED
    BY SeedInvariance, <1>1, PTL

\* A process ends by a step of its own only.
LEMMA OwnStep ==
    ASSUME IInv, Next, NEW p \in Processes, outcome'[p] # outcome[p],
           outcome'[p] \in {"done", "refused"}
    PROVE  \/ Step(p) /\ outcome'[p] = "done" /\ position[p] = 14
           \/ Refuse(p) /\ outcome'[p] = "refused"
  <1>1. PICK q \in Processes : Start(q) \/ Step(q) \/ Refuse(q) \/ CutShort(q)
    BY DEF Next, OtherRow
  <1>2. DOMAIN outcome = Processes
    BY DEF IInv, TypeOK
  <1>3. CASE Start(q) \/ CutShort(q)
    <2>1. \E end \in {"running", "lost"} : outcome' = [outcome EXCEPT ![q] = end]
      BY <1>3 DEF Start, CutShort
    <2> QED
      BY <1>2, <2>1
  <1>4. CASE Step(q)
    <2>1. outcome' = [outcome EXCEPT ![q] = IF position[q] + 1 = Len(Steps(q)) THEN "done" ELSE @]
      BY <1>4 DEF Step
    <2>2. q = p /\ outcome'[p] = "done" /\ position[p] + 1 = Len(Steps(p))
      BY <1>2, <2>1
    <2>3. Len(Steps(p)) = 15 /\ position[p] \in Nat
      BY StepsLength, OrdersCover DEF IInv, TypeOK
    <2> QED
      BY <1>4, <2>2, <2>3
  <1>5. CASE Refuse(q)
    BY <1>2, <1>5 DEF Refuse
  <1> QED
    BY <1>1, <1>3, <1>4, <1>5

\* Exit 0 tells the truth: an undisturbed seed leaves the whole fixture, an undisturbed
\* teardown nothing of it, whatever earlier processes were cut short (seed.go:82-142).
THEOREM ExitZeroIsTrue == Spec => ExitZeroMeansDone
  <1> DEFINE Done == \A p \in Processes :
                outcome'[p] = "done" /\ outcome[p] # "done" /\ undisturbed[p] =>
                    IF mode[p] = "seed" THEN Fixture \subseteq db' ELSE Fixture \cap db' = {}
  <1>1. IInv /\ [Next]_vars => [Done]_vars
    <2> SUFFICES ASSUME IInv, Next, NEW p \in Processes,
                        outcome'[p] = "done", outcome[p] # "done", undisturbed[p],
                        NEW x \in Fixture
                 PROVE  IF mode[p] = "seed" THEN x \in db' ELSE x \notin db'
      OBVIOUS
    <2>1. Step(p) /\ position[p] = 14
      BY OwnStep
    <2>2. Running(p) /\ db' = Effect(p)
      BY <2>1 DEF Step
    <2>3. \A i \in 1..14 :
            IF mode[p] = "seed" THEN SeedOrder[i] \in db' ELSE TeardownOrder[i] \notin db'
      BY <2>1, <2>2, CallKeepsProgress
    <2>4. IF mode[p] = "seed" THEN SeedOrder[15] \in db' ELSE TeardownOrder[15] \notin db'
      BY <2>1, <2>2, CallKeepsProgress, CallFacts DEF IInv
    <2>5. \A i \in 1..15 : i \in 1..14 \/ i = 15
      OBVIOUS
    <2> QED
      BY <2>3, <2>4, <2>5, OrdersCover
  <1> QED
    BY SeedInvariance, <1>1, PTL DEF Spec, ExitZeroMeansDone

\* A refusal has its cause in a membership that is in place, or in a row of others,
\* never in what a former process has left behind: the inserts follow the foreign
\* keys and the deletes go against them (seed.go:82-142, seed.go:246-269).
THEOREM RefusalsAreCaused == Spec => RefusalsHaveCause
  <1> DEFINE Caused == \A p \in Processes :
                outcome'[p] = "refused" /\ outcome[p] # "refused" /\ undisturbed[p] =>
                    IF mode[p] = "seed"
                    THEN At(p) \in Memberships \cap db
                    ELSE \E y \in Others \cap db : At(p) \in References[y]
  <1>1. IInv /\ [Next]_vars => [Caused]_vars
    <2> SUFFICES ASSUME IInv, Next, NEW p \in Processes,
                        outcome'[p] = "refused", outcome[p] # "refused", undisturbed[p]
                 PROVE  IF mode[p] = "seed"
                        THEN At(p) \in Memberships \cap db
                        ELSE \E y \in Others \cap db : At(p) \in References[y]
      OBVIOUS
    <2>1. Running(p) /\ Refused(p)
      BY OwnStep DEF Refuse
    <2> DEFINE k == position[p] + 1
    <2>2. /\ k \in 1..15 /\ 1 .. (k - 1) = 1 .. position[p]
          /\ At(p) = IF mode[p] = "seed" THEN SeedOrder[k] ELSE TeardownOrder[k]
      BY <2>1, CallFacts DEF IInv
    <2>3. \A i \in 1 .. (k - 1) :
            IF mode[p] = "seed" THEN SeedOrder[i] \in db ELSE TeardownOrder[i] \notin db
      BY <2>1, <2>2 DEF IInv, ProgressInv
    <2> HIDE DEF k
    <2>4. CASE mode[p] = "seed"
      <3>1. References[At(p)] \subseteq db
        BY <2>2, <2>3, <2>4, SeedFollowsReferences
      <3>2. InsertRefused(At(p))
        BY <2>1, <2>4 DEF Refused
      <3> QED
        BY <2>4, <3>1, <3>2 DEF InsertRefused
    <2>5. CASE mode[p] # "seed"
      <3>1. PICK y \in db : At(p) \in References[y]
        BY <2>1, <2>5 DEF Refused, DeleteRefused
      <3>2. y \notin Fixture
        BY <2>2, <2>3, <2>5, <3>1, TeardownFollowsReferences
      <3>3. y \in Others
        BY <3>2, RowKinds DEF IInv, TypeOK
      <3> QED
        BY <2>5, <3>1, <3>3
    <2> QED
      BY <2>4, <2>5
  <1> QED
    BY SeedInvariance, <1>1, PTL DEF Spec, RefusalsHaveCause

-----------------------------------------------------------------------------
\* How far seed.go:5 ("Fully idempotent") is from the code.

OnlySeeds == \A p \in Processes : mode[p] = "seed"

\* The first membership admits one seed, once.
OnceInv ==
    /\ \A p \in Processes : outcome[p] = "done" => position[p] = 15
    /\ OnlySeeds =>
        /\ \A p \in Processes : position[p] >= 9 => "memberA" \in db
        /\ \A p, q \in Processes : position[p] >= 9 /\ position[q] >= 9 => p = q

LEMMA FirstMembership ==
    /\ SeedOrder[9] = "memberA" /\ "memberA" \in Memberships /\ "memberA" \notin Others
  BY DEF SeedOrder, Memberships, Others

LEMMA NextOnceInv == IInv /\ OnceInv /\ [Next]_vars => OnceInv'
  <1> SUFFICES ASSUME IInv, OnceInv, [Next]_vars PROVE OnceInv'
    OBVIOUS
  <1>1. ASSUME NEW p \in Processes, Start(p) \/ Refuse(p) PROVE OnceInv'
    <2>1. /\ \E end \in {"running", "refused"} : outcome' = [outcome EXCEPT ![p] = end]
          /\ UNCHANGED <<db, mode, position>>
      BY <1>1 DEF Start, Refuse
    <2> QED
      BY <2>1 DEF IInv, TypeOK, OnceInv, OnlySeeds
  <1>2. ASSUME NEW p \in Processes, Step(p) PROVE OnceInv'
    <2>1. /\ Running(p) /\ ~Refused(p) /\ db' = Effect(p)
          /\ position' = [position EXCEPT ![p] = @ + 1] /\ mode' = mode
          /\ outcome' = [outcome EXCEPT ![p] = IF position[p] + 1 = 15 THEN "done" ELSE @]
          /\ position[p] \in 0..14
      BY <1>2, CallFacts DEF Step, IInv
    <2>2. \A q \in Processes : outcome'[q] = "done" => position'[q] = 15
      BY <2>1 DEF IInv, TypeOK, OnceInv, Running
    <2>3. ASSUME OnlySeeds
          PROVE  /\ db' = db \cup {At(p)} /\ At(p) = SeedOrder[position[p] + 1]
                 /\ ~InsertRefused(At(p))
      BY <2>1, <2>3, CallFacts DEF OnlySeeds, IInv, Refused
    <2>4. ASSUME OnlySeeds, position[p] = 8
          PROVE  "memberA" \notin db /\ "memberA" \in db'
      BY <2>3, <2>4, FirstMembership DEF InsertRefused
    <2> QED
      BY <2>1, <2>2, <2>3, <2>4 DEF IInv, TypeOK, OnceInv, OnlySeeds
  <1>3. ASSUME NEW p \in Processes, CutShort(p) PROVE OnceInv'
    <2>1. /\ Running(p) /\ db' \in {db, Effect(p)} /\ UNCHANGED <<mode, position>>
          /\ outcome' = [outcome EXCEPT ![p] = "lost"]
      BY <1>3 DEF CutShort
    <2>2. OnlySeeds => db \subseteq db'
      BY <2>1, CallFacts DEF OnlySeeds, IInv
    <2> QED
      BY <2>1, <2>2 DEF IInv, TypeOK, OnceInv, OnlySeeds
  <1>4. ASSUME NEW y \in Others, OtherRow(y) PROVE OnceInv'
    <2>1. /\ db' \in {db \cup {y}, db \ {y}} /\ UNCHANGED <<mode, position, outcome>>
      BY <1>4 DEF OtherRow
    <2> QED
      BY <2>1, FirstMembership DEF OnceInv, OnlySeeds
  <1>5. CASE UNCHANGED vars
    BY <1>5 DEF vars, OnceInv, OnlySeeds
  <1> QED
    BY <1>1, <1>2, <1>3, <1>4, <1>5 DEF Next

\* As long as nobody tears down, at most one seed ever exits 0, however many are run:
\* ignore-duplicates looks at the primary key, which upsertMembership does not post
\* (seed.go:216-252), so a membership in place refuses every later seed.
THEOREM OneSeedSucceeds ==
    Spec => [](OnlySeeds => \A p, q \in Processes :
                                outcome[p] = "done" /\ outcome[q] = "done" => p = q)
  <1>1. Init => OnceInv
    BY DEF Init, OnceInv
  <1>2. OnceInv => (OnlySeeds => \A p, q \in Processes :
                                outcome[p] = "done" /\ outcome[q] = "done" => p = q)
    BY DEF OnceInv
  <1> QED
    BY SeedInvariance, NextOnceInv, <1>1, <1>2, PTL DEF Spec
=============================================================================
