--------------------------- MODULE RunAgentProofs ---------------------------
(***************************************************************************)
(* Proofs about RunAgent, for every number of requests, every tenancy and  *)
(* every history of memberships.                                           *)
(***************************************************************************)
EXTENDS RunAgent, TenancyProofs

\* What UpdateRun's callers write, answer and do next.
LEMMA MarksFacts ==
    \A p \in Marking : LET m == Marks[p] IN
        \/ /\ p = "markRunning"
           /\ m.status = "running" /\ m.code = 0 /\ m.next = "workspace"
        \/ /\ p = "markDone"
           /\ m.status = "done" /\ m.code = 200 /\ m.next = "cleanup"
        \/ /\ p \in {"markNoContext", "markFailed"}
           /\ m.status = "error" /\ m.code \in {500, 502} /\ m.next = "cleanup"
        \/ /\ p \in {"markNoKey", "markNoDir"}
           /\ m.status = "error" /\ m.code \in {500, 502} /\ m.next = "end"
  BY DEF Marking, Marks, MarksAs

\* A new row leaves the agents table well-formed.
LEMMA CatalogsGrow ==
    ASSUME NEW table \in Catalogs, NEW a \in Agents, NEW p \in Places
    PROVE  [b \in DOMAIN table \cup {a} |-> IF b = a THEN p ELSE table[b]] \in Catalogs
  <1> DEFINE grown == [b \in DOMAIN table \cup {a} |-> IF b = a THEN p ELSE table[b]]
  <1>1. PICK ids \in SUBSET Agents : table \in [ids -> Places]
    BY DEF Catalogs
  <1>2. grown \in [ids \cup {a} -> Places]
    BY <1>1
  <1>3. ids \cup {a} \in SUBSET Agents
    OBVIOUS
  <1> QED
    BY <1>2, <1>3 DEF Catalogs

\* TypeOK is an invariant of the flow (runs.go:68-165 and its callees).
LEMMA InitTypeOK == Init => TypeOK
  BY DEF Init, TypeOK, Control, Codes, Status

LEMMA NextTypeOK == TypeOK /\ [Next]_vars => TypeOK'
  <1> SUFFICES ASSUME TypeOK, [Next]_vars PROVE TypeOK'
    OBVIOUS
  <1> USE DEF TypeOK, Control, Busy, BeforeRow, WithDir, Marking, Closed, Codes,
              Status, server, client, host, db, Goto, Refuse, Write, Insert, AfterInsert, LeaveBehind
  <1>1. ASSUME NEW r \in Requests, Authenticate(r) PROVE TypeOK'
    BY <1>1 DEF Authenticate
  <1>2. ASSUME NEW r \in Requests, ResolveTenant(r) PROVE TypeOK'
    <2>1. UNCHANGED <<server, client, host, db>>
      BY <1>2 DEF ResolveTenant
    <2>2. \/ Goto(r, "request") /\ UNCHANGED resp
          \/ Refuse(r, 403) \/ Refuse(r, 500)
      BY <1>2 DEF ResolveTenant
    <2>3. pc' \in [Requests -> Control]
      BY <2>2
    <2>4. resp' \in [Requests -> Codes]
      BY <2>2
    <2> QED
      BY <2>1, <2>3, <2>4
  <1>3. ASSUME NEW r \in Requests, ParseRequest(r) PROVE TypeOK'
    <2>1. UNCHANGED <<server, client, host, db>>
      BY <1>3 DEF ParseRequest
    <2>2. \/ Goto(r, "getAgent") /\ UNCHANGED resp
          \/ Refuse(r, 400)
      BY <1>3 DEF ParseRequest
    <2>3. pc' \in [Requests -> Control]
      BY <2>2
    <2>4. resp' \in [Requests -> Codes]
      BY <2>2
    <2> QED
      BY <2>1, <2>3, <2>4
  <1>4. ASSUME NEW r \in Requests, GetAgent(r) PROVE TypeOK'
    <2>1. UNCHANGED <<server, client, host, db>>
      BY <1>4 DEF GetAgent
    <2>2. \/ Goto(r, "insert") /\ UNCHANGED resp
          \/ Refuse(r, 404) \/ Refuse(r, 500)
      BY <1>4 DEF GetAgent
    <2>3. pc' \in [Requests -> Control]
      BY <2>2
    <2>4. resp' \in [Requests -> Codes]
      BY <2>2
    <2> QED
      BY <2>1, <2>3, <2>4
  <1>5. ASSUME NEW r \in Requests, CreateRun(r) PROVE TypeOK'
    <2>1. UNCHANGED <<server, client, host>>
      BY <1>5 DEF CreateRun
    <2>2. \/ Goto(r, "markRunning") /\ UNCHANGED resp
          \/ Goto(r, "markNoKey") /\ UNCHANGED resp
          \/ Refuse(r, 500)
      BY <1>5 DEF CreateRun
    <2>3. Write(r, "pending") \/ UNCHANGED runs
      BY <1>5 DEF CreateRun
    <2>4. LeaveBehind(r, "pending") \/ UNCHANGED late
      BY <1>5 DEF CreateRun
    <2>5. pc' \in [Requests -> Control] /\ resp' \in [Requests -> Codes]
      BY <2>2
    <2>6. late' \subseteq [run : Requests, status : Status \ {"absent"}]
      BY <2>4
    <2> QED
      BY <2>1, <2>3, <2>5, <2>6
  <1>6. ASSUME NEW r \in Requests, UpdateRun(r) PROVE TypeOK'
    BY <1>6, MarksFacts DEF UpdateRun
  <1>7. ASSUME NEW r \in Requests, NewWorkspace(r) PROVE TypeOK'
    BY <1>7 DEF NewWorkspace
  <1>8. ASSUME NEW r \in Requests, DownloadContext(r) PROVE TypeOK'
    BY <1>8 DEF DownloadContext
  <1>9. ASSUME NEW r \in Requests, StartClaude(r) PROVE TypeOK'
    <2>1. /\ procs' \subseteq Requests
          /\ UNCHANGED <<server, client, resp, ws, db>>
      BY <1>9 DEF StartClaude
    <2>2. \/ Goto(r, "claude") /\ UNCHANGED outcome
          \/ outcome' = [outcome EXCEPT ![r] = "failed"] /\ Goto(r, "markFailed")
      BY <1>9 DEF StartClaude
    <2>3. pc' \in [Requests -> Control]
      BY <2>2
    <2>4. outcome' \in [Requests -> {"none", "ok", "failed"}]
      BY <2>2
    <2> QED
      BY <2>1, <2>3, <2>4
  <1>10. ASSUME NEW r \in Requests, ClaudeExits(r) PROVE TypeOK'
    <2>1. procs' = procs \ {r} /\ UNCHANGED <<server, client, resp, ws, db>>
      BY <1>10 DEF ClaudeExits
    <2>2. \/ outcome' = [outcome EXCEPT ![r] = "ok"] /\ Goto(r, "markDone")
          \/ outcome' = [outcome EXCEPT ![r] = "failed"] /\ Goto(r, "markFailed")
      BY <1>10 DEF ClaudeExits
    <2>3. /\ pc' \in [Requests -> Control]
          /\ outcome' \in [Requests -> {"none", "ok", "failed"}]
      BY <2>2
    <2> QED
      BY <2>1, <2>3
  <1>11. ASSUME NEW r \in Requests, Cleanup(r) PROVE TypeOK'
    BY <1>11 DEF Cleanup
  <1>12. ASSUME NEW r \in Requests, Expire(r) \/ Disconnect(r) \/ OrphanExits(r)
         PROVE TypeOK'
    BY <1>12 DEF Expire, Disconnect, OrphanExits
  <1>13. CASE ChangeMemberships \/ Shutdown \/ Restart
    BY <1>13 DEF ChangeMemberships, Shutdown, Restart
  <1>17. CASE AddAgent
    <2>1. agents' \in Catalogs
      BY <1>17, CatalogsGrow DEF AddAgent
    <2> QED
      BY <1>17, <2>1 DEF AddAgent
  <1>14. CASE LateExecution
    <2>1. PICK w \in late :
            /\ late' = late \ {w}
            /\ Write(w.run, w.status) \/ UNCHANGED runs
            /\ UNCHANGED <<server, pc, client, resp, host>>
      BY <1>14 DEF LateExecution
    <2>2. runs' \in [Requests -> Status]
      BY <2>1
    <2> QED
      BY <2>1, <2>2
  <1>15. CASE DrainEnds \/ Crash
    BY <1>15 DEF DrainEnds, Crash, Die, Active
  <1>16. CASE UNCHANGED vars
    BY <1>16 DEF vars
  <1> QED
    BY <1>1, <1>2, <1>3, <1>4, <1>5, <1>6, <1>7, <1>8, <1>9, <1>10, <1>11,
       <1>12, <1>13, <1>14, <1>15, <1>16, <1>17 DEF Next, Handler

THEOREM Typing == Spec => []TypeOK
  <1>1. Init => TypeOK
    BY InitTypeOK
  <1>2. TypeOK /\ [Next]_vars => TypeOK'
    BY NextTypeOK
  <1> QED
    BY <1>1, <1>2, PTL DEF Spec
-----------------------------------------------------------------------------
\* The inductive invariant, part by part: one step per action, one step per
\* part under it.

LEMMA InitIInv == Init => IInv
  BY InitTypeOK DEF Init, IInv, ControlInv, VerdictInv, LateInv, Exists,
     BeforeRow, WithDir, Marking, Closed

LEMMA NextIInv == IInv /\ [Next]_vars => IInv'
  <1> SUFFICES ASSUME IInv, [Next]_vars PROVE IInv'
    OBVIOUS
  <1>0. TypeOK /\ TypeOK'
    BY NextTypeOK DEF IInv
  <1> USE <1>0 DEF IInv, TypeOK, BeforeRow, WithDir, Marking, Closed,
          server, client, host, db, Goto, Refuse, Write, Insert, AfterInsert, LeaveBehind,
          Exists
  <1>1. ASSUME NEW r \in Requests, Authenticate(r)
        PROVE ControlInv' /\ VerdictInv' /\ LateInv'
    <2>1. ControlInv'
      BY <1>1 DEF Authenticate, ControlInv, LateInv
    <2>2. VerdictInv'
      BY <1>1 DEF Authenticate, ControlInv, VerdictInv, LateInv
    <2>3. LateInv'
      BY <1>1 DEF Authenticate, ControlInv, VerdictInv, LateInv
    <2> QED
      BY <2>1, <2>2, <2>3
  <1>2. ASSUME NEW r \in Requests, ResolveTenant(r)
        PROVE ControlInv' /\ VerdictInv' /\ LateInv'
    <2>1. ControlInv'
      BY <1>2 DEF ResolveTenant, ControlInv, LateInv
    <2>2. VerdictInv'
      BY <1>2 DEF ResolveTenant, ControlInv, VerdictInv, LateInv
    <2>3. LateInv'
      BY <1>2 DEF ResolveTenant, ControlInv, VerdictInv, LateInv
    <2> QED
      BY <2>1, <2>2, <2>3
  <1>3. ASSUME NEW r \in Requests, ParseRequest(r)
        PROVE ControlInv' /\ VerdictInv' /\ LateInv'
    <2>1. ControlInv'
      BY <1>3 DEF ParseRequest, ControlInv, LateInv
    <2>2. VerdictInv'
      BY <1>3 DEF ParseRequest, ControlInv, VerdictInv, LateInv
    <2>3. LateInv'
      BY <1>3 DEF ParseRequest, ControlInv, VerdictInv, LateInv
    <2> QED
      BY <2>1, <2>2, <2>3
  <1>4. ASSUME NEW r \in Requests, GetAgent(r)
        PROVE ControlInv' /\ VerdictInv' /\ LateInv'
    <2>1. ControlInv'
      BY <1>4 DEF GetAgent, MaySeeAgent, ControlInv, LateInv
    <2>2. VerdictInv'
      BY <1>4 DEF GetAgent, ControlInv, VerdictInv, LateInv
    <2>3. LateInv'
      BY <1>4 DEF GetAgent, ControlInv, VerdictInv, LateInv
    <2> QED
      BY <2>1, <2>2, <2>3
  <1>5. ASSUME NEW r \in Requests, CreateRun(r)
        PROVE ControlInv' /\ VerdictInv' /\ LateInv'
    <2>1. ControlInv'
      BY <1>5 DEF CreateRun, ControlInv, LateInv
    <2>2. VerdictInv'
      BY <1>5 DEF CreateRun, ControlInv, VerdictInv, LateInv
    <2>3. LateInv'
      BY <1>5 DEF CreateRun, ControlInv, VerdictInv, LateInv
    <2> QED
      BY <2>1, <2>2, <2>3
  <1>6. ASSUME NEW r \in Requests, UpdateRun(r)
        PROVE ControlInv' /\ VerdictInv' /\ LateInv'
    <2> DEFINE m == Marks[pc[r]]
    <2>1. /\ pc[r] \in Marking
          /\ \/ Write(r, m.status) /\ UNCHANGED late
             \/ LeaveBehind(r, m.status) /\ UNCHANGED runs
             \/ UNCHANGED db
          /\ Goto(r, m.next)
          /\ resp' = [resp EXCEPT ![r] = m.code]
          /\ UNCHANGED <<server, client, host>>
      BY <1>6 DEF UpdateRun
    <2>2. \/ /\ pc[r] = "markRunning"
             /\ m.status = "running" /\ m.code = 0 /\ m.next = "workspace"
          \/ /\ pc[r] = "markDone"
             /\ m.status = "done" /\ m.code = 200 /\ m.next = "cleanup"
          \/ /\ pc[r] \in {"markNoContext", "markFailed"}
             /\ m.status = "error" /\ m.code \in {500, 502} /\ m.next = "cleanup"
          \/ /\ pc[r] \in {"markNoKey", "markNoDir"}
             /\ m.status = "error" /\ m.code \in {500, 502} /\ m.next = "end"
      BY <2>1, MarksFacts
    <2> HIDE DEF m
    <2>3. ControlInv'
      BY <2>1, <2>2 DEF ControlInv
    <2>4. VerdictInv'
      <3>1. CASE Write(r, m.status) /\ UNCHANGED late
        BY <2>1, <2>2, <3>1 DEF ControlInv, VerdictInv
      <3>2. CASE UNCHANGED runs
        BY <2>1, <2>2, <3>2 DEF ControlInv, VerdictInv
      <3> QED
        BY <2>1, <3>1, <3>2
    <2>5. LateInv'
      <3>1. CASE UNCHANGED late
        BY <2>1, <2>2, <3>1 DEF ControlInv, VerdictInv, LateInv
      <3>2. CASE LeaveBehind(r, m.status) /\ UNCHANGED runs
        BY <2>1, <2>2, <3>2 DEF ControlInv, VerdictInv, LateInv
      <3> QED
        BY <2>1, <3>1, <3>2
    <2> QED
      BY <2>3, <2>4, <2>5
  <1>7. ASSUME NEW r \in Requests, NewWorkspace(r)
        PROVE ControlInv' /\ VerdictInv' /\ LateInv'
    <2>1. ControlInv'
      BY <1>7 DEF NewWorkspace, ControlInv, LateInv
    <2>2. VerdictInv'
      BY <1>7 DEF NewWorkspace, ControlInv, VerdictInv, LateInv
    <2>3. LateInv'
      BY <1>7 DEF NewWorkspace, ControlInv, VerdictInv, LateInv
    <2> QED
      BY <2>1, <2>2, <2>3
  <1>8. ASSUME NEW r \in Requests, DownloadContext(r)
        PROVE ControlInv' /\ VerdictInv' /\ LateInv'
    <2>1. ControlInv'
      BY <1>8 DEF DownloadContext, ControlInv, LateInv
    <2>2. VerdictInv'
      BY <1>8 DEF DownloadContext, ControlInv, VerdictInv, LateInv
    <2>3. LateInv'
      BY <1>8 DEF DownloadContext, ControlInv, VerdictInv, LateInv
    <2> QED
      BY <2>1, <2>2, <2>3
  <1>9. ASSUME NEW r \in Requests, StartClaude(r)
        PROVE ControlInv' /\ VerdictInv' /\ LateInv'
    <2>1. ControlInv'
      BY <1>9 DEF StartClaude, ControlInv, LateInv
    <2>2. VerdictInv'
      BY <1>9 DEF StartClaude, ControlInv, VerdictInv, LateInv
    <2>3. LateInv'
      BY <1>9 DEF StartClaude, ControlInv, VerdictInv, LateInv
    <2> QED
      BY <2>1, <2>2, <2>3
  <1>10. ASSUME NEW r \in Requests, ClaudeExits(r)
        PROVE ControlInv' /\ VerdictInv' /\ LateInv'
    <2>1. ControlInv'
      BY <1>10 DEF ClaudeExits, ControlInv, LateInv
    <2>2. VerdictInv'
      BY <1>10 DEF ClaudeExits, ControlInv, VerdictInv, LateInv
    <2>3. LateInv'
      BY <1>10 DEF ClaudeExits, ControlInv, VerdictInv, LateInv
    <2> QED
      BY <2>1, <2>2, <2>3
  <1>11. ASSUME NEW r \in Requests, Cleanup(r)
        PROVE ControlInv' /\ VerdictInv' /\ LateInv'
    <2>1. ControlInv'
      BY <1>11 DEF Cleanup, ControlInv, LateInv
    <2>2. VerdictInv'
      BY <1>11 DEF Cleanup, ControlInv, VerdictInv, LateInv
    <2>3. LateInv'
      BY <1>11 DEF Cleanup, ControlInv, VerdictInv, LateInv
    <2> QED
      BY <2>1, <2>2, <2>3
  <1>12. ASSUME NEW r \in Requests, Expire(r) \/ Disconnect(r) \/ OrphanExits(r)
        PROVE ControlInv' /\ VerdictInv' /\ LateInv'
    BY <1>12 DEF Expire, Disconnect, OrphanExits, ControlInv, VerdictInv, LateInv
  <1>13. CASE ChangeMemberships \/ Shutdown \/ Restart
    BY <1>13 DEF ChangeMemberships, Shutdown, Restart, ControlInv, VerdictInv, LateInv
  <1>17. CASE AddAgent
    <2>1. DOMAIN agents \subseteq DOMAIN agents'
      BY <1>17 DEF AddAgent
    <2>2. UNCHANGED <<memberships, phase, apiKey, pc, client, resp, host, db>>
      BY <1>17 DEF AddAgent
    <2> QED
      BY <2>1, <2>2 DEF ControlInv, VerdictInv, LateInv
  <1>14. CASE LateExecution
    <2>1. PICK w \in late :
            /\ late' = late \ {w}
            /\ \/ /\ w.status = "pending" <=> runs[w.run] = "absent"
                  /\ Write(w.run, w.status)
               \/ UNCHANGED runs
            /\ UNCHANGED <<server, pc, client, resp, host>>
      BY <1>14 DEF LateExecution
    <2>2. w.run \in Requests
      OBVIOUS
    <2>3. ControlInv'
      BY <2>1, <2>2 DEF ControlInv, LateInv
    <2>4. VerdictInv'
      BY <2>1, <2>2 DEF VerdictInv, LateInv
    <2>5. LateInv'
      BY <2>1, <2>2 DEF LateInv
    <2> QED
      BY <2>3, <2>4, <2>5, <1>0
  <1>15. CASE DrainEnds \/ Crash
    <2>1. Die
      BY <1>15 DEF DrainEnds, Crash
    <2>2. ControlInv'
      BY <2>1 DEF Die, Active, Busy, Control, ControlInv
    <2>3. VerdictInv'
      BY <2>1 DEF Die, Active, Busy, Control, VerdictInv
    <2>4. LateInv'
      BY <2>1 DEF Die, Active, Busy, Control, LateInv
    <2> QED
      BY <2>2, <2>3, <2>4, <1>0
  <1>16. CASE UNCHANGED vars
    BY <1>16 DEF vars, ControlInv, VerdictInv, LateInv
  <1> QED
    BY <1>0, <1>1, <1>2, <1>3, <1>4, <1>5, <1>6, <1>7, <1>8, <1>9, <1>10, <1>11, <1>12, <1>13, <1>14, <1>15, <1>16, <1>17 DEF Next, Handler

THEOREM Invariance == Spec => []IInv
  <1>1. Init => IInv
    BY InitIInv
  <1>2. IInv /\ [Next]_vars => IInv'
    BY NextIInv
  <1> QED
    BY <1>1, <1>2, PTL DEF Spec
-----------------------------------------------------------------------------
\* The safety properties.

\* A row reads done only if its claude exited 0 (runs.go:148-155).
THEOREM DoneIsTrue == Spec => []DoneMeansClaudeSucceeded
  <1>1. IInv => DoneMeansClaudeSucceeded
    BY DEF IInv, VerdictInv, DoneMeansClaudeSucceeded
  <1> QED
    BY Invariance, <1>1, PTL

\* The response of a finished handler agrees with the row it leaves.
THEOREM ResponseIsTrue == Spec => []ResponseMatchesRow
  <1>1. IInv => ResponseMatchesRow
    BY DEF IInv, TypeOK, VerdictInv, ResponseMatchesRow, Status
  <1> QED
    BY Invariance, <1>1, PTL

\* No subprocess and no directory without a runs row.
THEOREM ClaudeHasRow == Spec => []ClaudeIsAccountedFor
  <1>1. IInv => ClaudeIsAccountedFor
    BY DEF IInv, ControlInv, TypeOK, ClaudeIsAccountedFor
  <1> QED
    BY Invariance, <1>1, PTL

\* Directories outlive the subprocess in them, orphans included.
THEOREM WorkspaceSafety == Spec => []WorkspaceOutlivesClaude
  <1>1. IInv => WorkspaceOutlivesClaude
    BY DEF IInv, ControlInv, TypeOK, WorkspaceOutlivesClaude
  <1> QED
    BY Invariance, <1>1, PTL

\* A handler that returned, on whichever path, left no directory (runs.go:138).
THEOREM WorkspacesEnd == Spec => []WorkspacesAccountedFor
  <1>1. IInv => WorkspacesAccountedFor
    BY DEF IInv, ControlInv, TypeOK, WorkspacesAccountedFor
  <1> QED
    BY Invariance, <1>1, PTL

\* A process without an API key starts no claude (runs.go:123-130): whoever
\* stands after the check was admitted by the process that is running.
THEOREM KeyIsNeeded == Spec => NoClaudeWithoutKey
  <1> DEFINE Starts == apiKey = "empty" => procs' \subseteq procs
  <1>1. IInv /\ [Next]_vars => [Starts]_vars
    <2> SUFFICES ASSUME IInv, Next, apiKey = "empty" PROVE procs' \subseteq procs
      BY DEF Starts
    <2>1. ASSUME NEW r \in Requests PROVE ~StartClaude(r)
      BY DEF StartClaude, IInv, ControlInv, WithDir
    <2> QED
      BY <2>1 DEF Next, Handler, Authenticate, ResolveTenant, ParseRequest, GetAgent,
            CreateRun, UpdateRun, NewWorkspace, DownloadContext, ClaudeExits, Cleanup,
            Expire, Disconnect, OrphanExits, ChangeMemberships, AddAgent, LateExecution,
            Shutdown, DrainEnds, Crash, Die, Restart, host
  <1> QED
    BY <1>1, Invariance, PTL DEF Spec, NoClaudeWithoutKey

\* Every write of a runs row is within the isolation rule, for every table of
\* memberships and however current_tenant() picks its row.
THEOREM Isolation == Spec => WritesAreEntitled
  <1> DEFINE Writes == \A r \in Requests : runs'[r] # runs[r] =>
                          \E t \in Tenants(r) : Entitled(t, RowOf(r))
  <1>1. IInv /\ [Next]_vars => [Writes]_vars
    <2> SUFFICES ASSUME IInv, Next, NEW q \in Requests, runs'[q] # runs[q]
                 PROVE  \E t \in Tenants(q) : Entitled(t, RowOf(q))
      BY DEF Writes
    <2>1. MaySeeRun(q) /\ Exists(q)
      <3>1. ASSUME NEW r \in Requests, CreateRun(r) \/ UpdateRun(r)
            PROVE  MaySeeRun(q) /\ Exists(q)
        BY <3>1 DEF IInv, TypeOK, ControlInv, CreateRun, MayInsertRun, UpdateRun, Insert,
             Write, db
      <3>2. CASE LateExecution
        <4>1. PICK w \in late : MaySeeRun(w.run) /\ Write(w.run, w.status)
          BY <3>2 DEF LateExecution, MayInsertRun, db
        <4> QED
          BY <4>1 DEF IInv, TypeOK, LateInv, Write
      <3>3. UNCHANGED runs \/ LateExecution
              \/ \E r \in Requests : CreateRun(r) \/ UpdateRun(r)
        BY DEF Next, Handler, Authenticate, ResolveTenant, ParseRequest, GetAgent,
               NewWorkspace, DownloadContext, StartClaude, ClaudeExits, Cleanup,
               Expire, Disconnect, OrphanExits, ChangeMemberships, AddAgent, Shutdown,
               DrainEnds, Crash, Die, Restart, db
      <3> QED
        BY <3>1, <3>2, <3>3
    <2>2. RowOf(q).group \in Groups
      <3>1. agents \in Catalogs
        BY DEF IInv, TypeOK
      <3> QED
        BY <2>1, <3>1, RunAgentAssumption DEF RowOf, Place, Exists, Catalogs
    <2> QED
      BY <2>1, <2>2, RunsPolicyIsIsolation DEF MaySeeRun
  <1> QED
    BY <1>1, Invariance, PTL DEF Spec, WritesAreEntitled
-----------------------------------------------------------------------------
\* Acceptance criteria AC1, AC6 and AC7, as far as they hold.

\* No update that goes with a 200 or 502 is refused, lost or left to a hidden row.
Recorded ==
    \A r \in Requests :
        UpdateRun(r) /\ Marks[pc[r]].code \in {200, 502} => Write(r, Marks[pc[r]].status)

\* The row of a request that was answered so has the status that goes with it.
HasAnswer(r) ==
    /\ resp[r] = 200 => runs[r] = "done"
    /\ resp[r] = 502 => runs[r] = "error"

AnswerInv == \A r \in Steady : HasAnswer(r)

LEMMA AnswerStep ==
  ASSUME IInv, AnswerInv, [Next]_vars, Recorded \/ UNCHANGED vars, NEW q \in Steady
  PROVE  HasAnswer(q)'
  <1>0. q \in Requests /\ TypeOK /\ \A w \in late : w.run # q
    BY DEF IInv, LateInv, Steady
  <1>1. CASE resp[q] \in {200, 502} /\ resp'[q] = resp[q]
    <2>1. HasAnswer(q) /\ pc[q] \in {"cleanup"} \cup Closed
      BY <1>0, <1>1 DEF AnswerInv, IInv, ControlInv
    <2>2. ASSUME NEW r \in Requests, CreateRun(r) \/ UpdateRun(r)
          PROVE  runs'[q] = runs[q]
      <3>1. r # q
        BY <2>1, <2>2 DEF CreateRun, UpdateRun, Marking, Closed
      <3>2. runs' = runs \/ \E s \in Status : Write(r, s)
        BY <2>2, MarksFacts DEF CreateRun, UpdateRun, Insert, Status, db
      <3> QED
        BY <1>0, <3>1, <3>2 DEF TypeOK, Write
    <2>3. ASSUME LateExecution PROVE runs'[q] = runs[q]
      BY <1>0, <2>3 DEF LateExecution, TypeOK, Write
    <2>4. \/ UNCHANGED runs \/ LateExecution
          \/ \E r \in Requests : CreateRun(r) \/ UpdateRun(r)
      BY DEF Next, Handler, Authenticate, ResolveTenant, ParseRequest, GetAgent,
             NewWorkspace, DownloadContext, StartClaude, ClaudeExits, Cleanup,
             Expire, Disconnect, OrphanExits, ChangeMemberships, AddAgent,
             Shutdown, DrainEnds, Crash, Die, Restart, vars, db
    <2>5. runs'[q] = runs[q]
      BY <2>2, <2>3, <2>4
    <2> QED
      BY <1>1, <2>1, <2>5 DEF HasAnswer
  <1>2. CASE resp'[q] \in {200, 502} /\ resp'[q] # resp[q]
    <2>1. ASSUME NEW r \in Requests, ~UpdateRun(r), Authenticate(r) \/ Handler(r)
          PROVE  FALSE
      <3>1. \/ resp' = resp
            \/ \E code \in Codes \ {200, 502} : resp' = [resp EXCEPT ![r] = code]
        BY <2>1 DEF Handler, Authenticate, ResolveTenant, ParseRequest, GetAgent,
           CreateRun, NewWorkspace, DownloadContext, StartClaude, ClaudeExits, Cleanup,
           Refuse, Codes
      <3> QED
        BY <1>0, <1>2, <3>1 DEF TypeOK
    <2>2. UNCHANGED resp \/ \E r \in Requests : Authenticate(r) \/ Handler(r)
      BY DEF Next, Expire, Disconnect, OrphanExits, ChangeMemberships, AddAgent,
             LateExecution, Shutdown, DrainEnds, Crash, Die, Restart, vars
    <2>3. PICK r \in Requests : UpdateRun(r)
      BY <1>2, <2>1, <2>2
    <2>4. r = q /\ Marks[pc[q]].code = resp'[q] /\ pc[q] \in Marking
      BY <1>0, <1>2, <2>3 DEF UpdateRun, TypeOK
    <2>5. Marks[pc[q]].status = IF resp'[q] = 200 THEN "done" ELSE "error"
      BY <1>2, <2>4, MarksFacts
    <2>6. Recorded
      BY <1>2 DEF vars
    <2>7. Write(q, Marks[pc[q]].status)
      BY <1>0, <1>2, <2>3, <2>4, <2>6 DEF Recorded
    <2> QED
      BY <1>0, <1>2, <2>5, <2>7 DEF Write, TypeOK, HasAnswer
  <1>3. CASE resp'[q] \notin {200, 502}
    BY <1>3 DEF HasAnswer
  <1> QED
    BY <1>1, <1>2, <1>3

\* What the tests' AC1, AC6 and AC7 expect is true when the update that goes with the
\* answer reaches the row: it reads done after a 200 and error after a 502, and
\* stays so; the runs table then tells successes from failures.  The discarded
\* errors of these updates (runs.go:124, 150, 155) are thus the only gap.
THEOREM RecordedAnswersAreMarked ==
    Spec /\ [][Recorded]_vars =>
        [](\A r \in Requests \ Flaky :
              /\ resp[r] = 200 => runs[r] = "done"
              /\ resp[r] = 502 => runs[r] = "error")
  <1>1. Init => AnswerInv
    BY DEF Init, AnswerInv, HasAnswer, Steady
  <1>2. IInv /\ AnswerInv /\ [Next]_vars /\ [Recorded]_vars => AnswerInv'
    <2> SUFFICES ASSUME IInv, AnswerInv, [Next]_vars, [Recorded]_vars, NEW q \in Steady
                 PROVE  HasAnswer(q)'
      BY DEF AnswerInv, Steady
    <2> QED
      BY AnswerStep
  <1>3. AnswerInv => \A r \in Requests \ Flaky :
            /\ resp[r] = 200 => runs[r] = "done"
            /\ resp[r] = 502 => runs[r] = "error"
    BY DEF AnswerInv, HasAnswer, Steady
  <1> QED
    BY Invariance, <1>1, <1>2, <1>3, PTL DEF Spec

-----------------------------------------------------------------------------
\* The rows of the steady requests implement RunLifecycle.

LEMMA NextOrderInv ==
    ASSUME IInv, OrderInv, [Next]_vars
    PROVE  OrderInv'
  <1>0. TypeOK /\ \A w \in late : w.run \notin Steady
    BY DEF IInv, LateInv, Steady
  <1> USE <1>0 DEF TypeOK, OrderInv, BeforeRow, WithDir, Marking, Closed, Steady,
          server, client, host, db, Goto, Refuse, Write, Insert, AfterInsert, LeaveBehind
  <1>1. ASSUME NEW r \in Requests, CreateRun(r) PROVE OrderInv'
    BY <1>1 DEF CreateRun
  <1>2. ASSUME NEW r \in Requests, UpdateRun(r) PROVE OrderInv'
    <2> DEFINE m == Marks[pc[r]]
    <2>1. /\ pc[r] \in Marking
          /\ Write(r, m.status) \/ UNCHANGED runs
          /\ Goto(r, m.next)
      BY <1>2 DEF UpdateRun
    <2>2. \/ /\ pc[r] = "markRunning"
             /\ m.status = "running" /\ m.next = "workspace"
          \/ m.next \in {"cleanup", "end"}
      BY <2>1, MarksFacts
    <2> HIDE DEF m
    <2> QED
      BY <2>1, <2>2
  <1>3. ASSUME NEW r \in Requests,
               \/ Authenticate(r) \/ ResolveTenant(r) \/ ParseRequest(r) \/ GetAgent(r)
               \/ NewWorkspace(r) \/ DownloadContext(r)
        PROVE  OrderInv'
    BY <1>3 DEF Authenticate, ResolveTenant, ParseRequest, GetAgent, NewWorkspace,
                DownloadContext
  <1>4. ASSUME NEW r \in Requests,
               \/ StartClaude(r) \/ ClaudeExits(r) \/ Cleanup(r)
               \/ Expire(r) \/ Disconnect(r) \/ OrphanExits(r)
        PROVE  OrderInv'
    BY <1>4 DEF StartClaude, ClaudeExits, Cleanup, Expire, Disconnect, OrphanExits
  <1>5. CASE ChangeMemberships \/ AddAgent \/ Shutdown \/ Restart
    BY <1>5 DEF ChangeMemberships, AddAgent, Shutdown, Restart
  <1>6. CASE LateExecution
    <2>1. PICK w \in late : /\ Write(w.run, w.status) \/ UNCHANGED runs
                            /\ UNCHANGED pc
      BY <1>6 DEF LateExecution
    <2> QED
      BY <2>1
  <1>7. CASE DrainEnds \/ Crash
    BY <1>7 DEF DrainEnds, Crash, Die, Active
  <1>8. CASE UNCHANGED vars
    BY <1>8 DEF vars
  <1> QED
    BY <1>1, <1>2, <1>3, <1>4, <1>5, <1>6, <1>7, <1>8 DEF Next, Handler

\* What RunLifecycle sees of the runs rows.
SteadyRuns == [r \in Steady |-> runs[r]]

\* A write to the row of r is, for RunLifecycle, a write to r or nothing.
LEMMA WriteSeen ==
    ASSUME TypeOK, NEW r \in Requests, NEW s \in Status, Write(r, s)
    PROVE  /\ r \in Steady => SteadyRuns' = [SteadyRuns EXCEPT ![r] = s]
           /\ r \notin Steady => SteadyRuns' = SteadyRuns
  BY DEF TypeOK, Write, SteadyRuns, Steady

LEMMA StepRefines ==
    ASSUME IInv, OrderInv, [Next]_vars
    PROVE  [Lifecycle!Next]_SteadyRuns
  <1>0. TypeOK
    BY DEF IInv
  <1>1. CASE UNCHANGED runs
    BY <1>1 DEF SteadyRuns
  <1>2. ASSUME NEW r \in Requests, CreateRun(r) PROVE [Lifecycle!Next]_SteadyRuns
    <2>1. Write(r, "pending") \/ UNCHANGED runs
      BY <1>2 DEF CreateRun, Insert, db
    <2>2. runs[r] = "absent"
      BY <1>2 DEF CreateRun, IInv, ControlInv, BeforeRow
    <2>3. CASE Write(r, "pending") /\ r \in Steady
      <3>1. SteadyRuns' = [SteadyRuns EXCEPT ![r] = "pending"]
        BY <1>0, <2>3, WriteSeen DEF Status
      <3>2. Lifecycle!Create(r)
        BY <2>2, <2>3, <3>1 DEF Lifecycle!Create, SteadyRuns
      <3> QED
        BY <2>3, <3>2 DEF Lifecycle!Next
    <2> QED
      BY <1>0, <1>1, <2>1, <2>3, WriteSeen DEF Status
  <1>3. ASSUME NEW r \in Requests, UpdateRun(r) PROVE [Lifecycle!Next]_SteadyRuns
    <2> DEFINE m == Marks[pc[r]]
    <2>1. pc[r] \in Marking /\ (Write(r, m.status) \/ UNCHANGED runs)
      BY <1>3 DEF UpdateRun, db
    <2>2. \/ pc[r] = "markRunning" /\ m.status = "running"
          \/ m.status \in {"done", "error"}
      BY <2>1, MarksFacts
    <2> HIDE DEF m
    <2>3. CASE Write(r, m.status) /\ r \in Steady
      <3>1. SteadyRuns' = [SteadyRuns EXCEPT ![r] = m.status]
        BY <1>0, <2>2, <2>3, WriteSeen DEF Status
      <3>2. /\ runs[r] \in {"pending", "running"}
            /\ pc[r] = "markRunning" => runs[r] = "pending"
        BY <2>1, <2>3 DEF OrderInv, Marking, WithDir
      <3>3. CASE pc[r] = "markRunning" /\ m.status = "running"
        <4>1. Lifecycle!Start(r)
          BY <2>3, <3>1, <3>2, <3>3 DEF Lifecycle!Start, SteadyRuns
        <4> QED
          BY <2>3, <4>1 DEF Lifecycle!Next
      <3>4. CASE m.status \in {"done", "error"}
        <4>1. PICK s \in Lifecycle!Final : s = m.status
          BY <3>4 DEF Lifecycle!Final
        <4>2. Lifecycle!Finish(r, s)
          BY <2>3, <3>1, <3>2, <4>1 DEF Lifecycle!Finish, SteadyRuns
        <4> QED
          BY <2>3, <4>2 DEF Lifecycle!Next
      <3> QED
        BY <2>2, <3>3, <3>4
    <2>4. CASE Write(r, m.status) /\ r \notin Steady
      BY <1>0, <2>2, <2>4, WriteSeen DEF Status
    <2> QED
      BY <1>1, <2>1, <2>3, <2>4
  <1>4. CASE LateExecution
    <2>1. PICK w \in late : Write(w.run, w.status) \/ UNCHANGED runs
      BY <1>4 DEF LateExecution
    <2>2. w.run \in Requests /\ w.status \in Status /\ w.run \notin Steady
      BY <1>0 DEF TypeOK, IInv, LateInv, Steady
    <2> QED
      BY <1>0, <1>1, <2>1, <2>2, WriteSeen
  <1>5. \/ UNCHANGED runs \/ LateExecution
        \/ \E r \in Requests : CreateRun(r) \/ UpdateRun(r)
    BY DEF Next, Handler, Authenticate, ResolveTenant, ParseRequest, GetAgent,
           NewWorkspace, DownloadContext, StartClaude, ClaudeExits, Cleanup,
           Expire, Disconnect, OrphanExits, ChangeMemberships, AddAgent,
           Shutdown, DrainEnds, Crash, Die, Restart, vars, db
  <1> QED
    BY <1>1, <1>2, <1>3, <1>4, <1>5

\* Seen on the rows of the requests that leave no statement behind, the run flow
\* is RunLifecycle: a final status is final, and no row is reborn, whatever
\* happens late to the rows of the others (runs.go:110-155).
THEOREM Refinement == Spec => RefinesLifecycle
  <1>1. Init => Lifecycle!Init /\ OrderInv
    BY DEF Init, Lifecycle!Init, OrderInv, WithDir, Steady
  <1>2. IInv /\ OrderInv /\ [Next]_vars => OrderInv'
    BY NextOrderInv
  <1>3. IInv /\ OrderInv /\ [Next]_vars => [Lifecycle!Next]_SteadyRuns
    BY StepRefines
  <1> QED
    BY Invariance, <1>1, <1>2, <1>3, PTL
       DEF Spec, RefinesLifecycle, Lifecycle!Spec, SteadyRuns
=============================================================================
