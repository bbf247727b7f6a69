------------------------------ MODULE RunAgent ------------------------------
(***************************************************************************)
(* POST /v1/agents/{id}/runs, from the authentication middleware to the    *)
(* deferred clean-up of the workspace, for any number of concurrent        *)
(* requests, together with the server's shutdown and crash, and the        *)
(* database that executes the handler's statements under the caller's JWT. *)
(*                                                                         *)
(* Every call to Supabase is one step with several outcomes: executed and  *)
(* answered; refused by row-level security; failed without effect; or      *)
(* executed although the handler sees an error.  A statement that a Flaky  *)
(* request has given up on may also execute later.                         *)
(***************************************************************************)
EXTENDS Tenancy

CONSTANTS
    Requests,    \* one per HTTP request; also names the run the request inserts
    Agents,      \* ids of agents rows
    Places,      \* the (org_id, group_id) agents may have
    Tables,      \* the contents the memberships table may be given
    Flaky        \* requests whose abandoned statements may still execute

ASSUME RunAgentAssumption ==
    /\ Places \subseteq [org : Orgs, group : Groups]
    /\ Tables \subseteq SUBSET Membership
    /\ Flaky \subseteq Requests

VARIABLES
    memberships,  \* the memberships table
    agents,       \* the agents table: the place of each row there is
    phase,        \* the server process: up, draining (Shutdown called), down
    apiKey,       \* its configuration: cfg.AnthropicAPIKey set or empty
    pc,           \* where each request's handler stands
    asked,        \* the user of the JWT and the agent in the path
    link,         \* live; expired (JWT); gone (r.Context() cancelled)
    resp,         \* status code written by the handler, 0 before
    outcome,      \* what runner.Run returned
    ws,           \* requests whose /tmp/houston-run-{id} directory exists
    procs,        \* requests whose claude subprocess is alive
    runs,         \* status of the runs row of each request
    late          \* abandoned statements the database may still execute

server  == <<memberships, agents, phase, apiKey>>
client  == <<asked, link>>
host    == <<ws, procs, outcome>>
db      == <<runs, late>>
vars    == <<memberships, agents, phase, apiKey, pc, asked, link, resp, outcome,
             ws, procs, runs, late>>

Status == {"absent", "pending", "running", "done", "error"}

(***************************************************************************)
(* The handler's calls of UpdateRun: the status each one writes, the code  *)
(* of the response that follows, and where control goes next.  Their       *)
(* errors are discarded (_ = store.UpdateRun(...)).                        *)
(***************************************************************************)
MarksAs(failedCode, noContextNext) ==
    [markRunning   |-> [status |-> "running", code |-> 0,   next |-> "workspace"],
     markNoKey     |-> [status |-> "error",   code |-> 502, next |-> "end"],
     markNoDir     |-> [status |-> "error",   code |-> 500, next |-> "end"],
     markNoContext |-> [status |-> "error",   code |-> 500, next |-> noContextNext],
     markFailed    |-> [status |-> "error",   code |-> failedCode, next |-> "cleanup"],
     markDone      |-> [status |-> "done",    code |-> 200, next |-> "cleanup"]]

\* Faulty variants: a failed run is answered 200; an early return before the
\* clean-up is deferred.
MarksAnswerOK == MarksAs(200, "cleanup")
MarksReturnEarly == MarksAs(502, "end")

Marks == MarksAs(502, "cleanup")

Marking == {"markRunning", "markNoKey", "markNoDir", "markNoContext",
            "markFailed", "markDone"}

\* Control states with a row not yet inserted, and with a workspace.
BeforeRow == {"tenant", "request", "getAgent", "insert"}
WithDir   == {"hydrate", "launch", "claude", "markNoContext", "markFailed",
              "markDone", "cleanup"}
Busy      == BeforeRow \cup Marking \cup WithDir \cup {"workspace"}
Closed    == {"end", "dead"}
Control   == {"idle"} \cup Busy \cup Closed

Codes == {0, 200, 400, 401, 403, 404, 500, 502}

Active(r) == pc[r] \in Busy

\* The contents of the agents table.
Catalogs == UNION {[ids -> Places] : ids \in SUBSET Agents}

Init ==
    /\ memberships \in Tables
    /\ agents \in Catalogs
    /\ phase = "up"
    /\ apiKey \in {"set", "empty"}
    /\ pc = [r \in Requests |-> "idle"]
    /\ asked \in [Requests -> [user : Users, agent : Agents]]
    /\ link = [r \in Requests |-> "live"]
    /\ resp = [r \in Requests |-> 0]
    /\ outcome = [r \in Requests |-> "none"]
    /\ ws = {} /\ procs = {}
    /\ runs = [r \in Requests |-> "absent"]
    /\ late = {}

-----------------------------------------------------------------------------
\* What a statement of r's user may see: any row of current_tenant().

Tenants(r) == CurrentTenant(memberships, asked[r].user)

Exists(r) == asked[r].agent \in DOMAIN agents

Place(r) == agents[asked[r].agent]

\* The other columns of the row are those of RunRecord: never updated.
RowOf(r) == [org |-> Place(r).org, group |-> Place(r).group]

MaySeeAgent(r) == Exists(r) /\ \E t \in Tenants(r) : AgentVisible(t, Place(r))

MayMissAgent(r) ==
    Exists(r) => Tenants(r) = {} \/ \E t \in Tenants(r) : ~AgentVisible(t, Place(r))

MaySeeRun(r)    == \E t \in Tenants(r) : RunVisible(t, RowOf(r))

\* The foreign key agent_id, then the policy's WITH CHECK.
MayInsertRun(r) == Exists(r) /\ MaySeeRun(r)

Goto(r, p) == pc' = [pc EXCEPT ![r] = p]

\* An error envelope followed by return, with nothing deferred yet.
Refuse(r, code) ==
    /\ Goto(r, "end")
    /\ resp' = [resp EXCEPT ![r] = code]

Write(r, s) == runs' = [runs EXCEPT ![r] = s]

\* The statement left behind by a call that gave up on it.
LeaveBehind(r, s) ==
    /\ r \in Flaky
    /\ late' = late \cup {[run |-> r, status |-> s]}

-----------------------------------------------------------------------------
\* The request's own steps.

\* AuthMiddleware: a token that does not validate (or whose key cannot be
\* resolved) is answered 401.
Authenticate(r) ==
    /\ phase = "up"
    /\ pc[r] = "idle"
    /\ \/ /\ link[r] = "live"
          /\ Goto(r, "tenant")
          /\ UNCHANGED resp
       \/ Refuse(r, 401)
    /\ UNCHANGED <<server, client, host, db>>

\* TenantMiddleware and RequireRole(RoleMember), which no role fails: no
\* membership is 403; an error of the RPC (an expired JWT's error object does
\* not decode as rows) is 500.
ResolveTenant(r) ==
    /\ pc[r] = "tenant"
    /\ \/ /\ link[r] = "live"
          /\ \E t \in Tenants(r) : RoleAtLeast(t, "member")
          /\ Goto(r, "request")
          /\ UNCHANGED resp
       \/ link[r] = "live" /\ Tenants(r) = {} /\ Refuse(r, 403)
       \/ Refuse(r, 500)
    /\ UNCHANGED <<server, client, host, db>>

\* The agent id, the JSON body and the prompt.
ParseRequest(r) ==
    /\ pc[r] = "request"
    /\ \/ Goto(r, "getAgent") /\ UNCHANGED resp
       \/ Refuse(r, 400)
    /\ UNCHANGED <<server, client, host, db>>

GetAgent(r) ==
    /\ pc[r] = "getAgent"
    /\ \/ /\ link[r] = "live" /\ MaySeeAgent(r)
          /\ Goto(r, "insert")
          /\ UNCHANGED resp
       \/ link[r] = "live" /\ MayMissAgent(r) /\ Refuse(r, 404)
       \/ Refuse(r, 500)
    /\ UNCHANGED <<server, client, host, db>>

\* The inserted row's status; a faulty variant inserts it as running.
InsertRunning(r) == Write(r, "running")
Insert(r) == Write(r, "pending")

\* The check of the server's API key; a faulty variant omits it.
AlwaysRun == "markRunning"
AfterInsert == IF apiKey = "set" THEN "markRunning" ELSE "markNoKey"

\* A faulty variant: the error of the insert is discarded like the updates'.
CreateRunUnchecked(r) ==
    /\ pc[r] = "insert"
    /\ Insert(r) \/ UNCHANGED runs
    /\ Goto(r, AfterInsert)
    /\ UNCHANGED <<server, client, resp, host, late>>

\* INSERT INTO runs; every error is answered 500.
CreateRun(r) ==
    /\ pc[r] = "insert"
    /\ \/ /\ link[r] = "live" /\ MayInsertRun(r)
          /\ Insert(r)
          /\ Goto(r, AfterInsert)
          /\ UNCHANGED <<resp, late>>
       \/ /\ link[r] = "live" /\ MayInsertRun(r)   \* executed, reply lost
          /\ Insert(r)
          /\ Refuse(r, 500)
          /\ UNCHANGED late
       \/ /\ link[r] = "live"
          /\ LeaveBehind(r, "pending")
          /\ Refuse(r, 500)
          /\ UNCHANGED runs
       \/ Refuse(r, 500) /\ UNCHANGED db        \* refused, or failed
    /\ UNCHANGED <<server, client, host>>

\* PATCH runs?id=eq.{id}.  A row hidden by RLS is not matched, which is a
\* success for PostgREST; whatever happens the handler goes on.
UpdateRun(r) ==
    /\ pc[r] \in Marking
    /\ LET m == Marks[pc[r]] IN
        /\ \/ /\ link[r] = "live" /\ MaySeeRun(r)
              /\ Write(r, m.status)
              /\ UNCHANGED late
           \/ /\ link[r] = "live"
              /\ LeaveBehind(r, m.status)
              /\ UNCHANGED runs
           \/ UNCHANGED db
        /\ Goto(r, m.next)
        /\ resp' = [resp EXCEPT ![r] = m.code]
    /\ UNCHANGED <<server, client, host>>

NewWorkspace(r) ==
    /\ pc[r] = "workspace"
    /\ \/ ws' = ws \cup {r} /\ Goto(r, "hydrate")
       \/ Goto(r, "markNoDir") /\ UNCHANGED ws
    /\ UNCHANGED <<server, client, resp, procs, outcome, db>>

\* DownloadContext tolerates every refusal (an expired JWT lists nothing), so
\* only transport, decoding and disk errors make it fail.
DownloadContext(r) ==
    /\ pc[r] = "hydrate"
    /\ \/ link[r] # "gone" /\ Goto(r, "launch")
       \/ Goto(r, "markNoContext")
    /\ UNCHANGED <<server, client, resp, host, db>>

\* exec.CommandContext(ctx, "claude", ...).Start: nothing is started when the
\* binary is missing or the context is already cancelled.
StartClaude(r) ==
    /\ pc[r] = "launch"
    /\ \/ /\ link[r] # "gone"
          /\ procs' = procs \cup {r}
          /\ Goto(r, "claude")
          /\ UNCHANGED outcome
       \/ /\ outcome' = [outcome EXCEPT ![r] = "failed"]
          /\ Goto(r, "markFailed")
          /\ UNCHANGED procs
    /\ UNCHANGED <<server, client, resp, ws, db>>

\* Faulty variants: the error of the run is discarded; the handler stops waiting
\* when the context ends; the subprocess is not bound to the context.
ClaudeUnchecked(r) ==
    /\ pc[r] = "claude"
    /\ procs' = procs \ {r}
    /\ \E x \in {"ok", "failed"} : outcome' = [outcome EXCEPT ![r] = x]
    /\ Goto(r, "markDone")
    /\ UNCHANGED <<server, client, resp, ws, db>>

ClaudeAbandoned(r) ==
    /\ pc[r] = "claude"
    /\ link[r] = "gone"
    /\ outcome' = [outcome EXCEPT ![r] = "failed"]
    /\ Goto(r, "markFailed")
    /\ UNCHANGED <<server, client, resp, ws, procs, db>>

ClaudeUnbound(r) ==
    /\ pc[r] = "claude"
    /\ link[r] # "gone"
    /\ procs' = procs \ {r}
    /\ outcome' = [outcome EXCEPT ![r] = "ok"]
    /\ Goto(r, "markDone")
    /\ UNCHANGED <<server, client, resp, ws, db>>

\* cmd.Output returns once the subprocess is gone: it exited, or it was killed
\* because the context was cancelled (a kill may come too late for an exit 0).
ClaudeExits(r) ==
    /\ pc[r] = "claude"
    /\ procs' = procs \ {r}
    /\ \/ outcome' = [outcome EXCEPT ![r] = "ok"] /\ Goto(r, "markDone")
       \/ outcome' = [outcome EXCEPT ![r] = "failed"] /\ Goto(r, "markFailed")
    /\ UNCHANGED <<server, client, resp, ws, db>>

\* A faulty variant: the directory is not removed.
CleanupForgotten(r) ==
    /\ pc[r] = "cleanup"
    /\ Goto(r, "end")
    /\ UNCHANGED <<server, client, resp, host, db>>

\* defer ws.Cleanup(), as the handler returns.
Cleanup(r) ==
    /\ pc[r] = "cleanup"
    /\ ws' = ws \ {r}
    /\ Goto(r, "end")
    /\ UNCHANGED <<server, client, resp, procs, outcome, db>>

Handler(r) ==
    \/ ResolveTenant(r) \/ ParseRequest(r) \/ GetAgent(r) \/ CreateRun(r)
    \/ UpdateRun(r) \/ NewWorkspace(r) \/ DownloadContext(r)
    \/ StartClaude(r) \/ ClaudeExits(r) \/ Cleanup(r)

-----------------------------------------------------------------------------
\* The client, the administrators, the database and the process.

\* The JWT's exp passes.
Expire(r) ==
    /\ pc[r] \notin Closed
    /\ link[r] = "live"
    /\ link' = [link EXCEPT ![r] = "expired"]
    /\ UNCHANGED <<server, pc, asked, resp, host, db>>

\* The client hangs up: net/http cancels r.Context().
Disconnect(r) ==
    /\ Active(r)
    /\ link[r] # "gone"
    /\ link' = [link EXCEPT ![r] = "gone"]
    /\ UNCHANGED <<server, pc, asked, resp, host, db>>

\* Memberships are administered outside the orchestrator.
ChangeMemberships ==
    /\ memberships' \in Tables
    /\ UNCHANGED <<agents, phase, apiKey, pc, client, resp, host, db>>

\* Another request creates an agent.  No handler updates or deletes one; the
\* teardown of the fixture (scripts/seed.go:123-124, module Seed) does, and is
\* taken not to run beside the server.
AddAgent ==
    \E a \in Agents \ DOMAIN agents : \E p \in Places :
        /\ agents' = [b \in DOMAIN agents \cup {a} |-> IF b = a THEN p ELSE agents[b]]
        /\ UNCHANGED <<memberships, phase, apiKey, pc, client, resp, host, db>>

\* The database executes an abandoned statement under the policies of that
\* moment, or drops it.
LateExecution ==
    \E w \in late :
        /\ late' = late \ {w}
        /\ \/ /\ IF w.status = "pending" THEN MayInsertRun(w.run) ELSE MaySeeRun(w.run)
              /\ w.status = "pending" <=> runs[w.run] = "absent"
              /\ Write(w.run, w.status)
           \/ UNCHANGED runs
        /\ UNCHANGED <<server, pc, client, resp, host>>

\* SIGINT or SIGTERM: srv.Shutdown stops accepting and waits for the handlers;
\* it does not cancel their contexts.
Shutdown ==
    /\ phase = "up"
    /\ phase' = "draining"
    /\ UNCHANGED <<memberships, agents, apiKey, pc, client, resp, host, db>>

\* The process disappears with its goroutines; subprocesses and directories stay.
Die ==
    /\ phase' = "down"
    /\ pc' = [r \in Requests |-> IF Active(r) THEN "dead" ELSE pc[r]]
    /\ UNCHANGED <<memberships, agents, apiKey, client, resp, host, db>>

\* A faulty variant: Shutdown without a deadline.
DrainWaits ==
    /\ phase = "draining"
    /\ \A r \in Requests : ~Active(r)
    /\ Die

\* Shutdown returns when no handler is left, or after 30 s with an error, on
\* which main exits the process (log.Fatalf) without running deferred calls.
DrainEnds ==
    /\ phase = "draining"
    /\ Die

Crash ==
    /\ phase # "down"
    /\ Die

\* A new process, configured anew: nothing of the old one's runs is looked at.
Restart ==
    /\ phase = "down"
    /\ phase' = "up"
    /\ apiKey' \in {"set", "empty"}
    /\ UNCHANGED <<memberships, agents, pc, client, resp, host, db>>

\* A claude that outlived its server finishes.
OrphanExits(r) ==
    /\ pc[r] = "dead"
    /\ r \in procs
    /\ procs' = procs \ {r}
    /\ UNCHANGED <<server, pc, client, resp, ws, outcome, db>>

Next ==
    \/ \E r \in Requests :
        \/ Authenticate(r) \/ Handler(r)
        \/ Expire(r) \/ Disconnect(r) \/ OrphanExits(r)
    \/ ChangeMemberships \/ AddAgent \/ LateExecution
    \/ Shutdown \/ DrainEnds \/ Crash \/ Restart

Spec == Init /\ [][Next]_vars

(***************************************************************************)
(* Fairness.  Once its context is cancelled a handler's calls return: each *)
(* HTTP request and the subprocess are bound to r.Context().  A drain ends *)
(* by its timer.  Nothing else is fair: the HTTP client has no timeout, so *)
(* Supabase or claude may keep a connected request waiting for ever.       *)
(***************************************************************************)
Fairness ==
    /\ \A r \in Requests : WF_vars(link[r] = "gone" /\ Handler(r))
    /\ WF_vars(DrainEnds)

LiveSpec == Spec /\ Fairness

-----------------------------------------------------------------------------
\* Properties.

\* The type invariant of the flow.
TypeOK ==
    /\ memberships \in Tables
    /\ agents \in Catalogs
    /\ phase \in {"up", "draining", "down"}
    /\ apiKey \in {"set", "empty"}
    /\ pc \in [Requests -> Control]
    /\ asked \in [Requests -> [user : Users, agent : Agents]]
    /\ link \in [Requests -> {"live", "expired", "gone"}]
    /\ resp \in [Requests -> Codes]
    /\ outcome \in [Requests -> {"none", "ok", "failed"}]
    /\ ws \subseteq Requests
    /\ procs \subseteq Requests
    /\ runs \in [Requests -> Status]
    /\ late \subseteq [run : Requests, status : Status \ {"absent"}]

\* A row reads done only if this request's claude exited 0, through every lost,
\* refused or late update.
DoneMeansClaudeSucceeded ==
    \A r \in Requests : runs[r] = "done" => outcome[r] = "ok"

\* The row of a finished handler never contradicts its answer, whatever was lost
\* or came late: it reads done only after a 200 and error only after a failure,
\* claude succeeded behind every 200, and there is a row after 200 and 502, none
\* after 4xx.  That the row also catches up with the answer (done after 200, error
\* after 502) is what the tests expect and the code does not ensure: see
\* RowsTellOutcomes.
ResponseMatchesRow ==
    \A r \in Requests : pc[r] = "end" =>
        /\ runs[r] = "done" => resp[r] = 200
        /\ runs[r] = "error" => resp[r] \in {500, 502}
        /\ resp[r] = 200 => outcome[r] = "ok"
        /\ resp[r] \in {200, 502} => runs[r] # "absent"
        /\ resp[r] \in {400, 401, 403, 404} => runs[r] = "absent"

\* claude never works, and no context is ever on disk, without a runs row to
\* account for it, also after a crash.
ClaudeIsAccountedFor ==
    \A r \in procs \cup ws : runs[r] # "absent"

\* The workspace outlives the subprocess running in it: Cleanup never pulls the
\* directory from under a claude that is still alive, not even an orphaned one.
WorkspaceOutlivesClaude == procs \subseteq ws

\* A workspace left behind is the work of a process that died: every handler
\* that returned, on whichever path, has removed its own.
WorkspacesAccountedFor ==
    \A r \in ws : pc[r] \in WithDir \cup {"dead"}

\* AC7 of the tests: a server without an API key never starts claude, also when
\* its predecessor had one.
NoClaudeWithoutKey == [][apiKey = "empty" => procs' \subseteq procs]_vars

\* A runs row is written only while some membership of its user entitles him to
\* the row's organization and group: a user removed in the middle of a run
\* cannot change it any more, and an owner never writes a team's row.
WritesAreEntitled ==
    [][\A r \in Requests : runs'[r] # runs[r] =>
        \E t \in Tenants(r) : Entitled(t, RowOf(r))]_vars

\* The rows of the requests that leave no statement behind go through the run's
\* life cycle, whatever the flaky ones do.
Steady == Requests \ Flaky

Lifecycle == INSTANCE RunLifecycle
    WITH Requests <- Steady, runs <- [r \in Steady |-> runs[r]]

RefinesLifecycle == Lifecycle!Spec

\* A request whose client hung up does not hold its handler, its subprocess and
\* its directory for ever: the handler returns, or dies with the server.
CancelledRunsEnd ==
    \A r \in Requests : (Active(r) /\ link[r] = "gone") ~> pc[r] \in Closed

\* A shutdown request brings the process down even while handlers hang.
ShutdownCompletes == phase = "draining" ~> phase = "down"

\* What the tests' AC1 and AC6 say of one run each, put together: the row of a run
\* answered 200 ("status":"done") reads done, that of a run whose claude failed,
\* answered 502, reads error; so the runs table tells a success from a failure.
\* Where the two rows are the same, neither has the status that was promised.
RowsTellOutcomes ==
    \A r, s \in Requests :
        /\ pc[r] = "end" /\ resp[r] = 200
        /\ pc[s] = "end" /\ resp[s] = 502 /\ outcome[s] = "failed"
        => runs[r] # runs[s]

-----------------------------------------------------------------------------
\* The inductive invariant behind the safety properties.

\* What exists for a request (row, directory, subprocess, response) follows
\* from where its handler stands.
ControlInv ==
    \A r \in Requests :
        /\ pc[r] \in {"idle"} \cup BeforeRow =>
                runs[r] = "absent" /\ outcome[r] = "none"
        /\ pc[r] \in Marking \cup WithDir \cup {"workspace"} => runs[r] # "absent"
        /\ phase = "down" => pc[r] \in {"idle"} \cup Closed
        /\ pc[r] \in {"markRunning", "workspace"} \cup WithDir => apiKey = "set"
        /\ pc[r] \in WithDir => r \in ws
        /\ r \in ws => pc[r] \in WithDir \cup {"dead"} /\ runs[r] # "absent"
        /\ r \in procs => pc[r] \in {"claude", "dead"} /\ r \in ws
        /\ resp[r] # 0 => pc[r] \in {"cleanup"} \cup Closed
        /\ pc[r] \in {"insert"} \cup Marking \cup WithDir \cup {"workspace"} => Exists(r)

\* How claude's outcome, the response and the row's status hang together.
VerdictInv ==
    \A r \in Requests :
        /\ outcome[r] = "ok" => pc[r] \in {"markDone", "cleanup"} \cup Closed
        /\ pc[r] = "markDone" => outcome[r] = "ok"
        /\ runs[r] = "done" => outcome[r] = "ok"
        /\ runs[r] = "error" => resp[r] \in {500, 502}
        /\ resp[r] = 200 => outcome[r] = "ok"
        /\ resp[r] = 502 => outcome[r] # "ok"
        /\ outcome[r] = "ok" /\ pc[r] \in {"cleanup", "end"} => resp[r] = 200
        /\ resp[r] \in {400, 401, 403, 404} => runs[r] = "absent"
        /\ resp[r] \in {200, 502} => runs[r] # "absent"

\* What an abandoned statement may still do to a row.
LateInv ==
    \A w \in late :
        /\ pc[w.run] \notin {"idle"} \cup BeforeRow
        /\ w.run \in Flaky /\ Exists(w.run)
        /\ w.status = "pending" => resp[w.run] = 500
        /\ w.status # "pending" => runs[w.run] # "absent"
        /\ w.status = "done" => outcome[w.run] = "ok"
        /\ w.status = "error" => resp[w.run] \in {500, 502}

IInv == TypeOK /\ ControlInv /\ VerdictInv /\ LateInv

\* Without late execution a row moves only under its own live handler, and the
\* handler's position bounds its status from both sides.
OrderInv ==
    \A r \in Steady :
        /\ pc[r] \in {"markRunning", "markNoKey"} => runs[r] = "pending"
        /\ pc[r] \in {"workspace", "markNoDir"} \cup (WithDir \ {"cleanup"}) =>
                runs[r] \in {"pending", "running"}
=============================================================================
