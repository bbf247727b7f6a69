---------------------------- MODULE CreateAgent ----------------------------
(***************************************************************************)
(* POST /v1/agents: the middleware chain, the four sources of CLAUDE.md,   *)
(* and the two writes that make an agent, the agents row and its storage   *)
(* object, which no transaction joins.  Concurrent requests, memberships   *)
(* that change in between, expiring tokens, clients that hang up, lost and *)
(* late statements, and crashes of the server.                             *)
(***************************************************************************)
EXTENDS Tenancy

CONSTANTS
    Requests,    \* one per HTTP request; also names the agent it creates
    Sources,     \* the sources the requests ask for
    Tables,      \* the contents the memberships table may be given
    HasKeyRpc,   \* does the database define get_org_anthropic_key?
    KeyedOrgs,   \* organizations with an org_credentials row
    LateWrites   \* may an abandoned statement still execute?

ASSUME CreateAgentAssumption ==
    /\ Sources \subseteq {"blank", "template", "ai-assist", "github"}
    /\ Tables \subseteq SUBSET Membership
    /\ HasKeyRpc \in BOOLEAN
    /\ KeyedOrgs \subseteq Orgs
    /\ LateWrites \in BOOLEAN

NoTenant == [org |-> {}, group |-> {}, role |-> "none"]

VARIABLES
    memberships,  \* the memberships table
    pc,           \* where each request's handler stands
    asked,        \* the user of the JWT and the source in the body
    tenant,       \* the TenantContext the middleware resolved
    link,         \* live; expired (JWT); gone (r.Context() cancelled)
    resp,         \* status code written by the handler, 0 before
    rows,         \* requests whose agents row exists
    files,        \* requests whose CLAUDE.md object exists
    late          \* requests with an abandoned statement, and which

client == <<asked, link>>
db     == <<rows, files, late>>
vars   == <<memberships, pc, asked, tenant, link, resp, rows, files, late>>

Fetching == {"template", "key", "generate", "github"}
Busy     == {"tenant", "request", "insert", "upload"} \cup Fetching
Closed   == {"end", "dead"}
Codes    == {0, 201, 400, 401, 402, 403, 404, 422, 500, 502}

Active(r) == pc[r] \in Busy

Init ==
    /\ memberships \in Tables
    /\ pc = [r \in Requests |-> "idle"]
    /\ asked \in [Requests -> [user : Users, source : Sources]]
    /\ tenant = [r \in Requests |-> NoTenant]
    /\ link = [r \in Requests |-> "live"]
    /\ resp = [r \in Requests |-> 0]
    /\ rows = {} /\ files = {} /\ late = {}

Tenants(r) == CurrentTenant(memberships, asked[r].user)

\* The placement of the record, from the TenantContext.
RowOf(r) == [org |-> tenant[r].org, group |-> tenant[r].group]

MayWriteRow(r)  == \E t \in Tenants(r) : AgentVisible(t, RowOf(r))
MayWriteFile(r) == \E t \in Tenants(r) :
                        ObjectVisible(t, <<tenant[r].org, tenant[r].group>>)

Goto(r, p) == pc' = [pc EXCEPT ![r] = p]

Answer(r, code) ==
    /\ Goto(r, "end")
    /\ resp' = [resp EXCEPT ![r] = code]

LeaveBehind(r, what) ==
    /\ LateWrites
    /\ late' = late \cup {<<r, what>>}

-----------------------------------------------------------------------------

Authenticate(r) ==
    /\ pc[r] = "idle"
    /\ \/ link[r] = "live" /\ Goto(r, "tenant") /\ UNCHANGED resp
       \/ Answer(r, 401)
    /\ UNCHANGED <<memberships, client, tenant, db>>

\* The role the route requires; a faulty variant uses the base chain's.
RequiredMember == "member"
RequiredRole == "manager"

\* TenantMiddleware, RequireRole(RoleManager).
ResolveTenant(r) ==
    /\ pc[r] = "tenant"
    /\ \/ /\ link[r] = "live"
          /\ \E t \in Tenants(r) :
                /\ RoleAtLeast(t, RequiredRole)
                /\ tenant' = [tenant EXCEPT ![r] = t]
          /\ Goto(r, "request")
          /\ UNCHANGED resp
       \/ /\ link[r] = "live"
          /\ \/ Tenants(r) = {}
             \/ \E t \in Tenants(r) : ~RoleAtLeast(t, RequiredRole)
          /\ Answer(r, 403)
          /\ UNCHANGED tenant
       \/ Answer(r, 500) /\ UNCHANGED tenant
    /\ UNCHANGED <<memberships, client, db>>

\* The call buildClaudeMD starts with; blank content needs none.
FirstCall(source) ==
    CASE source = "blank"     -> "insert"
      [] source = "template"  -> "template"
      [] source = "ai-assist" -> "key"
      [] source = "github"    -> "github"

\* The body, the name, the source and the fields the source requires.
ParseRequest(r) ==
    /\ pc[r] = "request"
    /\ \/ Goto(r, FirstCall(asked[r].source)) /\ UNCHANGED resp
       \/ Answer(r, 400)
    /\ UNCHANGED <<memberships, client, tenant, db>>

\* The codes writeSourceError gives to a call's failures; what is no known
\* sentinel is 500, the deadlines of generate (30 s) and github (10 s) included.
Refusals ==
    [template |-> {404, 500}, key |-> {402, 500}, generate |-> {500},
     github |-> {422, 500, 502}]

\* ErrNoCredentials is what GetAnthropicKey makes of a reply: a missing RPC or
\* key (404, 204, an empty string), or one that cannot be decoded, which may come
\* even where there is a key.  No reply, or that to an expired JWT, is 500.
MayRefuse(r, code) == code = 402 => link[r] = "live"

\* Where a call that succeeds leads, and when the key's can succeed.
Successor(p) == IF p = "key" THEN "generate" ELSE "insert"
KeyAvailable(r) == HasKeyRpc /\ tenant[r].org \in KeyedOrgs

\* The calls on which a cancelled context or an expired JWT makes a difference.
NeedsToken == {"template", "key"}

\* buildClaudeMD: GetTemplate, GetAnthropicKey then generateCLAUDEMD, or
\* fetchGitHubCLAUDEMD.  Nothing has been written yet.
FetchContent(r) ==
    /\ pc[r] \in Fetching
    /\ \/ /\ link[r] # "gone"
          /\ pc[r] \in NeedsToken => link[r] = "live"
          /\ pc[r] = "key" => KeyAvailable(r)
          /\ Goto(r, Successor(pc[r]))
          /\ UNCHANGED resp
       \/ \E code \in Refusals[pc[r]] : MayRefuse(r, code) /\ Answer(r, code)
    /\ UNCHANGED <<memberships, client, tenant, db>>

\* A faulty variant: the error of the insert is discarded.
InsertUnchecked(r) ==
    /\ pc[r] = "insert"
    /\ rows' = rows \cup {r} \/ UNCHANGED rows
    /\ Goto(r, "upload")
    /\ UNCHANGED <<memberships, client, tenant, resp, files, late>>

\* The insert of the agents row.
InsertRow(r) ==
    /\ pc[r] = "insert"
    /\ \/ /\ link[r] = "live" /\ MayWriteRow(r)
          /\ rows' = rows \cup {r}
          /\ Goto(r, "upload")
          /\ UNCHANGED <<resp, late>>
       \/ /\ link[r] = "live" /\ MayWriteRow(r)     \* executed, reply lost
          /\ rows' = rows \cup {r}
          /\ Answer(r, 500)
          /\ UNCHANGED late
       \/ /\ link[r] = "live"
          /\ LeaveBehind(r, "row")
          /\ Answer(r, 500)
          /\ UNCHANGED rows
       \/ Answer(r, 500) /\ UNCHANGED <<rows, late>>  \* refused, or failed
    /\ UNCHANGED <<memberships, client, tenant, files>>

\* A faulty variant: the status of the upload is not looked at.
UploadUnchecked(r) ==
    /\ pc[r] = "upload"
    /\ files' = files \cup {r} \/ UNCHANGED files
    /\ Answer(r, 201)
    /\ UNCHANGED <<memberships, client, tenant, rows, late>>

\* A faulty variant: the row is removed again when the upload fails.
UploadCompensates(r) ==
    /\ pc[r] = "upload"
    /\ \/ files' = files \cup {r} /\ Answer(r, 201) /\ UNCHANGED rows
       \/ rows' = rows \ {r} /\ Answer(r, 500) /\ UNCHANGED files
    /\ UNCHANGED <<memberships, client, tenant, late>>

\* A faulty variant: a failed upload is tried again, whatever the context says.
UploadRetries(r) ==
    /\ pc[r] = "upload"
    /\ \/ /\ link[r] = "live" /\ MayWriteFile(r)
          /\ files' = files \cup {r}
          /\ Answer(r, 201)
       \/ UNCHANGED <<pc, resp, files>>
    /\ UNCHANGED <<memberships, client, tenant, rows, late>>

\* The upload of CLAUDE.md; the row stays whatever happens to it.
UploadFile(r) ==
    /\ pc[r] = "upload"
    /\ \/ /\ link[r] = "live" /\ MayWriteFile(r)
          /\ files' = files \cup {r}
          /\ \E code \in {201, 500} : Answer(r, code)  \* 500: reply lost
          /\ UNCHANGED late
       \/ /\ link[r] = "live"
          /\ LeaveBehind(r, "file")
          /\ Answer(r, 500)
          /\ UNCHANGED files
       \/ Answer(r, 500) /\ UNCHANGED <<files, late>>
    /\ UNCHANGED <<memberships, client, tenant, rows>>

Handler(r) ==
    \/ ResolveTenant(r) \/ ParseRequest(r) \/ FetchContent(r)
    \/ InsertRow(r) \/ UploadFile(r)

-----------------------------------------------------------------------------

Expire(r) ==
    /\ pc[r] \notin Closed
    /\ link[r] = "live"
    /\ link' = [link EXCEPT ![r] = "expired"]
    /\ UNCHANGED <<memberships, pc, asked, tenant, resp, db>>

Disconnect(r) ==
    /\ Active(r)
    /\ link[r] # "gone"
    /\ link' = [link EXCEPT ![r] = "gone"]
    /\ UNCHANGED <<memberships, pc, asked, tenant, resp, db>>

ChangeMemberships ==
    /\ memberships' \in Tables
    /\ UNCHANGED <<pc, client, tenant, resp, db>>

\* An abandoned statement executes under the policies of that moment, or not.
LateExecution ==
    \E w \in late :
        /\ late' = late \ {w}
        /\ \/ /\ w[2] = "row" /\ MayWriteRow(w[1])
              /\ rows' = rows \cup {w[1]}
              /\ UNCHANGED files
           \/ /\ w[2] = "file" /\ MayWriteFile(w[1])
              /\ files' = files \cup {w[1]}
              /\ UNCHANGED rows
           \/ UNCHANGED <<rows, files>>
        /\ UNCHANGED <<memberships, pc, client, tenant, resp>>

\* The server process dies, and is started again.
Crash ==
    /\ pc' = [r \in Requests |-> IF Active(r) THEN "dead" ELSE pc[r]]
    /\ UNCHANGED <<memberships, client, tenant, resp, db>>

Next ==
    \/ \E r \in Requests :
        Authenticate(r) \/ Handler(r) \/ Expire(r) \/ Disconnect(r)
    \/ ChangeMemberships \/ LateExecution \/ Crash

Spec == Init /\ [][Next]_vars

-----------------------------------------------------------------------------

\* The type invariant of the flow.
TypeOK ==
    /\ memberships \in Tables
    /\ pc \in [Requests -> {"idle"} \cup Busy \cup Closed]
    /\ asked \in [Requests -> [user : Users, source : Sources]]
    /\ tenant \in [Requests -> Tenant \cup {NoTenant}]
    /\ link \in [Requests -> {"live", "expired", "gone"}]
    /\ resp \in [Requests -> Codes]
    /\ rows \subseteq Requests /\ files \subseteq Requests
    /\ late \subseteq Requests \X {"row", "file"}

\* A CLAUDE.md in the bucket always belongs to an agents row, also when either
\* statement was lost or executed late.
FileHasRow == files \subseteq rows

\* For whoever lists or runs agents, all creations together are AgentCatalog: no
\* failure takes back a row that somebody may have seen.
Catalog == INSTANCE AgentCatalog WITH Agents <- Requests

RefinesCatalog == Catalog!Spec

\* 201 is answered only for a complete agent, and every refusal of the request
\* or its source leaves nothing behind: half an agent (a row without CLAUDE.md)
\* is only ever the residue of a 500 or of a crash.
AnswerMatchesAgent ==
    \A r \in Requests : pc[r] = "end" =>
        /\ resp[r] = 201 => r \in rows \cap files
        /\ resp[r] \notin {201, 500} =>
                r \notin rows \cup files /\ <<r, "row">> \notin late

\* An agents row or object comes into being only for a request whose tenant had
\* at least the manager role when it was resolved, and at a moment when its user
\* belongs to the organization it is placed in.
CreationIsAuthorized ==
    [][\A r \in (rows' \cup files') \ (rows \cap files) :
            r \notin rows \/ (r \in files' /\ r \notin files) =>
            /\ tenant[r].role \in {"manager", "owner"}
            /\ \E m \in memberships :
                    m.user = asked[r].user /\ m.org = tenant[r].org]_vars

\* A creation whose client hung up does not hold its handler for ever, wherever it
\* stands between the middleware and the upload: it returns, or dies with the
\* server.
CancelledCreationsEnd ==
    \A r \in Requests : (Active(r) /\ link[r] = "gone") ~> pc[r] \in Closed

\* The message and the port's comment (agents.go:45-47): 402 means that the
\* organization has no anthropic key configured.
PaymentRequiredMeansNoKey ==
    \A r \in Requests : resp[r] = 402 => tenant[r].org \notin KeyedOrgs
=============================================================================
