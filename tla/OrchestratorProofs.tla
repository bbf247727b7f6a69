------------------------- MODULE OrchestratorProofs -------------------------
(***************************************************************************)
(* Proofs about the creation flow, first alone and then composed with the  *)
(* run flow, for any number of concurrent requests of both kinds, any      *)
(* organizations, groups, users and histories of the memberships.          *)
(***************************************************************************)
EXTENDS Orchestrator, TLAPS

(***************************************************************************)
(* CreateAgent.                                                            *)
(***************************************************************************)


BeforeInsert == {"idle", "tenant", "request", "insert"} \cup Fetching

\* Where a request that has left a trace in the database, or may still leave one,
\* stands, and what it was answered.
TraceOf(r) ==
    /\ pc[r] \in BeforeInsert =>
            r \notin rows \cup files /\ <<r, "row">> \notin late /\ <<r, "file">> \notin late
    /\ pc[r] = "upload" => r \in rows
    /\ <<r, "row">> \in late => pc[r] = "end" /\ resp[r] = 500
    /\ <<r, "file">> \in late => r \in rows
    /\ r \in files => r \in rows
    /\ pc[r] = "end" /\ r \in rows => resp[r] \in {201, 500}
    /\ pc[r] = "end" /\ resp[r] = 201 => r \in rows \cap files

TraceInv == \A r \in Requests : TraceOf(r)

\* Whoever is past the middleware was let in as a manager at least.
RoleInv ==
    \A r \in Requests :
        \/ pc[r] \in {"request", "insert", "upload"} \cup Fetching
        \/ r \in rows \/ <<r, "row">> \in late
        => tenant[r].role \in {"manager", "owner"}

IInv == TypeOK /\ TraceInv /\ RoleInv

LEMMA InitIInv == Init => IInv
  BY CreateAgentAssumption
     DEF Init, IInv, TypeOK, TraceInv, TraceOf, RoleInv, Fetching, Busy, Closed, Codes, BeforeInsert

LEMMA FirstCallType == \A s \in Sources : FirstCall(s) \in {"insert"} \cup Fetching
  BY CreateAgentAssumption DEF FirstCall, Fetching

LEMMA RefusalCodes == \A p \in Fetching : Refusals[p] \subseteq Codes \ {0, 201}
  BY DEF Refusals, Fetching, Codes

LEMMA TenantType == \A r \in Requests : TypeOK => Tenants(r) \subseteq Tenant
  BY CreateAgentAssumption
     DEF TypeOK, Tenants, CurrentTenant, Tenant, Membership

ReadsOnly == UNCHANGED <<memberships, asked, link, rows, files, late>>

\* A handler's step that neither writes nor leaves anything behind: the middleware,
\* the parser and the calls for the content.
ReadStep(r) ==
    /\ pc[r] \in BeforeInsert
    /\ ReadsOnly
    /\ pc'[r] \in BeforeInsert \/ (pc'[r] = "end" /\ resp'[r] # 201)
    /\ pc'[r] \in {"request", "insert"} \cup Fetching =>
            tenant'[r].role \in {"manager", "owner"}
    /\ \A s \in Requests \ {r} :
            pc'[s] = pc[s] /\ resp'[s] = resp[s] /\ tenant'[s] = tenant[s]

LEMMA ReadOnlyStep ==
  ASSUME IInv, NEW r \in Requests, ReadStep(r), TypeOK'
  PROVE  IInv'
  <1> USE DEF IInv, ReadsOnly, ReadStep
  <1>2. r \notin rows \cup files /\ <<r, "row">> \notin late /\ <<r, "file">> \notin late
    BY DEF TraceInv, TraceOf
  <1>3. \A s \in Requests \ {r} : pc'[s] = pc[s] /\ resp'[s] = resp[s] /\ tenant'[s] = tenant[s]
    OBVIOUS
  <1>4. pc'[r] \in BeforeInsert \/ (pc'[r] = "end" /\ resp'[r] # 201)
    OBVIOUS
  <1>5. TraceInv'
    <2> SUFFICES ASSUME NEW s \in Requests PROVE TraceOf(s)'
      BY DEF TraceInv, TraceOf
    <2>1. TraceOf(s)
      BY DEF TraceInv, TraceOf
    <2>2. CASE s = r
      BY <1>2, <1>4, <2>2 DEF TraceOf, BeforeInsert, Fetching
    <2>3. CASE s # r
      BY <1>3, <2>1, <2>3 DEF TraceOf
    <2> QED
      BY <2>2, <2>3
  <1>6. RoleInv'
    BY <1>2, <1>3, <1>4 DEF RoleInv, BeforeInsert, Fetching
  <1> QED
    BY <1>5, <1>6

LEMMA AuthenticateIInv ==
  ASSUME IInv, NEW r \in Requests, Authenticate(r)
  PROVE  IInv'
  <1>1. /\ pc[r] = "idle" /\ ReadsOnly /\ tenant' = tenant
        /\ \/ pc' = [pc EXCEPT ![r] = "tenant"] /\ resp' = resp
           \/ pc' = [pc EXCEPT ![r] = "end"] /\ resp' = [resp EXCEPT ![r] = 401]
    BY DEF Authenticate, Goto, Answer, ReadsOnly, client, db
  <1>2. ReadStep(r)
    BY <1>1 DEF IInv, TypeOK, ReadStep, BeforeInsert, Fetching
  <1>3. TypeOK'
    BY <1>1 DEF IInv, TypeOK, ReadsOnly, Busy, Closed, Codes
  <1> QED
    BY <1>2, <1>3, ReadOnlyStep

LEMMA ResolveTenantIInv ==
  ASSUME IInv, NEW r \in Requests, ResolveTenant(r)
  PROVE  IInv'
  <1>1. pc[r] = "tenant" /\ ReadsOnly
    BY DEF ResolveTenant, ReadsOnly, client, db
  <1>2. CASE /\ pc' = [pc EXCEPT ![r] = "request"] /\ resp' = resp
             /\ \E t \in Tenants(r) : /\ RoleAtLeast(t, RequiredRole)
                                      /\ tenant' = [tenant EXCEPT ![r] = t]
    <2>1. PICK t \in Tenants(r) : /\ RoleAtLeast(t, RequiredRole)
                                  /\ tenant' = [tenant EXCEPT ![r] = t]
      BY <1>2
    <2>2. t \in Tenant
      BY TenantType DEF IInv
    <2>3. t.role \in {"manager", "owner"}
      BY <2>1, <2>2 DEF RoleAtLeast, RequiredRole, Rank, Tenant, Role
    <2>4. ReadStep(r)
      BY <1>1, <1>2, <2>1, <2>3 DEF IInv, TypeOK, ReadStep, BeforeInsert
    <2>5. TypeOK'
      BY <1>1, <1>2, <2>1, <2>2 DEF IInv, TypeOK, ReadsOnly, Busy
    <2> QED
      BY <2>4, <2>5, ReadOnlyStep
  <1>3. CASE \E code \in {403, 500} : Answer(r, code) /\ UNCHANGED tenant
    <2>1. PICK code \in {403, 500} : Answer(r, code) /\ UNCHANGED tenant
      BY <1>3
    <2>2. /\ pc' = [pc EXCEPT ![r] = "end"] /\ resp' = [resp EXCEPT ![r] = code]
          /\ tenant' = tenant
      BY <2>1 DEF Answer, Goto
    <2>3. ReadStep(r)
      BY <1>1, <2>2 DEF IInv, TypeOK, ReadStep, BeforeInsert, Fetching
    <2>4. TypeOK'
      BY <1>1, <2>2 DEF IInv, TypeOK, ReadsOnly, Closed, Codes
    <2> QED
      BY <2>3, <2>4, ReadOnlyStep
  <1> QED
    BY <1>2, <1>3 DEF ResolveTenant, Goto

LEMMA ContentIInv ==
  ASSUME IInv, NEW r \in Requests, ParseRequest(r) \/ FetchContent(r)
  PROVE  IInv'
  <1>1. /\ pc[r] \in {"request"} \cup Fetching /\ pc[r] \in BeforeInsert
        /\ ReadsOnly /\ tenant' = tenant
    BY DEF ParseRequest, FetchContent, BeforeInsert, ReadsOnly, client, db
  <1>2. \/ \E p \in {"insert"} \cup Fetching : pc' = [pc EXCEPT ![r] = p] /\ resp' = resp
        \/ \E code \in Codes \ {0, 201} :
               pc' = [pc EXCEPT ![r] = "end"] /\ resp' = [resp EXCEPT ![r] = code]
    <2>1. CASE ParseRequest(r)
      <3>1. FirstCall(asked[r].source) \in {"insert"} \cup Fetching
        BY FirstCallType DEF IInv, TypeOK
      <3>2. 400 \in Codes \ {0, 201}
        BY DEF Codes
      <3> QED
        BY <2>1, <3>1, <3>2 DEF ParseRequest, Goto, Answer
    <2>2. CASE FetchContent(r)
      <3>1. Successor(pc[r]) \in {"insert"} \cup Fetching
        BY DEF Successor, Fetching
      <3>2. pc[r] \in Fetching => Refusals[pc[r]] \subseteq Codes \ {0, 201}
        BY RefusalCodes
      <3> QED
        BY <2>2, <3>1, <3>2 DEF FetchContent, Goto, Answer
    <2> QED
      BY <2>1, <2>2
  <1>3. \/ \E p \in BeforeInsert : pc' = [pc EXCEPT ![r] = p] /\ resp' = resp
        \/ \E code \in Codes \ {0, 201} :
               pc' = [pc EXCEPT ![r] = "end"] /\ resp' = [resp EXCEPT ![r] = code]
    BY <1>2 DEF BeforeInsert
  <1>4. tenant'[r].role \in {"manager", "owner"}
    BY <1>1 DEF IInv, RoleInv
  <1>5. ReadStep(r)
    BY <1>1, <1>3, <1>4 DEF IInv, TypeOK, ReadStep
  <1>6. TypeOK'
    BY <1>1, <1>3 DEF IInv, TypeOK, ReadsOnly, Busy, Closed, BeforeInsert
  <1> QED
    BY <1>5, <1>6, ReadOnlyStep

LEMMA InsertRowIInv ==
  ASSUME IInv, NEW r \in Requests, InsertRow(r)
  PROVE  IInv'
  <1> USE DEF IInv
  <1>1. /\ pc[r] = "insert" /\ UNCHANGED <<memberships, asked, link, tenant, files>>
        /\ \/ /\ rows' = rows \cup {r} /\ late' = late
              /\ pc' = [pc EXCEPT ![r] = "upload"] /\ resp' = resp
           \/ /\ rows' \in {rows, rows \cup {r}} /\ late' = late
              /\ pc' = [pc EXCEPT ![r] = "end"] /\ resp' = [resp EXCEPT ![r] = 500]
           \/ /\ rows' = rows /\ late' = late \cup {<<r, "row">>}
              /\ pc' = [pc EXCEPT ![r] = "end"] /\ resp' = [resp EXCEPT ![r] = 500]
    BY DEF InsertRow, Goto, Answer, LeaveBehind, client
  <1>2. /\ r \notin rows \cup files /\ <<r, "row">> \notin late /\ <<r, "file">> \notin late
        /\ tenant[r].role \in {"manager", "owner"}
    BY <1>1 DEF TraceInv, TraceOf, RoleInv, BeforeInsert
  <1>3. TypeOK'
    BY <1>1 DEF TypeOK, Busy, Closed, Codes
  <1>4. \A s \in Requests \ {r} :
            /\ pc'[s] = pc[s] /\ resp'[s] = resp[s] /\ tenant'[s] = tenant[s]
            /\ s \in rows' <=> s \in rows
            /\ \A what \in {"row", "file"} : <<s, what>> \in late' <=> <<s, what>> \in late
    BY <1>1 DEF TypeOK
  <1>5. TraceInv'
    <2> SUFFICES ASSUME NEW s \in Requests PROVE TraceOf(s)'
      BY DEF TraceInv, TraceOf
    <2>1. TraceOf(s)
      BY DEF TraceInv, TraceOf
    <2>2. CASE s = r
      BY <1>1, <1>2, <2>1, <2>2 DEF TraceOf, TypeOK, BeforeInsert, Fetching
    <2>3. CASE s # r
      BY <1>1, <1>4, <2>1, <2>3 DEF TraceOf
    <2> QED
      BY <2>2, <2>3
  <1>6. RoleInv'
    BY <1>1, <1>2, <1>4 DEF RoleInv
  <1> QED
    BY <1>3, <1>5, <1>6

LEMMA UploadFileIInv ==
  ASSUME IInv, NEW r \in Requests, UploadFile(r)
  PROVE  IInv'
  <1> USE DEF IInv
  <1>1. /\ pc[r] = "upload" /\ UNCHANGED <<memberships, asked, link, tenant, rows>>
        /\ pc' = [pc EXCEPT ![r] = "end"]
        /\ \/ /\ files' = files \cup {r} /\ late' = late
              /\ \E code \in {201, 500} : resp' = [resp EXCEPT ![r] = code]
           \/ /\ files' = files /\ late' \in {late, late \cup {<<r, "file">>}}
              /\ resp' = [resp EXCEPT ![r] = 500]
    BY DEF UploadFile, Goto, Answer, LeaveBehind, client
  <1>2. r \in rows /\ <<r, "row">> \notin late /\ tenant[r].role \in {"manager", "owner"}
    BY <1>1 DEF TraceInv, TraceOf, RoleInv
  <1>3. TypeOK'
    BY <1>1 DEF TypeOK, Busy, Closed, Codes
  <1>4. \A s \in Requests \ {r} :
            /\ pc'[s] = pc[s] /\ resp'[s] = resp[s] /\ tenant'[s] = tenant[s]
            /\ s \in files' <=> s \in files
            /\ \A what \in {"row", "file"} : <<s, what>> \in late' <=> <<s, what>> \in late
    BY <1>1 DEF TypeOK
  <1>5. TraceInv'
    <2> SUFFICES ASSUME NEW s \in Requests PROVE TraceOf(s)'
      BY DEF TraceInv, TraceOf
    <2>1. TraceOf(s)
      BY DEF TraceInv, TraceOf
    <2>2. CASE s = r
      BY <1>1, <1>2, <2>1, <2>2 DEF TraceOf, TypeOK, BeforeInsert, Fetching
    <2>3. CASE s # r
      BY <1>1, <1>4, <2>1, <2>3 DEF TraceOf
    <2> QED
      BY <2>2, <2>3
  <1>6. RoleInv'
    BY <1>1, <1>2, <1>4 DEF RoleInv
  <1> QED
    BY <1>3, <1>5, <1>6

LEMMA LateExecutionIInv == ASSUME IInv, LateExecution PROVE IInv'
  <1> USE DEF IInv
  <1>1. PICK w \in late :
            /\ late' = late \ {w}
            /\ \/ w[2] = "row" /\ rows' = rows \cup {w[1]} /\ files' = files
               \/ w[2] = "file" /\ files' = files \cup {w[1]} /\ rows' = rows
               \/ rows' = rows /\ files' = files
            /\ UNCHANGED <<memberships, pc, asked, link, tenant, resp>>
    BY DEF LateExecution, client
  <1>2. w[1] \in Requests /\ w = <<w[1], w[2]>>
    BY DEF TypeOK
  <1>3. TypeOK'
    BY <1>1, <1>2 DEF TypeOK
  <1>4. CASE rows' = rows /\ files' = files
    BY <1>1, <1>3, <1>4 DEF TraceInv, TraceOf, RoleInv
  <1>5. CASE w[2] = "row" /\ rows' = rows \cup {w[1]} /\ files' = files
    <2>1. pc[w[1]] = "end" /\ resp[w[1]] = 500 /\ tenant[w[1]].role \in {"manager", "owner"}
      BY <1>2, <1>5 DEF TraceInv, TraceOf, RoleInv
    <2> QED
      BY <1>1, <1>2, <1>3, <1>5, <2>1 DEF TraceInv, TraceOf, RoleInv, BeforeInsert, Fetching
  <1>6. CASE w[2] = "file" /\ files' = files \cup {w[1]} /\ rows' = rows
    <2>1. w[1] \in rows /\ pc[w[1]] \notin BeforeInsert
      BY <1>2, <1>6 DEF TraceInv, TraceOf
    <2> QED
      BY <1>1, <1>2, <1>3, <1>6, <2>1 DEF TraceInv, TraceOf, RoleInv
  <1> QED
    BY <1>1, <1>4, <1>5, <1>6

\* The steps of the surroundings that touch neither the handlers nor the database.
LEMMA SurroundingsIInv ==
  ASSUME IInv, \/ \E r \in Requests : Expire(r) \/ Disconnect(r)
               \/ ChangeMemberships
               \/ UNCHANGED vars
  PROVE  IInv'
  <1>1. UNCHANGED <<pc, tenant, resp, rows, files, late>>
    BY DEF Expire, Disconnect, ChangeMemberships, vars, client, db
  <1>2. TypeOK'
    BY DEF IInv, TypeOK, Expire, Disconnect, ChangeMemberships, vars, client, db
  <1> QED
    BY <1>1, <1>2 DEF IInv, TraceInv, TraceOf, RoleInv

LEMMA CrashIInv == ASSUME IInv, Crash PROVE IInv'
  <1>1. /\ UNCHANGED <<memberships, asked, link, tenant, resp, rows, files, late>>
        /\ pc' = [r \in Requests |-> IF Active(r) THEN "dead" ELSE pc[r]]
    BY DEF Crash, client, db
  <1>2. \A r \in Requests : pc'[r] = pc[r] \/ (pc'[r] = "dead" /\ pc[r] # "end")
    BY <1>1 DEF Active, Busy, Fetching
  <1>3. TypeOK'
    BY <1>1 DEF IInv, TypeOK, Busy, Closed, Active
  <1>4. TraceInv' /\ RoleInv'
    BY <1>1, <1>2 DEF IInv, TraceInv, TraceOf, RoleInv, BeforeInsert, Fetching
  <1> QED
    BY <1>3, <1>4 DEF IInv

LEMMA NextIInv == IInv /\ [Next]_vars => IInv'
  BY AuthenticateIInv, ResolveTenantIInv, ContentIInv, InsertRowIInv, UploadFileIInv,
     LateExecutionIInv, SurroundingsIInv, CrashIInv DEF Next, Handler

\* The inductive invariant of the creation flow (agents.go:104-182).
THEOREM CreationInvariance == Spec => []IInv
  <1>1. Init => IInv
    BY InitIInv
  <1>2. IInv /\ [Next]_vars => IInv'
    BY NextIInv
  <1> QED
    BY <1>1, <1>2, PTL DEF Spec

\* A CLAUDE.md always belongs to a row, and an answer tells what became of the agent:
\* 201 only for a whole one, and a trace only after 201, 500 or a crash.
THEOREM CreationSafety == Spec => [](TypeOK /\ FileHasRow /\ AnswerMatchesAgent)
  <1>1. IInv => TypeOK /\ FileHasRow /\ AnswerMatchesAgent
    BY DEF IInv, TypeOK, TraceInv, TraceOf, FileHasRow, AnswerMatchesAgent
  <1> QED
    BY CreationInvariance, <1>1, PTL

\* Rows and objects come into being only for managers, at a moment when the user
\* belongs to the organization they are placed in.
THEOREM CreationAuthorized == Spec => CreationIsAuthorized
  <1> DEFINE Authorized ==
        \A r \in (rows' \cup files') \ (rows \cap files) :
            r \notin rows \/ (r \in files' /\ r \notin files) =>
            /\ tenant[r].role \in {"manager", "owner"}
            /\ \E m \in memberships :
                    m.user = asked[r].user /\ m.org = tenant[r].org
  <1>1. \A r \in Requests :
            MayWriteRow(r) \/ MayWriteFile(r) =>
                \E m \in memberships : m.user = asked[r].user /\ m.org = tenant[r].org
    BY DEF MayWriteRow, MayWriteFile, AgentVisible, ObjectVisible, RowOf, Tenants,
       CurrentTenant
  <1>2. IInv /\ Next => Authorized
    <2> SUFFICES ASSUME IInv, Next,
                        NEW r \in (rows' \cup files') \ (rows \cap files),
                        r \notin rows \/ (r \in files' /\ r \notin files)
                 PROVE  /\ tenant[r].role \in {"manager", "owner"}
                        /\ \E m \in memberships :
                                m.user = asked[r].user /\ m.org = tenant[r].org
      OBVIOUS
    <2>0. r \in Requests
      <3>1. TypeOK'
        BY NextIInv DEF IInv
      <3> QED
        BY <3>1 DEF TypeOK
    <2>1. (r \in rows' /\ r \notin rows) \/ (r \in files' /\ r \notin files)
      BY DEF IInv, TraceInv, TraceOf, TypeOK
    <2>2. \/ InsertRow(r)
          \/ UploadFile(r)
          \/ LateExecution
      <3>1. ASSUME NEW q \in Requests, InsertRow(q) PROVE rows' \subseteq rows \cup {q} /\ files' = files
        BY <3>1 DEF InsertRow
      <3>2. ASSUME NEW q \in Requests, UploadFile(q) PROVE files' \subseteq files \cup {q} /\ rows' = rows
        BY <3>2 DEF UploadFile
      <3>3. ASSUME NEW q \in Requests,
                   \/ Authenticate(q) \/ ResolveTenant(q) \/ ParseRequest(q)
                   \/ FetchContent(q) \/ Expire(q) \/ Disconnect(q)
            PROVE  rows' = rows /\ files' = files
        BY <3>3 DEF Authenticate, ResolveTenant, ParseRequest, FetchContent, Expire,
           Disconnect, db
      <3>4. ASSUME ChangeMemberships \/ Crash PROVE rows' = rows /\ files' = files
        BY <3>4 DEF ChangeMemberships, Crash, db
      <3> QED
        BY <2>1, <3>1, <3>2, <3>3, <3>4 DEF Next, Handler
    <2>3. CASE InsertRow(r)
      <3>1. tenant[r].role \in {"manager", "owner"}
        BY <2>0, <2>3 DEF InsertRow, IInv, RoleInv
      <3>2. MayWriteRow(r)
        BY <2>1, <2>3 DEF InsertRow
      <3> QED
        BY <1>1, <2>0, <3>1, <3>2
    <2>4. CASE UploadFile(r)
      <3>1. tenant[r].role \in {"manager", "owner"}
        BY <2>0, <2>4 DEF UploadFile, IInv, RoleInv
      <3>2. MayWriteFile(r)
        BY <2>1, <2>4 DEF UploadFile
      <3> QED
        BY <1>1, <2>0, <3>1, <3>2
    <2>5. CASE LateExecution
      <3>1. PICK w \in late :
                \/ w[2] = "row" /\ MayWriteRow(w[1]) /\ rows' = rows \cup {w[1]} /\ files' = files
                \/ w[2] = "file" /\ MayWriteFile(w[1]) /\ files' = files \cup {w[1]} /\ rows' = rows
                \/ rows' = rows /\ files' = files
        BY <2>5 DEF LateExecution
      <3>2. w[1] = r /\ (MayWriteRow(r) \/ MayWriteFile(r))
        BY <2>1, <3>1
      <3>3. w = <<r, w[2]>>
        BY <3>2 DEF IInv, TypeOK
      <3>4. r \in rows \/ <<r, "row">> \in late
        BY <2>0, <2>1, <3>1, <3>2, <3>3 DEF IInv, TraceInv, TraceOf
      <3>5. tenant[r].role \in {"manager", "owner"}
        BY <2>0, <3>4 DEF IInv, RoleInv
      <3> QED
        BY <1>1, <2>0, <3>2, <3>5
    <2> QED
      BY <2>2, <2>3, <2>4, <2>5
  <1>3. Spec => [][Authorized]_vars
    BY CreationInvariance, <1>2, PTL DEF Spec
  <1> QED
    BY <1>3 DEF CreationIsAuthorized

\* A request for generated instructions calls neither of the other sources, and whoever
\* is past the key, or has left an agent or a statement behind, found one.
Keyed(r) ==
    asked[r].source = "ai-assist" =>
        /\ pc[r] \notin {"template", "github"}
        /\ \/ pc[r] \in {"generate", "insert", "upload"}
           \/ r \in rows \/ <<r, "row">> \in late
           => KeyAvailable(r)

KeyedInv == \A r \in Requests : Keyed(r)

\* The two steps of a handler that decide whether a key is asked for and found.
LEMMA ContentKeyed ==
  ASSUME IInv, KeyedInv, NEW r \in Requests, ParseRequest(r) \/ FetchContent(r)
  PROVE  Keyed(r)'
  <1> SUFFICES ASSUME asked[r].source = "ai-assist" PROVE Keyed(r)'
    BY DEF ParseRequest, FetchContent, client, Keyed
  <1>1. /\ UNCHANGED <<asked, tenant, rows, late>>
        /\ r \notin rows /\ <<r, "row">> \notin late
    BY DEF ParseRequest, FetchContent, client, db, IInv, TraceInv, TraceOf, BeforeInsert, Fetching
  <1>2. CASE ParseRequest(r)
    <2>1. FirstCall(asked[r].source) = "key"
      BY DEF FirstCall
    <2>2. pc'[r] \in {"key", "end"}
      BY <1>2, <2>1 DEF ParseRequest, Goto, Answer, IInv, TypeOK
    <2> QED
      BY <1>1, <2>2 DEF Keyed
  <1>3. CASE FetchContent(r)
    <2>1. pc[r] \in {"key", "generate"}
      BY <1>3 DEF FetchContent, Fetching, KeyedInv, Keyed
    <2>2. pc'[r] \in {"generate", "insert", "end"}
      BY <1>3, <2>1 DEF FetchContent, Successor, Goto, Answer, IInv, TypeOK
    <2>3. pc'[r] # "end" => KeyAvailable(r)
      <3>1. pc[r] = "generate" => KeyAvailable(r)
        BY DEF KeyedInv, Keyed
      <3>2. \A code \in Refusals[pc[r]] : Answer(r, code) => pc'[r] = "end"
        BY DEF Answer, Goto, IInv, TypeOK
      <3> QED
        BY <1>3, <2>1, <3>1, <3>2 DEF FetchContent
    <2> QED
      BY <1>1, <2>2, <2>3 DEF Keyed, KeyAvailable
  <1> QED
    BY <1>2, <1>3

LEMMA NextKeyedInv == IInv /\ KeyedInv /\ [Next]_vars => KeyedInv'
  <1> SUFFICES ASSUME IInv, KeyedInv, [Next]_vars, NEW r \in Requests PROVE Keyed(r)'
    BY DEF KeyedInv, Keyed, KeyAvailable
  <1>1. Keyed(r)
    BY DEF KeyedInv
  <1>2. ASSUME NEW q \in Requests, Handler(q) \/ Authenticate(q), q # r PROVE Keyed(r)'
    <2>1. pc'[r] = pc[r] /\ tenant'[r] = tenant[r] /\ asked' = asked
      BY <1>2 DEF Handler, Authenticate, ResolveTenant, ParseRequest, FetchContent,
         InsertRow, UploadFile, Goto, Answer, client, IInv, TypeOK
    <2>2. (r \in rows' => r \in rows) /\ (<<r, "row">> \in late' => <<r, "row">> \in late)
      BY <1>2 DEF Handler, Authenticate, ResolveTenant, ParseRequest, FetchContent,
         InsertRow, UploadFile, LeaveBehind, db
    <2> QED
      BY <1>1, <2>1, <2>2 DEF Keyed, KeyAvailable
  <1>3. CASE Authenticate(r) \/ ResolveTenant(r)
    <2>1. /\ pc'[r] \in {"tenant", "request", "end"} /\ UNCHANGED <<asked, rows, late>>
          /\ r \notin rows /\ <<r, "row">> \notin late
      BY <1>3 DEF Authenticate, ResolveTenant, Goto, Answer, client, db, IInv, TypeOK,
         TraceInv, TraceOf, BeforeInsert
    <2> QED
      BY <2>1 DEF Keyed
  <1>4. CASE ParseRequest(r) \/ FetchContent(r)
    BY <1>4, ContentKeyed
  <1>5. CASE InsertRow(r) \/ UploadFile(r)
    <2>1. /\ pc[r] \in {"insert", "upload"} /\ pc'[r] \in {"upload", "end"}
          /\ UNCHANGED <<asked, tenant>>
      BY <1>5 DEF InsertRow, UploadFile, Goto, Answer, client, IInv, TypeOK
    <2> QED
      BY <1>1, <2>1 DEF Keyed, KeyAvailable
  <1>6. CASE LateExecution
    <2>1. PICK w \in late : /\ late' = late \ {w}
                            /\ rows' = rows \/ (w[2] = "row" /\ rows' = rows \cup {w[1]})
                            /\ UNCHANGED <<pc, asked, tenant>>
      BY <1>6 DEF LateExecution, client
    <2>2. w = <<w[1], w[2]>>
      BY DEF IInv, TypeOK
    <2>3. r \in rows' => r \in rows \/ <<r, "row">> \in late
      BY <2>1, <2>2
    <2>4. <<r, "row">> \in late' => <<r, "row">> \in late
      BY <2>1
    <2> QED
      BY <1>1, <2>1, <2>3, <2>4 DEF Keyed, KeyAvailable
  <1>7. CASE Crash
    <2>1. pc'[r] \in {pc[r], "dead"} /\ UNCHANGED <<asked, tenant, rows, late>>
      BY <1>7 DEF Crash, client, db
    <2> QED
      BY <1>1, <2>1 DEF Keyed, KeyAvailable
  <1>8. CASE \/ \E q \in Requests : Expire(q) \/ Disconnect(q)
             \/ ChangeMemberships \/ UNCHANGED vars
    <2>1. UNCHANGED <<pc, asked, tenant, rows, late>>
      BY <1>8 DEF Expire, Disconnect, ChangeMemberships, vars, client, db
    <2> QED
      BY <1>1, <2>1 DEF Keyed, KeyAvailable
  <1> QED
    BY <1>2, <1>3, <1>4, <1>5, <1>6, <1>7, <1>8 DEF Next, Handler

\* Generated instructions need the RPC and a key of the organization the agent is placed
\* in (agents.go:153).  No migration defines the RPC: over the database of the
\* repository the source "ai-assist" makes no agent at all, not even half of one.
THEOREM GeneratedAgentsHaveKeys ==
    Spec => [](\A r \in rows \cup files :
                  asked[r].source = "ai-assist" =>
                      HasKeyRpc /\ tenant[r].org \in KeyedOrgs)
  <1>1. Init => KeyedInv
    BY DEF Init, KeyedInv, Keyed
  <1>2. IInv /\ KeyedInv => \A r \in rows \cup files :
            asked[r].source = "ai-assist" => HasKeyRpc /\ tenant[r].org \in KeyedOrgs
    BY DEF IInv, TypeOK, TraceInv, TraceOf, KeyedInv, Keyed, KeyAvailable
  <1> QED
    BY CreationInvariance, <1>1, <1>2, NextKeyedInv, PTL DEF Spec

\* Whatever fails, the creations together are the abstract catalog: rows come before
\* files, and neither is withdrawn (supabase_agent_store.go:29-70).
THEOREM CatalogRefinement == Spec => RefinesCatalog
  <1>1. Init => Catalog!Init
    BY DEF Init, Catalog!Init
  <1>2. IInv /\ [Next]_vars => [Catalog!Next]_<<rows, files>>
    <2> SUFFICES ASSUME IInv, [Next]_vars PROVE [Catalog!Next]_<<rows, files>>
      OBVIOUS
    <2> USE DEF Catalog!Next, Catalog!Register, Catalog!Publish
    <2>1. ASSUME NEW r \in Requests, InsertRow(r) PROVE [Catalog!Next]_<<rows, files>>
      <3>1. r \notin rows
        BY <2>1 DEF InsertRow, IInv, TraceInv, TraceOf, BeforeInsert
      <3> QED
        BY <2>1, <3>1 DEF InsertRow
    <2>2. ASSUME NEW r \in Requests, UploadFile(r) PROVE [Catalog!Next]_<<rows, files>>
      <3>1. r \in rows
        BY <2>2 DEF UploadFile, IInv, TraceInv, TraceOf
      <3>2. CASE r \in files
        BY <2>2, <3>2 DEF UploadFile
      <3>3. CASE r \notin files
        BY <2>2, <3>1, <3>3 DEF UploadFile
      <3> QED
        BY <3>2, <3>3
    <2>3. CASE LateExecution
      <3>1. PICK w \in late :
                \/ w[2] = "row" /\ rows' = rows \cup {w[1]} /\ files' = files
                \/ w[2] = "file" /\ files' = files \cup {w[1]} /\ rows' = rows
                \/ rows' = rows /\ files' = files
        BY <2>3 DEF LateExecution
      <3>2. w[1] \in Requests /\ w = <<w[1], w[2]>>
        BY DEF IInv, TypeOK
      <3>3. w[2] = "file" => w[1] \in rows
        BY <3>2 DEF IInv, TraceInv, TraceOf
      <3> QED
        BY <3>1, <3>2, <3>3
    <2>4. ASSUME NEW r \in Requests,
                 \/ Authenticate(r) \/ ResolveTenant(r) \/ ParseRequest(r)
                 \/ FetchContent(r) \/ Expire(r) \/ Disconnect(r)
          PROVE  UNCHANGED <<rows, files>>
      BY <2>4 DEF Authenticate, ResolveTenant, ParseRequest, FetchContent, Expire,
         Disconnect, db
    <2>5. CASE ChangeMemberships \/ Crash \/ UNCHANGED vars
      BY <2>5 DEF ChangeMemberships, Crash, vars, db
    <2> QED
      BY <2>1, <2>2, <2>3, <2>4, <2>5 DEF Next, Handler
  <1> QED
    BY CreationInvariance, <1>1, <1>2, PTL DEF Spec, RefinesCatalog, Catalog!Spec

-----------------------------------------------------------------------------
(***************************************************************************)
(* The composition.                                                        *)
(***************************************************************************)


\* The run flow interferes with no creation.
LEMMA StepOfCreations == ASSUME [OrchNext]_allVars PROVE [Next]_vars
  <1>1. ASSUME NEW c \in Requests, CreationStep(c) PROVE Next
    BY <1>1 DEF CreationStep, Next
  <1>2. ASSUME NEW r \in Runs, RunStep(r) PROVE UNCHANGED vars
    <2>1. UNCHANGED <<memberships, creating>>
      BY <1>2 DEF RunStep
    <2> QED
      BY <2>1 DEF creating, client, db, vars
  <1>3. CASE SharedStep
    <2>1. CASE ChangeMemberships \/ LateExecution \/ Crash
      BY <2>1 DEF Next
    <2>2. CASE UNCHANGED <<memberships, creating>>
      BY <2>2 DEF creating, client, db, vars
    <2> QED
      BY <1>3, <2>1, <2>2 DEF SharedStep
  <1>4. CASE UNCHANGED allVars
    BY <1>4 DEF allVars
  <1> QED
    BY <1>1, <1>2, <1>3, <1>4 DEF OrchNext

LEMMA CreationsOnly == OrchSpec => Spec
  <1>1. OrchInit => Init
    BY DEF OrchInit
  <1> QED
    BY <1>1, StepOfCreations, PTL DEF OrchSpec, Spec

\* What the run flow sees of a creation: the agents table.
Table == [c \in rows |-> RowOf(c)]

\* Creations keep every row of the table as it is, and add one at a time.
LEMMA TableStep ==
  ASSUME IInv, IInv',
         \/ \E c \in Requests : CreationStep(c)
         \/ LateExecution
  PROVE  \/ Table' = Table
         \/ \E a \in Requests \ rows : \E p \in [org : Orgs, group : Groups] :
                Table' = [b \in rows \cup {a} |-> IF b = a THEN p ELSE Table[b]]
  <1>1. \A c \in rows' : RowOf(c)' \in [org : Orgs, group : Groups]
    <2> SUFFICES ASSUME NEW c \in rows'
                 PROVE  RowOf(c)' \in [org : Orgs, group : Groups]
      OBVIOUS
    <2>1. c \in Requests /\ tenant'[c] \in Tenant \cup {NoTenant}
      BY DEF IInv, TypeOK
    <2>2. tenant'[c].role \in {"manager", "owner"}
      BY <2>1 DEF IInv, RoleInv
    <2>3. tenant'[c] \in Tenant
      BY <2>1, <2>2 DEF NoTenant
    <2> QED
      BY <2>3 DEF RowOf, Tenant
  <1>2. \A c \in rows : tenant'[c] = tenant[c]
    <2> SUFFICES ASSUME NEW d \in Requests, ResolveTenant(d)
                 PROVE  \A c \in rows : tenant'[c] = tenant[c]
      <3>1. CASE LateExecution
        BY <3>1 DEF LateExecution
      <3>2. ASSUME NEW c \in Requests, CreationStep(c), ~ResolveTenant(c)
            PROVE  tenant' = tenant
        BY <3>2 DEF CreationStep, Handler, Authenticate, ParseRequest, FetchContent,
           InsertRow, UploadFile, Expire, Disconnect
      <3> QED
        BY <3>1, <3>2
    <2>1. d \notin rows
      BY DEF ResolveTenant, IInv, TraceInv, TraceOf, BeforeInsert
    <2>2. tenant' = tenant \/ \E t \in Tenants(d) : tenant' = [tenant EXCEPT ![d] = t]
      BY DEF ResolveTenant
    <2> QED
      BY <2>1, <2>2 DEF IInv, TypeOK
  <1>3. rows' = rows \/ \E a \in Requests \ rows : rows' = rows \cup {a}
    <2>1. CASE LateExecution
      <3>1. PICK w \in late : rows' = rows \/ rows' = rows \cup {w[1]}
        BY <2>1 DEF LateExecution
      <3>2. w[1] \in Requests
        BY DEF IInv, TypeOK
      <3> QED
        BY <3>1, <3>2
    <2>2. ASSUME NEW c \in Requests, CreationStep(c)
          PROVE  rows' = rows \/ rows' = rows \cup {c}
      BY <2>2 DEF CreationStep, Handler, Authenticate, ResolveTenant, ParseRequest,
         FetchContent, InsertRow, UploadFile, Expire, Disconnect, db
    <2> QED
      BY <2>1, <2>2
  <1>4. \A c \in rows : RowOf(c)' = RowOf(c)
    BY <1>2 DEF RowOf
  <1>5. CASE rows' = rows
    BY <1>4, <1>5 DEF Table
  <1>6. ASSUME NEW a \in Requests \ rows, rows' = rows \cup {a}
        PROVE  Table' = [b \in rows \cup {a} |-> IF b = a THEN RowOf(a)' ELSE Table[b]]
    BY <1>4, <1>6 DEF Table
  <1> QED
    BY <1>1, <1>3, <1>5, <1>6

\* A creation's step is a step of the run flow's surroundings.
LEMMA CreationIsAddAgent ==
  ASSUME UNCHANGED <<memberships, running>>,
         \/ Table' = Table
         \/ \E a \in Requests \ rows : \E p \in [org : Orgs, group : Groups] :
                Table' = [b \in rows \cup {a} |-> IF b = a THEN p ELSE Table[b]]
  PROVE  [R!Next]_(R!vars)
  <1>1. UNCHANGED <<memberships, phase, apiKey, runPc, runAsked, runLink, runResp,
                    outcome, ws, procs, runs, runLate>>
    BY DEF running
  <1>2. CASE Table' = Table
    BY <1>1, <1>2 DEF R!vars, Table
  <1>3. CASE \E a \in Requests \ rows : \E p \in [org : Orgs, group : Groups] :
                Table' = [b \in rows \cup {a} |-> IF b = a THEN p ELSE Table[b]]
    <2>1. DOMAIN Table = rows
      BY DEF Table
    <2>2. R!AddAgent
      BY <1>1, <1>3, <2>1 DEF R!AddAgent, R!client, R!host, R!db, Table
    <2> QED
      BY <2>2 DEF R!Next
  <1> QED
    BY <1>2, <1>3

\* Creations do to the agents table only what RunAgent allows its surroundings: the
\* composition is a behaviour of RunAgent (runs.go:99 reads what agents.go:172 wrote).
THEOREM RunFlowRefinement == OrchSpec => RefinesRunFlow
  <1>1. OrchInit => R!Init
    BY DEF OrchInit
  <1>2. IInv /\ IInv' /\ [OrchNext]_allVars => [R!Next]_(R!vars)
    <2> SUFFICES ASSUME IInv, IInv', [OrchNext]_allVars PROVE [R!Next]_(R!vars)
      OBVIOUS
    <2>1. ASSUME NEW c \in Requests, CreationStep(c) PROVE [R!Next]_(R!vars)
      <3>1. UNCHANGED <<memberships, running>>
        BY <2>1 DEF CreationStep, Handler, Authenticate, ResolveTenant, ParseRequest,
           FetchContent, InsertRow, UploadFile, Expire, Disconnect
      <3> QED
        BY <2>1, <3>1, TableStep, CreationIsAddAgent
    <2>2. ASSUME NEW r \in Runs, RunStep(r) PROVE R!Next
      BY <2>2 DEF RunStep, Hydrate, R!Handler, R!Next
    <2>3. CASE SharedStep
      <3>1. CASE ChangeMemberships /\ UNCHANGED running
        <4>1. UNCHANGED <<rows, tenant>> /\ memberships' \in Tables
          BY <3>1 DEF ChangeMemberships, db
        <4>2. R!ChangeMemberships
          BY <3>1, <4>1 DEF running, RowOf, R!ChangeMemberships, R!client, R!host, R!db
        <4> QED
          BY <4>2 DEF R!Next
      <3>2. CASE LateExecution /\ UNCHANGED running
        <4>1. UNCHANGED memberships
          BY <3>2 DEF LateExecution
        <4> QED
          BY <3>2, <4>1, TableStep, CreationIsAddAgent
      <3>3. CASE R!LateExecution \/ R!Shutdown \/ R!Restart \/ R!Crash \/ R!DrainEnds
        BY <3>3 DEF R!Next
      <3> QED
        BY <2>3, <3>1, <3>2, <3>3 DEF SharedStep
    <2>4. CASE UNCHANGED allVars
      <3>1. UNCHANGED <<rows, tenant, memberships, running>>
        BY <2>4 DEF allVars, vars, db
      <3>2. Table' = Table
        BY <3>1 DEF Table, RowOf
      <3> QED
        BY <3>1, <3>2, CreationIsAddAgent
    <2> QED
      BY <2>1, <2>2, <2>3, <2>4 DEF OrchNext
  <1> QED
    BY CreationsOnly, CreationInvariance, <1>1, <1>2, PTL DEF OrchSpec, RefinesRunFlow, R!Spec

\* In the composition, too, agents are created only for those entitled to, whole or
\* as the catalog allows.
THEOREM ComposedCreations == OrchSpec => /\ [](TypeOK /\ FileHasRow /\ AnswerMatchesAgent)
                                         /\ CreationIsAuthorized
                                         /\ RefinesCatalog
  BY CreationsOnly, CreationSafety, CreationAuthorized, CatalogRefinement

-----------------------------------------------------------------------------
\* Each run has one entry that tells of its instructions.
OneEntryEach == DOMAIN context = Runs

LEMMA NextOneEntryEach == OneEntryEach /\ [OrchNext]_allVars => OneEntryEach'
  BY DEF OneEntryEach, OrchNext, CreationStep, RunStep, Hydrate, SharedStep, running,
     allVars

LEMMA CompositionInvariance == OrchSpec => [](IInv /\ OneEntryEach)
  <1>1. OrchInit => OneEntryEach
    BY DEF OrchInit, OneEntryEach
  <1> QED
    BY <1>1, NextOneEntryEach, CreationsOnly, CreationInvariance, PTL DEF OrchSpec

\* The agent's own instructions that a run fetches were written by a manager's or an owner's
\* request, in an organization that the run's user belongs to when they are fetched.
THEOREM InstructionsHaveAuthors == OrchSpec => InstructionsAreAuthored
  <1> DEFINE Authored(r) ==
                context'[r] = "with" /\ context[r] # "with" =>
                    /\ tenant[FileOf(r)].role \in {"manager", "owner"}
                    /\ \E m \in memberships : /\ m.user = runAsked[r].user
                                              /\ m.org = tenant[FileOf(r)].org
  <1>1. IInv /\ OneEntryEach /\ [OrchNext]_allVars => [\A r \in Runs : Authored(r)]_allVars
    <2> SUFFICES ASSUME IInv, OneEntryEach, OrchNext, NEW r \in Runs,
                        context'[r] = "with", context[r] # "with"
                 PROVE  Authored(r)
      OBVIOUS
    <2>1. PICK q \in Runs : Hydrate(q)
      <3>1. \/ UNCHANGED context
            \/ \E q \in Runs : Hydrate(q)
        BY DEF OrchNext, CreationStep, RunStep, SharedStep, running
      <3> QED
        BY <3>1
    <2>2. q = r /\ MayFetch(r)
      BY <2>1 DEF Hydrate, OneEntryEach
    <2>3. FileOf(r) \in Requests /\ tenant[FileOf(r)].role \in {"manager", "owner"}
      BY <2>2 DEF MayFetch, IInv, TypeOK, TraceInv, TraceOf, RoleInv
    <2>4. PICK t \in R!Tenants(r) : t.org = tenant[FileOf(r)].org
      BY <2>2 DEF MayFetch, ObjectVisible
    <2>5. \E m \in memberships : m.user = runAsked[r].user /\ m.org = t.org
      BY <2>4 DEF R!Tenants, R!CurrentTenant
    <2> QED
      BY <2>3, <2>4, <2>5
  <1> QED
    BY <1>1, CompositionInvariance, PTL DEF OrchSpec, InstructionsAreAuthored
=============================================================================
