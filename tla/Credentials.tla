---------------------------- MODULE Credentials ----------------------------
(***************************************************************************)
(* POST, PUT, DELETE and GET /v1/orgs/{id}/credentials behind the owners'  *)
(* middleware chain: the handlers over the CredentialStore port.  Every    *)
(* request makes one call to the store, which executes one statement under *)
(* the policy of org_credentials; requests, changes of the memberships and *)
(* statements that outlive their request interleave.                       *)
(*                                                                         *)
(* The repository has the port and no implementation of it: the statements *)
(* are external, modelled from the port's contract and the table's policy. *)
(***************************************************************************)
EXTENDS Tenancy

CONSTANTS
    Requests,   \* one per HTTP request; also names the key it carries
    NoKey,
    Calls,      \* the requests that may be made
    Tables      \* the contents the memberships table may be given

Verbs == {"register", "rotate", "revoke", "status"}
Call  == [user : Users, verb : Verbs, org : Orgs]

ASSUME CredentialsAssumption ==
    /\ NoKey \notin Requests
    /\ Calls \subseteq Call
    /\ Tables \subseteq SUBSET Membership

NoTenant == [org |-> {}, group |-> {}, role |-> "none"]

VARIABLES
    memberships,  \* the memberships table
    keys,         \* org_credentials: the request whose key an organization has
    pc,           \* where each request's handler stands
    asked,        \* what each request asks for
    tenant,       \* the TenantContext the middleware resolved
    live,         \* the JWT has not expired and the client waits
    resp,         \* status code written by the handler, 0 before
    late          \* requests whose statement may execute after their answer

vars == <<memberships, keys, pc, asked, tenant, live, resp, late>>

Closed    == {"end", "dead"}
Succeeded == {200, 201, 204}
Writes(r) == asked[r].verb \in {"register", "rotate"}

Init ==
    /\ memberships \in Tables
    /\ keys = [o \in Orgs |-> NoKey]
    /\ pc = [r \in Requests |-> "idle"]
    /\ asked \in [Requests -> Calls]
    /\ tenant = [r \in Requests |-> NoTenant]
    /\ live = [r \in Requests |-> TRUE]
    /\ resp = [r \in Requests |-> 0]
    /\ late = {}

Tenants(r) == CurrentTenant(memberships, asked[r].user)

\* The policy at the moment the statement executes.
Permitted(r) == \E t \in Tenants(r) : CredentialVisible(t, asked[r].org)
Hidden(r)    == \/ Tenants(r) = {}
                \/ \E t \in Tenants(r) : ~CredentialVisible(t, asked[r].org)

Goto(r, p) == pc' = [pc EXCEPT ![r] = p]

Answer(r, code) ==
    /\ Goto(r, "end")
    /\ resp' = [resp EXCEPT ![r] = code]

-----------------------------------------------------------------------------

\* A faulty variant: the base chain, without RequireRole.
Suffices(t) == t.role \in Role

\* RequireRole(RoleOwner).
OwnerOnly(t) == RoleAtLeast(t, "owner")

\* AuthMiddleware, TenantMiddleware, RequireRole.
Authorize(r) ==
    /\ pc[r] = "idle"
    /\ \/ /\ live[r]
          /\ \E t \in Tenants(r) :
                /\ OwnerOnly(t)
                /\ tenant' = [tenant EXCEPT ![r] = t]
          /\ Goto(r, "validate")
          /\ UNCHANGED resp
       \/ /\ live[r]
          /\ Tenants(r) = {} \/ \E t \in Tenants(r) : ~OwnerOnly(t)
          /\ Answer(r, 403)
          /\ UNCHANGED tenant
       \/ \E code \in {401, 500} : Answer(r, code) /\ UNCHANGED tenant
    /\ UNCHANGED <<memberships, keys, asked, live, late>>

\* A faulty variant: the organization of the path is not compared.
AnyPath(r) == asked[r].org \in Orgs

PathMatches(r) == asked[r].org = tenant[r].org

\* validateCredentialWrite and validateCredentialRead: path, then body and key.
Validate(r) ==
    /\ pc[r] = "validate"
    /\ \/ PathMatches(r) /\ Goto(r, "store") /\ UNCHANGED resp
       \/ ~PathMatches(r) /\ Answer(r, 403)
       \/ Writes(r) /\ PathMatches(r) /\ Answer(r, 400)
       \/ Answer(r, 400)                     \* no uuid in the path
    /\ UNCHANGED <<memberships, keys, asked, tenant, live, late>>

\* The status code of success.
Success(verb) ==
    [register |-> 201, rotate |-> 200, revoke |-> 204, status |-> 200][verb]

\* A statement's effect.  The policy hides the row from whoever is no owner: a
\* write of it is refused, a delete or a select of it finds nothing.
Execute(r) ==
    CASE Writes(r) -> Permitted(r) /\ keys' = [keys EXCEPT ![asked[r].org] = r]
      [] asked[r].verb = "revoke" ->
            \/ Permitted(r) /\ keys' = [keys EXCEPT ![asked[r].org] = NoKey]
            \/ Hidden(r) /\ UNCHANGED keys
      [] asked[r].verb = "status" -> UNCHANGED keys

\* A faulty variant: the store's error is discarded.
StoreUnchecked(r) ==
    /\ pc[r] = "store"
    /\ \/ Execute(r) /\ UNCHANGED late
       \/ late' = late \cup {r} /\ UNCHANGED keys
    /\ Answer(r, Success(asked[r].verb))
    /\ UNCHANGED <<memberships, asked, tenant, live>>

\* UpsertCredential, DeleteCredential, HasCredential.
CallStore(r) ==
    /\ pc[r] = "store"
    /\ \/ /\ live[r] /\ Execute(r)
          /\ \E code \in {Success(asked[r].verb), 500} : Answer(r, code)
          /\ UNCHANGED late
       \/ /\ live[r]                         \* on its way when the call fails
          /\ late' = late \cup {r}
          /\ Answer(r, 500)
          /\ UNCHANGED keys
       \/ Answer(r, 500) /\ UNCHANGED <<keys, late>>
    /\ UNCHANGED <<memberships, asked, tenant, live>>

Handler(r) == Authorize(r) \/ Validate(r) \/ CallStore(r)

-----------------------------------------------------------------------------

\* The JWT expires, or the client hangs up.
Expire(r) ==
    /\ pc[r] \notin Closed
    /\ live[r]
    /\ live' = [live EXCEPT ![r] = FALSE]
    /\ UNCHANGED <<memberships, keys, pc, asked, tenant, resp, late>>

ChangeMemberships ==
    /\ memberships' \in Tables
    /\ UNCHANGED <<keys, pc, asked, tenant, live, resp, late>>

LateExecution(r) ==
    /\ r \in late
    /\ late' = late \ {r}
    /\ Execute(r) \/ UNCHANGED keys
    /\ UNCHANGED <<memberships, pc, asked, tenant, live, resp>>

\* The server process dies; a statement it has sent may execute all the same.
Crash ==
    /\ \E sent \in SUBSET {r \in Requests : pc[r] = "store" /\ live[r]} :
          late' = late \cup sent
    /\ pc' = [r \in Requests |-> IF pc[r] \in {"validate", "store"} THEN "dead" ELSE pc[r]]
    /\ UNCHANGED <<memberships, keys, asked, tenant, live, resp>>

Next ==
    \/ \E r \in Requests : Handler(r) \/ Expire(r) \/ LateExecution(r)
    \/ ChangeMemberships \/ Crash

Spec == Init /\ [][Next]_vars

-----------------------------------------------------------------------------

\* The type invariant of the handlers.
TypeOK ==
    /\ memberships \in Tables
    /\ keys \in [Orgs -> Requests \cup {NoKey}]
    /\ pc \in [Requests -> {"idle", "validate", "store"} \cup Closed]
    /\ asked \in [Requests -> Calls]
    /\ tenant \in [Requests -> Tenant \cup {NoTenant}]
    /\ live \in [Requests -> BOOLEAN]
    /\ resp \in [Requests -> {0, 400, 401, 403, 500} \cup Succeeded]
    /\ late \subseteq Requests

\* The key of an organization was sent by a request that names it, was let in as
\* an owner's, and has been answered with success or not at all, or 500: a refusal
\* leaves no key behind, not even late.
KeysAreAccountedFor ==
    \A o \in Orgs : keys[o] # NoKey =>
        LET r == keys[o]
        IN  /\ Writes(r) /\ asked[r].org = o
            /\ tenant[r].org = o /\ tenant[r].role = "owner"
            /\ resp[r] \in Succeeded \cup {0, 500}

\* Success, which reveals at least that the organization's key is set or not, is
\* only answered to whom the middleware knew as an owner of that organization.
OnlyOwnersSucceed ==
    \A r \in Requests : resp[r] \in Succeeded =>
        tenant[r].org = asked[r].org /\ tenant[r].role = "owner"

\* A key comes, goes or changes only by a request of somebody who, at that moment,
\* is an owner of that very organization: also after the wait for the store, and
\* for a statement that outlived its request.
ChangesAreByOwners ==
    [][\A o \in Orgs : keys'[o] # keys[o] =>
        \E r \in Requests :
            /\ asked[r].org = o /\ (pc[r] = "store" \/ r \in late)
            /\ IF keys'[o] = NoKey THEN asked[r].verb = "revoke" ELSE r = keys'[o]
            /\ \E m \in memberships :
                    m.user = asked[r].user /\ m.org = o /\ m.role = "owner"]_vars

\* A key whose registration or rotation was answered with success does not come
\* back once it was revoked or replaced: only a request still unanswered, or one
\* answered 500, can put its key in place.
AnsweredKeysStayGone ==
    [][\A o \in Orgs : keys'[o] \notin {keys[o], NoKey} =>
            resp[keys'[o]] \in {0, 500}]_vars
=============================================================================
