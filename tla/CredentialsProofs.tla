------------------------- MODULE CredentialsProofs -------------------------
(***************************************************************************)
(* Proofs about Credentials, for any number of requests, organizations,    *)
(* users and histories of the memberships.                                 *)
(***************************************************************************)
EXTENDS Credentials, TLAPS

\* A request was let in as an owner's of the organization that it names.
Owned(r) == tenant[r].org = asked[r].org /\ tenant[r].role = "owner"

\* Who has got how far, and was answered what.
ProgressInv ==
    \A r \in Requests :
        /\ pc[r] = "validate" => tenant[r].role = "owner"
        /\ pc[r] = "store" \/ r \in late \/ resp[r] \in Succeeded => Owned(r)
        /\ pc[r] # "end" => resp[r] = 0
        /\ r \in late => pc[r] \in Closed /\ resp[r] \in {0, 500}

\* Whose key is in place.
InPlace(q, o) ==
    /\ Writes(q) /\ asked[q].org = o
    /\ Owned(q)
    /\ pc[q] \in Closed /\ resp[q] \in Succeeded \cup {0, 500}

KeyInv == \A o \in Orgs, q \in Requests : keys[o] = q => InPlace(q, o)

IInv == TypeOK /\ ProgressInv /\ KeyInv

LEMMA InitIInv == Init => IInv
  BY CredentialsAssumption
     DEF Init, IInv, TypeOK, ProgressInv, KeyInv, InPlace, Closed, Succeeded

LEMMA TenantType == \A r \in Requests : TypeOK => Tenants(r) \subseteq Tenant
  BY CredentialsAssumption DEF TypeOK, Tenants, CurrentTenant, Tenant, Membership

LEMMA AskedType == \A r \in Requests : TypeOK =>
                        asked[r].verb \in Verbs /\ asked[r].org \in Orgs
  BY CredentialsAssumption DEF TypeOK, Call

\* What a statement can do to the table.
Set(r)   == Writes(r) /\ Permitted(r) /\ keys' = [keys EXCEPT ![asked[r].org] = r]
Clear(r) == asked[r].verb = "revoke" /\ Permitted(r)
                /\ keys' = [keys EXCEPT ![asked[r].org] = NoKey]

LEMMA ExecuteEffect ==
  ASSUME TypeOK, NEW r \in Requests, Execute(r)
  PROVE  Set(r) \/ Clear(r) \/ keys' = keys
  <1>1. asked[r].verb \in Verbs
    BY AskedType
  <1> QED
    BY <1>1 DEF Execute, Set, Clear, Writes, Verbs

\* The code of a success is not mistaken for another answer.
LEMMA SuccessCode == \A v \in Verbs : Success(v) \in Succeeded
  BY DEF Success, Verbs, Succeeded

LEMMA AuthorizeIInv == ASSUME IInv, NEW r \in Requests, Authorize(r) PROVE IInv'
  <1> USE DEF IInv
  <1>1. /\ pc[r] = "idle" /\ UNCHANGED <<memberships, keys, asked, live, late>>
        /\ r \notin late /\ resp[r] = 0
        /\ \A o \in Orgs : keys[o] # r
    BY CredentialsAssumption DEF Authorize, ProgressInv, KeyInv, InPlace, Closed
  <1>2. \/ /\ pc' = [pc EXCEPT ![r] = "validate"] /\ resp' = resp
           /\ \E t \in Tenants(r) : /\ OwnerOnly(t)
                                    /\ tenant' = [tenant EXCEPT ![r] = t]
        \/ /\ pc' = [pc EXCEPT ![r] = "end"] /\ tenant' = tenant
           /\ \E code \in {401, 403, 500} : resp' = [resp EXCEPT ![r] = code]
    BY DEF Authorize, Goto, Answer
  <1>3. CASE \E code \in {401, 403, 500} :
                /\ pc' = [pc EXCEPT ![r] = "end"] /\ tenant' = tenant
                /\ resp' = [resp EXCEPT ![r] = code]
    <2>1. TypeOK'
      BY <1>1, <1>3 DEF TypeOK, Closed
    <2>2. ProgressInv' /\ KeyInv'
      BY <1>1, <1>3, <2>1 DEF TypeOK, ProgressInv, KeyInv, InPlace, Owned, Writes, Closed, Succeeded
    <2> QED
      BY <2>1, <2>2
  <1>4. CASE /\ pc' = [pc EXCEPT ![r] = "validate"] /\ resp' = resp
             /\ \E t \in Tenants(r) : /\ OwnerOnly(t)
                                      /\ tenant' = [tenant EXCEPT ![r] = t]
    <2>1. PICK t \in Tenants(r) : /\ OwnerOnly(t)
                                  /\ tenant' = [tenant EXCEPT ![r] = t]
      BY <1>4
    <2>2. t \in Tenant /\ t.role = "owner"
      BY <2>1, TenantType DEF OwnerOnly, RoleAtLeast, Rank, Tenant, Role
    <2>3. TypeOK'
      BY <1>1, <1>4, <2>1, <2>2 DEF TypeOK
    <2>4. ProgressInv'
      BY <1>1, <1>4, <2>1, <2>2 DEF TypeOK, ProgressInv, Owned, Closed, Succeeded
    <2>5. KeyInv'
      BY <1>1, <1>4, <2>1 DEF TypeOK, KeyInv, InPlace, Owned, Writes, Closed
    <2> QED
      BY <2>3, <2>4, <2>5
  <1> QED
    BY <1>2, <1>3, <1>4

LEMMA ValidateIInv == ASSUME IInv, NEW r \in Requests, Validate(r) PROVE IInv'
  <1> USE DEF IInv
  <1>1. /\ pc[r] = "validate" /\ UNCHANGED <<memberships, keys, asked, tenant, live, late>>
        /\ r \notin late /\ resp[r] = 0
        /\ \A o \in Orgs : keys[o] # r
    BY CredentialsAssumption DEF Validate, ProgressInv, KeyInv, InPlace, Closed
  <1>2. \/ pc' = [pc EXCEPT ![r] = "store"] /\ resp' = resp /\ Owned(r)
        \/ /\ pc' = [pc EXCEPT ![r] = "end"]
           /\ \E code \in {400, 403} : resp' = [resp EXCEPT ![r] = code]
    BY DEF Validate, PathMatches, Goto, Answer, ProgressInv, Owned
  <1>3. TypeOK'
    BY <1>1, <1>2 DEF TypeOK, Closed
  <1>4. ProgressInv'
    BY <1>1, <1>2 DEF TypeOK, ProgressInv, Owned, Closed, Succeeded
  <1>5. KeyInv'
    BY <1>1, <1>2 DEF TypeOK, KeyInv, InPlace, Owned, Writes, Closed
  <1> QED
    BY <1>3, <1>4, <1>5

LEMMA CallStoreIInv == ASSUME IInv, NEW r \in Requests, CallStore(r) PROVE IInv'
  <1> USE DEF IInv
  <1>1. /\ pc[r] = "store" /\ UNCHANGED <<memberships, asked, tenant, live>>
        /\ r \notin late /\ Owned(r)
        /\ asked[r].verb \in Verbs /\ asked[r].org \in Orgs
        /\ \A o \in Orgs : keys[o] # r
    BY AskedType, CredentialsAssumption DEF CallStore, ProgressInv, KeyInv, InPlace, Closed
  <1>2. pc' = [pc EXCEPT ![r] = "end"]
    BY DEF CallStore, Goto, Answer
  <1>3. \E code \in Succeeded \cup {500} : resp' = [resp EXCEPT ![r] = code]
    BY <1>1, SuccessCode DEF CallStore, Answer
  <1>4. \/ (Set(r) \/ Clear(r) \/ keys' = keys) /\ late' = late
        \/ /\ keys' = keys /\ late' = late \cup {r}
           /\ resp' = [resp EXCEPT ![r] = 500]
    BY ExecuteEffect DEF CallStore, Answer
  <1>5. TypeOK'
    BY <1>1, <1>2, <1>3, <1>4 DEF TypeOK, Closed, Set, Clear
  <1>6. ProgressInv'
    BY <1>1, <1>2, <1>3, <1>4 DEF TypeOK, ProgressInv, Owned, Closed, Succeeded
  <1>7. \A q \in Requests : Owned(q)' <=> Owned(q)
    BY <1>1 DEF Owned
  <1>8. KeyInv'
    <2> SUFFICES ASSUME NEW o \in Orgs, NEW q \in Requests, keys'[o] = q
                 PROVE  InPlace(q, o)'
      BY DEF KeyInv, InPlace
    <2>1. CASE keys'[o] = keys[o]
      BY <1>1, <1>2, <1>3, <2>1 DEF KeyInv, InPlace, TypeOK, Closed, Writes, Owned
    <2>2. CASE keys'[o] # keys[o]
      <3>1. Set(r) /\ q = r /\ o = asked[r].org
        BY <1>1, <1>4, <2>2, CredentialsAssumption DEF Set, Clear, TypeOK
      <3> QED
        BY <1>1, <1>2, <1>3, <3>1 DEF Set, InPlace, TypeOK, Closed, Writes, Owned
    <2> QED
      BY <2>1, <2>2
  <1> QED
    BY <1>5, <1>6, <1>8

LEMMA LateExecutionIInv == ASSUME IInv, NEW r \in Requests, LateExecution(r) PROVE IInv'
  <1> USE DEF IInv
  <1>1. /\ r \in late /\ late' = late \ {r}
        /\ UNCHANGED <<memberships, pc, asked, tenant, live, resp>>
        /\ Set(r) \/ Clear(r) \/ keys' = keys
        /\ Owned(r) /\ pc[r] \in Closed /\ resp[r] \in {0, 500}
        /\ asked[r].org \in Orgs
    BY ExecuteEffect, AskedType DEF LateExecution, ProgressInv
  <1>2. TypeOK'
    BY <1>1 DEF TypeOK, Set, Clear
  <1>3. ProgressInv'
    BY <1>1 DEF ProgressInv, Owned
  <1>4. KeyInv'
    <2> SUFFICES ASSUME NEW o \in Orgs, NEW q \in Requests, keys'[o] = q
                 PROVE  InPlace(q, o)'
      BY DEF KeyInv, InPlace
    <2>1. CASE keys'[o] = keys[o]
      BY <1>1, <2>1 DEF KeyInv, InPlace, Writes, Owned
    <2>2. CASE keys'[o] # keys[o]
      <3>1. Set(r) /\ q = r /\ o = asked[r].org
        BY <1>1, <2>2, CredentialsAssumption DEF Set, Clear, TypeOK
      <3> QED
        BY <1>1, <3>1 DEF Set, InPlace, Writes, Owned
    <2> QED
      BY <2>1, <2>2
  <1> QED
    BY <1>2, <1>3, <1>4

LEMMA CrashIInv == ASSUME IInv, Crash PROVE IInv'
  <1> USE DEF IInv
  <1>1. PICK sent \in SUBSET {r \in Requests : pc[r] = "store" /\ live[r]} :
                late' = late \cup sent
    BY DEF Crash
  <1>2. /\ UNCHANGED <<memberships, keys, asked, tenant, live, resp>>
        /\ pc' = [r \in Requests |->
                    IF pc[r] \in {"validate", "store"} THEN "dead" ELSE pc[r]]
    BY DEF Crash
  <1>3. TypeOK'
    BY <1>1, <1>2 DEF TypeOK, Closed
  <1>4. ProgressInv'
    BY <1>1, <1>2 DEF TypeOK, ProgressInv, Owned, Closed, Succeeded
  <1>5. KeyInv'
    BY <1>2 DEF TypeOK, KeyInv, InPlace, Owned, Writes, Closed
  <1> QED
    BY <1>3, <1>4, <1>5

LEMMA SurroundingsIInv ==
  ASSUME IInv, \/ \E r \in Requests : Expire(r)
               \/ ChangeMemberships
               \/ UNCHANGED vars
  PROVE  IInv'
  <1>1. UNCHANGED <<keys, pc, asked, tenant, resp, late>>
    BY DEF Expire, ChangeMemberships, vars
  <1>2. TypeOK'
    <2>1. ASSUME NEW r \in Requests, Expire(r) PROVE TypeOK'
      BY <2>1 DEF IInv, TypeOK, Expire
    <2>2. CASE ChangeMemberships
      BY <2>2 DEF IInv, TypeOK, ChangeMemberships
    <2>3. CASE UNCHANGED vars
      BY <2>3 DEF IInv, TypeOK, vars
    <2> QED
      BY <2>1, <2>2, <2>3
  <1> QED
    BY <1>1, <1>2 DEF IInv, ProgressInv, KeyInv, InPlace, Owned, Writes

LEMMA NextIInv == IInv /\ [Next]_vars => IInv'
  BY AuthorizeIInv, ValidateIInv, CallStoreIInv, LateExecutionIInv, CrashIInv,
     SurroundingsIInv DEF Next, Handler

\* The inductive invariant of the credential handlers (credentials.go:40-225).
THEOREM CredentialInvariance == Spec => []IInv
  <1>1. Init => IInv
    BY InitIInv
  <1> QED
    BY <1>1, NextIInv, PTL DEF Spec

\* A key in place was sent by a request let in as an owner's for that organization:
\* no refusal leaves a key behind, not even by a statement that outlived its request
\* (credentials.go:44-180).
THEOREM KeysHaveOwners == Spec => []KeysAreAccountedFor
  <1>1. IInv => KeysAreAccountedFor
    BY DEF IInv, TypeOK, KeyInv, InPlace, Owned, KeysAreAccountedFor
  <1> QED
    BY CredentialInvariance, <1>1, PTL

\* Success, of any of the four verbs, is answered to those the chain let in as owners
\* of the organization they name, to nobody else (credentials.go:58, credentials.go:106).
THEOREM SuccessIsForOwners == Spec => []OnlyOwnersSucceed
  <1>1. IInv => OnlyOwnersSucceed
    BY DEF IInv, ProgressInv, Owned, OnlyOwnersSucceed
  <1> QED
    BY CredentialInvariance, <1>1, PTL

\* A step that puts a key in place, or removes one, executes a statement of a request
\* of somebody whom the policy lets through, before that request is answered with
\* success.
LEMMA KeyChange ==
  ASSUME IInv, Next, NEW o \in Orgs, keys'[o] # keys[o]
  PROVE  \E r \in Requests :
            /\ Set(r) \/ Clear(r)
            /\ pc[r] = "store" \/ r \in late
            /\ asked[r].org = o /\ resp[r] \in {0, 500}
  <1> USE DEF IInv
  <1>1. PICK r \in Requests : CallStore(r) \/ LateExecution(r)
    BY DEF Next, Handler, Authorize, Validate, Expire, ChangeMemberships, Crash
  <1>2. /\ pc[r] = "store" \/ r \in late
        /\ resp[r] \in {0, 500}
    BY <1>1 DEF CallStore, LateExecution, ProgressInv
  <1>3. Set(r) \/ Clear(r)
    BY <1>1, ExecuteEffect DEF CallStore, LateExecution
  <1>4. asked[r].org = o
    BY <1>3 DEF Set, Clear, TypeOK
  <1> QED
    BY <1>2, <1>3, <1>4

\* The key of an organization changes only through its owners of the moment.
THEOREM ChangesByOwners == Spec => ChangesAreByOwners
  <1> DEFINE ByOwner(o, r) ==
                /\ asked[r].org = o /\ (pc[r] = "store" \/ r \in late)
                /\ IF keys'[o] = NoKey THEN asked[r].verb = "revoke" ELSE r = keys'[o]
                /\ \E m \in memberships :
                        m.user = asked[r].user /\ m.org = o /\ m.role = "owner"
             Change == \A o \in Orgs : keys'[o] # keys[o] => \E r \in Requests : ByOwner(o, r)
  <1>1. IInv /\ [Next]_vars => [Change]_vars
    <2> SUFFICES ASSUME IInv, Next, NEW o \in Orgs, keys'[o] # keys[o]
                 PROVE  \E r \in Requests : ByOwner(o, r)
      OBVIOUS
    <2>1. PICK r \in Requests : /\ Set(r) \/ Clear(r)
                                /\ pc[r] = "store" \/ r \in late
                                /\ asked[r].org = o
      BY KeyChange
    <2>2. \E m \in memberships : m.user = asked[r].user /\ m.org = o /\ m.role = "owner"
      BY <2>1 DEF Set, Clear, Permitted, CredentialVisible, Tenants, CurrentTenant
    <2>3. IF keys'[o] = NoKey THEN asked[r].verb = "revoke" ELSE r = keys'[o]
      BY <2>1, CredentialsAssumption DEF Set, Clear, IInv, TypeOK
    <2> QED
      BY <2>1, <2>2, <2>3
  <1>2. Spec => [][Change]_vars
    BY CredentialInvariance, <1>1, PTL DEF Spec
  <1> QED
    BY <1>2 DEF ChangesAreByOwners

\* A key that was acknowledged and then revoked or replaced is gone for good.
THEOREM KeysStayGone == Spec => AnsweredKeysStayGone
  <1> DEFINE Gone == \A o \in Orgs : keys'[o] \notin {keys[o], NoKey} =>
                            resp[keys'[o]] \in {0, 500}
  <1>1. IInv /\ [Next]_vars => [Gone]_vars
    <2> SUFFICES ASSUME IInv, Next, NEW o \in Orgs, keys'[o] \notin {keys[o], NoKey}
                 PROVE  resp[keys'[o]] \in {0, 500}
      BY DEF vars
    <2>1. PICK r \in Requests : /\ Set(r) \/ Clear(r)
                                /\ asked[r].org = o /\ resp[r] \in {0, 500}
      BY KeyChange
    <2>2. keys'[o] = r
      BY <2>1 DEF Set, Clear, IInv, TypeOK
    <2> QED
      BY <2>1, <2>2
  <1>2. Spec => [][Gone]_vars
    BY CredentialInvariance, <1>1, PTL DEF Spec
  <1> QED
    BY <1>2 DEF AnsweredKeysStayGone
=============================================================================
