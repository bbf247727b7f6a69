# Houston 2.0 — formal model

TLA+ models of the Houston 2.0 orchestrator (`src/internal`, `src/cmd`) and of the
database rules it relies on (`src/supabase/migrations`): TLC checks them on small
instances, TLAPS proves the results that matter most for every instance.

## 1. The system

A Go HTTP server in front of Supabase (PostgREST, Storage, Auth). It keeps almost no
state of its own: every request resolves its caller, then talks to Supabase with the
caller's own JWT, so that row-level security (RLS) decides what each statement may see
and write. The interesting state is spread over the database, the bucket, the host
(directories and subprocesses) and each handler's program counter.

| Component | State | Operations | Interacts with |
|---|---|---|---|
| Tenancy (`migrations/*.sql`, `role.go`, `rbac.go`) | organizations, groups, memberships | `current_tenant()`, one policy per table, the bucket's policy, role order | evaluated inside every statement |
| Auth and tenant middleware (`auth/middleware.go`, `middleware/tenant.go`, `supabase_querier.go`) | request context | validate the JWT, resolve the tenant, require a role | JWKS cache, `current_tenant` RPC |
| JWKS cache (`auth/jwks.go`) | `jwksByKID`, `jwksFetched`, `jwksMu` | `publicKeyForKID`, `fetchJWKSLocked` | the Auth server, which rotates its keys |
| Run-agent flow (`handlers/runs.go`, `supabase_run_store.go`) | `runs` rows | `POST /v1/agents/{id}/runs` | database, hydration, workspace, runner |
| Hydration (`DownloadContext`) | files in the workspace | list and download two prefixes | bucket |
| Workspace and runner (`runtime/*.go`) | `/tmp/houston-run-*`, `claude` processes | create, run, remove | bound to `r.Context()` |
| Create-agent flow (`handlers/agents.go`, `supabase_agent_store.go`) | `agents` rows, `CLAUDE.md` objects | `POST /v1/agents`, four content sources | database, bucket, Anthropic, GitHub |
| Server lifecycle (`server/server.go`, `cmd/server`) | the process | start, drain for 30 s, exit | all handlers |
| PKCE login (`auth/auth.go`) | one cookie per browser, none in the server | login, callback | browsers, the Auth server |
| Credential handlers (`handlers/credentials.go`) | `org_credentials` | register, rotate, revoke, status | the `CredentialStore` port, without implementation; not routed |
| Fixture seeder (`scripts/seed.go`) | fixture rows and objects | seed, teardown | PostgREST, Storage, admin API, with the service key |
| Health, stubs, logging, request ids | none | | |

What is hard about it:

* **Nothing is atomic.** A run is one insert, up to two updates, a directory, a listing,
  downloads and a subprocess; an agent is a row and an object. Each can fail on its own,
  be executed although the handler saw an error, or be executed later.
* **Errors are tolerated on purpose.** The updates of a run are best effort; refused
  downloads are skipped.
* **Identity is re-evaluated by every statement.** Memberships may change between two
  statements, a user may have several, and the token may expire in mid-run.
* **Cancellation** comes from the client, reaches HTTP calls and the subprocess alike, and
  also hits the call that should record the cancellation.
* **Shutdown and crash** leave rows, directories and subprocesses behind.
* **One mutex** guards the key cache while a fetch without timeout is in flight.
* **One cookie** per browser carries the state of every login going on in it.
* **Flows meet in the database.** An agent can be run while it is still being made.
* **Scripts are not transactions.** Seeding and teardown stop at the first error.

What makes each component correct: *Tenancy* — the policies amount to the isolation rule
of `context.md:97`. *Middleware* — nothing is written for a user who is not entitled to
it. *JWKS* — only published keys are accepted, at most one fetch runs, refusals end.
*Run flow* — row, response, directory and subprocess tell the same story. *Hydration* —
nothing foreign enters, nothing readable is missing unless refused. *Create flow* — no
object without a row, and an answer that matches what exists. *Lifecycle* — it ends.
*Login* — a token goes to the browser that asked for it, and a code is spent with its own
verifier. *Credentials* — keys change only by owners, and what was revoked stays revoked.
*Seeder* — exit 0 means done, and whatever is left can be seeded or torn down.

## 2. Modules

| Module | Models |
|---|---|
| `Tenancy` | pure operators: `current_tenant()`, the policies, the role order |
| `RunLifecycle` | abstract: what a reader of a run's status may rely on |
| `RunAgent` | the run flow with its middleware, workspace, runner, server lifecycle |
| `Hydration` | `DownloadContext`, the step `DownloadContext` of `RunAgent` in detail |
| `AgentCatalog` | abstract: what a reader of agents may rely on |
| `CreateAgent` | the creation flow with its middleware |
| `Orchestrator` | creations and runs in one process, over one database and bucket |
| `Jwks` | the key cache |
| `PkceLogin` | the login: browsers, cookies, callbacks, the Auth server |
| `Credentials` | the credential handlers over the port's contract |
| `Seed` | the seeder: processes that seed and tear down |
| `TenancyProofs`, `RunAgentProofs`, `HydrationProofs`, `JwksProofs`, `PkceProofs`, `CredentialsProofs`, `SeedProofs` | theorems about the module of that name |
| `OrchestratorProofs` | theorems about `CreateAgent`, then about `Orchestrator` |
| `MCRunAgent`, `MCHydration`, `MCCreateAgent`, `MCOrchestrator`, `MCJwks`, `MCCredentials`, `MCSeed` | instances for TLC |

`RunAgent`, `Hydration`, `CreateAgent` and `Credentials` EXTEND `Tenancy`. Refinements:
`RunAgent` instantiates `RunLifecycle`, `CreateAgent` instantiates `AgentCatalog`, and
`Orchestrator`, which EXTENDS `CreateAgent`, instantiates `RunAgent` with the agents table
that the creations fill. Operators described as *faulty variants* are plausible mistakes
in the code they stand next to; no specification uses them. They exist to confirm that
each property would notice.

### Tenancy

A membership table is a set of records. `CurrentTenant(table, user)` is the *set* of
answers `current_tenant()` may give: it selects with `LIMIT 1` and no `ORDER BY`, so any
membership of the user is a possible answer, and a user without one gets none. Statements
choose from that set independently, which covers users with several memberships and
memberships that change between statements. `CredentialVisible` is the policy of
`org_credentials`, for owners only. The policies on `agents`, `runs` and
`storage.objects` contain a subquery on `groups`, which is itself subject to the policy on
`groups`; the model keeps that nesting (`TeamScope`) and the proofs show that it hides
nothing (`NestedPolicyHidesNothing`). Storage path segments are compared as text: a
segment that is not a group's id is in nobody's scope.

### RunAgent

One request per element of `Requests`; `pc` is the position of its handler:

| Action | Code |
|---|---|
| `Authenticate` | `AuthMiddleware` (401) |
| `ResolveTenant` | `TenantMiddleware`, `RequireRole(RoleMember)` (403, 500) |
| `ParseRequest` | path, body, prompt (400) |
| `GetAgent` | `store.GetAgent` under RLS (404, 500) |
| `CreateRun` | INSERT of the row, `pending` (500), then the API key check |
| `UpdateRun` | the six calls of `UpdateRun`; `Marks` gives what each writes, what is answered and where control goes |
| `NewWorkspace`, `DownloadContext`, `StartClaude`, `ClaudeExits`, `Cleanup` | directory, hydration, subprocess, deferred removal |
| `Expire`, `Disconnect`, `ChangeMemberships`, `LateExecution`, `AddAgent` | token, client, administrators, database, other requests |
| `Shutdown`, `DrainEnds`, `Crash`, `Restart`, `OrphanExits` | the process, and what outlives it |

A Supabase call has these outcomes: executed and answered; refused by RLS (for a PATCH
that is a success that changes nothing); failed without effect; executed with the reply
lost; or, for a request in `Flaky`, left behind in `late` and executed later under the
policies of that later moment, or never. After a cancellation every call fails.

`apiKey` is the configuration of the process, read at its start and possibly different
after a restart. `os.RemoveAll` is assumed to succeed. `agents` is the agents table: rows
are added by other requests (`AddAgent`). No handler moves or deletes one; the teardown of
the fixture deletes the fixture's (`scripts/seed.go:123`, module `Seed`), and is taken not
to run beside the server. An INSERT of a run needs its agent, by the foreign key
`runs.agent_id` (`MayInsertRun`). `resp` is set when the handler's last `UpdateRun`
returns, together with the code it is about to write; no reader can tell the difference.

### Hydration

The loop over two prefixes, each with one listing and one download per name, against a
bucket, memberships and a token that change at any moment. The bucket is seen through the
two prefixes of one agent; an object is a version number (0: none). `Folders` are the
names that the listing shows as pseudo-folders. `calm` is a history variable: it becomes
FALSE when anything changes or a call is refused. `RunAgent`'s step `DownloadContext`
abstracts this module by its result: `ok` is possible unless the context was cancelled,
an error is possible always. `context.md:420` asks for *all* objects under the prefixes;
the code lists one level of at most 100 entries, and the property `CompleteWhenCalm` is
stated for what it does list (`FitsInOnePage`, no `Folders`).

### CreateAgent

`tenant` is the `TenantContext` captured by the middleware, used for the placement of the
agent long after it was resolved. `FetchContent` is one call of the chosen source:
template; key, then generation; GitHub. `MayRefuse` says when the key's failure may be a 402:
only on a reply to a live token, which may also be an undecodable one although there is a
key. `InsertRow` and `UploadFile` are the two writes of
`SupabaseAgentStore.CreateAgent`; nothing undoes the first. The refinement of
`AgentCatalog` maps `rows` and `files` to themselves: a row may stay without its file for
ever, a file never precedes its row, and nothing anybody saw is withdrawn. `HasKeyRpc` says whether the
database defines `get_org_anthropic_key`. No migration does; the passing runs set it to
TRUE, so that the generation path is explored, and the run `CreateAgentKey` sets it to
FALSE.

### Orchestrator

The composition is one transition system: a step belongs to one creation
(`CreationStep`), to one run (`RunStep`), or to what both share (`SharedStep`: memberships,
late statements, shutdown, crash, restart). The id of an agent is the creation request
that makes it, so a run request may name an agent at any moment of its making, or one that
never comes. `R == INSTANCE RunAgent WITH agents <- [c \in rows |-> RowOf(c)]` turns
`AddAgent`, external to `RunAgent`, into the creation's insert. `Hydrate` is `RunAgent`'s
`DownloadContext` with one more result: is the `CLAUDE.md` in the workspace the agent's own?
It may be when the object is there and the storage policy shows it, and it may always not
be, since refusals are tolerated and a `CLAUDE.md` of the general layer, downloaded last,
overwrites it (`supabase_run_store.go:137-139`). No code of the server writes files of the
general layer; who wrote them is outside the model. A process that goes down takes the handlers of both flows with it.

### Jwks

`publicKeyForKID` per caller, the mutex, the cache, and an endpoint whose key set rotates.
Paths that do not fetch are one step, because nobody can observe the cache within them;
a fetch is two steps, and may be answered with any key set published in between (`window`).
`since`, `ever`, `startedAt` and `lastGet` are history variables. Kids are not reused for
different keys.

### PkceLogin

A login stands for its state, verifier and challenge, which are random and thus its own.
The server keeps nothing between the two requests, so `Crash` costs only the callbacks in
progress. `Login` is the handler; `Arrive` is the browser storing the cookie of a response,
in any order among concurrent logins, and going to the Auth server; `CloseBrowser` drops
the session cookie. `Call` is a callback's arrival with the cookie that its browser has at
that moment: the first, a reload, or the URL opened in another browser. `Validate` and
`Exchange` are the two halves of `CallbackHandler`. External, and stated in the module: the
Auth server redirects back with the state it was given, binds a code to its challenge, and
redeems it once. `displaced` is a history variable.

### Credentials

One action for the owners' middleware chain (the server does not route these handlers;
their paths and the policy say whom they are for), one for the validation, one for the
call of the port. `keys` maps an organization to the request whose key it holds. The
repository has no implementation of `CredentialStore`: `Execute` is one statement under
the policy `credentials_owner`, so a write by somebody who is no owner at that moment is
refused, and a delete or select finds nothing. That is an assumption about the store to
come, marked external in the map. Lost replies and late statements are as in
`RunAgent`.

### Seed

`db` is the set of the fixture's rows and objects plus three rows of others (a run of a
fixture agent, an agent in a fixture group, another membership of a fixture user).
`References` are the foreign keys; only the one from memberships to `auth.users` cascades.
A process makes the calls of `SeedOrder` or `TeardownOrder`, ends at the first refusal
(`Refuse`), or is cut short with or without the call's effect (`CutShort`). `undisturbed`
is a history variable: no process of the other mode ran at the same time. The properties
assume it, because a teardown beside a seed may do anything and nothing in the script
excludes it.

## 3. What is checked

`expect: pass`:

| Run | Instance | Shows |
|---|---|---|
| `RunAgentPair` | 2 requests, one of them with late statements, 1 agent that may appear later, a user who is a member, an owner in another team, or removed; restarts with and without a key | rows, responses, processes and directories agree; claude needs a key; writes are entitled; the steady request implements `RunLifecycle`; abandoned requests and shutdowns end; the inductive invariant holds |
| `HydrationFiles` | 3 names, one a folder, limit 2, every kind of membership, changing | only permitted files; a calm download is complete; the inductive invariant holds |
| `JwksCache` | 2 callers, 3 kids, 3 key sets, refresh 2, clock to 3 | one fetch, no foreign key, bounded staleness, spacing, no starvation |
| `Orchestrator` | 1 creation and 1 run by users of two organizations, three sources, changing roles, late statements of both | an agent's instructions have an authorized author; both flows keep their own promises (`RefinesRunFlow`, `RefinesCatalog`); creations are authorized and answered truthfully; abandoned creations end |
| `PkceLogin` | 3 logins, 2 callbacks, 2 browsers | tokens, codes, refusals |
| `Credentials` | 3 requests, 2 users, 2 organizations, roles that change | keys and answers are owners' only; answered keys stay gone |
| `Seed` | 3 processes of any modes, 18 rows and objects | exit 0 means done; no object without agent; refusals have two causes only; the inductive invariant holds |

`expect: violation` (each one a disagreement between the code and what the repository says):

| Run | The repository says | The code does |
|---|---|---|
| `RunAgentOutcomes` | "final run status … want done" after 200 (AC1) and "runner error → 502, run marked error" (AC6, test 0008) | the errors of both updates are discarded: the 200 still says `"status":"done"`, and either row may stay `running` |
| `HydrationGeneral` | the general layer is downloaded too (`context.md:421`) | the policy never shows `{org}/general` to anybody but owners |
| `JwksHammer` | bogus kids cannot hammer the endpoint (`jwks.go:27`) | failed fetches are not rate-limited |
| `CreateAgentKey` | 402 means no key configured (`agents.go:46`) | it also means that the RPC does not exist, and it does not |
| `SeedIdempotent` | "Fully idempotent" (`seed.go:5`), a second run exits 0 (test 0010) | a second seed is refused at the first membership: `ignore-duplicates` without `on_conflict` looks at the primary key only, and none is posted |

`RunAgentOutcomes` puts two acceptance criteria into one property. AC1 and AC6 each speak of
one run; together they say that the rows of a run answered 200 and of one whose claude failed
differ. In TLC's trace both rows read `running` at the end, one under a 200 and one under a
502, so that it violates AC1 and AC6 at once. `ResponseMatchesRow`, which does hold, says
what is left of them: the row may lag behind the answer, and never contradicts it.

### Bounds, and why they are enough

* *Requests* (2 runs; 1 creation and 1 run; 3 credential requests). Handlers share only
  the memberships table, the server process and the database, never each other's rows; two
  requests exhibit every pairwise interleaving, and the proofs cover any number. Creations
  share nothing with each other but their surroundings, so one of them beside a run is
  enough for `Orchestrator`. Credential requests do share a row: three are a key in place,
  its revocation, and a late statement.
* *Flaky* has one of the two run requests: `RunLifecycle` is for the other one, whose
  statements execute in time, while the first one's late ones are still around.
* *Tenancy*: two organizations, one of them with a general group and two teams, is the
  smallest in which own, general, other team and foreign organization all exist.
  `Orchestrator` and `Credentials` drop what their policies do not tell apart.
* *Clock* (`MaxTime` 3 with `MinRefresh` 2): a refusal, the end of its limit, a second
  fetch and a second limit fit in. The clock may stop anywhere, and the system goes on.
* *ListLimit* 2 with 3 names: a listing may or may not be cut.
* *MaxVersion* 1: an object is there or not; a change always clears `calm`.
* `Tables`: the contents that the memberships table may take, at any step. Each instance
  lists a user in office, changed, and removed or elsewhere; only `RunAgentOutcomes` keeps
  the user in office, so that the lost updates of its trace are not a matter of rights.
* *Logins* (3), *Callbacks* (2): two logins of one browser with a third elsewhere, and a
  repeated callback.
* *Processes* (3): a partial seed, a partial teardown, and the process that goes on from
  there, or two at once after a third. `SeedIdempotent` needs two.

Requests and processes are interchangeable in `Credentials` and `Seed`, whose properties
are symmetric and without liveness; symmetry is used there and nowhere else.

`Seed` says `CHECK_DEADLOCK FALSE` because its processes end; in every other run the
environment can always take a step.

### Fairness

* `RunAgent`: weak fairness for the handler of a request *whose context is cancelled*
  (every HTTP call and the subprocess are bound to `r.Context()`), and for the end of the
  drain (a timer). A connected client whose upstream never answers waits for ever, in the
  model as in the code: `NewUserClient` has no timeout.
* Creations in `Orchestrator`: the same. The deadlines of the generation (30 s) and of GitHub
  (10 s) are not assumed as fairness: no property depends on them.
* `Jwks`: strong fairness for `Lookup` (`sync.Mutex` hands itself over to a caller that
  has waited long), weak fairness for the end of a fetch. The latter is an assumption on
  the endpoint: `http.Get` has no timeout either.
* `PkceLogin`, `Credentials` and `Seed` state no liveness. The login's `http.Post` has neither
  a timeout nor the request's context, so a callback may wait for ever.

## 4. What is proved

All for arbitrary constants (any number of requests, any tenancy, any history of
memberships), under the modules' named assumptions, which only type the constants.

* **Tenancy.** `RunsPolicyIsIsolation`: the policy on `runs` *is* the isolation rule;
  `AgentsPolicyIsIsolationOrOwner`: the one on `agents` is that rule with an exception for
  owners. `VisibleRunHasVisibleAgent`, `ForeignOrgHidden`: consequences the flows rely on.
  `ObjectsFollowAgents`: the bucket admits an agent's objects exactly where the table
  admits its row. `OwnPlaceIsWritable`: the place a creation chooses is always permitted,
  except for a membership that pairs an organization with another one's group.
* **Run flow.** `Invariance` proves the inductive invariant
  `IInv == TypeOK /\ ControlInv /\ VerdictInv /\ LateInv`:
  - `ControlInv` ties a request's row, directory, subprocess and response to its `pc`. It
    is needed because the safety properties speak of states after a crash (`pc = "dead"`),
    where only what was true at each earlier point of the handler is left. That nobody who
    was admitted by an earlier process survives into one without a key needs its third
    conjunct: a dead process has no handler at work;
  - `VerdictInv` relates the outcome of claude, the response and the row, each of which is
    set in a step of its own. "Done means that
    claude succeeded" is not inductive without "the handler is at `markDone` only after a
    success";
  - `LateInv` limits what an abandoned statement may still do. Without it a late `done`
    could appear out of nowhere.

  From it follow `DoneIsTrue`, `ResponseIsTrue`, `ClaudeHasRow`, `WorkspaceSafety`,
  `WorkspacesEnd` and `KeyIsNeeded`, and, with `RunsPolicyIsIsolation`, `Isolation`.
  `Refinement` uses `OrderInv`, the bounds on a row's status along the handler's path that
  hold for requests that leave no statement behind; for a flaky one a final status may be
  overwritten, and `RefinesLifecycle` is stated for the others.
* **Hydration.** `HydrationIsolation`: the policy of the bucket implies the isolation rule
  with the owner's exception under both prefixes. `CalmDownloadsAreComplete` is about the
  end of a loop; its invariant `Progress` says at every moment which names have been
  fetched of either layer (`Fetched`) and that the workspace holds those, the general
  layer's on top, and nothing else. It needs no induction over the set of names, because a
  listing fixes what is wanted and each download takes one name away. While all is calm
  the bucket, the tenancy and the token are those of the start, so that "wanted" means the
  same at every step (`WantedUnchanged`).
* **Key cache.** `CacheInvariance` proves `IInv`: besides the invariants of the run, that no
  time stamp is ahead of the clock, that the cache and every answer the GET in flight may
  get were published at some time (`OriginInv`), and that each such answer lacks only keys
  newer than the GET (`FetchInv`). The last is what makes "the cache misses only new keys"
  inductive: it must hold of an answer before the answer is stored. `OneFetch`,
  `AcceptedKeysWerePublished`, `CacheIsBarelyStale`, `RefusalsAreBrief` and
  `SuccessesSpaced` follow.
* **Creation flow.** `CreationInvariance` proves `TypeOK`, `TraceInv` and `RoleInv`.
  `TraceInv` says what a request at each point of its handler has left in the database or
  may still leave by a late statement; `RoleInv` that whoever is past the middleware, or has
  left a row or a statement behind, was let in as a manager at least. `CreationSafety`,
  `CreationAuthorized` and `CatalogRefinement` follow. `GeneratedAgentsHaveKeys` adds
  `KeyedInv`: whoever is past the key found one.
* **Composition.** `CreationsOnly`: a step of the composition is a step of `CreateAgent` or
  leaves its variables alone, so that every theorem about `CreateAgent` holds in it
  (`ComposedCreations`). `RunFlowRefinement`: creations do to the agents table only what
  `AddAgent` does, because rows are never withdrawn and a row's place is the captured
  tenant, which does not change once the row may exist. So every theorem about `RunAgent`
  holds for runs of half-made agents; that last step is the reader's, since `tlapm` cannot
  use a theorem of a module through an INSTANCE with a substitution.
  `InstructionsHaveAuthors` follows from `IInv` of the creation flow: a file has a row, and
  a row's author was let in as a manager.
* **Login.** `LoginInvariance`: each browser's cookie, and each copy a callback carries, is
  of a login that was started there (`CookieInv`, `CallbackInv`). `TokenGoesHome` needs just
  that: the state comparison makes code and cookie one login, and the cookie says where it
  was started. `CodesMeetVerifiers`, `CodesAreSpentOnce` and `RefusalsHaveCause` follow.
* **Credentials.** `CredentialInvariance`: who has got past the chain, has a late statement
  or was answered with success was an owner of the organization in the path
  (`ProgressInv`), and so was the request whose key is in place (`KeyInv`).
  `KeysHaveOwners` and `SuccessIsForOwners` follow; `ChangesByOwners` adds the policy at
  the moment of the statement; `KeysStayGone` that a request answered with success leaves none behind.
* **Seeder.** `IInv == TypeOK /\ Apart /\ ProgressInv /\ ObjectsHaveAgents`, for any number
  of processes. `ProgressInv`: what an undisturbed process has inserted stays, what it has
  deleted stays away. That needs `Apart`: beside an undisturbed process only processes of
  its own mode run, so that every call of another works in its direction. The order of the
  calls enters through two lemmas: every insert comes after the rows it refers to
  (`SeedFollowsReferences`), every delete after those that refer to it
  (`TeardownFollowsReferences`). `ObjectsKeepAgents`, `ExitZeroIsTrue` and
  `RefusalsAreCaused` follow.

Each run that expects a violation shows one behaviour in which the code departs from what
the repository says. A theorem draws the line around it, for every instance:

| Run | Theorem |
|---|---|
| `RunAgentOutcomes` | `RecordedAnswersAreMarked`: a run answered 200 is marked done and one answered 502 error, whenever the updates that go with these answers reach their rows |
| `HydrationGeneral` | `GeneralLayerIsForOwners`: nobody but an owner ever receives a file of the general layer |
| `JwksHammer` | `AnsweredGetsAreSpaced`: as long as no fetch fails, all GETs are `jwksMinRefresh` apart |
| `CreateAgentKey` | `GeneratedAgentsHaveKeys`: without the RPC, the source `ai-assist` never leaves as much as a row |
| `SeedIdempotent` | `OneSeedSucceeds`: as long as nobody tears down, at most one seed exits 0 |

The conditions "as long as" are hypotheses on the behaviour, not on the constants: an action
formula under a box (`Recorded`, `Answered`), or a state predicate (`OnlySeeds`).

The type invariants of `Jwks`, `CreateAgent`, `Credentials` and `PkceLogin`, and
`FileHasRow`, are proved and not repeated by a run.

Every safety invariant and every action property of the passing runs is proved, and so are
the three refinements. Only model-checked is liveness, since fairness and ENABLED are beyond
this prover: `CancelledRunsEnd`, `CancelledCreationsEnd`, `ShutdownCompletes` and
`CallersAreAnswered`.

## 5. What is not modelled

Health, stubs, logging, request ids and the text of messages (stateless); the text of
`CLAUDE.md` and of prompts (no property depends on it); validation of signatures (a token
is valid or not); processes started by claude; a failure of `os.RemoveAll`;
`ListenAndServe` failing at start; a failing `crypto/rand` (panic) in the login; the
implementation of `CredentialStore`, which does not exist. The policies on `organizations`
and `memberships` protect tables that no code of the server reads or writes:
`current_tenant()` runs as its owner. Hydration is one step of `RunAgent` and of
`Orchestrator`; its loop is checked on its own.

## 6. Plan

Done, in this order: `Tenancy`, `RunLifecycle`, `RunAgent` and its proofs, `Jwks`,
`CreateAgent`, `Hydration` and its proofs; then `AgentCatalog` and the proofs of
`CreateAgent`, `PkceLogin`, `Orchestrator`, `Seed`, `Credentials`, `JwksProofs`; then the
proofs of `Seed`, the completeness of `Hydration`, and the theorems around the findings.

Next:

1. `Hydration` as the refinement of the composition's step `Hydrate`.
2. The invariants of the run flow that `Orchestrator` inherits by `RunFlowRefinement`,
   stated and proved in the composition itself.
3. `Credentials` composed with `GetAnthropicKey` of the creation flow, once a migration
   defines the RPC it calls.

## 7. Running

`tlc -config RunAgentPair.cfg MCRunAgent.tla` checks one run; `PROJECT.json` lists each
run with its module. `tlapm RunAgentProofs.tla` checks a module's proofs.
