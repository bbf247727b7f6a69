---------------------------- MODULE Orchestrator ----------------------------
(***************************************************************************)
(* The creation flow and the run flow in one server process, over one      *)
(* database and one bucket: run requests name the agents that creation     *)
(* requests are making, at any moment of their making.  The module extends *)
(* CreateAgent, and instantiates RunAgent with the agents table that the   *)
(* creations fill.                                                         *)
(***************************************************************************)
EXTENDS CreateAgent

CONSTANTS
    Runs,       \* one per POST /v1/agents/{id}/runs
    FlakyRuns   \* those whose abandoned statements may still execute

ASSUME OrchestratorAssumption == FlakyRuns \subseteq Runs

VARIABLES
    phase, apiKey,                                        \* the process
    runPc, runAsked, runLink, runResp, outcome, ws, procs, runs, runLate,
    context   \* is the CLAUDE.md in a run's workspace its agent's own?

creating == <<pc, client, tenant, resp, db>>
running  == <<phase, apiKey, runPc, runAsked, runLink, runResp, outcome, ws,
              procs, runs, runLate, context>>
allVars  == <<vars, running>>

R == INSTANCE RunAgent WITH
        Requests <- Runs, Agents <- Requests, Flaky <- FlakyRuns,
        Places <- [org : Orgs, group : Groups],
        agents <- [c \in rows |-> RowOf(c)],
        pc <- runPc, asked <- runAsked, link <- runLink, resp <- runResp,
        late <- runLate

OrchInit ==
    /\ Init
    /\ R!Init
    /\ context = [r \in Runs |-> "none"]

\* A creation's step; only a server that is up accepts requests.
CreationStep(c) ==
    /\ \/ phase = "up" /\ Authenticate(c)
       \/ Handler(c) \/ Expire(c) \/ Disconnect(c)
    /\ UNCHANGED running

\* May DownloadContext bring the agent's own CLAUDE.md?  It may always come
\* without: any refusal is tolerated, and a CLAUDE.md of the general layer, which
\* is downloaded last, overwrites the agent's.
FileOf(r) == runAsked[r].agent

MayFetch(r) ==
    /\ FileOf(r) \in files /\ runLink[r] = "live"
    /\ \E t \in R!Tenants(r) :
            ObjectVisible(t, <<tenant[FileOf(r)].org, tenant[FileOf(r)].group>>)

Hydrate(r) ==
    /\ R!DownloadContext(r)
    /\ context' \in {[context EXCEPT ![r] = found] :
                        found \in IF MayFetch(r) /\ runPc'[r] = "launch"
                                  THEN {"with", "without"} ELSE {"without"}}

RunStep(r) ==
    /\ UNCHANGED <<memberships, creating>>
    /\ \/ Hydrate(r)
       \/ /\ \/ R!Authenticate(r)
             \/ runPc[r] # "hydrate" /\ R!Handler(r)
             \/ R!Expire(r) \/ R!Disconnect(r) \/ R!OrphanExits(r)
          /\ UNCHANGED context

\* What happens to both flows at once, or to neither.
SharedStep ==
    \/ ChangeMemberships /\ UNCHANGED running
    \/ LateExecution /\ UNCHANGED running
    \/ /\ UNCHANGED <<memberships, creating, context>>
       /\ R!LateExecution \/ R!Shutdown \/ R!Restart
    \/ /\ Crash
       /\ R!Crash \/ R!DrainEnds
       /\ UNCHANGED context

OrchNext ==
    \/ \E c \in Requests : CreationStep(c)
    \/ \E r \in Runs : RunStep(r)
    \/ SharedStep

OrchSpec == OrchInit /\ [][OrchNext]_allVars

\* Every call of a creation is bound to r.Context(), so that it returns once the
\* client has hung up.  While the client stays only generate and github have a
\* deadline; the client used for Supabase has none, and nothing else is fair.
OrchLiveSpec ==
    /\ OrchSpec
    /\ \A c \in Requests :
            WF_allVars(link[c] = "gone" /\ Handler(c) /\ UNCHANGED running)

-----------------------------------------------------------------------------
\* The run flow keeps its promises over agents that are being created: creations
\* do to the agents table only what RunAgent expects of its surroundings.
RefinesRunFlow == R!Spec

\* Instructions that a workspace has from its agent (the agent's own CLAUDE.md, not
\* one of the general layer) were put there by a manager or an owner of an
\* organization that the run's user belongs to at that moment.
InstructionsAreAuthored ==
    [][\A r \in Runs : context'[r] = "with" /\ context[r] # "with" =>
            /\ tenant[FileOf(r)].role \in {"manager", "owner"}
            /\ \E m \in memberships : /\ m.user = runAsked[r].user
                                      /\ m.org = tenant[FileOf(r)].org]_allVars
=============================================================================
