-------------------------------- MODULE Jwks --------------------------------
(***************************************************************************)
(* The JWKS cache behind AuthMiddleware: publicKeyForKID, which resolves   *)
(* the key of an asymmetric token under one global mutex, and the          *)
(* published key set, which the auth server rotates.  One process, from    *)
(* its start: the cache lives in memory.                                   *)
(*                                                                         *)
(* Time is counted in ticks; kids stand for their keys (a kid is never     *)
(* reused for another key).                                                *)
(***************************************************************************)
EXTENDS Integers

CONSTANTS
    Callers,     \* goroutines validating a token
    Kids,        \* kid headers that tokens carry
    Usable,      \* kids whose JWK has a supported kty and curve
    KeySets,     \* the key sets the JWKS endpoint may publish
    MinRefresh,  \* jwksMinRefresh
    MaxTime      \* bound on the clock

ASSUME JwksAssumption ==
    /\ Usable \subseteq Kids
    /\ KeySets \subseteq SUBSET Kids
    /\ MinRefresh \in Nat \ {0}
    /\ MaxTime \in Nat

VARIABLES
    now,        \* the clock
    published,  \* the key set the endpoint serves
    since,      \* when each kid was last published
    ever,       \* every kid published so far
    pc,         \* idle, lock, fetching, accepted, rejected
    kid,        \* the kid each caller resolves
    keys,       \* jwksByKID
    fetchedAt,  \* jwksFetched[supabaseURL]
    startedAt,  \* when the GET of that successful fetch was sent
    window,     \* the key sets the GET in flight may answer with
    lastGet     \* when the last GET was sent

clock == <<now, published, since, ever>>
cache == <<keys, fetchedAt, startedAt>>
gets  == <<window, lastGet>>
vars  == <<now, published, since, ever, pc, kid, keys, fetchedAt, startedAt,
           window, lastGet>>

Never == -1

Init ==
    /\ now = 0
    /\ published \in KeySets
    /\ since = [k \in Kids |-> 0]
    /\ ever = published
    /\ pc = [c \in Callers |-> "idle"]
    /\ kid \in [Callers -> Kids]
    /\ keys = {}
    /\ fetchedAt = Never /\ startedAt = Never
    /\ window = {}
    /\ lastGet = Never

\* A faulty variant: the lock is released during the fetch.
FreeWhileFetching == TRUE

\* The mutex: a caller that fetches holds it; the other paths through
\* publicKeyForKID take and release it within one step.
Free == \A c \in Callers : pc[c] # "fetching"

Goto(c, p) == pc' = [pc EXCEPT ![c] = p]

Verdict(c, known) == Goto(c, IF kid[c] \in known THEN "accepted" ELSE "rejected")

\* A token arrives at AuthMiddleware, on a goroutine that is new or has given
\* its answer (401, or the next handler) to an earlier request.
Present(c) ==
    /\ pc[c] \in {"idle", "accepted", "rejected"}
    /\ \E k \in Kids : kid' = [kid EXCEPT ![c] = k]
    /\ Goto(c, "lock")
    /\ UNCHANGED <<clock, cache, gets>>

\* Faulty variants: no rate limit; one fetch per process.
NeverLimited == FALSE
LimitedForGood == fetchedAt # Never

RateLimited == fetchedAt # Never /\ now - fetchedAt < MinRefresh

\* jwksMu.Lock: a cached kid is returned; an unknown one is refused while the
\* last successful fetch is recent, and otherwise sends a GET, lock in hand.
Lookup(c) ==
    /\ pc[c] = "lock"
    /\ Free
    /\ IF kid[c] \in keys \/ RateLimited
       THEN Verdict(c, keys) /\ UNCHANGED gets
       ELSE /\ Goto(c, "fetching")
            /\ window' = {published}
            /\ lastGet' = now
    /\ UNCHANGED <<clock, kid, cache>>

\* A faulty variant: a kid that a fetch was made for is accepted unlooked.
FetchTrusted(c) ==
    /\ pc[c] = "fetching"
    /\ fetchedAt' = now /\ startedAt' = lastGet
    /\ Goto(c, "accepted")
    /\ window' = {}
    /\ UNCHANGED <<clock, kid, keys, lastGet>>

\* A faulty variant: the new key set replaces the cache only when it is empty.
FetchOnce(c) ==
    /\ pc[c] = "fetching"
    /\ \E body \in window :
        /\ keys' = IF keys = {} THEN body \cap Usable ELSE keys
        /\ Verdict(c, keys')
    /\ fetchedAt' = now /\ startedAt' = lastGet
    /\ window' = {}
    /\ UNCHANGED <<clock, kid, lastGet>>

\* The GET is answered with a key set published while it was in flight: its
\* usable keys are added, nothing is evicted.
FetchSucceeds(c) ==
    /\ pc[c] = "fetching"
    /\ \E body \in window :
        /\ keys' = keys \cup (body \cap Usable)
        /\ Verdict(c, keys')
    /\ fetchedAt' = now /\ startedAt' = lastGet
    /\ window' = {}
    /\ UNCHANGED <<clock, kid, lastGet>>

\* A faulty variant: a failure is retried lock in hand.
FetchRetries(c) ==
    /\ pc[c] = "fetching"
    /\ window' = {published} /\ lastGet' = now
    /\ UNCHANGED <<clock, pc, kid, cache>>

\* Transport error, status other than 200, or undecodable body: jwksFetched is
\* not touched.
FetchFails(c) ==
    /\ pc[c] = "fetching"
    /\ Goto(c, "rejected")
    /\ window' = {}
    /\ UNCHANGED <<clock, kid, cache, lastGet>>

\* The auth server publishes another key set.
Rotate ==
    /\ published' \in KeySets \ {published}
    /\ since' = [k \in Kids |->
                    IF k \in published' \ published THEN now ELSE since[k]]
    /\ ever' = ever \cup published'
    /\ window' = IF Free THEN window ELSE window \cup {published'}
    /\ UNCHANGED <<now, pc, kid, cache, lastGet>>

Tick ==
    /\ now < MaxTime
    /\ now' = now + 1
    /\ UNCHANGED <<published, since, ever, pc, kid, cache, gets>>

Next ==
    \/ \E c \in Callers :
        Present(c) \/ Lookup(c) \/ FetchSucceeds(c) \/ FetchFails(c)
    \/ Rotate \/ Tick

Spec == Init /\ [][Next]_vars

(***************************************************************************)
(* sync.Mutex hands itself over in order to a caller that waits too long,  *)
(* hence strong fairness of Lookup.  That a fetch ends is an assumption    *)
(* about the endpoint: http.Get has no timeout here.                       *)
(***************************************************************************)
Fairness ==
    \A c \in Callers :
        /\ SF_vars(Lookup(c))
        /\ WF_vars(FetchSucceeds(c) \/ FetchFails(c))

LiveSpec == Spec /\ Fairness

-----------------------------------------------------------------------------
\* The type invariant of the cache.
TypeOK ==
    /\ now \in 0..MaxTime
    /\ published \in KeySets
    /\ since \in [Kids -> 0..MaxTime]
    /\ ever \subseteq Kids
    /\ pc \in [Callers -> {"idle", "lock", "fetching", "accepted", "rejected"}]
    /\ kid \in [Callers -> Kids]
    /\ keys \subseteq Kids
    /\ {fetchedAt, startedAt, lastGet} \subseteq Never..MaxTime
    /\ window \subseteq KeySets

\* At most one GET is in flight, however many callers miss at once.
OneFetchAtATime ==
    \A c, d \in Callers : pc[c] = "fetching" /\ pc[d] = "fetching" => c = d

\* A token is let through only for a usable key that was published at some time,
\* also when the GET was answered with an outdated key set.
AcceptedWasPublished ==
    \A c \in Callers : pc[c] = "accepted" => kid[c] \in ever \cap Usable

\* The cache misses a published, usable key only if it was published after the
\* last successful fetch had begun.
CacheMissesOnlyNewKeys ==
    fetchedAt # Never =>
        \A k \in (published \cap Usable) \ keys : since[k] >= startedAt

\* A token is refused without asking the endpoint only within MinRefresh of a
\* successful fetch, and a published, usable key only if it was published after
\* that fetch had begun: a rotated key is refused for at most the duration of a
\* fetch plus MinRefresh.
RefusalsExpire ==
    [][\A c \in Callers : pc[c] = "lock" /\ pc'[c] = "rejected" =>
            /\ fetchedAt # Never /\ now - fetchedAt < MinRefresh
            /\ kid[c] \in published \cap Usable => since[kid[c]] >= startedAt]_vars

\* Successful fetches are at least MinRefresh apart.
SuccessesAreSpaced ==
    [][fetchedAt' # fetchedAt =>
            fetchedAt = Never \/ fetchedAt' - fetchedAt >= MinRefresh]_vars

\* If every fetch ends, every caller gets an answer.
CallersAreAnswered ==
    \A c \in Callers : pc[c] = "lock" ~> pc[c] \in {"accepted", "rejected"}

\* The comment at jwks.go:27-28: jwksMinRefresh bounds how often the JWKS is
\* fetched on an unknown kid, so bogus kids cannot hammer the endpoint.
GetsAreSpaced ==
    [][lastGet' # lastGet =>
            lastGet = Never \/ lastGet' - lastGet >= MinRefresh]_vars
=============================================================================
