----------------------------- MODULE JwksProofs -----------------------------
(***************************************************************************)
(* Proofs about Jwks, for any number of callers, any sequence of key sets  *)
(* and any time.                                                           *)
(***************************************************************************)
EXTENDS Jwks, TLAPS

\* No time stamp is ahead of the clock.
ClockInv ==
    /\ \A k \in Kids : since[k] <= now
    /\ fetchedAt <= now /\ startedAt <= now /\ lastGet <= now
    /\ fetchedAt # Never => startedAt # Never

\* What has come into the cache, and all that may come with the next fetch, was
\* published at some time.
OriginInv ==
    /\ published \subseteq ever
    /\ keys \subseteq ever \cap Usable
    /\ \A body \in window : body \subseteq ever

\* Each answer that the GET in flight may get lacks only those published keys that
\* are newer than the GET; and the GET was not sent within MinRefresh of a success.
FetchInv ==
    (\E c \in Callers : pc[c] = "fetching") =>
        /\ lastGet # Never
        /\ \A body \in window : \A k \in published \ body : since[k] >= lastGet
        /\ fetchedAt = Never \/ now - fetchedAt >= MinRefresh

IInv ==
    /\ TypeOK /\ ClockInv /\ OriginInv /\ FetchInv
    /\ OneFetchAtATime /\ AcceptedWasPublished /\ CacheMissesOnlyNewKeys

LEMMA InitIInv == Init => IInv
  <1> SUFFICES ASSUME Init PROVE IInv
    OBVIOUS
  <1> USE JwksAssumption DEF Init, Never
  <1>1. TypeOK
    BY DEF TypeOK
  <1>2. ClockInv /\ OriginInv /\ FetchInv
    BY DEF ClockInv, OriginInv, FetchInv
  <1>3. OneFetchAtATime /\ AcceptedWasPublished /\ CacheMissesOnlyNewKeys
    BY DEF OneFetchAtATime, AcceptedWasPublished, CacheMissesOnlyNewKeys
  <1> QED
    BY <1>1, <1>2, <1>3 DEF IInv

\* One lemma per action.
LEMMA PresentIInv ==
  ASSUME IInv, NEW c \in Callers, Present(c)
  PROVE  IInv'
  <1>1. /\ UNCHANGED <<now, published, since, ever, keys, fetchedAt, startedAt, window, lastGet>>
        /\ pc' = [pc EXCEPT ![c] = "lock"]
        /\ pc[c] # "fetching"
        /\ \E k \in Kids : kid' = [kid EXCEPT ![c] = k]
    BY DEF Present, Goto, clock, cache, gets
  <1>2. \A d \in Callers : /\ pc'[d] = "fetching" => pc[d] = "fetching"
                           /\ pc'[d] = "accepted" => pc[d] = "accepted" /\ kid'[d] = kid[d]
    BY <1>1 DEF IInv, TypeOK
  <1>3. TypeOK'
    BY <1>1 DEF IInv, TypeOK
  <1>4. ClockInv' /\ OriginInv' /\ CacheMissesOnlyNewKeys'
    BY <1>1 DEF IInv, ClockInv, OriginInv, CacheMissesOnlyNewKeys
  <1>5. FetchInv' /\ OneFetchAtATime' /\ AcceptedWasPublished'
    BY <1>1, <1>2 DEF IInv, FetchInv, OneFetchAtATime, AcceptedWasPublished
  <1> QED
    BY <1>3, <1>4, <1>5 DEF IInv

LEMMA LookupIInv ==
  ASSUME IInv, NEW c \in Callers, Lookup(c)
  PROVE  IInv'
  <1>1. /\ UNCHANGED <<now, published, since, ever, kid, keys, fetchedAt, startedAt>>
        /\ \A d \in Callers : pc[d] # "fetching"
    BY DEF Lookup, Free, clock, cache
  <1>2. CASE /\ kid[c] \in keys \/ RateLimited
             /\ Verdict(c, keys) /\ UNCHANGED gets
    <2>1. /\ UNCHANGED <<window, lastGet>>
          /\ \E p \in {"accepted", "rejected"} :
                /\ pc' = [pc EXCEPT ![c] = p]
                /\ p = "accepted" => kid[c] \in keys
      BY <1>2 DEF Verdict, Goto, gets
    <2>2. TypeOK'
      BY <1>1, <2>1 DEF IInv, TypeOK
    <2>3. ClockInv' /\ OriginInv' /\ CacheMissesOnlyNewKeys'
      BY <1>1, <2>1 DEF IInv, ClockInv, OriginInv, CacheMissesOnlyNewKeys
    <2>4. \A d \in Callers : pc'[d] # "fetching"
      BY <1>1, <2>1 DEF IInv, TypeOK
    <2>5. FetchInv' /\ OneFetchAtATime'
      BY <2>4 DEF FetchInv, OneFetchAtATime
    <2>6. AcceptedWasPublished'
      BY <1>1, <2>1 DEF IInv, TypeOK, OriginInv, AcceptedWasPublished
    <2> QED
      BY <2>2, <2>3, <2>5, <2>6 DEF IInv
  <1>3. CASE /\ ~RateLimited
             /\ Goto(c, "fetching")
             /\ window' = {published}
             /\ lastGet' = now
    <2>1. /\ pc' = [pc EXCEPT ![c] = "fetching"]
          /\ window' = {published} /\ lastGet' = now
          /\ fetchedAt = Never \/ now - fetchedAt >= MinRefresh
      BY <1>3, JwksAssumption DEF Goto, RateLimited, IInv, TypeOK, Never
    <2>2. TypeOK'
      BY <1>1, <2>1 DEF IInv, TypeOK, Never
    <2>3. ClockInv' /\ OriginInv' /\ CacheMissesOnlyNewKeys'
      BY <1>1, <2>1 DEF IInv, TypeOK, ClockInv, OriginInv, CacheMissesOnlyNewKeys
    <2>4. FetchInv'
      BY <1>1, <2>1 DEF IInv, TypeOK, FetchInv, Never
    <2>5. OneFetchAtATime' /\ AcceptedWasPublished'
      BY <1>1, <2>1 DEF IInv, TypeOK, OneFetchAtATime, AcceptedWasPublished
    <2> QED
      BY <2>2, <2>3, <2>4, <2>5 DEF IInv
  <1> QED
    BY <1>2, <1>3 DEF Lookup

LEMMA FetchSucceedsIInv ==
  ASSUME IInv, NEW c \in Callers, FetchSucceeds(c)
  PROVE  IInv'
  <1>1. PICK body \in window : /\ keys' = keys \cup (body \cap Usable)
                               /\ Verdict(c, keys')
    BY DEF FetchSucceeds
  <1>2. /\ UNCHANGED <<now, published, since, ever, kid, lastGet>>
        /\ pc[c] = "fetching"
        /\ fetchedAt' = now /\ startedAt' = lastGet /\ window' = {}
    BY DEF FetchSucceeds, clock
  <1>3. \E p \in {"accepted", "rejected"} : /\ pc' = [pc EXCEPT ![c] = p]
                                            /\ p = "accepted" => kid[c] \in keys'
    BY <1>1 DEF Verdict, Goto
  <1>4. TypeOK'
    BY <1>1, <1>2, <1>3, JwksAssumption DEF IInv, TypeOK, Never
  <1>5. ClockInv' /\ OriginInv'
    BY <1>1, <1>2 DEF IInv, TypeOK, ClockInv, OriginInv, FetchInv
  <1>6. \A d \in Callers : pc'[d] # "fetching"
    BY <1>2, <1>3 DEF IInv, TypeOK, OneFetchAtATime
  <1>7. FetchInv' /\ OneFetchAtATime'
    BY <1>6 DEF FetchInv, OneFetchAtATime
  <1>8. AcceptedWasPublished'
    BY <1>2, <1>3, <1>5 DEF IInv, TypeOK, OriginInv, AcceptedWasPublished
  <1>9. CacheMissesOnlyNewKeys'
    BY <1>1, <1>2 DEF IInv, FetchInv, CacheMissesOnlyNewKeys
  <1> QED
    BY <1>4, <1>5, <1>7, <1>8, <1>9 DEF IInv

LEMMA FetchFailsIInv ==
  ASSUME IInv, NEW c \in Callers, FetchFails(c)
  PROVE  IInv'
  <1>1. /\ UNCHANGED <<now, published, since, ever, kid, keys, fetchedAt, startedAt, lastGet>>
        /\ pc' = [pc EXCEPT ![c] = "rejected"]
        /\ window' = {}
    BY DEF FetchFails, Goto, clock, cache
  <1>2. TypeOK'
    BY <1>1 DEF IInv, TypeOK
  <1>3. ClockInv' /\ OriginInv' /\ CacheMissesOnlyNewKeys'
    BY <1>1 DEF IInv, ClockInv, OriginInv, CacheMissesOnlyNewKeys
  <1>4. FetchInv' /\ OneFetchAtATime' /\ AcceptedWasPublished'
    BY <1>1 DEF IInv, TypeOK, FetchInv, OneFetchAtATime, AcceptedWasPublished
  <1> QED
    BY <1>2, <1>3, <1>4 DEF IInv

LEMMA RotateIInv == ASSUME IInv, Rotate PROVE IInv'
  <1>1. /\ UNCHANGED <<now, pc, kid, keys, fetchedAt, startedAt, lastGet>>
        /\ published' \in KeySets
        /\ since' = [k \in Kids |-> IF k \in published' \ published THEN now ELSE since[k]]
        /\ ever' = ever \cup published'
        /\ window' = IF Free THEN window ELSE window \cup {published'}
    BY DEF Rotate, cache
  <1>2. published' \subseteq Kids
    BY <1>1, JwksAssumption
  <1>3. TypeOK'
    BY <1>1, <1>2 DEF IInv, TypeOK
  <1>4. \A k \in Kids : /\ since[k] <= since'[k] /\ since'[k] <= now
                        /\ k \in published' \ published => since'[k] = now
    BY <1>1 DEF IInv, TypeOK, ClockInv
  <1>5. ClockInv' /\ OriginInv'
    BY <1>1, <1>4 DEF IInv, ClockInv, OriginInv
  <1>6. FetchInv'
    <2> SUFFICES ASSUME \E c \in Callers : pc[c] = "fetching"
                 PROVE  \A body \in window' : \A k \in published' \ body : since'[k] >= lastGet
      BY <1>1 DEF FetchInv, IInv
    <2> TAKE body \in window'
    <2> TAKE k \in published' \ body
    <2>1. body \in window
      BY <1>1
    <2>2. CASE k \in published
      <3>1. k \in Kids /\ since[k] >= lastGet
        BY <2>1, <2>2, <1>2 DEF IInv, FetchInv
      <3>2. since[k] \in Int /\ since'[k] \in Int /\ lastGet \in Int
        BY <1>3, <3>1, JwksAssumption DEF IInv, TypeOK, Never
      <3> QED
        BY <3>1, <3>2, <1>4
    <2>3. CASE k \notin published
      BY <2>3, <1>2, <1>4 DEF IInv, ClockInv
    <2> QED
      BY <2>2, <2>3
  <1>7. OneFetchAtATime' /\ AcceptedWasPublished'
    BY <1>1 DEF IInv, OneFetchAtATime, AcceptedWasPublished
  <1>8. CacheMissesOnlyNewKeys'
    BY <1>1, <1>2, <1>4 DEF IInv, TypeOK, ClockInv, CacheMissesOnlyNewKeys, Never
  <1> QED
    BY <1>3, <1>5, <1>6, <1>7, <1>8 DEF IInv

LEMMA TickIInv == ASSUME IInv, Tick PROVE IInv'
  <1>1. /\ UNCHANGED <<published, since, ever, pc, kid, keys, fetchedAt, startedAt,
                       window, lastGet>>
        /\ now < MaxTime /\ now' = now + 1
    BY DEF Tick, cache, gets
  <1>2. TypeOK'
    BY <1>1, JwksAssumption DEF IInv, TypeOK
  <1>3. ClockInv'
    BY <1>1, JwksAssumption DEF IInv, TypeOK, ClockInv, Never
  <1>4. OriginInv' /\ OneFetchAtATime' /\ AcceptedWasPublished' /\ CacheMissesOnlyNewKeys'
    BY <1>1 DEF IInv, OriginInv, OneFetchAtATime, AcceptedWasPublished, CacheMissesOnlyNewKeys
  <1>5. FetchInv'
    BY <1>1, JwksAssumption DEF IInv, TypeOK, FetchInv, Never
  <1> QED
    BY <1>2, <1>3, <1>4, <1>5 DEF IInv

\* The inductive invariant of the cache and its mutex (jwks.go:52-113).
THEOREM CacheInvariance == Spec => []IInv
  <1>1. Init => IInv
    BY InitIInv
  <1>2. IInv /\ [Next]_vars => IInv'
    <2> SUFFICES ASSUME IInv, [Next]_vars PROVE IInv'
      OBVIOUS
    <2>1. CASE UNCHANGED vars
      BY <2>1 DEF vars, IInv, TypeOK, ClockInv, OriginInv, FetchInv, OneFetchAtATime,
         AcceptedWasPublished, CacheMissesOnlyNewKeys
    <2> QED
      BY <2>1, PresentIInv, LookupIInv, FetchSucceedsIInv, FetchFailsIInv, RotateIInv,
         TickIInv DEF Next
  <1> QED
    BY <1>1, <1>2, PTL DEF Spec

\* The mutex is held while the GET is in flight (jwks.go:34-35): callers that miss
\* together never fetch together.
THEOREM OneFetch == Spec => []OneFetchAtATime
  <1>1. IInv => OneFetchAtATime
    BY DEF IInv
  <1> QED
    BY CacheInvariance, <1>1, PTL

\* Only usable keys that were published at some time let a token through, also when
\* the GET was answered with an outdated key set (jwks.go:73-82).
THEOREM AcceptedKeysWerePublished == Spec => []AcceptedWasPublished
  <1>1. IInv => AcceptedWasPublished
    BY DEF IInv
  <1> QED
    BY CacheInvariance, <1>1, PTL

\* A cache filled once lacks only keys newer than its last fetch: fetches add and
\* never evict (jwks.go:73-82).
THEOREM CacheIsBarelyStale == Spec => []CacheMissesOnlyNewKeys
  <1>1. IInv => CacheMissesOnlyNewKeys
    BY DEF IInv
  <1> QED
    BY CacheInvariance, <1>1, PTL

\* A usable key is refused without a fetch only while it is newer than a fetch no
\* older than MinRefresh (jwks.go:61).
THEOREM RefusalsAreBrief == Spec => RefusalsExpire
  <1> DEFINE Brief == \A c \in Callers : pc[c] = "lock" /\ pc'[c] = "rejected" =>
                        /\ fetchedAt # Never /\ now - fetchedAt < MinRefresh
                        /\ kid[c] \in published \cap Usable => since[kid[c]] >= startedAt
  <1>1. IInv /\ [Next]_vars => [Brief]_vars
    <2> SUFFICES ASSUME IInv, Next, NEW c \in Callers,
                        pc[c] = "lock", pc'[c] = "rejected"
                 PROVE  /\ fetchedAt # Never /\ now - fetchedAt < MinRefresh
                        /\ kid[c] \in published \cap Usable => since[kid[c]] >= startedAt
      OBVIOUS
    <2>1. Lookup(c)
      <3>1. ASSUME NEW d \in Callers,
                   Present(d) \/ Lookup(d) \/ FetchSucceeds(d) \/ FetchFails(d)
            PROVE  d = c
        <4>1. \E p \in {"lock", "fetching", "accepted", "rejected"} :
                pc' = [pc EXCEPT ![d] = p]
          BY <3>1, Zenon DEF Present, Lookup, FetchSucceeds, FetchFails, Goto, Verdict
        <4> QED
          BY <4>1 DEF IInv, TypeOK
      <3>2. ~Present(c) /\ ~FetchSucceeds(c) /\ ~FetchFails(c)
        BY DEF Present, FetchSucceeds, FetchFails
      <3>3. ~Rotate /\ ~Tick
        BY DEF Rotate, Tick
      <3> QED
        BY <3>1, <3>2, <3>3 DEF Next
    <2>2. (kid[c] \in keys \/ RateLimited) /\ Verdict(c, keys)
      BY <2>1 DEF Lookup, Goto, IInv, TypeOK
    <2>3. kid[c] \notin keys
      BY <2>2 DEF Verdict, Goto, IInv, TypeOK
    <2> QED
      BY <2>2, <2>3 DEF RateLimited, IInv, CacheMissesOnlyNewKeys
  <1>2. Spec => [][Brief]_vars
    BY CacheInvariance, <1>1, PTL DEF Spec
  <1> QED
    BY <1>2 DEF RefusalsExpire

\* The rate limit holds for successful fetches (jwks.go:61, jwks.go:73).
THEOREM SuccessesSpaced == Spec => SuccessesAreSpaced
  <1> DEFINE Spaced == fetchedAt' # fetchedAt =>
                        fetchedAt = Never \/ fetchedAt' - fetchedAt >= MinRefresh
  <1>1. IInv /\ [Next]_vars => [Spaced]_vars
    <2> SUFFICES ASSUME IInv, Next, fetchedAt' # fetchedAt
                 PROVE  fetchedAt = Never \/ fetchedAt' - fetchedAt >= MinRefresh
      OBVIOUS
    <2>1. PICK c \in Callers : FetchSucceeds(c)
      BY DEF Next, Present, Lookup, FetchFails, Rotate, Tick, cache
    <2> QED
      BY <2>1 DEF FetchSucceeds, IInv, FetchInv
  <1>2. Spec => [][Spaced]_vars
    BY CacheInvariance, <1>1, PTL DEF Spec
  <1> QED
    BY <1>2 DEF SuccessesAreSpaced

\* While no fetch fails, whenever nobody fetches the last GET is not newer than the
\* last success.
AnsweredInv ==
    Free => lastGet = Never \/ (fetchedAt # Never /\ lastGet <= fetchedAt)

Answered == \A c \in Callers : ~FetchFails(c)

LEMMA AnsweredStep ==
  ASSUME IInv, AnsweredInv, [Next]_vars, [Answered]_vars
  PROVE  AnsweredInv'
  <1>1. CASE UNCHANGED vars
    BY <1>1 DEF vars, AnsweredInv, Free
  <1>2. CASE \E c \in Callers : Present(c)
    <2> PICK c \in Callers : Present(c)
      BY <1>2
    <2>1. pc' = [pc EXCEPT ![c] = "lock"] /\ pc[c] # "fetching"
      BY DEF Present, Goto
    <2>2. Free' => Free
      BY <2>1 DEF Free, IInv, TypeOK
    <2> QED
      BY <2>2 DEF AnsweredInv, Present, cache, gets
  <1>3. CASE \E c \in Callers : Lookup(c)
    <2> PICK c \in Callers : Lookup(c)
      BY <1>3
    <2>1. CASE Goto(c, "fetching")
      BY <2>1 DEF Goto, AnsweredInv, Free, IInv, TypeOK
    <2>2. CASE UNCHANGED gets
      BY <2>2 DEF Lookup, AnsweredInv, gets, cache
    <2> QED
      BY <2>1, <2>2 DEF Lookup
  <1>4. CASE \E c \in Callers : FetchSucceeds(c)
    <2>1. fetchedAt' = now /\ lastGet' = lastGet
      BY <1>4 DEF FetchSucceeds
    <2> QED
      BY <2>1, JwksAssumption DEF AnsweredInv, IInv, TypeOK, ClockInv, Never
  <1>5. CASE Rotate \/ Tick
    BY <1>5 DEF Rotate, Tick, cache, gets, AnsweredInv, Free
  <1>6. CASE \E c \in Callers : FetchFails(c)
    <2>1. UNCHANGED vars
      BY <1>6 DEF Answered
    <2> QED
      BY <2>1, <1>1
  <1> QED
    BY <1>1, <1>2, <1>3, <1>4, <1>5, <1>6 DEF Next

\* What jwks.go:27-28 promises of unknown kids is true of an endpoint that answers
\* every fetch: GETs are then at least jwksMinRefresh apart.  The failures that leave
\* jwksFetched alone (jwks.go:64-67) are thus the only way to hammer the endpoint.
THEOREM AnsweredGetsAreSpaced == Spec /\ [][Answered]_vars => GetsAreSpaced
  <1> DEFINE Spaced == lastGet' # lastGet =>
                        lastGet = Never \/ lastGet' - lastGet >= MinRefresh
  <1>1. Init => AnsweredInv
    BY DEF Init, AnsweredInv
  <1>2. IInv /\ AnsweredInv /\ [Next]_vars /\ [Answered]_vars => AnsweredInv'
    BY AnsweredStep
  <1>3. IInv /\ AnsweredInv /\ [Next]_vars => [Spaced]_vars
    <2> SUFFICES ASSUME IInv, AnsweredInv, Next, lastGet' # lastGet
                 PROVE  lastGet = Never \/ lastGet' - lastGet >= MinRefresh
      OBVIOUS
    <2>1. PICK c \in Callers : Lookup(c)
      BY DEF Next, Present, FetchSucceeds, FetchFails, Rotate, Tick, gets
    <2>2. Free /\ ~RateLimited /\ lastGet' = now
      BY <2>1 DEF Lookup, gets
    <2>3. lastGet \in Int /\ fetchedAt \in Int /\ now \in Int /\ MinRefresh \in Int
      BY JwksAssumption DEF IInv, TypeOK, Never
    <2> QED
      BY <2>2, <2>3 DEF AnsweredInv, RateLimited
  <1>4. Spec /\ [][Answered]_vars => [][Spaced]_vars
    BY CacheInvariance, <1>1, <1>2, <1>3, PTL DEF Spec
  <1> QED
    BY <1>4 DEF GetsAreSpaced
=============================================================================
