-------------------------- MODULE HydrationProofs --------------------------
(***************************************************************************)
(* Proofs about Hydration, for every bucket, tenancy and history of        *)
(* memberships, any number of names and any limit of the listing.          *)
(***************************************************************************)
EXTENDS Hydration, TenancyProofs

\* A listing shows entries of the layer it lists, cut at the limit or not.
LEMMA PagesAreSubsets ==
    ASSUME NEW entries, NEW page \in Pages(entries)
    PROVE  page \subseteq entries
  BY DEF Pages

\* The position of the loop, its result and what is left to download agree.
LEMMA ProceedTypeOK ==
    ASSUME step \in 1..2, result = "none",
           NEW rest, rest \subseteq Names \ Folders, Proceed(rest)
    PROVE  /\ step' \in 1..3
           /\ pending' \subseteq Names \ Folders
           /\ result' \in {"none", "ok", "error"}
           /\ result' = "none" => step' < 3
           /\ step' = 3 => result' = "ok" /\ pending' = {}
  <1>1. Len(Prefixes) = 2
    BY DEF Prefixes
  <1>2. CASE rest = {} /\ step = 2
    BY <1>1, <1>2 DEF Proceed
  <1>3. CASE ~(rest = {} /\ step = 2)
    BY <1>1, <1>3 DEF Proceed
  <1> QED
    BY <1>2, <1>3

LEMMA InitTypeOK == Init => TypeOK
  BY HydrationAssumption DEF Init, TypeOK, Layers, NoFile

LEMMA NextTypeOK == TypeOK /\ [Next]_vars => TypeOK'
  <1> SUFFICES ASSUME TypeOK, [Next]_vars PROVE TypeOK'
    OBVIOUS
  <1>0. Working => step \in 1..2
    BY DEF TypeOK, Working
  <1>1. CASE List
    <2>1. PICK rest : rest \subseteq Names \ Folders /\ Proceed(rest)
      <3>1. \/ \E page \in Pages(Present(Prefixes[step])) : Proceed(Plain(page))
            \/ Proceed({})
        BY <1>1 DEF List
      <3>2. ASSUME NEW page \in Pages(Present(Prefixes[step]))
            PROVE  Plain(page) \subseteq Names \ Folders
        BY PagesAreSubsets DEF Present, Plain
      <3> QED
        BY <3>1, <3>2
    <2>2. result = "none" /\ step \in 1..2
      BY <1>0, <1>1 DEF List, Working
    <2>3. UNCHANGED <<env, disk>> /\ calm' \in BOOLEAN
      BY <1>1 DEF List, TypeOK
    <2> QED
      BY <2>1, <2>2, <2>3, ProceedTypeOK DEF TypeOK, env
  <1>2. ASSUME NEW n \in Names, Download(n) PROVE TypeOK'
    <2>1. Proceed(pending \ {n}) /\ pending \ {n} \subseteq Names \ Folders
      BY <1>2 DEF Download, TypeOK
    <2>2. result = "none" /\ step \in 1..2
      BY <1>0, <1>2 DEF Download, Working
    <2>3. Prefixes[step] \in Layers
      BY <2>2 DEF Prefixes, Layers
    <2> DEFINE file == [layer |-> Prefixes[step], version |-> bucket[Prefixes[step]][n]]
    <2>4. /\ UNCHANGED env /\ calm' \in BOOLEAN
          /\ disk' = [disk EXCEPT ![n] = file] \/ UNCHANGED disk
      BY <1>2 DEF Download, TypeOK
    <2>5. file \in [layer : Layers, version : 0..MaxVersion]
      BY <2>3 DEF TypeOK
    <2> HIDE DEF file
    <2>6. disk' \in [Names -> [layer : Layers, version : 0..MaxVersion]]
      BY <2>4, <2>5 DEF TypeOK
    <2> QED
      BY <2>1, <2>2, <2>4, <2>6, ProceedTypeOK DEF TypeOK, env
  <1>3. CASE Abort
    BY <1>0, <1>3 DEF Abort, TypeOK, env, Working
  <1>4. CASE ChangeObject
    <2>1. PICK layer \in Layers, n \in Names, v \in 0..MaxVersion :
                bucket' = [bucket EXCEPT ![layer] = [bucket[layer] EXCEPT ![n] = v]]
      BY <1>4 DEF ChangeObject
    <2>2. [bucket[layer] EXCEPT ![n] = v] \in [Names -> 0..MaxVersion]
      BY DEF TypeOK
    <2>3. bucket' \in [Layers -> [Names -> 0..MaxVersion]]
      BY <2>1, <2>2 DEF TypeOK
    <2> QED
      BY <1>4, <2>3 DEF ChangeObject, TypeOK
  <1>5. CASE ChangeMemberships
    BY <1>5 DEF ChangeMemberships, TypeOK
  <1>6. CASE LoseLink
    BY <1>6 DEF LoseLink, TypeOK
  <1>7. CASE UNCHANGED vars
    BY <1>7 DEF TypeOK, vars
  <1> QED
    BY <1>1, <1>2, <1>3, <1>4, <1>5, <1>6, <1>7 DEF Next

\* TypeOK is an invariant of the download (supabase_run_store.go:133-212).
THEOREM HydrationTyping == Spec => []TypeOK
  BY InitTypeOK, NextTypeOK, PTL DEF Spec

\* What the bucket's policy shows under the two prefixes is permitted.
LEMMA VisibleIsPermitted ==
    ASSUME NEW layer \in Layers, NEW t, ObjectVisible(t, PathOf(layer))
    PROVE  Permitted(t, layer)
  <1>1. CASE layer = "general"
    BY <1>1 DEF ObjectVisible, PathOf, Permitted
  <1>2. CASE layer = "own"
    <2>1. /\ Agent.org = t.org
          /\ t.role = "owner" \/ Agent.group \in TeamScope(t)
      BY <1>2 DEF ObjectVisible, PathOf
    <2> QED
      BY <2>1, <1>2, NestedPolicyHidesNothing DEF Permitted
  <1> QED
    BY <1>1, <1>2 DEF Layers

\* A file enters the workspace by a download under a valid token, from the prefix the
\* loop is at, and only if a membership shows that prefix.
LEMMA DownloadFile ==
    ASSUME TypeOK, [Next]_vars, NEW n \in Names, disk'[n] # disk[n]
    PROVE  /\ Download(n) /\ link = "live"
           /\ Prefixes[step] \in Layers /\ MayRead(Prefixes[step])
           /\ disk'[n].layer = Prefixes[step]
  <1>1. PICK m \in Names : Download(m)
    BY DEF Next, List, Abort, ChangeObject, ChangeMemberships, LoseLink, vars, env
  <1> DEFINE file == [layer |-> Prefixes[step], version |-> bucket[Prefixes[step]][m]]
  <1>2. Prefixes[step] \in Layers
    BY <1>1 DEF Download, Working, TypeOK, Prefixes, Layers
  <1>3. link = "live" /\ MayRead(Prefixes[step]) /\ disk' = [disk EXCEPT ![m] = file]
    BY <1>1 DEF Download
  <1> HIDE DEF file
  <1>4. n = m /\ disk'[n] = file
    BY <1>3 DEF TypeOK
  <1> QED
    BY <1>1, <1>2, <1>3, <1>4 DEF file

\* The isolation rule holds for every file that enters a workspace, whatever
\* happens to memberships, token and bucket between the calls
\* (supabase_run_store.go:133-212 under 20260531000001_storage-layout-fix.sql).
THEOREM HydrationIsolation == Spec => HydratesOnlyPermitted
  <1>1. ASSUME TypeOK, [Next]_vars
        PROVE  \A n \in Names : disk'[n] # disk[n] =>
                 link = "live" /\ \E t \in Tenants : Permitted(t, disk'[n].layer)
    <2> SUFFICES ASSUME NEW n \in Names, disk'[n] # disk[n]
                 PROVE  link = "live"
                        /\ \E t \in Tenants : Permitted(t, disk'[n].layer)
      OBVIOUS
    <2>1. /\ link = "live" /\ MayRead(Prefixes[step]) /\ Prefixes[step] \in Layers
          /\ disk'[n].layer = Prefixes[step]
      BY <1>1, DownloadFile
    <2>2. \E t \in Tenants : Permitted(t, Prefixes[step])
      BY <2>1, VisibleIsPermitted DEF MayRead
    <2> QED
      BY <2>1, <2>2
  <1> QED
    BY <1>1, HydrationTyping, PTL DEF Spec, HydratesOnlyPermitted

\* The policy shows the literal segment "general" to owners only, since it is no
\* group's id (20260531000001_storage-layout-fix.sql): whatever happens around it, no
\* file of the general layer enters a workspace unless the user is an owner then.
THEOREM GeneralLayerIsForOwners ==
    ASSUME "general" \notin Groups
    PROVE  Spec => [][\A n \in Names :
                        disk'[n] # disk[n] /\ disk'[n].layer = "general" =>
                            \E t \in Tenants : t.role = "owner"]_vars
  <1> DEFINE Entry == \A n \in Names :
                        disk'[n] # disk[n] /\ disk'[n].layer = "general" =>
                            \E t \in Tenants : t.role = "owner"
  <1>1. ASSUME TypeOK, [Next]_vars PROVE Entry
    <2> SUFFICES ASSUME NEW n \in Names, disk'[n] # disk[n], disk'[n].layer = "general"
                 PROVE  \E t \in Tenants : t.role = "owner"
      OBVIOUS
    <2>1. disk'[n].layer = Prefixes[step] /\ MayRead(Prefixes[step])
      BY <1>1, DownloadFile
    <2>2. PICK t \in Tenants : ObjectVisible(t, PathOf("general"))
      BY <2>1 DEF MayRead
    <2>3. "general" \notin TeamScope(t)
      BY DEF TeamScope
    <2> QED
      BY <2>2, <2>3 DEF ObjectVisible, PathOf
  <1> QED
    BY <1>1, HydrationTyping, PTL DEF Spec

-----------------------------------------------------------------------------
\* Completeness.

LEMMA TwoPrefixes ==
    /\ Prefixes[1] = "own" /\ Prefixes[2] = "general" /\ Len(Prefixes) = 2
    /\ Layers = {Prefixes[1], Prefixes[2]}
  BY DEF Prefixes, Layers

\* What should be fetched depends on memberships and bucket only.
LEMMA WantedUnchanged ==
    ASSUME UNCHANGED env
    PROVE  /\ \A layer : Wanted(layer)' = Wanted(layer)
           /\ Wanted(Prefixes[step])' = Wanted(Prefixes[step'])
           /\ Unambiguous' => Unambiguous
           /\ FitsInOnePage' => FitsInOnePage
  <1>1. \A layer : /\ Readable(layer)' = Readable(layer)
                   /\ MayRead(layer)' = MayRead(layer)
                   /\ Present(layer)' = Present(layer)
    BY DEF env, Readable, MayRead, Tenants, Present
  <1>2. Wanted(Prefixes[step])' = Wanted(Prefixes[step'])
    BY DEF env, Wanted, Readable, Tenants, Present
  <1> QED
    BY <1>1, <1>2 DEF Wanted, Unambiguous, FitsInOnePage

\* A listing that was not refused shows what should be fetched, where all
\* memberships agree and one page is enough.
LEMMA CalmListing ==
    ASSUME TypeOK, List, calm', Unambiguous, FitsInOnePage
    PROVE  Proceed(Wanted(Prefixes[step]))
  <1> DEFINE layer == Prefixes[step]
  <1>1. layer \in Layers
    BY TwoPrefixes DEF List, Working, TypeOK
  <1>2. CASE MayRead(layer) /\ \E page \in Pages(Present(layer)) : Proceed(Plain(page))
    <2>1. Readable(layer)
      BY <1>1, <1>2 DEF Unambiguous
    <2>2. Pages(Present(layer)) = {Present(layer)}
      BY <1>1 DEF FitsInOnePage, Pages
    <2>3. Proceed(Plain(Present(layer)))
      BY <1>2, <2>2
    <2> QED
      BY <2>1, <2>3 DEF Wanted, Plain
  <1>3. CASE MayMiss(layer) /\ Proceed({})
    <2>1. Wanted(layer) = {}
      BY <1>3 DEF MayMiss, Wanted, Readable
    <2> QED
      BY <1>3, <2>1
  <1> QED
    BY <1>2, <1>3 DEF List

\* The listing of a layer leaves all of it to be fetched, or there is nothing.
LEMMA ListProgress ==
    ASSUME TypeOK, Progress, step \in 1..2, result = "none", pending = {},
           Proceed(Wanted(Prefixes[step])), UNCHANGED <<env, disk>>
    PROVE  Progress'
  <1>1. /\ \A layer : Wanted(layer)' = Wanted(layer)
        /\ Wanted(Prefixes[step])' = Wanted(Prefixes[step'])
    BY WantedUnchanged
  <1>3. Fetched(1)' = Fetched(1) /\ Fetched(2)' = Fetched(2)
    BY <1>1, TwoPrefixes DEF Fetched, Proceed
  <1>4. step' < 3 => pending' \subseteq Wanted(Prefixes[step])'
    BY <1>1, TwoPrefixes DEF Proceed
  <1> QED
    BY <1>3, <1>4 DEF Progress, env

\* A download adds its file to what was fetched, over the other layer's file.
LEMMA DownloadProgress ==
    ASSUME TypeOK, Progress, step \in 1..2, result = "none",
           NEW n \in pending, Proceed(pending \ {n}), UNCHANGED env,
           disk' = [disk EXCEPT ![n] =
                      [layer |-> Prefixes[step], version |-> bucket[Prefixes[step]][n]]]
    PROVE  Progress'
  <1>1. /\ \A layer : Wanted(layer)' = Wanted(layer)
        /\ Wanted(Prefixes[step])' = Wanted(Prefixes[step'])
    BY WantedUnchanged
  <1>2. n \in Wanted(Prefixes[step]) /\ n \in Names \ Folders
    BY DEF Progress, TypeOK
  <1>3. step' < 3 => pending' \subseteq Wanted(Prefixes[step])'
    BY <1>1, TwoPrefixes DEF Proceed, Progress
  <1>4. CASE step = 1
    <2>1. Fetched(2)' = {} /\ Fetched(2) = {}
      BY <1>1, <1>4, TwoPrefixes DEF Fetched, Proceed
    <2>2. Fetched(1)' = Fetched(1) \cup {n}
      BY <1>1, <1>2, <1>4, TwoPrefixes DEF Fetched, Proceed, Progress
    <2>3. ASSUME NEW m \in Names \ Folders
          PROVE  disk'[m] = IF m \in Fetched(1)'
                            THEN [layer |-> "own", version |-> bucket["own"][m]]
                            ELSE NoFile
      BY <1>2, <1>4, <2>1, <2>2, TwoPrefixes DEF Progress, TypeOK
    <2> QED
      BY <1>3, <2>1, <2>3 DEF Progress, env
  <1>5. CASE step = 2
    <2>1. Fetched(1)' = Fetched(1)
      BY <1>1, <1>5, TwoPrefixes DEF Fetched, Proceed
    <2>2. Fetched(2)' = Fetched(2) \cup {n}
      BY <1>1, <1>2, <1>5, TwoPrefixes DEF Fetched, Proceed, Progress
    <2>3. ASSUME NEW m \in Names \ Folders
          PROVE  disk'[m] = IF m \in Fetched(2)'
                            THEN [layer |-> "general", version |-> bucket["general"][m]]
                            ELSE IF m \in Fetched(1)'
                            THEN [layer |-> "own", version |-> bucket["own"][m]]
                            ELSE NoFile
      BY <1>2, <1>5, <2>1, <2>2, TwoPrefixes DEF Progress, TypeOK
    <2> QED
      BY <1>3, <2>3 DEF Progress, env
  <1> QED
    BY <1>4, <1>5

\* No step spoils a calm download: either it is a step of the loop that nobody
\* refused, or calm ends with it.
LEMMA NextIInv == IInv /\ [Next]_vars => IInv'
  <1> SUFFICES ASSUME IInv, [Next]_vars PROVE IInv'
    OBVIOUS
  <1>1. TypeOK /\ TypeOK'
    BY NextTypeOK DEF IInv
  <1>2. (calm => link = "live")' /\ (result = "ok" => step = 3)'
    <2>1. CASE List \/ \E n \in Names : Download(n)
      BY <1>1, <2>1, TwoPrefixes DEF List, Download, Proceed, Working, IInv, TypeOK, env
    <2>2. CASE ~(List \/ \E n \in Names : Download(n))
      BY <2>2 DEF Next, Abort, ChangeObject, ChangeMemberships, LoseLink, vars, env,
                  IInv, TypeOK
    <2> QED
      BY <2>1, <2>2
  <1>3. ASSUME calm', Unambiguous', FitsInOnePage' PROVE Progress'
    <2>1. UNCHANGED env
      BY <1>1, <1>3 DEF Next, List, Download, Abort, ChangeObject, ChangeMemberships,
                  LoseLink, vars, env
    <2>2. calm /\ Unambiguous /\ FitsInOnePage
      BY <1>3, <2>1, WantedUnchanged
            DEF Next, List, Download, Abort, ChangeObject, ChangeMemberships, LoseLink,
                vars, env
    <2>3. Progress
      BY <2>2 DEF IInv
    <2>4. CASE List
      <3>1. Proceed(Wanted(Prefixes[step]))
        BY <1>1, <1>3, <2>2, <2>4, CalmListing
      <3> QED
        BY <1>1, <2>1, <2>3, <2>4, <3>1, ListProgress DEF List, Working, TypeOK
    <2>5. ASSUME NEW n \in Names, Download(n) PROVE Progress'
      <3>1. /\ n \in pending /\ Proceed(pending \ {n}) /\ step \in 1..2 /\ result = "none"
            /\ disk' = [disk EXCEPT ![n] =
                         [layer |-> Prefixes[step], version |-> bucket[Prefixes[step]][n]]]
        BY <1>1, <1>3, <2>5 DEF Download, Working, TypeOK
      <3> QED
        BY <1>1, <2>1, <2>3, <3>1, DownloadProgress
    <2>6. CASE Abort \/ UNCHANGED vars
      <3>1. UNCHANGED <<env, step, pending, disk>>
        BY <2>6 DEF Abort, vars, env
      <3>2. Fetched(1)' = Fetched(1) /\ Fetched(2)' = Fetched(2)
        BY <3>1, WantedUnchanged DEF Fetched
      <3> QED
        BY <2>3, <3>1, <3>2, WantedUnchanged DEF Progress, env
    <2>7. CASE ChangeObject \/ ChangeMemberships \/ LoseLink
      BY <1>3, <2>7 DEF ChangeObject, ChangeMemberships, LoseLink
    <2> QED
      BY <2>4, <2>5, <2>6, <2>7 DEF Next
  <1> QED
    BY <1>1, <1>2, <1>3 DEF IInv

\* The inductive invariant of the download (supabase_run_store.go:133-212).
THEOREM HydrationInvariance == Spec => []IInv
  <1>1. Init => IInv
    <2> SUFFICES ASSUME Init PROVE IInv
      OBVIOUS
    <2>1. TypeOK
      BY InitTypeOK
    <2>2. Fetched(1) = {} /\ Fetched(2) = {}
      BY DEF Init, Fetched
    <2> QED
      BY <2>1, <2>2 DEF Init, IInv, Progress
  <1> QED
    BY <1>1, NextIInv, PTL DEF Spec

\* The refusals that DownloadContext tolerates (supabase_run_store.go:167 and :200) are
\* the only way to an incomplete workspace: where nothing changes and nothing is refused,
\* a nil error means that every plain object of the layers the user may read is
\* there, the general layer's over the agent's own, however many names there are.
THEOREM CalmDownloadsAreComplete == Spec => []CompleteWhenCalm
  <1>1. IInv => CompleteWhenCalm
    <2> SUFFICES ASSUME IInv, result = "ok", calm, Unambiguous, FitsInOnePage,
                        NEW n \in Names \ Folders
                 PROVE  disk[n] = Expected(n)
      BY DEF CompleteWhenCalm
    <2>1. step = 3 /\ Progress
      BY DEF IInv
    <2>2. Fetched(1) = Wanted("own") /\ Fetched(2) = Wanted("general")
      BY <2>1, TwoPrefixes DEF Fetched
    <2> QED
      BY <2>1, <2>2 DEF Progress, Wanted, Expected
  <1> QED
    BY HydrationInvariance, <1>1, PTL
=============================================================================
