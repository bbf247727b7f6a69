----------------------------- MODULE Hydration -----------------------------
(***************************************************************************)
(* DownloadContext, the step of a run that fills the workspace: for each   *)
(* of two storage prefixes a list call and one download per listed name,   *)
(* all under the caller's JWT, while the bucket, the memberships and the   *)
(* token change.  Refusals (any status but 200) are tolerated; transport,  *)
(* decoding and disk errors abort.                                         *)
(*                                                                         *)
(* The bucket is seen through the two prefixes of one agent: its own       *)
(* folder {org}/{group}/agents/{id}, and the folder {org}/general.         *)
(***************************************************************************)
EXTENDS Tenancy, FiniteSets, Sequences

CONSTANTS
    Agent,       \* [org, group] of the agent's row
    User,        \* the user of the JWT
    Names,       \* names a listing may show
    Folders,     \* the names that are pseudo-folders
    ListLimit,   \* the "limit" of the list call (100)
    MaxVersion,  \* bound: the versions of an object
    Tables       \* the contents the memberships table may be given

ASSUME HydrationAssumption ==
    /\ Agent \in [org : Orgs, group : Groups]
    /\ User \in Users
    /\ Folders \subseteq Names
    /\ ListLimit \in Nat \ {0}
    /\ MaxVersion \in Nat \ {0}
    /\ Tables \subseteq SUBSET Membership

VARIABLES
    memberships,  \* the memberships table
    link,         \* live; expired (JWT); gone (context cancelled)
    bucket,       \* version of each object, 0 where there is none
    step,         \* index of the prefix being processed
    pending,      \* names listed there and not yet downloaded
    result,       \* none, ok, error
    disk,         \* what the workspace holds under each name
    calm          \* history: nothing changed and nothing was refused so far

env  == <<memberships, link, bucket>>
vars == <<memberships, link, bucket, step, pending, result, disk, calm>>

Layers == {"own", "general"}

\* The two prefixes, in the order of the loop; a faulty variant swaps them.
PrefixesSwapped == <<"general", "own">>
Prefixes == <<"own", "general">>

\* The path segments the storage policy looks at.
PathOf(layer) ==
    IF layer = "own" THEN <<Agent.org, Agent.group>> ELSE <<Agent.org, "general">>

NoFile == [layer |-> "own", version |-> 0]

Init ==
    /\ memberships \in Tables
    /\ link = "live"
    /\ bucket \in [Layers -> [Names -> 0..1]]
    /\ step = 1
    /\ pending = {}
    /\ result = "none"
    /\ disk = [n \in Names |-> NoFile]
    /\ calm = TRUE

Tenants == CurrentTenant(memberships, User)

MayRead(layer) == \E t \in Tenants : ObjectVisible(t, PathOf(layer))
MayMiss(layer) ==
    Tenants = {} \/ \E t \in Tenants : ~ObjectVisible(t, PathOf(layer))

Present(layer) == {n \in Names : bucket[layer][n] # 0}

\* At most ListLimit entries are listed, pseudo-folders among them.
Pages(entries) ==
    IF Cardinality(entries) <= ListLimit THEN {entries}
    ELSE {page \in SUBSET entries : Cardinality(page) = ListLimit}

Working == result = "none"

-----------------------------------------------------------------------------
\* The steps of DownloadContext.

\* Entries without an id are folders and are skipped; a faulty variant keeps them.
PlainOrNot(page) == page
Plain(page) == page \ Folders

\* After the last name of a prefix comes the next prefix; after the last prefix,
\* return nil.
Proceed(rest) ==
    /\ pending' = rest
    /\ step' = IF rest = {} THEN step + 1 ELSE step
    /\ result' = IF rest = {} /\ step = Len(Prefixes) THEN "ok" ELSE result

\* listObjects: what RLS hides is not listed; a refusal lists nothing.
List ==
    /\ Working /\ pending = {}
    /\ \/ /\ link = "live" /\ MayRead(Prefixes[step])
          /\ \E page \in Pages(Present(Prefixes[step])) : Proceed(Plain(page))
          /\ UNCHANGED calm
       \/ link = "live" /\ MayMiss(Prefixes[step]) /\ Proceed({}) /\ UNCHANGED calm
       \/ link # "gone" /\ Proceed({}) /\ calm' = FALSE
    /\ UNCHANGED <<env, disk>>

\* downloadObject: the object as it is now, over any file of the same name; one
\* that is refused or no longer there is skipped.
Download(n) ==
    /\ Working /\ n \in pending
    /\ LET layer == Prefixes[step] IN
        \/ /\ link = "live" /\ MayRead(layer) /\ n \in Present(layer)
           /\ disk' = [disk EXCEPT ![n] =
                        [layer |-> layer, version |-> bucket[layer][n]]]
           /\ UNCHANGED calm
        \/ link # "gone" /\ calm' = FALSE /\ UNCHANGED disk
    /\ Proceed(pending \ {n})
    /\ UNCHANGED env

\* An error that is not tolerated ends the download at once.
Abort ==
    /\ Working
    /\ result' = "error"
    /\ UNCHANGED <<env, step, pending, disk, calm>>

-----------------------------------------------------------------------------
\* What happens around it.

\* Somebody uploads, replaces or deletes an object.
ChangeObject ==
    /\ \E layer \in Layers, n \in Names, v \in 0..MaxVersion :
        /\ v # bucket[layer][n]
        /\ bucket' = [bucket EXCEPT ![layer][n] = v]
    /\ calm' = FALSE
    /\ UNCHANGED <<memberships, link, step, pending, result, disk>>

ChangeMemberships ==
    /\ memberships' \in Tables \ {memberships}
    /\ calm' = FALSE
    /\ UNCHANGED <<link, bucket, step, pending, result, disk>>

\* The token expires, or the client hangs up.
LoseLink ==
    /\ \/ link = "live" /\ link' = "expired"
       \/ link # "gone" /\ link' = "gone"
    /\ calm' = FALSE
    /\ UNCHANGED <<memberships, bucket, step, pending, result, disk>>

Next ==
    \/ List \/ (\E n \in Names : Download(n)) \/ Abort
    \/ ChangeObject \/ ChangeMemberships \/ LoseLink

Spec == Init /\ [][Next]_vars

-----------------------------------------------------------------------------
\* Properties.

\* The type invariant; the loop's position and its result agree.
TypeOK ==
    /\ memberships \in Tables
    /\ link \in {"live", "expired", "gone"}
    /\ bucket \in [Layers -> [Names -> 0..MaxVersion]]
    /\ step \in 1..3
    /\ pending \subseteq Names \ Folders
    /\ result \in {"none", "ok", "error"}
    /\ disk \in [Names -> [layer : Layers, version : 0..MaxVersion]]
    /\ calm \in BOOLEAN
    /\ result = "none" => step < 3
    /\ step = 3 => result = "ok" /\ pending = {}

\* The rule of context.md: organization = mine and group in {general, mine},
\* with the owner's exception.
Permitted(t, layer) ==
    /\ t.org = Agent.org
    /\ \/ t.role = "owner"
       \/ layer = "general"
       \/ Agent.group \in General \cup {t.group} /\ OrgOf[Agent.group] = t.org

\* A file enters the workspace only while the token is valid and some membership
\* of the user entitles him to its layer, however the memberships change between
\* the listing and the downloads.
HydratesOnlyPermitted ==
    [][\A n \in Names : disk'[n] # disk[n] =>
            link = "live" /\ \E t \in Tenants : Permitted(t, disk'[n].layer)]_vars

\* Whichever membership current_tenant() picks.
Readable(layer) ==
    Tenants # {} /\ \A t \in Tenants : ObjectVisible(t, PathOf(layer))

\* What claude should find under name n: the general layer's file hides the
\* agent's own one.
Expected(n) ==
    LET From(layer) == Readable(layer) /\ n \in Present(layer)
        File(layer) == [layer |-> layer, version |-> bucket[layer][n]]
    IN  IF From("general") THEN File("general")
        ELSE IF From("own") THEN File("own") ELSE NoFile

Unambiguous == \A layer \in Layers : Readable(layer) \/ ~MayRead(layer)
FitsInOnePage == \A layer \in Layers : Cardinality(Present(layer)) <= ListLimit

\* The tolerated refusals are the only holes: a download that returns nil while
\* nothing changed and nothing was refused has exactly the plain objects of the
\* layers the user may read, as long as they fit in one listing.
CompleteWhenCalm ==
    result = "ok" /\ calm /\ Unambiguous /\ FitsInOnePage =>
        \A n \in Names \ Folders : disk[n] = Expected(n)

\* context.md:420-421: all objects of the organization's general layer are
\* downloaded along with the agent's.
GeneralLayerHydrated ==
    result = "ok" /\ calm /\ Readable("own") =>
        \A n \in Present("general") \ Folders : disk[n].layer = "general"

-----------------------------------------------------------------------------
\* The inductive invariant behind CompleteWhenCalm.

\* What the download of a layer should fetch, and what it has fetched so far.
Wanted(layer) == IF Readable(layer) THEN Present(layer) \ Folders ELSE {}

Fetched(i) ==
    IF step > i THEN Wanted(Prefixes[i])
    ELSE IF step = i /\ pending # {} THEN Wanted(Prefixes[i]) \ pending ELSE {}

\* The workspace holds what was fetched of either layer, the general layer's files
\* over the agent's own ones, and nothing wanted was passed over.
Progress ==
    /\ step < 3 => pending \subseteq Wanted(Prefixes[step])
    /\ \A n \in Names \ Folders :
        disk[n] = IF n \in Fetched(2)
                  THEN [layer |-> "general", version |-> bucket["general"][n]]
                  ELSE IF n \in Fetched(1)
                  THEN [layer |-> "own", version |-> bucket["own"][n]]
                  ELSE NoFile

IInv ==
    /\ TypeOK
    /\ calm => link = "live"
    /\ calm /\ Unambiguous /\ FitsInOnePage => Progress
    /\ result = "ok" => step = 3
=============================================================================
