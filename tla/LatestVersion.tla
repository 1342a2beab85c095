---------------------------- MODULE LatestVersion ----------------------------
(***************************************************************************)
(* The latest agent version the Agents page compares with                   *)
(* (latestVersionCache of internal/hub/api/update_routes.go): one cached    *)
(* answer of the releases API, shared by all requests.  The lock is not     *)
(* held while the API is asked, so several requests may ask at once, and    *)
(* the last one to come back decides what is cached.  Releases are numbered *)
(* in the order they are published.                                         *)
(***************************************************************************)
EXTENDS Integers, Sequences

CONSTANTS
    PageLoad,      \* requests for the latest version
    VersionTTL,    \* latestVersionCacheTTL
    FetchLimit,    \* the handler's deadline for the API
    MaxReleases,   \* bound: releases published
    EndOfReleases  \* bound: the end of the clock

VARIABLES
    today,         \* the clock
    published,     \* published[v]: when release v came out
    offer,         \* the cache: version (0 without one) and fetchedAt
    load           \* load[p]: a request: where it is, since when, the version it got

versionVars == <<today, published, offer, load>>

ASSUME VersionAssumption ==
    /\ VersionTTL \in Nat /\ FetchLimit \in Nat
    /\ MaxReleases \in Nat \ {0} /\ EndOfReleases \in Nat

Waiting == [pc |-> "idle", since |-> 0, got |-> 0]

VersionInit ==
    /\ today = 0 /\ published = <<0>>
    /\ offer = [version |-> 0, fetchedAt |-> 0]
    /\ load = [p \in PageLoad |-> Waiting]

\* A release is published.
PublishRelease ==
    /\ Len(published) < MaxReleases /\ published' = Append(published, today)
    /\ UNCHANGED <<today, offer, load>>

\* Mutant: an answer is cached for good.
MutantInDate == offer.version # 0

InDate == offer.version # 0 /\ today - offer.fetchedAt < VersionTTL

Reach(p, pc, got) == load' = [load EXCEPT ![p] = [pc |-> pc, since |-> today, got |-> got]]

\* get, up to the unlock: the cached version is answered, or the API asked.
GetVersion(p) ==
    /\ load[p].pc = "idle"
    /\ IF InDate THEN Reach(p, "answered", offer.version) ELSE Reach(p, "asking", 0)
    /\ UNCHANGED <<today, published, offer>>

\* FetchLatest: the API names the last release, or nothing comes of it.
FetchLatest(p) ==
    /\ load[p].pc = "asking"
    /\ \/ load' = [load EXCEPT ![p].pc = "fetched", ![p].got = Len(published)]
       \/ Reach(p, "answered", 0)
    /\ UNCHANGED <<today, published, offer>>

\* get, from the second lock on, and the response.
CacheVersion(p) ==
    /\ load[p].pc = "fetched"
    /\ offer' = [version |-> load[p].got, fetchedAt |-> today]
    /\ Reach(p, "answered", load[p].got)
    /\ UNCHANGED <<today, published>>

\* Time passes, within the deadline of the requests that ask.
VersionTick ==
    /\ today < EndOfReleases
    /\ \A p \in PageLoad : load[p].pc \in {"asking", "fetched"} => today - load[p].since < FetchLimit
    /\ today' = today + 1
    /\ UNCHANGED <<published, offer, load>>

VersionNext ==
    \/ PublishRelease \/ VersionTick
    \/ \E p \in PageLoad : GetVersion(p) \/ FetchLatest(p) \/ CacheVersion(p)

VersionSpec == VersionInit /\ [][VersionNext]_versionVars

-----------------------------------------------------------------------------
\* update_routes.go:268, "a successful GitHub Releases API lookup is cached for ... 1h":
\* whatever requests overlap, and although a slow one may put an older release back
\* into the cache, no version is answered that was superseded longer ago than the
\* cache's hour and one lookup.
OfferIsRecent ==
    \A p \in PageLoad :
        load[p].pc = "answered" /\ load[p].got \in 1..(Len(published) - 1) =>
            published[load[p].got + 1] >= load[p].since - VersionTTL - FetchLimit
=============================================================================
