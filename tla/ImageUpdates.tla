---------------------------- MODULE ImageUpdates ----------------------------
(***************************************************************************)
(* Image updates of containers: the agent's docker collector compares the   *)
(* digest of a container's image with the registry's, through a cache of    *)
(* lookups, failed ones included (internal/agent/collector/docker.go and    *)
(* docker_update.go); the hub keeps one row per container and writes the    *)
(* fields a report has (upsertDockerContainer of internal/hub/metrics/      *)
(* service.go).  All containers run one image reference; digests are        *)
(* numbered in the order they were pushed.                                  *)
(***************************************************************************)
EXTENDS Integers, Sequences

CONSTANTS
    Container,
    DigestTTL,     \* imageDigestCacheTTL
    MaxPushes,     \* bound: digests pushed
    MaxCollections,    \* bound: collections under way
    EndOfImages    \* bound: the end of the clock

VARIABLES
    tick,          \* the clock
    pushed,        \* pushed[d]: when digest d was pushed to the registry
    image,         \* image[c]: the digest a container runs, 0 for one built locally
    exists,        \* containers the daemon lists
    cache,         \* the cache entry: is there one, digest (0 for a failure), checkedAt
    outbox,        \* reports on their way to the hub
    shown          \* shown[c]: the docker_containers row

imageVars == <<tick, pushed, image, exists, cache, outbox, shown>>

ASSUME ImageAssumption ==
    /\ DigestTTL \in Nat /\ MaxPushes \in Nat \ {0} /\ MaxCollections \in Nat /\ EndOfImages \in Nat

\* Row: image_digest, remote_digest (0 for none), update_available, and when the
\* report that set them was made.
NotShown == [local |-> 0, remote |-> 0, update |-> FALSE, at |-> 0]

ImageInit ==
    /\ tick = 0 /\ pushed = <<0>>
    /\ image = [c \in Container |-> 0] /\ exists = {}
    /\ cache = [known |-> FALSE, digest |-> 0, checkedAt |-> 0]
    /\ outbox = <<>> /\ shown = [c \in Container |-> NotShown]

PushImage ==
    /\ Len(pushed) < MaxPushes /\ pushed' = Append(pushed, tick)
    /\ UNCHANGED <<tick, image, exists, cache, outbox, shown>>

\* A container is created, from the image pulled by then or from one built locally.  A
\* removed one is left out: its row stays as it is.
RunContainer(c) ==
    /\ c \notin exists
    /\ exists' = exists \union {c}
    /\ image' \in {image, [image EXCEPT ![c] = Len(pushed)]}
    /\ UNCHANGED <<tick, pushed, cache, outbox, shown>>

ImageTick ==
    /\ tick < EndOfImages /\ tick' = tick + 1
    /\ UNCHANGED <<pushed, image, exists, cache, outbox, shown>>

-----------------------------------------------------------------------------
\* Mutant: a cached digest is good for ever.
MutantFresh(entry) == entry.known

Fresh(entry) == entry.known /\ tick - entry.checkedAt < DigestTTL

\* remoteDigest: the entry after a lookup of the reference.
remoteDigest ==
    IF Fresh(cache) THEN {cache}
    ELSE [known : {TRUE}, digest : {0, Len(pushed)}, checkedAt : {tick}]

\* checkImageUpdate: nothing for an image without a digest; a failed lookup leaves
\* the remote digest empty and no update.
checkImageUpdate(local, remote) ==
    IF local = 0 THEN {}
    ELSE {[local |-> local, remote |-> remote, update |-> remote # 0 /\ remote # local, at |-> tick]}

\* Collect: every container listed, in one report; without a daemon none is.  The first
\* container with a digest has the registry asked, the others find its answer cached.
CollectImages ==
    /\ Len(outbox) < MaxCollections
    /\ \/ /\ outbox' = Append(outbox, [c \in {} |-> {}]) /\ UNCHANGED cache
       \/ \E entry \in IF \E c \in exists : image[c] # 0 THEN remoteDigest ELSE {cache} :
            /\ cache' = entry
            /\ outbox' = Append(outbox, [c \in exists |-> checkImageUpdate(image[c], entry.digest)])
    /\ UNCHANGED <<tick, pushed, image, exists, shown>>

\* upsertDockerContainer: keys a report lacks keep their values.
upsertDockerContainer(old, update) == IF update = {} THEN old ELSE CHOOSE u \in update : TRUE

\* IngestMetrics saves the rows of a report, those that can be saved.
IngestContainers ==
    /\ outbox # <<>>
    /\ \E saved \in SUBSET DOMAIN Head(outbox) :
         shown' = [c \in Container |-> IF c \in saved THEN upsertDockerContainer(shown[c], Head(outbox)[c])
                                       ELSE shown[c]]
    /\ outbox' = Tail(outbox)
    /\ UNCHANGED <<tick, pushed, image, exists, cache>>

\* The agent restarts: its cache is empty.
RestartCollector ==
    /\ cache.known /\ cache' = [known |-> FALSE, digest |-> 0, checkedAt |-> 0]
    /\ UNCHANGED <<tick, pushed, image, exists, outbox, shown>>

ImageNext ==
    \/ PushImage \/ ImageTick \/ CollectImages \/ IngestContainers \/ RestartCollector
    \/ \E c \in Container : RunContainer(c)

ImageSpec == ImageInit /\ [][ImageNext]_imageVars

-----------------------------------------------------------------------------
\* The update badge is honest: it is shown for a digest that is not the container's
\* own and that the registry served at most the cache's hour before the report; without
\* it, a row that names a registry digest names the container's own; and reports that
\* lack the keys (service.go:140, "a missing key here must not overwrite a previously
\* known digest") never mix up or empty the container's own digest.
BadgeIsHonest ==
    \A c \in Container :
        LET s == shown[c] IN
        /\ s # NotShown => s.local = image[c] /\ s.local # 0
        /\ s.remote # 0 => (s.update <=> s.remote # s.local)
        /\ s.update => /\ s.remote # 0
                       /\ s.remote < Len(pushed) => pushed[s.remote + 1] >= s.at - DigestTTL
=============================================================================
