---------------------------- MODULE ServiceProofs ----------------------------
(***************************************************************************)
(* The services of the hub and of the agent that MCServices checks side by *)
(* side: what each of them promises, proved of its own specification for   *)
(* every number of requests, containers, subscriptions, settings and       *)
(* records, and every length of its caches and deadlines.                  *)
(***************************************************************************)
EXTENDS LatestVersion, ThreadDumps, ImageUpdates, AgentConfig, RuleScopes, Schedules,
        Notifications, SequenceTheorems, FiniteSetTheorems, TLAPS

\* What appending and dropping the head do to the elements of a sequence.
LEMMA Elements ==
    ASSUME NEW S, NEW s \in Seq(S)
    PROVE  /\ Len(s) \in Nat /\ \A i \in 1..Len(s) : s[i] \in S
           /\ \A e \in S : /\ Append(s, e) \in Seq(S) /\ Len(Append(s, e)) = Len(s) + 1
                           /\ \A i \in 1..Len(s) : Append(s, e)[i] = s[i]
                           /\ Append(s, e)[Len(s) + 1] = e
           /\ s # <<>> => /\ Len(s) >= 1 /\ Head(s) = s[1] /\ Head(s) \in S
                          /\ Tail(s) \in Seq(S) /\ Len(Tail(s)) = Len(s) - 1
                          /\ \A i \in 1..Len(Tail(s)) : Tail(s)[i] = s[i + 1]
  OBVIOUS
-----------------------------------------------------------------------------
(* The latest version *)

LoadState == [pc : {"idle", "asking", "fetched", "answered"}, since : Nat, got : Nat]

VersionTypeOK ==
    /\ today \in Nat /\ published \in Seq(Nat)
    /\ offer \in [version : Nat, fetchedAt : Nat]
    /\ load \in [PageLoad -> LoadState]

\* Release v was still the last one at time t.
LastUntil(v, t) == v \in 1..(Len(published) - 1) => published[v + 1] >= t

\* A lookup under way keeps to its deadline, and its answer was the last release when
\* the lookup began; the cached one was, one lookup before it was cached.
OfferInv ==
    /\ \A i \in 1..Len(published) : published[i] <= today
    /\ offer.fetchedAt <= today
    /\ LastUntil(offer.version, offer.fetchedAt - FetchLimit)
    /\ \A p \in PageLoad :
         /\ load[p].since <= today
         /\ load[p].pc \in {"asking", "fetched"} => today - load[p].since <= FetchLimit
         /\ load[p].pc = "fetched" => LastUntil(load[p].got, load[p].since)
         /\ load[p].pc = "answered" => LastUntil(load[p].got, load[p].since - VersionTTL - FetchLimit)

LEMMA VersionTypes ==
    ASSUME VersionTypeOK
    PROVE  /\ today \in Int /\ offer.fetchedAt \in Nat /\ offer.version \in Nat
           /\ Len(published) \in Nat /\ \A i \in 1..Len(published) : published[i] \in Nat
           /\ \A p \in PageLoad : load[p] \in LoadState /\ load[p].since \in Nat /\ load[p].got \in Nat
           /\ VersionTTL \in Nat /\ FetchLimit \in Nat
<1>1. Len(published) \in Nat /\ \A i \in 1..Len(published) : published[i] \in Nat
  BY Elements DEF VersionTypeOK
<1> QED
  BY <1>1, VersionAssumption DEF VersionTypeOK, LoadState

\* A new release only supersedes the last one, now.
LEMMA PublishKeeps ==
    ASSUME VersionTypeOK, PublishRelease, NEW v, NEW t \in Int, t <= today, LastUntil(v, t)
    PROVE  LastUntil(v, t)'
<1>1. /\ Len(published) \in Nat /\ Len(published') = Len(published) + 1
      /\ published'[Len(published) + 1] = today
      /\ \A i \in 1..Len(published) : published'[i] = published[i]
  BY Elements DEF VersionTypeOK, PublishRelease
<1> SUFFICES ASSUME v \in 1..(Len(published') - 1) PROVE published'[v + 1] >= t
  BY DEF LastUntil
<1>2. CASE v = Len(published)
  BY <1>1, <1>2 DEF VersionTypeOK
<1>3. CASE v # Len(published)
  <2>1. v \in 1..(Len(published) - 1) /\ v + 1 \in 1..Len(published)
    BY <1>1, <1>3
  <2> QED
    BY <1>1, <2>1 DEF LastUntil
<1> QED
  BY <1>2, <1>3

LEMMA LastUntilEarlier ==
    ASSUME VersionTypeOK, NEW v, NEW t \in Int, NEW u \in Int, u <= t, LastUntil(v, t)
    PROVE  LastUntil(v, u)
<1> SUFFICES ASSUME v \in 1..(Len(published) - 1) PROVE published[v + 1] >= u
  BY DEF LastUntil
<1>1. v + 1 \in 1..Len(published) /\ published[v + 1] \in Nat
  BY VersionTypes
<1> QED
  BY <1>1 DEF LastUntil

\* One request moves on, and nothing else changes in what the others rely on.
LEMMA LoadMoves ==
    ASSUME VersionTypeOK, OfferInv, UNCHANGED <<today, published>>, NEW p \in PageLoad,
           NEW l \in LoadState, load' = [load EXCEPT ![p] = l],
           offer' \in [version : Nat, fetchedAt : Nat], offer'.fetchedAt <= today,
           LastUntil(offer'.version, offer'.fetchedAt - FetchLimit),
           l.since <= today,
           l.pc \in {"asking", "fetched"} => today - l.since <= FetchLimit,
           l.pc = "fetched" => LastUntil(l.got, l.since),
           l.pc = "answered" => LastUntil(l.got, l.since - VersionTTL - FetchLimit)
    PROVE  VersionTypeOK' /\ OfferInv'
<1>1. load'[p] = l /\ \A q \in PageLoad \ {p} : load'[q] = load[q]
  BY DEF VersionTypeOK
<1>2. VersionTypeOK'
  BY DEF VersionTypeOK
<1>3. \A q \in PageLoad :
         /\ load'[q].since <= today
         /\ load'[q].pc \in {"asking", "fetched"} => today - load'[q].since <= FetchLimit
         /\ load'[q].pc = "fetched" => LastUntil(load'[q].got, load'[q].since)
         /\ load'[q].pc = "answered" => LastUntil(load'[q].got, load'[q].since - VersionTTL - FetchLimit)
  BY <1>1 DEF OfferInv
<1>4. \A v, t : LastUntil(v, t) => LastUntil(v, t)'
  BY DEF LastUntil
<1> QED
  BY <1>2, <1>3, <1>4 DEF OfferInv

LEMMA FetchedRecord ==
    ASSUME NEW r \in LoadState, NEW v \in Nat
    PROVE  [r EXCEPT !.pc = "fetched", !.got = v] = [pc |-> "fetched", since |-> r.since, got |-> v]
<1> DEFINE a == [r EXCEPT !.pc = "fetched", !.got = v]
           b == [pc |-> "fetched", since |-> r.since, got |-> v]
<1>1. DOMAIN a = {"pc", "since", "got"} /\ DOMAIN b = {"pc", "since", "got"}
  BY DEF LoadState
<1>2. a.pc = b.pc /\ a.since = b.since /\ a.got = b.got
  BY DEF LoadState
<1>3. \A x \in {"pc", "since", "got"} : a[x] = b[x]
  BY <1>2
<1>4. a = [x \in DOMAIN a |-> a[x]] /\ b = [x \in DOMAIN b |-> b[x]]
  BY DEF LoadState
<1> HIDE DEF a, b
<1>5. a = b
  BY <1>1, <1>3, <1>4
<1> QED
  BY <1>5 DEF a, b

LEMMA OfferStep ==
    ASSUME VersionTypeOK, OfferInv, [VersionNext]_versionVars
    PROVE  VersionTypeOK' /\ OfferInv'
<1>1. CASE PublishRelease
  <2>1. UNCHANGED <<today, offer, load>> /\ published' = Append(published, today)
    BY <1>1 DEF PublishRelease
  <2>2. /\ Len(published) \in Nat /\ Len(published') = Len(published) + 1
        /\ published'[Len(published) + 1] = today /\ published' \in Seq(Nat)
        /\ \A i \in 1..Len(published) : published'[i] = published[i]
    BY <2>1, Elements DEF VersionTypeOK
  <2>3. VersionTypeOK'
    BY <2>1, <2>2 DEF VersionTypeOK
  <2>4. \A i \in 1..Len(published') : published'[i] <= today
    <3> SUFFICES ASSUME NEW i \in 1..Len(published') PROVE published'[i] <= today
      OBVIOUS
    <3>1. i \in 1..Len(published) \/ i = Len(published) + 1
      BY <2>2
    <3>2. CASE i \in 1..Len(published)
      <4>1. published[i] <= today
        BY <3>2 DEF OfferInv
      <4> QED
        BY <2>2, <3>2, <4>1
    <3>3. CASE i = Len(published) + 1
      <4>1. today <= today
        BY VersionTypes
      <4> QED
        BY <2>2, <3>3, <4>1
    <3> QED
      BY <3>1, <3>2, <3>3
  <2>5. LastUntil(offer.version, offer.fetchedAt - FetchLimit)'
    <3>1. offer.fetchedAt - FetchLimit \in Int /\ offer.fetchedAt - FetchLimit <= today
      BY VersionTypes DEF OfferInv
    <3>2. LastUntil(offer.version, offer.fetchedAt - FetchLimit)
      BY DEF OfferInv
    <3> QED
      BY <1>1, <2>1, <3>1, <3>2, PublishKeeps
  <2>6. ASSUME NEW p \in PageLoad
        PROVE  /\ load[p].pc = "fetched" => LastUntil(load[p].got, load[p].since)'
               /\ load[p].pc = "answered" =>
                    LastUntil(load[p].got, load[p].since - VersionTTL - FetchLimit)'
    <3>1. /\ load[p].since \in Int /\ load[p].since <= today
          /\ load[p].since - VersionTTL - FetchLimit \in Int
          /\ load[p].since - VersionTTL - FetchLimit <= today
      BY VersionTypes DEF OfferInv
    <3>2. /\ load[p].pc = "fetched" => LastUntil(load[p].got, load[p].since)
          /\ load[p].pc = "answered" => LastUntil(load[p].got, load[p].since - VersionTTL - FetchLimit)
      BY DEF OfferInv
    <3> QED
      BY <1>1, <2>1, <3>1, <3>2, PublishKeeps
  <2> QED
    BY <2>1, <2>3, <2>4, <2>5, <2>6 DEF OfferInv
<1>2. CASE VersionTick
  <2>1. /\ UNCHANGED <<published, offer, load>> /\ today' = today + 1 /\ today \in Nat
        /\ \A p \in PageLoad : load[p].pc \in {"asking", "fetched"} => today - load[p].since < FetchLimit
    BY <1>2 DEF VersionTick, VersionTypeOK
  <2>2. VersionTypeOK'
    BY <2>1 DEF VersionTypeOK
  <2>3. /\ \A i \in 1..Len(published) : published[i] <= today + 1
        /\ offer.fetchedAt <= today + 1
    BY <2>1, VersionTypes DEF OfferInv
  <2>4. ASSUME NEW p \in PageLoad
        PROVE  /\ load[p].since <= today + 1
               /\ load[p].pc \in {"asking", "fetched"} => (today + 1) - load[p].since <= FetchLimit
    BY <2>1, VersionTypes DEF OfferInv
  <2>5. \A v, t : LastUntil(v, t) => LastUntil(v, t)'
    BY <2>1 DEF LastUntil
  <2> QED
    BY <2>1, <2>2, <2>3, <2>4, <2>5 DEF OfferInv
<1>3. ASSUME NEW p \in PageLoad, GetVersion(p) PROVE VersionTypeOK' /\ OfferInv'
  <2>1. UNCHANGED <<today, published, offer>> /\ today \in Nat
    BY <1>3 DEF GetVersion, VersionTypeOK
  <2>2. CASE InDate
    <3> DEFINE l == [pc |-> "answered", since |-> today, got |-> offer.version]
    <3>1. load' = [load EXCEPT ![p] = l]
      BY <1>3, <2>2 DEF GetVersion, Reach
    <3>2. l \in LoadState
      BY <2>1, VersionTypes DEF LoadState
    <3>3. /\ today - VersionTTL - FetchLimit \in Int /\ offer.fetchedAt - FetchLimit \in Int
          /\ today - VersionTTL - FetchLimit <= offer.fetchedAt - FetchLimit
      BY <2>2, VersionTypes DEF InDate
    <3>4. LastUntil(offer.version, today - VersionTTL - FetchLimit)
      BY <3>3, LastUntilEarlier DEF OfferInv
    <3>5. /\ offer' \in [version : Nat, fetchedAt : Nat] /\ offer'.fetchedAt <= today
          /\ LastUntil(offer'.version, offer'.fetchedAt - FetchLimit)
      BY <2>1 DEF OfferInv, VersionTypeOK
    <3>6. today <= today
      BY <2>1
    <3> QED
      BY <2>1, <3>1, <3>2, <3>4, <3>5, <3>6, LoadMoves
  <2>3. CASE ~InDate
    <3> DEFINE l == [pc |-> "asking", since |-> today, got |-> 0]
    <3>1. load' = [load EXCEPT ![p] = l]
      BY <1>3, <2>3 DEF GetVersion, Reach
    <3>2. l \in LoadState /\ today <= today /\ today - today <= FetchLimit
      BY <2>1, VersionTypes DEF LoadState
    <3>3. /\ offer' \in [version : Nat, fetchedAt : Nat] /\ offer'.fetchedAt <= today
          /\ LastUntil(offer'.version, offer'.fetchedAt - FetchLimit)
      BY <2>1 DEF OfferInv, VersionTypeOK
    <3> QED
      BY <2>1, <3>1, <3>2, <3>3, LoadMoves
  <2> QED
    BY <2>2, <2>3
<1>4. ASSUME NEW p \in PageLoad, FetchLatest(p) PROVE VersionTypeOK' /\ OfferInv'
  <2>1. UNCHANGED <<today, published, offer>> /\ today \in Nat /\ load[p].pc = "asking"
    BY <1>4 DEF FetchLatest, VersionTypeOK
  <2>2. /\ offer' \in [version : Nat, fetchedAt : Nat] /\ offer'.fetchedAt <= today
        /\ LastUntil(offer'.version, offer'.fetchedAt - FetchLimit)
    BY <2>1 DEF OfferInv, VersionTypeOK
  <2>3. CASE load' = [load EXCEPT ![p].pc = "fetched", ![p].got = Len(published)]
    <3> DEFINE l == [pc |-> "fetched", since |-> load[p].since, got |-> Len(published)]
    <3>1. load' = [load EXCEPT ![p] = l]
      <4>1. load[p] \in LoadState /\ Len(published) \in Nat
        BY VersionTypes
      <4>2. [load[p] EXCEPT !.pc = "fetched", !.got = Len(published)] = l
        BY <4>1, FetchedRecord
      <4>3. load' = [load EXCEPT ![p] = [load[p] EXCEPT !.pc = "fetched", !.got = Len(published)]]
        BY <2>3 DEF VersionTypeOK
      <4> QED
        BY <4>2, <4>3
    <3>2. l \in LoadState
      BY VersionTypes DEF LoadState
    <3>3. LastUntil(Len(published), load[p].since)
      BY VersionTypes DEF LastUntil
    <3>4. load[p].since <= today /\ today - load[p].since <= FetchLimit
      BY <2>1 DEF OfferInv
    <3> QED
      BY <2>1, <2>2, <3>1, <3>2, <3>3, <3>4, LoadMoves
  <2>4. CASE Reach(p, "answered", 0)
    <3> DEFINE l == [pc |-> "answered", since |-> today, got |-> 0]
    <3>1. load' = [load EXCEPT ![p] = l]
      BY <2>4 DEF Reach
    <3>2. l \in LoadState /\ today <= today
      BY <2>1 DEF LoadState
    <3>3. LastUntil(0, today - VersionTTL - FetchLimit)
      BY DEF LastUntil
    <3> QED
      BY <2>1, <2>2, <3>1, <3>2, <3>3, LoadMoves
  <2> QED
    BY <1>4, <2>3, <2>4 DEF FetchLatest
<1>5. ASSUME NEW p \in PageLoad, CacheVersion(p) PROVE VersionTypeOK' /\ OfferInv'
  <2> DEFINE l == [pc |-> "answered", since |-> today, got |-> load[p].got]
  <2>1. /\ UNCHANGED <<today, published>> /\ today \in Nat /\ load[p].pc = "fetched"
        /\ offer' = [version |-> load[p].got, fetchedAt |-> today]
        /\ load' = [load EXCEPT ![p] = l]
    BY <1>5 DEF CacheVersion, VersionTypeOK, Reach
  <2>2. l \in LoadState /\ today <= today
    BY <2>1, VersionTypes DEF LoadState
  <2>3. offer' \in [version : Nat, fetchedAt : Nat] /\ offer'.fetchedAt = today /\ offer'.version = load[p].got
    BY <2>1, VersionTypes
  <2>4. /\ today - FetchLimit \in Int /\ today - FetchLimit <= load[p].since
        /\ today - VersionTTL - FetchLimit \in Int /\ today - VersionTTL - FetchLimit <= load[p].since
        /\ load[p].since \in Int
    BY <2>1, VersionTypes DEF OfferInv
  <2>5. LastUntil(load[p].got, load[p].since)
    BY <2>1 DEF OfferInv
  <2>6. LastUntil(load[p].got, today - FetchLimit) /\ LastUntil(load[p].got, today - VersionTTL - FetchLimit)
    BY <2>4, <2>5, LastUntilEarlier
  <2> QED
    BY <2>1, <2>2, <2>3, <2>6, LoadMoves
<1>6. CASE UNCHANGED versionVars
  BY <1>6 DEF versionVars, VersionTypeOK, OfferInv, LastUntil
<1> QED
  BY <1>1, <1>2, <1>3, <1>4, <1>5, <1>6 DEF VersionNext

\* latestVersionCache, shared by requests that overlap: no answer is a version that was
\* superseded longer ago than the cache's hour and one lookup, for every number of
\* requests, lifetime of the cache and deadline, although a slow lookup may put an
\* older release back.
THEOREM OfferIsRecentAlways == VersionSpec => []OfferIsRecent
<1>1. VersionInit => VersionTypeOK /\ OfferInv
  <2> SUFFICES ASSUME VersionInit PROVE VersionTypeOK /\ OfferInv
    OBVIOUS
  <2>1. /\ today = 0 /\ published = <<0>> /\ Len(published) = 1 /\ published[1] = 0
        /\ published \in Seq(Nat)
    BY DEF VersionInit
  <2>2. VersionTypeOK
    BY <2>1 DEF VersionInit, VersionTypeOK, Waiting, LoadState
  <2>3. \A v, t : LastUntil(v, t)
    BY <2>1 DEF LastUntil
  <2>4. \A p \in PageLoad : load[p].since = 0 /\ load[p].pc = "idle"
    BY DEF VersionInit, Waiting
  <2> QED
    BY <2>1, <2>2, <2>3, <2>4 DEF VersionInit, OfferInv
<1>2. VersionTypeOK /\ OfferInv /\ [VersionNext]_versionVars => VersionTypeOK' /\ OfferInv'
  BY OfferStep
<1>3. OfferInv => OfferIsRecent
  BY DEF OfferInv, OfferIsRecent, LastUntil
<1> QED
  BY <1>1, <1>2, <1>3, PTL DEF VersionSpec
-----------------------------------------------------------------------------
(* Thread dumps *)

RowStatus == {"none", "pending", "error", "success"}

\* The id is opaque: all that is asked of it is whether two of them are the same.
DumpId == {<<0, 0>>} \union {<<t, DumpTarget[q].pid>> : t \in Nat, q \in DumpRequest}
DumpRow == [status : RowStatus, id : DumpId, from : SUBSET DumpRequest]
DumpReply == [id : DumpId, from : DumpRequest, ok : BOOLEAN]

DumpTypeOK ==
    /\ ms \in Nat
    /\ dump \in [DumpRequest -> {"idle", "checked", "stored", "returned", "refused"}]
    /\ row \in [DumpRequest -> DumpRow]
    /\ jstack \subseteq DumpRequest /\ replies \subseteq DumpReply
    /\ handling \in [reply : SUBSET DumpReply, found : SUBSET DumpRequest]

\* A row is stored once, and what is under way for a request bears the id of its row.
HasRow(q) == row[q].status # "none"
DumpInv ==
    /\ \A q \in DumpRequest : dump[q] \in {"idle", "checked"} => ~HasRow(q)
    /\ \A q \in DumpRequest : dump[q] = "stored" => HasRow(q)
    /\ \A q \in jstack : HasRow(q)
    /\ \A m \in replies \union handling.reply : HasRow(m.from) /\ row[m.from].id = m.id
    /\ \A m \in handling.reply, q \in handling.found : HasRow(q) /\ row[q].id = m.id
    /\ DumpIsOwn

\* The stored rows keep their ids.
RowsKeep ==
    \A q \in DumpRequest : HasRow(q) => HasRow(q)' /\ row'[q].id = row[q].id

LEMMA CollisionsStay ==
    ASSUME RowsKeep, NEW q \in DumpRequest, HasRow(q), Collides(q)
    PROVE  Collides(q)'
<1>1. PICK p \in DumpRequest \ {q} : HasRow(p) /\ row[p].id = row[q].id
  BY DEF Collides, HasRow
<1>2. HasRow(p)' /\ row'[p].id = row[p].id /\ row'[q].id = row[q].id
  BY <1>1 DEF RowsKeep
<1> QED
  BY <1>1, <1>2 DEF Collides, HasRow

\* Rows that succeed in the step are judged in the step; the others stay as they are.
LEMMA OwnStays ==
    ASSUME RowsKeep, DumpIsOwn,
           \A q \in DumpRequest : row'[q].status = "success" =>
               \/ row[q].status = "success" /\ row'[q].from = row[q].from
               \/ row'[q].from = {q} \/ Collides(q)'
    PROVE  DumpIsOwn'
<1> SUFFICES ASSUME NEW q \in DumpRequest, row'[q].status = "success",
                    row[q].status = "success", row'[q].from = row[q].from
             PROVE  row'[q].from = {q} \/ Collides(q)'
  BY DEF DumpIsOwn
<1>1. HasRow(q)
  BY DEF HasRow
<1> QED
  BY <1>1, CollisionsStay DEF DumpIsOwn

LEMMA DumpSame ==
    ASSUME DumpTypeOK, DumpInv, UNCHANGED row,
           \A q \in DumpRequest : dump'[q] \in {"idle", "checked"} => dump[q] \in {"idle", "checked"},
           \A q \in DumpRequest : dump'[q] = "stored" => dump[q] = "stored",
           \A q \in jstack' : HasRow(q),
           \A m \in replies' \union handling'.reply : HasRow(m.from) /\ row[m.from].id = m.id,
           \A m \in handling'.reply, q \in handling'.found : HasRow(q) /\ row[q].id = m.id
    PROVE  DumpInv'
<1>1. DumpIsOwn'
  BY DEF DumpInv, DumpIsOwn, Collides
<1> QED
  BY <1>1 DEF DumpInv, HasRow

LEMMA QuietFacts == Quiet \in [reply : SUBSET DumpReply, found : SUBSET DumpRequest]
                    /\ Quiet.reply = {} /\ Quiet.found = {}
<1>1. {} \in SUBSET DumpReply /\ {} \in SUBSET DumpRequest
  OBVIOUS
<1> QED
  BY <1>1 DEF Quiet

\* RequestDump: the row of a request that had none.
LEMMA RequestDumpStep ==
    ASSUME DumpTypeOK, DumpInv, NEW q \in DumpRequest, RequestDump(q)
    PROVE  DumpTypeOK' /\ DumpInv'
<1>1. /\ dump[q] = "checked" /\ ~HasRow(q) /\ UNCHANGED <<ms, jstack, replies, handling>>
  BY DEF RequestDump, DumpInv
<1>2. CASE /\ row' = [row EXCEPT ![q] = [status |-> "pending", id |-> <<ms, DumpTarget[q].pid>>, from |-> {}]]
           /\ dump' = [dump EXCEPT ![q] = "stored"]
  <2> DEFINE r == [status |-> "pending", id |-> <<ms, DumpTarget[q].pid>>, from |-> {}]
  <2>1. row'[q] = r /\ \A p \in DumpRequest \ {q} : row'[p] = row[p]
    BY <1>2 DEF DumpTypeOK
  <2>2. r \in DumpRow
    <3>1. {} \in SUBSET DumpRequest /\ <<ms, DumpTarget[q].pid>> \in DumpId
      BY DEF DumpId, DumpTypeOK
    <3> QED
      BY <3>1 DEF DumpRow, RowStatus
  <2>3. DumpTypeOK'
    BY <1>1, <1>2, <2>2 DEF DumpTypeOK
  <2>4. RowsKeep
    BY <1>1, <2>1 DEF RowsKeep, HasRow
  <2>5. row'[q].status = "pending"
    BY <2>1
  <2>6. DumpIsOwn'
    <3>1. \A p \in DumpRequest : row'[p].status = "success" =>
             row[p].status = "success" /\ row'[p].from = row[p].from
      BY <2>1, <2>5
    <3> QED
      BY <2>4, <3>1, OwnStays DEF DumpInv
  <2>7. \A p \in DumpRequest : dump'[p] \in {"idle", "checked"} => ~HasRow(p)'
    <3> SUFFICES ASSUME NEW p \in DumpRequest, dump'[p] \in {"idle", "checked"} PROVE ~HasRow(p)'
      OBVIOUS
    <3>1. p # q /\ dump'[p] = dump[p]
      BY <1>2 DEF DumpTypeOK
    <3> QED
      BY <2>1, <3>1 DEF DumpInv, HasRow
  <2>s. \A p \in DumpRequest : dump'[p] = "stored" => HasRow(p)'
    <3> SUFFICES ASSUME NEW p \in DumpRequest, dump'[p] = "stored" PROVE HasRow(p)'
      OBVIOUS
    <3>1. CASE p = q
      BY <2>5, <3>1 DEF HasRow
    <3>2. CASE p # q
      <4>1. dump[p] = "stored"
        BY <1>2, <3>2 DEF DumpTypeOK
      <4> QED
        BY <2>4, <4>1 DEF DumpInv, RowsKeep
    <3> QED
      BY <3>1, <3>2
  <2>8. \A p \in jstack : HasRow(p)'
    BY <2>4 DEF DumpInv, RowsKeep, DumpTypeOK
  <2>9. \A m \in replies \union handling.reply : m.from \in DumpRequest
    BY DEF DumpTypeOK, DumpReply
  <2>10. \A m \in replies \union handling.reply : HasRow(m.from)' /\ row'[m.from].id = m.id
    BY <2>4, <2>9 DEF DumpInv, RowsKeep
  <2>11. \A m \in handling.reply, p \in handling.found : HasRow(p)' /\ row'[p].id = m.id
    BY <2>4 DEF DumpInv, RowsKeep, DumpTypeOK
  <2> QED
    BY <1>1, <2>3, <2>6, <2>7, <2>s, <2>8, <2>10, <2>11 DEF DumpInv
<1>3. CASE dump' = [dump EXCEPT ![q] = "refused"] /\ UNCHANGED row
  <2>1. DumpTypeOK'
    BY <1>1, <1>3 DEF DumpTypeOK
  <2>2. \A p \in DumpRequest :
           /\ dump'[p] \in {"idle", "checked"} => dump[p] \in {"idle", "checked"}
           /\ dump'[p] = "stored" => dump[p] = "stored"
    BY <1>3 DEF DumpTypeOK
  <2>3. DumpInv'
    BY <1>1, <1>3, <2>2, DumpSame DEF DumpInv
  <2> QED
    BY <2>1, <2>3
<1> QED
  BY <1>2, <1>3 DEF RequestDump

\* A step that writes the status and the dump of a stored row.
LEMMA RowWritten ==
    ASSUME DumpTypeOK, DumpInv, NEW q \in DumpRequest, HasRow(q), NEW r \in DumpRow,
           row' = [row EXCEPT ![q] = r], r.id = row[q].id, r.status # "none",
           r.status = "success" => r.from = {q} \/ Collides(q), ms' = ms,
           dump' \in [DumpRequest -> {"idle", "checked", "stored", "returned", "refused"}],
           \A p \in DumpRequest : /\ dump'[p] \in {"idle", "checked"} => dump[p] \in {"idle", "checked"}
                                  /\ dump'[p] = "stored" => dump[p] = "stored",
           jstack' = jstack, replies' = replies, handling' \in {handling, Quiet}
    PROVE  DumpTypeOK' /\ DumpInv'
<1>1. /\ row'[q] = r /\ \A p \in DumpRequest \ {q} : row'[p] = row[p]
      /\ row' \in [DumpRequest -> DumpRow]
  BY DEF DumpTypeOK
<1>2. RowsKeep
  BY <1>1 DEF RowsKeep, HasRow
<1>3. handling' \in [reply : SUBSET DumpReply, found : SUBSET DumpRequest]
      /\ handling'.reply \subseteq handling.reply /\ handling'.found \subseteq handling.found
  BY QuietFacts DEF DumpTypeOK
<1>4. DumpTypeOK'
  BY <1>1, <1>3 DEF DumpTypeOK
<1>5. DumpIsOwn'
  <2>1. Collides(q) => Collides(q)'
    BY <1>2, CollisionsStay
  <2>2. \A p \in DumpRequest : row'[p].status = "success" =>
           \/ row[p].status = "success" /\ row'[p].from = row[p].from
           \/ row'[p].from = {p} \/ Collides(p)'
    BY <1>1, <2>1
  <2> QED
    BY <1>2, <2>2, OwnStays DEF DumpInv
<1>6. \A p \in DumpRequest : /\ dump'[p] \in {"idle", "checked"} => ~HasRow(p)'
                             /\ dump'[p] = "stored" => HasRow(p)'
  BY <1>1, <1>2 DEF DumpInv, HasRow, RowsKeep
<1>7. \A p \in jstack : HasRow(p)'
  BY <1>2 DEF DumpInv, RowsKeep, DumpTypeOK
<1>8. \A m \in replies \union handling.reply : m.from \in DumpRequest
  BY DEF DumpTypeOK, DumpReply
<1>9. \A m \in replies \union handling'.reply : HasRow(m.from)' /\ row'[m.from].id = m.id
  BY <1>2, <1>3, <1>8 DEF DumpInv, RowsKeep
<1>10. handling'.found \subseteq DumpRequest
  BY <1>3 DEF DumpTypeOK
<1>11. \A m \in handling'.reply, p \in handling'.found : HasRow(p)' /\ row'[p].id = m.id
  BY <1>2, <1>3, <1>10 DEF DumpInv, RowsKeep
<1> QED
  BY <1>4, <1>5, <1>6, <1>7, <1>9, <1>11 DEF DumpInv

LEMMA SendRequestStep ==
    ASSUME DumpTypeOK, DumpInv, NEW q \in DumpRequest, SendRequest(q)
    PROVE  DumpTypeOK' /\ DumpInv'
<1>0. /\ dump[q] = "stored" /\ dump' = [dump EXCEPT ![q] = "returned"]
      /\ UNCHANGED <<ms, replies, handling>> /\ HasRow(q)
  BY DEF SendRequest, DumpInv
<1>1. /\ dump' \in [DumpRequest -> {"idle", "checked", "stored", "returned", "refused"}]
      /\ \A p \in DumpRequest : /\ dump'[p] \in {"idle", "checked"} => dump[p] \in {"idle", "checked"}
                                /\ dump'[p] = "stored" => dump[p] = "stored"
  BY <1>0 DEF DumpTypeOK
<1>2. CASE jstack' \in {jstack, jstack \union {q}} /\ UNCHANGED row
  <2>1. DumpTypeOK'
    BY <1>0, <1>1, <1>2 DEF DumpTypeOK
  <2>2. \A p \in jstack' : HasRow(p)
    BY <1>0, <1>2 DEF DumpInv
  <2>3. DumpInv'
    BY <1>0, <1>1, <1>2, <2>2, DumpSame DEF DumpInv
  <2> QED
    BY <2>1, <2>3
<1>3. CASE row' = [row EXCEPT ![q].status = "error"] /\ UNCHANGED jstack
  <2> DEFINE r == [row[q] EXCEPT !.status = "error"]
  <2>1. r \in DumpRow /\ r.id = row[q].id /\ r.status = "error"
    BY DEF DumpTypeOK, DumpRow, RowStatus
  <2>2. row' = [row EXCEPT ![q] = r]
    BY <1>3 DEF DumpTypeOK
  <2> HIDE DEF r
  <2> QED
    BY <1>0, <1>1, <1>3, <2>1, <2>2, RowWritten
<1> QED
  BY <1>2, <1>3 DEF SendRequest

Written(o, s, f) == [o EXCEPT !.status = s, !.from = f]

LEMMA WrittenRow ==
    ASSUME NEW o \in DumpRow, NEW s \in RowStatus, NEW f \in SUBSET DumpRequest
    PROVE  /\ Written(o, s, f) \in DumpRow /\ Written(o, s, f).id = o.id
           /\ Written(o, s, f).status = s /\ Written(o, s, f).from = f
  BY DEF DumpRow, Written

LEMMA SaveRowStep ==
    ASSUME DumpTypeOK, DumpInv, SaveRow
    PROVE  DumpTypeOK' /\ DumpInv'
<1>0. handling' = Quiet /\ UNCHANGED <<ms, dump, jstack, replies>>
  BY DEF SaveRow
<1>1. CASE UNCHANGED row
  <2>1. DumpTypeOK'
    BY <1>0, <1>1, QuietFacts DEF DumpTypeOK
  <2>2. DumpInv'
    BY <1>0, <1>1, QuietFacts, DumpSame DEF DumpInv
  <2> QED
    BY <2>1, <2>2
<1>2. CASE \E m \in handling.reply, q \in handling.found :
             row' = [row EXCEPT ![q].status = IF m.ok THEN "success" ELSE "error",
                                ![q].from = IF m.ok THEN {m.from} ELSE @]
  <2>1. PICK m \in handling.reply, q \in handling.found :
             row' = [row EXCEPT ![q].status = IF m.ok THEN "success" ELSE "error",
                                ![q].from = IF m.ok THEN {m.from} ELSE @]
    BY <1>2
  <2>2. m \in DumpReply /\ q \in DumpRequest /\ m.from \in DumpRequest
    BY DEF DumpTypeOK, DumpReply
  <2>3. HasRow(q) /\ row[q].id = m.id /\ HasRow(m.from) /\ row[m.from].id = m.id
    BY DEF DumpInv
  <2> DEFINE s == IF m.ok THEN "success" ELSE "error"
             f == IF m.ok THEN {m.from} ELSE row[q].from
             r == Written(row[q], s, f)
  <2>4. s \in RowStatus \ {"none"} /\ f \in SUBSET DumpRequest
    BY <2>2 DEF RowStatus, DumpTypeOK, DumpRow
  <2>5. s = "success" => f = {m.from}
    OBVIOUS
  <2>6. row' = [row EXCEPT ![q] = r]
    BY <2>1, <2>2 DEF DumpTypeOK, Written
  <2> HIDE DEF s, f
  <2>7. r \in DumpRow /\ r.id = row[q].id /\ r.status = s /\ r.from = f
    <3>1. row[q] \in DumpRow
      BY <2>2 DEF DumpTypeOK
    <3>2. s \in RowStatus /\ f \in SUBSET DumpRequest
      BY <2>4
    <3> QED
      BY <3>1, <3>2, WrittenRow
  <2> HIDE DEF r
  <2>8. r.status = "success" => r.from = {q} \/ Collides(q)
    <3>1. CASE m.from = q
      BY <2>5, <2>7, <3>1
    <3>2. CASE m.from # q
      BY <2>2, <2>3, <3>2 DEF Collides, HasRow
    <3> QED
      BY <3>1, <3>2
  <2>9. r.status # "none"
    BY <2>4, <2>7
  <2>10. dump' \in [DumpRequest -> {"idle", "checked", "stored", "returned", "refused"}]
    BY <1>0 DEF DumpTypeOK
  <2> QED
    BY <1>0, <2>2, <2>3, <2>6, <2>7, <2>8, <2>9, <2>10, RowWritten
<1> QED
  BY <1>1, <1>2 DEF SaveRow

LEMMA DumpStepInv ==
    ASSUME DumpTypeOK, DumpInv, [DumpNext]_dumpVars
    PROVE  DumpTypeOK' /\ DumpInv'
<1>1. CASE DumpTick
  <2>1. ms' = ms + 1 /\ UNCHANGED <<dump, row, jstack, replies, handling>>
    BY <1>1 DEF DumpTick
  <2>2. DumpTypeOK'
    BY <2>1 DEF DumpTypeOK
  <2> QED
    BY <2>1, <2>2, DumpSame DEF DumpInv
<1>2. CASE LoseDump
  <2>1. UNCHANGED <<ms, dump, row, handling>> /\ jstack' \subseteq jstack /\ replies' \subseteq replies
    BY <1>2 DEF LoseDump
  <2>2. DumpTypeOK'
    BY <2>1 DEF DumpTypeOK
  <2>3. DumpInv'
    BY <2>1, DumpSame DEF DumpInv
  <2> QED
    BY <2>2, <2>3
<1>3. CASE DumpRestart
  <2>1. /\ UNCHANGED <<ms, row, jstack>> /\ replies' = {} /\ handling' = Quiet
        /\ dump' = [q \in DumpRequest |-> IF dump[q] \in {"checked", "stored"} THEN "returned" ELSE dump[q]]
    BY <1>3 DEF DumpRestart
  <2>2. DumpTypeOK'
    BY <2>1, QuietFacts DEF DumpTypeOK
  <2>3. \A p \in DumpRequest : /\ dump'[p] \in {"idle", "checked"} => dump[p] \in {"idle", "checked"}
                               /\ dump'[p] = "stored" => dump[p] = "stored"
    BY <2>1 DEF DumpTypeOK
  <2>4. DumpInv'
    BY <2>1, <2>3, QuietFacts, DumpSame DEF DumpInv
  <2> QED
    BY <2>2, <2>4
<1>4. ASSUME NEW q \in DumpRequest, handleRequestThreadDump(q) PROVE DumpTypeOK' /\ DumpInv'
  <2>1. /\ dump[q] = "idle" /\ UNCHANGED <<ms, row, jstack, replies, handling>>
        /\ dump' = [dump EXCEPT ![q] = IF isDumpablePID(q) THEN "checked" ELSE "refused"]
    BY <1>4 DEF handleRequestThreadDump
  <2>2. DumpTypeOK'
    BY <2>1 DEF DumpTypeOK
  <2>3. \A p \in DumpRequest : /\ dump'[p] \in {"idle", "checked"} => dump[p] \in {"idle", "checked"}
                               /\ dump'[p] = "stored" => dump[p] = "stored"
    BY <2>1 DEF DumpTypeOK
  <2>4. DumpInv'
    BY <2>1, <2>3, DumpSame DEF DumpInv
  <2> QED
    BY <2>2, <2>4
<1>5. ASSUME NEW q \in DumpRequest, Reply(q) PROVE DumpTypeOK' /\ DumpInv'
  <2>1. /\ q \in jstack /\ jstack' = jstack \ {q} /\ UNCHANGED <<ms, dump, row, handling>>
    BY <1>5 DEF Reply
  <2>2. PICK ok \in BOOLEAN : replies' = replies \union {[id |-> row[q].id, from |-> q, ok |-> ok]}
    BY <1>5 DEF Reply
  <2> DEFINE m == [id |-> row[q].id, from |-> q, ok |-> ok]
  <2>3. m \in DumpReply /\ m.from = q /\ m.id = row[q].id
    BY DEF DumpReply, DumpTypeOK, DumpRow
  <2> HIDE DEF m
  <2>4. replies' = replies \union {m}
    BY <2>2 DEF m
  <2>5. DumpTypeOK'
    BY <2>1, <2>3, <2>4 DEF DumpTypeOK
  <2>6. HasRow(m.from) /\ row[m.from].id = m.id
    BY <2>1, <2>3 DEF DumpInv
  <2>7. DumpInv'
    BY <2>1, <2>4, <2>6, DumpSame DEF DumpInv
  <2> QED
    BY <2>5, <2>7
<1>6. ASSUME NEW m \in replies, FindRow(m) PROVE DumpTypeOK' /\ DumpInv'
  <2>1. replies' = replies \ {m} /\ UNCHANGED <<ms, dump, row, jstack>>
    BY <1>6 DEF FindRow
  <2>2. CASE UNCHANGED handling
    <3>1. DumpTypeOK'
      BY <2>1, <2>2 DEF DumpTypeOK
    <3>2. DumpInv'
      BY <2>1, <2>2, DumpSame DEF DumpInv
    <3> QED
      BY <3>1, <3>2
  <2>3. CASE \E q \in RowsOf(m.id) : handling' = [reply |-> {m}, found |-> {q}]
    <3>1. PICK q \in RowsOf(m.id) : handling' = [reply |-> {m}, found |-> {q}]
      BY <2>3
    <3>2. q \in DumpRequest /\ HasRow(q) /\ row[q].id = m.id
      BY DEF RowsOf, HasRow
    <3>3. handling'.reply = {m} /\ handling'.found = {q}
      BY <3>1
    <3>4. {m} \in SUBSET DumpReply /\ {q} \in SUBSET DumpRequest
      BY <3>2 DEF DumpTypeOK
    <3>5. DumpTypeOK'
      BY <2>1, <3>1, <3>4 DEF DumpTypeOK
    <3>6. DumpInv'
      BY <2>1, <3>2, <3>3, DumpSame DEF DumpInv
    <3> QED
      BY <3>5, <3>6
  <2> QED
    BY <1>6, <2>2, <2>3 DEF FindRow
<1>7. CASE UNCHANGED dumpVars
  <2>1. UNCHANGED <<ms, dump, row, jstack, replies, handling>>
    BY <1>7 DEF dumpVars
  <2>2. DumpTypeOK'
    BY <2>1 DEF DumpTypeOK
  <2> QED
    BY <2>1, <2>2, DumpSame DEF DumpInv
<1> QED
  BY <1>1, <1>2, <1>3, <1>4, <1>5, <1>6, <1>7, RequestDumpStep, SendRequestStep, SaveRowStep
     DEF DumpNext, DumpStep

\* A thread dump is stored under the request it was taken for: HandleResponse finds the
\* row by the id alone, and only a row with the same id can have taken the answer, for
\* every number of requests, and whatever is lost, fails to save or restarts.
THEOREM DumpIsOwnAlways == DumpSpec => []DumpIsOwn
<1>1. DumpInit(DumpRegimes) => DumpTypeOK /\ DumpInv
  <2> SUFFICES ASSUME DumpInit(DumpRegimes) PROVE DumpTypeOK /\ DumpInv
    OBVIOUS
  <2>1. NoDump \in DumpRow /\ NoDump.status = "none"
    <3>1. {} \in SUBSET DumpRequest /\ <<0, 0>> \in DumpId
      BY DEF DumpId
    <3> QED
      BY <3>1 DEF NoDump, DumpRow, RowStatus
  <2>2. DumpTypeOK
    BY <2>1, QuietFacts DEF DumpInit, DumpTypeOK
  <2>3. \A q \in DumpRequest : row[q].status = "none" /\ dump[q] = "idle"
    BY <2>1 DEF DumpInit
  <2> QED
    BY <2>2, <2>3, QuietFacts DEF DumpInit, DumpInv, DumpIsOwn, HasRow
<1>2. DumpTypeOK /\ DumpInv /\ [DumpNext]_dumpVars => DumpTypeOK' /\ DumpInv'
  BY DumpStepInv
<1>3. DumpInv => DumpIsOwn
  BY DEF DumpInv
<1> QED
  BY <1>1, <1>2, <1>3, PTL DEF DumpSpec
-----------------------------------------------------------------------------
(* Rule targets and silence scopes *)

ScopeTypeOK ==
    /\ present \subseteq Watched /\ rule \in RuleRow /\ silence \in SilenceRow
    /\ written \in [rule : RuleRow, silence : SilenceRow]

\* The rows are the ones written, less the names of deleted records.
ScopeInv ==
    /\ rule.about = written.rule.about /\ rule.tags = written.rule.tags
    /\ rule.agent = written.rule.agent \intersect present
    /\ rule.check = written.rule.check \intersect present
    /\ silence.tags = written.silence.tags
    /\ silence.starts = written.silence.starts /\ silence.ends = written.silence.ends
    /\ silence.agent = written.silence.agent \intersect present
    /\ silence.checks = written.silence.checks \intersect present

LEMMA ScopeStep ==
    ASSUME ScopeTypeOK, ScopeInv, [ScopeNext]_scopeVars
    PROVE  ScopeTypeOK' /\ ScopeInv'
<1>1. ASSUME NEW s \in Watched, DeleteWatched(s) PROVE ScopeTypeOK' /\ ScopeInv'
  <2>1. /\ present' = present \ {s} /\ UNCHANGED written
        /\ rule' = [rule EXCEPT !.agent = rule.agent \ {s}, !.check = rule.check \ {s}]
        /\ silence' = [silence EXCEPT !.agent = silence.agent \ {s}, !.checks = silence.checks \ {s}]
    BY <1>1 DEF DeleteWatched
  <2>2. /\ rule' \in RuleRow /\ rule'.about = rule.about /\ rule'.tags = rule.tags
        /\ rule'.agent = rule.agent \ {s} /\ rule'.check = rule.check \ {s}
    BY <2>1 DEF ScopeTypeOK, RuleRow
  <2>3. /\ silence' \in SilenceRow /\ silence'.tags = silence.tags
        /\ silence'.starts = silence.starts /\ silence'.ends = silence.ends
        /\ silence'.agent = silence.agent \ {s} /\ silence'.checks = silence.checks \ {s}
    BY <2>1 DEF ScopeTypeOK, SilenceRow
  <2>4. ScopeTypeOK'
    BY <2>1, <2>2, <2>3 DEF ScopeTypeOK
  <2>5. \A S : (S \intersect present) \ {s} = S \intersect present'
    BY <2>1
  <2> QED
    BY <2>1, <2>2, <2>3, <2>4, <2>5 DEF ScopeInv
<1>2. ASSUME NEW s \in Watched, EditWatched(s) PROVE ScopeTypeOK' /\ ScopeInv'
  <2>1. UNCHANGED <<present, rule, silence, written>>
    BY <1>2 DEF EditWatched
  <2> QED
    BY <2>1 DEF ScopeTypeOK, ScopeInv
<1>3. CASE ScopeTick \/ UNCHANGED scopeVars
  <2>1. UNCHANGED <<present, rule, silence, written>>
    BY <1>3 DEF ScopeTick, scopeVars
  <2> QED
    BY <2>1 DEF ScopeTypeOK, ScopeInv
<1> QED
  BY <1>1, <1>2, <1>3 DEF ScopeNext

\* Whoever is judged is there, and an agent or a check as the rule says.
LEMMA JudgedFacts ==
    ASSUME ScopeTypeOK, NEW s \in Judged
    PROVE  /\ s \in present
           /\ rule.about = "check_down" =>
                s \in WatchedCheck /\ (rule.check # {} => s \in rule.check)
           /\ rule.about # "check_down" =>
                /\ s \in WatchedAgent /\ (rule.agent # {} => s \in rule.agent)
                /\ rule.agent = {} => rule.tags = {} \/ rule.tags \intersect tagsOf[s] # {}
<1>0. rule.agent \subseteq WatchedAgent /\ rule.check \subseteq WatchedCheck
  BY DEF ScopeTypeOK, RuleRow
<1>1. CASE rule.about = "check_down"
  BY <1>0, <1>1 DEF Judged, JudgedChecks
<1>2. CASE rule.about # "check_down"
  <2>1. s \in JudgedAgents
    BY <1>2 DEF Judged
  <2>2. CASE rule.agent # {}
    BY <1>0, <1>2, <2>1, <2>2 DEF JudgedAgents
  <2>3. CASE rule.agent = {}
    BY <1>2, <2>1, <2>3 DEF JudgedAgents, matchesTargets, stringSlicesIntersect
  <2> QED
    BY <2>2, <2>3
<1> QED
  BY <1>1, <1>2

LEMMA ScopeImplies ==
    ASSUME ScopeTypeOK, ScopeInv
    PROVE  ScopesHold
<1> SUFFICES ASSUME NEW s \in Judged
             PROVE  /\ RuleEmptied \/ MeantByRule(s)
                    /\ SilenceEmptied \/ (Silenced(s) <=> MeantBySilence(s) /\ Running(written.silence))
                    /\ Silenced(s) <=> s \in Listed
  BY DEF ScopesHold
<1> DEFINE wr == written.rule
           ws == written.silence
<1>0. /\ wr.agent \subseteq WatchedAgent /\ wr.check \subseteq WatchedCheck
      /\ ws.agent \subseteq WatchedAgent /\ ws.checks \subseteq WatchedCheck
      /\ WatchedAgent \intersect WatchedCheck = {}
  BY ScopeAssumption DEF ScopeTypeOK, RuleRow, SilenceRow
<1>1. s \in present /\ s \in Watched
  BY JudgedFacts DEF ScopeTypeOK
<1>2. RuleEmptied \/ MeantByRule(s)
  <2> SUFFICES ASSUME ~RuleEmptied PROVE MeantByRule(s)
    OBVIOUS
  <2>1. rule.agent = wr.agent /\ rule.check = wr.check
    BY <1>0 DEF RuleEmptied, ScopeInv
  <2>2. CASE rule.about = "check_down"
    BY <2>1, <2>2, JudgedFacts DEF MeantByRule, ScopeInv
  <2>3. CASE rule.about # "check_down"
    <3>1. wr.about # "check_down" /\ wr.tags = rule.tags
      BY <2>3 DEF ScopeInv
    <3>2. s \in WatchedAgent
      BY <2>3, JudgedFacts
    <3>3. CASE wr.agent # {}
      BY <2>1, <2>3, <3>1, <3>2, <3>3, JudgedFacts DEF MeantByRule
    <3>4. CASE wr.agent = {}
      BY <2>1, <2>3, <3>1, <3>2, <3>4, JudgedFacts DEF MeantByRule
    <3> QED
      BY <3>3, <3>4
  <2> QED
    BY <2>2, <2>3
<1>3. Running(silence) <=> Running(ws)
  BY DEF Running, ScopeInv
<1>4. Silenced(s) <=>
        /\ Running(silence)
        /\ \/ Global(silence) \/ silence.tags \intersect tagsOf[s] # {}
           \/ s \in silence.agent \union silence.checks
  <2>1. CASE s \in WatchedAgent
    <3>1. s \notin silence.checks
      BY <1>0, <2>1 DEF ScopeInv
    <3> QED
      BY <2>1, <3>1 DEF Silenced, SilenceMatchesAgent, stringSlicesIntersect
  <2>2. CASE s \notin WatchedAgent
    <3>1. s \notin silence.agent
      BY <1>0, <2>2 DEF ScopeInv
    <3> QED
      BY <2>2, <3>1 DEF Silenced, SilenceMatchesCheck, stringSlicesIntersect
  <2> QED
    BY <2>1, <2>2
<1>5. SilenceEmptied \/ (Silenced(s) <=> MeantBySilence(s) /\ Running(ws))
  <2> SUFFICES ASSUME ~SilenceEmptied PROVE Silenced(s) <=> MeantBySilence(s) /\ Running(ws)
    OBVIOUS
  <2>1. s \in silence.agent \union silence.checks <=> s \in ws.agent \union ws.checks
    BY <1>1 DEF ScopeInv
  <2>2. Global(silence) <=> Global(ws)
    BY DEF SilenceEmptied, Global, ScopeInv
  <2>3. Global(ws) <=> ws.agent \union ws.tags \union ws.checks = {}
    BY DEF Global
  <2>4. MeantBySilence(s) <=>
          Global(ws) \/ s \in ws.agent \union ws.checks \/ ws.tags \intersect tagsOf[s] # {}
    BY <2>3 DEF MeantBySilence
  <2>5. silence.tags = ws.tags
    BY DEF ScopeInv
  <2> HIDE DEF ws
  <2> QED
    BY <1>3, <1>4, <2>1, <2>2, <2>4, <2>5
<1>6. Silenced(s) <=> s \in Listed
  <2>1. CASE s \in WatchedAgent
    <3>1. s \notin WatchedCheck
      BY <1>0, <2>1
    <3> QED
      BY <1>1, <2>1, <3>1 DEF Silenced, Listed
  <2>2. CASE s \notin WatchedAgent
    <3>1. s \in WatchedCheck
      BY <1>1, <2>2 DEF Watched
    <3> QED
      BY <1>1, <2>2, <3>1 DEF Silenced, Listed
  <2> QED
    BY <2>1, <2>2
<1> QED
  BY <1>2, <1>5, <1>6

\* Whatever is deleted and retagged, a rule judges only what it was written for and a
\* silence mutes exactly what it was written for while its window runs, which is also
\* what the page lists, for every set of agents, checks and tags and every row; a row
\* that lost its last name is the exception (evaluateRule, SilenceMatchesAgent,
\* SilenceMatchesCheck, handleActiveSilences).
THEOREM ScopesHoldAlways == ScopeSpec => []ScopesHold
<1>1. ScopeInit(RuleRows, SilenceRows) => ScopeTypeOK /\ ScopeInv
  <2> SUFFICES ASSUME ScopeInit(RuleRows, SilenceRows) PROVE ScopeTypeOK /\ ScopeInv
    OBVIOUS
  <2>1. /\ present = Watched /\ rule \in RuleRow /\ silence \in SilenceRow
        /\ written = [rule |-> rule, silence |-> silence]
    BY RowsAssumption DEF ScopeInit
  <2>2. ScopeTypeOK
    BY <2>1 DEF ScopeTypeOK
  <2>3. written.rule = rule /\ written.silence = silence
    BY <2>1
  <2>4. /\ rule.agent \subseteq present /\ rule.check \subseteq present
        /\ silence.agent \subseteq present /\ silence.checks \subseteq present
    BY <2>1 DEF RuleRow, SilenceRow, Watched
  <2>5. /\ rule.agent = rule.agent \intersect present /\ rule.check = rule.check \intersect present
        /\ silence.agent = silence.agent \intersect present
        /\ silence.checks = silence.checks \intersect present
    BY <2>4
  <2> QED
    BY <2>2, <2>3, <2>5 DEF ScopeInv
<1>2. ScopeTypeOK /\ ScopeInv /\ [ScopeNext]_scopeVars => ScopeTypeOK' /\ ScopeInv'
  BY ScopeStep
<1>3. ScopeTypeOK /\ ScopeInv => ScopesHold
  BY ScopeImplies
<1> QED
  BY <1>1, <1>2, <1>3, PTL DEF ScopeSpec
-----------------------------------------------------------------------------
(* The schedule of the report *)

HookState == [pc : {"idle", "enabled", "cron", "remove", "add"}, enabled : BOOLEAN,
              cron : CronRow \union {DefaultCron}]

ReportTypeOK ==
    /\ reportSetting \in [enabled : EnabledRow, cron : CronRow]
    /\ hook \in [Save -> HookState]

\* Hooks run one at a time, and the one that runs has read what is stored; when none
\* runs the job is the one the settings ask for.
HooksInv ==
    "overlap" \notin scheduleMay =>
        /\ \A s, t \in Save : hook[s].pc # "idle" /\ hook[t].pc # "idle" => s = t
        /\ \A s \in Save :
             /\ hook[s].pc \in {"cron", "remove", "add"} =>
                    hook[s].enabled = LoadEnabled(reportSetting.enabled)
             /\ hook[s].pc \in {"remove", "add"} => hook[s].cron = LoadCron(reportSetting.cron)
             /\ hook[s].pc = "add" => hook[s].enabled
        /\ ScheduleTakesEffect

LEMMA HookFacts == NoHook \in HookState /\ NoHook.pc = "idle"
  BY DEF NoHook, HookState, DefaultCron

\* One hook moves.
LEMMA HookMoves ==
    ASSUME ReportTypeOK, NEW s \in Save, NEW h \in HookState, hook' = [hook EXCEPT ![s] = h]
    PROVE  /\ hook' \in [Save -> HookState] /\ hook'[s] = h
           /\ \A t \in Save \ {s} : hook'[t] = hook[t]
  BY DEF ReportTypeOK

LEMMA SaveSettingStep ==
    ASSUME ReportTypeOK, HooksInv, NEW s \in Save, SaveSetting(s)
    PROVE  ReportTypeOK' /\ HooksInv'
<1>1. /\ hook[s].pc = "idle" /\ scheduleMay' = scheduleMay
      /\ "overlap" \in scheduleMay \/ \A t \in Save : hook[t].pc = "idle"
      /\ hook' = [hook EXCEPT ![s] = [hook[s] EXCEPT !.pc = "enabled"]]
      /\ reportSetting' \in [enabled : EnabledRow, cron : CronRow]
  BY DEF SaveSetting, regimeVars, ReportTypeOK
<1> DEFINE h == [hook[s] EXCEPT !.pc = "enabled"]
<1>2. h \in HookState /\ h.pc = "enabled"
  BY DEF ReportTypeOK, HookState
<1> HIDE DEF h
<1>3. hook' \in [Save -> HookState] /\ hook'[s] = h /\ \A t \in Save \ {s} : hook'[t] = hook[t]
  BY <1>1, <1>2, HookMoves DEF h
<1>4. ReportTypeOK'
  BY <1>1, <1>3 DEF ReportTypeOK
<1>5. ASSUME "overlap" \notin scheduleMay PROVE \A t \in Save \ {s} : hook'[t].pc = "idle"
  BY <1>1, <1>3, <1>5
<1>6. ~HooksReturned'
  BY <1>2, <1>3 DEF HooksReturned
<1> QED
  BY <1>1, <1>2, <1>3, <1>4, <1>5, <1>6 DEF HooksInv, ScheduleTakesEffect

\* A hook goes on or returns: the others are idle, the settings stay.
LEMMA HookGoesOn ==
    ASSUME ReportTypeOK, HooksInv, NEW s \in Save, hook[s].pc # "idle",
           UNCHANGED <<reportSetting, scheduleMay>>, NEW h \in HookState,
           hook' = [hook EXCEPT ![s] = h],
           "overlap" \notin scheduleMay =>
             /\ h.pc \in {"cron", "remove", "add"} => h.enabled = LoadEnabled(reportSetting.enabled)
             /\ h.pc \in {"remove", "add"} => h.cron = LoadCron(reportSetting.cron)
             /\ h.pc = "add" => h.enabled
             /\ h.pc = "idle" =>
                  reportJob' = JobFor(LoadEnabled(reportSetting.enabled), LoadCron(reportSetting.cron))
    PROVE  ReportTypeOK' /\ HooksInv'
<1>1. hook' \in [Save -> HookState] /\ hook'[s] = h /\ \A t \in Save \ {s} : hook'[t] = hook[t]
  BY HookMoves
<1>2. ReportTypeOK'
  BY <1>1 DEF ReportTypeOK
<1>3. ASSUME "overlap" \notin scheduleMay
      PROVE  /\ \A t \in Save \ {s} : hook'[t].pc = "idle"
             /\ ScheduleTakesEffect'
  <2>1. \A t \in Save \ {s} : hook[t].pc = "idle"
    BY <1>3 DEF HooksInv
  <2>2. HooksReturned' => h.pc = "idle"
    BY <1>1 DEF HooksReturned
  <2> QED
    BY <1>1, <1>3, <2>1, <2>2 DEF ScheduleTakesEffect
<1> QED
  BY <1>1, <1>2, <1>3 DEF HooksInv

LEMMA HookStepInv ==
    ASSUME ReportTypeOK, HooksInv, NEW s \in Save, HookStep(s)
    PROVE  ReportTypeOK' /\ HooksInv'
<1>0. UNCHANGED <<reportSetting, scheduleMay>> /\ hook[s] \in HookState
  BY DEF HookStep, LoadSettings, RemoveJob, AddJob, regimeVars, ReportTypeOK
<1>1. CASE /\ hook[s].pc = "enabled"
           /\ hook' = [hook EXCEPT ![s].pc = "cron", ![s].enabled = LoadEnabled(reportSetting.enabled)]
  <2> DEFINE h == [hook[s] EXCEPT !.pc = "cron", !.enabled = LoadEnabled(reportSetting.enabled)]
  <2>1. h \in HookState /\ h.pc = "cron" /\ h.enabled = LoadEnabled(reportSetting.enabled)
    BY <1>0 DEF HookState, LoadEnabled
  <2>2. hook' = [hook EXCEPT ![s] = h]
    BY <1>1 DEF ReportTypeOK
  <2> HIDE DEF h
  <2> QED
    BY <1>0, <1>1, <2>1, <2>2, HookGoesOn
<1>2. CASE /\ hook[s].pc = "cron"
           /\ hook' = [hook EXCEPT ![s].pc = "remove", ![s].cron = LoadCron(reportSetting.cron)]
  <2> DEFINE h == [hook[s] EXCEPT !.pc = "remove", !.cron = LoadCron(reportSetting.cron)]
  <2>0. LoadCron(reportSetting.cron) \in CronRow \union {DefaultCron}
    <3>1. reportSetting.cron \in CronRow
      BY DEF ReportTypeOK
    <3>2. CASE reportSetting.cron = ""
      BY <3>2 DEF LoadCron
    <3>3. CASE reportSetting.cron # ""
      BY <3>1, <3>3 DEF LoadCron
    <3> QED
      BY <3>2, <3>3
  <2>1. /\ h \in HookState /\ h.pc = "remove" /\ h.cron = LoadCron(reportSetting.cron)
        /\ h.enabled = hook[s].enabled
    BY <1>0, <2>0 DEF HookState
  <2>2. hook' = [hook EXCEPT ![s] = h]
    BY <1>2 DEF ReportTypeOK
  <2>3. "overlap" \notin scheduleMay => hook[s].enabled = LoadEnabled(reportSetting.enabled)
    BY <1>2 DEF HooksInv
  <2> HIDE DEF h
  <2> QED
    BY <1>0, <1>2, <2>1, <2>2, <2>3, HookGoesOn
<1>3. CASE RemoveJob(s)
  <2> DEFINE h == IF hook[s].enabled THEN [hook[s] EXCEPT !.pc = "add"] ELSE NoHook
  <2>1. hook[s].pc = "remove" /\ reportJob' = <<>> /\ hook' = [hook EXCEPT ![s] = h]
    BY <1>3 DEF RemoveJob
  <2>2. "overlap" \notin scheduleMay =>
           /\ hook[s].enabled = LoadEnabled(reportSetting.enabled)
           /\ hook[s].cron = LoadCron(reportSetting.cron)
    BY <2>1 DEF HooksInv
  <2>3. CASE hook[s].enabled
    <3>1. h \in HookState /\ h.pc = "add" /\ h.enabled /\ h.cron = hook[s].cron /\ h.enabled = hook[s].enabled
      BY <1>0, <2>3 DEF HookState
    <3> HIDE DEF h
    <3> QED
      BY <1>0, <2>1, <2>2, <3>1, HookGoesOn
  <2>4. CASE ~hook[s].enabled
    <3>1. h \in HookState /\ h.pc = "idle"
      BY <2>4, HookFacts
    <3>2. "overlap" \notin scheduleMay =>
             JobFor(LoadEnabled(reportSetting.enabled), LoadCron(reportSetting.cron)) = <<>>
      BY <2>2, <2>4 DEF JobFor
    <3> HIDE DEF h
    <3> QED
      BY <1>0, <2>1, <3>1, <3>2, HookGoesOn
  <2> QED
    BY <2>3, <2>4
<1>4. CASE AddJob(s)
  <2>1. /\ hook[s].pc = "add" /\ reportJob' = JobFor(TRUE, hook[s].cron)
        /\ hook' = [hook EXCEPT ![s] = NoHook]
    BY <1>4 DEF AddJob
  <2>2. "overlap" \notin scheduleMay =>
           /\ LoadEnabled(reportSetting.enabled)
           /\ hook[s].cron = LoadCron(reportSetting.cron)
    BY <2>1 DEF HooksInv
  <2>3. "overlap" \notin scheduleMay =>
           JobFor(LoadEnabled(reportSetting.enabled), LoadCron(reportSetting.cron)) = JobFor(TRUE, hook[s].cron)
    BY <2>2 DEF JobFor
  <2> QED
    BY <1>0, <2>1, <2>3, HookFacts, HookGoesOn
<1> QED
  BY <1>1, <1>2, <1>3, <1>4 DEF HookStep, LoadSettings

\* registerJob and its hook: while saves come one after the other, the job is the one
\* the settings ask for whenever no hook runs, through restarts at any point, for
\* every number of saves.
THEOREM SavedIsScheduledAlways == ScheduleSpec => []SavedIsScheduled
<1>1. ScheduleInit(ScheduleRegimes) => ReportTypeOK /\ HooksInv
  <2> SUFFICES ASSUME ScheduleInit(ScheduleRegimes) PROVE ReportTypeOK /\ HooksInv
    OBVIOUS
  <2>1. /\ reportSetting = [enabled |-> "true", cron |-> ""] /\ reportJob = <<DefaultCron>>
        /\ hook = [s \in Save |-> NoHook]
    BY DEF ScheduleInit
  <2>2. ReportTypeOK
    BY <2>1, HookFacts DEF ReportTypeOK, EnabledRow, CronRow
  <2>3. JobFor(LoadEnabled(reportSetting.enabled), LoadCron(reportSetting.cron)) = <<DefaultCron>>
    BY <2>1 DEF JobFor, LoadEnabled, LoadCron, Schedule, DefaultCron
  <2>4. \A s \in Save : hook[s].pc = "idle"
    BY <2>1, HookFacts
  <2> QED
    BY <2>1, <2>2, <2>3, <2>4 DEF HooksInv, ScheduleTakesEffect
<1>2. ReportTypeOK /\ HooksInv /\ [ScheduleNext]_scheduleVars => ReportTypeOK' /\ HooksInv'
  <2> SUFFICES ASSUME ReportTypeOK, HooksInv, [ScheduleNext]_scheduleVars
               PROVE  ReportTypeOK' /\ HooksInv'
    OBVIOUS
  <2>1. ASSUME UNCHANGED <<reportSetting, hook, reportJob, scheduleMay>> PROVE ReportTypeOK' /\ HooksInv'
    BY <2>1 DEF ReportTypeOK, HooksInv, ScheduleTakesEffect, HooksReturned
  <2>2. CASE RunBackup \/ BackupStep \/ AdminBackups
    <3>1. UNCHANGED <<reportSetting, hook, reportJob, scheduleMay>>
      BY <2>2 DEF RunBackup, BackupStep, ListBackups, DeleteBackup, BackupReturns, AdminBackups,
         Disturb, reportVars, regimeVars
    <3> QED
      BY <2>1, <3>1
  <2>3. CASE RestartHub
    <3>1. /\ UNCHANGED <<reportSetting, scheduleMay>> /\ hook' = [s \in Save |-> NoHook]
          /\ reportJob' = JobFor(LoadEnabled(reportSetting.enabled), LoadCron(reportSetting.cron))
      BY <2>3 DEF RestartHub, Disturb
    <3>2. ReportTypeOK'
      BY <3>1, HookFacts DEF ReportTypeOK
    <3>3. \A s \in Save : hook'[s].pc = "idle"
      BY <3>1, HookFacts
    <3> QED
      BY <3>1, <3>2, <3>3 DEF HooksInv, ScheduleTakesEffect
  <2>4. CASE UNCHANGED scheduleVars
    BY <2>1, <2>4 DEF scheduleVars, reportVars, regimeVars
  <2> QED
    BY <2>2, <2>3, <2>4, SaveSettingStep, HookStepInv DEF ScheduleNext
<1>3. HooksInv => SavedIsScheduled
  BY DEF HooksInv, SavedIsScheduled
<1> QED
  BY <1>1, <1>2, <1>3, PTL DEF ScheduleSpec
-----------------------------------------------------------------------------
(* Backups *)

\* The i-th of the newest is the one that i - 1 others are newer than.
LEMMA NewestFirst ==
    ASSUME NEW S \in SUBSET Nat, IsFiniteSet(S)
    PROVE  LET n == Cardinality(S)  s == Newest(S) IN
           /\ n \in Nat /\ Len(s) = n /\ DOMAIN s = 1..n
           /\ \A i \in 1..n : s[i] \in S /\ Cardinality({g \in S : g > s[i]}) = i - 1
           /\ \A i, j \in 1..n : i < j => s[i] > s[j]
           /\ \A f \in S : \E i \in 1..n : s[i] = f
<1> DEFINE n == Cardinality(S)  s == Newest(S)
           newer(f) == {g \in S : g > f}
           rank == [f \in S |-> Cardinality(newer(f))]
<1>1. n \in Nat
  BY FS_CardinalityType
<1>2. \A f \in S : IsFiniteSet(newer(f)) /\ rank[f] \in 0..(n - 1)
  <2> SUFFICES ASSUME NEW f \in S PROVE IsFiniteSet(newer(f)) /\ Cardinality(newer(f)) \in 0..(n - 1)
    OBVIOUS
  <2>1. newer(f) \in SUBSET S /\ newer(f) # S
    OBVIOUS
  <2> HIDE DEF newer
  <2>2. IsFiniteSet(newer(f)) /\ Cardinality(newer(f)) <= n /\ Cardinality(newer(f)) # n
    BY <2>1, FS_Subset
  <2>3. Cardinality(newer(f)) \in Nat
    BY <2>2, FS_CardinalityType
  <2> QED
    BY <1>1, <2>2, <2>3
<1>3. \A f, g \in S : f < g => rank[g] < rank[f]
  <2> SUFFICES ASSUME NEW f \in S, NEW g \in S, f < g PROVE Cardinality(newer(g)) < Cardinality(newer(f))
    OBVIOUS
  <2>1. newer(g) \in SUBSET newer(f) /\ g \in newer(f) /\ g \notin newer(g)
    <3>1. f \in Nat /\ g \in Nat /\ \A h \in S : h \in Nat /\ (h > g => h > f)
      OBVIOUS
    <3>2. g > f /\ ~(g > g)
      BY <3>1
    <3> QED
      BY <3>1, <3>2
  <2>2. IsFiniteSet(newer(f)) /\ Cardinality(newer(f)) \in Nat /\ Cardinality(newer(g)) \in Nat
    BY <1>2, FS_CardinalityType
  <2> HIDE DEF newer
  <2>3. Cardinality(newer(g)) <= Cardinality(newer(f)) /\ Cardinality(newer(g)) # Cardinality(newer(f))
    BY <2>1, <2>2, FS_Subset
  <2> QED
    BY <2>2, <2>3
<1>4. \A f, g \in S : rank[f] = rank[g] => f = g
  <2> SUFFICES ASSUME NEW f \in S, NEW g \in S, rank[f] = rank[g] PROVE f = g
    OBVIOUS
  <2> HIDE DEF rank
  <2>1. rank[f] \in Nat /\ rank[g] \in Nat
    <3>1. rank[f] \in 0..(n - 1) /\ rank[g] \in 0..(n - 1)
      BY <1>2
    <3> HIDE DEF n
    <3> QED
      BY <1>1, <3>1
  <2>2. ~(f < g) /\ ~(g < f)
    BY <1>3, <2>1
  <2>3. f \in Nat /\ g \in Nat
    OBVIOUS
  <2> QED
    BY <2>2, <2>3
<1>5. \A i \in 0..(n - 1) : \E f \in S : rank[f] = i
  <2>1. rank \in Injection(S, 0..(n - 1))
    <3> HIDE DEF newer
    <3>1. rank \in [S -> 0..(n - 1)] /\ DOMAIN rank = S
      BY <1>2
    <3> HIDE DEF rank
    <3> QED
      BY <1>4, <3>1 DEF Injection, IsInjective
  <2>2. IsFiniteSet(0..(n - 1)) /\ Cardinality(0..(n - 1)) = n
    <3>1. 0 \in Int /\ n - 1 \in Int
      BY <1>1
    <3>2. IsFiniteSet(0..(n - 1)) /\ Cardinality(0..(n - 1)) = IF 0 > n - 1 THEN 0 ELSE n - 1 - 0 + 1
      BY <3>1, FS_Interval
    <3> QED
      BY <1>1, <3>2
  <2>3. rank \in Surjection(S, 0..(n - 1))
    BY <2>1, <2>2, FS_Injection
  <2> HIDE DEF rank
  <2> QED
    BY <2>3 DEF Surjection
<1>6. \A i \in 1..n : s[i] \in S /\ rank[s[i]] = i - 1
  <2> SUFFICES ASSUME NEW i \in 1..n PROVE s[i] \in S /\ rank[s[i]] = i - 1
    OBVIOUS
  <2>1. i - 1 \in 0..(n - 1)
    BY <1>1
  <2>2. \E f \in S : rank[f] = i - 1
    BY <1>5, <2>1
  <2>3. s[i] = CHOOSE f \in S : Cardinality(newer(f)) = i - 1
    BY DEF Newest
  <2>4. \E f \in S : Cardinality(newer(f)) = i - 1
    BY <2>2
  <2> HIDE DEF newer, s
  <2>5. s[i] \in S /\ Cardinality(newer(s[i])) = i - 1
    BY <2>3, <2>4
  <2> QED
    BY <2>5
<1>7. Len(s) = n /\ DOMAIN s = 1..n
  BY <1>1 DEF Newest
<1>8. \A f \in S : \E i \in 1..n : s[i] = f
  <2> SUFFICES ASSUME NEW f \in S PROVE \E i \in 1..n : s[i] = f
    OBVIOUS
  <2> HIDE DEF s, rank
  <2>1. rank[f] \in 0..(n - 1)
    BY <1>2
  <2>2. PICK i \in 1..n : i - 1 = rank[f]
    <3> HIDE DEF n
    <3>1. rank[f] + 1 \in 1..n /\ (rank[f] + 1) - 1 = rank[f]
      BY <1>1, <2>1
    <3> QED
      BY <3>1
  <2>3. s[i] \in S /\ rank[s[i]] = rank[f]
    BY <1>6, <2>2
  <2> QED
    BY <1>4, <2>3
<1>9. \A i, j \in 1..n : i < j => s[i] > s[j]
  <2> HIDE DEF s, rank
  <2> SUFFICES ASSUME NEW i \in 1..n, NEW j \in 1..n, i < j PROVE s[i] > s[j]
    OBVIOUS
  <2>1. s[i] \in S /\ s[j] \in S /\ rank[s[i]] = i - 1 /\ rank[s[j]] = j - 1
    BY <1>6
  <2>2. i - 1 < j - 1 /\ ~(j - 1 < i - 1)
    OBVIOUS
  <2>3. s[i] # s[j] /\ ~(s[i] < s[j])
    BY <1>3, <2>1, <2>2
  <2>4. s[i] \in Nat /\ s[j] \in Nat
    BY <2>1
  <2> QED
    BY <2>3, <2>4
<1>10. \A i \in 1..n : Cardinality({g \in S : g > s[i]}) = i - 1
  BY <1>6
<1> HIDE DEF s, n, rank
<1> QED
  BY <1>1, <1>6, <1>7, <1>8, <1>9, <1>10 DEF s, n

\* selectBackupsForPruning spares the newest, and exactly as many as are to be kept.
LEMMA PruningSparesNewest ==
    ASSUME NEW S \in SUBSET Nat, IsFiniteSet(S), NEW keep \in Int
    PROVE  LET p == selectBackupsForPruning(S, keep)  gone == {p[i] : i \in DOMAIN p} IN
           /\ p \in Seq(Nat)
           /\ \A f \in gone : keep > 0 /\ Cardinality({g \in S \ gone : g > f}) >= keep
           /\ keep > 0 => Cardinality(S \ gone) <= keep
<1> DEFINE n == Cardinality(S)  s == Newest(S)  p == selectBackupsForPruning(S, keep)
           gone == {p[i] : i \in DOMAIN p}
<1>1. n \in Nat
  BY FS_CardinalityType
<1>2. CASE keep <= 0 \/ n <= keep
  <2>1. p = <<>>
    BY <1>2 DEF selectBackupsForPruning
  <2>2. gone = {} /\ p \in Seq(Nat)
    BY <2>1
  <2>3. S \ gone = S
    BY <2>2
  <2>4. keep > 0 => Cardinality(S \ gone) <= keep
    BY <1>1, <1>2, <2>3
  <2> HIDE DEF p, gone
  <2>5. /\ p \in Seq(Nat)
        /\ \A f \in gone : keep > 0 /\ Cardinality({g \in S \ gone : g > f}) >= keep
        /\ keep > 0 => Cardinality(S \ gone) <= keep
    BY <2>2, <2>4
  <2> QED
    BY <2>5 DEF p, gone
<1>3. CASE ~(keep <= 0 \/ n <= keep)
  <2>1. p = SubSeq(s, keep + 1, n)
    BY <1>3 DEF selectBackupsForPruning
  <2>2. keep \in Nat /\ keep > 0 /\ keep < n
    BY <1>1, <1>3
  <2>3. /\ Len(s) = n
        /\ \A i \in 1..n : s[i] \in S
        /\ \A i, j \in 1..n : i < j => s[i] > s[j]
        /\ \A f \in S : \E i \in 1..n : s[i] = f
    BY NewestFirst
  <2> HIDE DEF s, n
  <2>4. /\ p \in Seq(Nat) /\ Len(p) = n - keep
        /\ \A i \in 1..(n - keep) : p[i] = s[keep + i]
    <3>1. keep + 1 \in Int /\ n \in Int /\ \A i \in (keep + 1)..n : s[i] \in Nat
      <4>1. \A i \in (keep + 1)..n : i \in 1..n
        BY <1>1, <2>2
      <4>2. \A i \in (keep + 1)..n : s[i] \in S
        BY <2>3, <4>1
      <4>3. \A i \in (keep + 1)..n : s[i] \in Nat
        BY <4>2
      <4>4. keep + 1 \in Int /\ n \in Int
        BY <1>1
      <4> QED
        BY <4>3, <4>4
    <3>2. /\ SubSeq(s, keep + 1, n) \in Seq(Nat)
          /\ Len(SubSeq(s, keep + 1, n)) = IF keep + 1 <= n THEN n - (keep + 1) + 1 ELSE 0
          /\ \A i \in 1..(n - (keep + 1) + 1) : SubSeq(s, keep + 1, n)[i] = s[keep + 1 + i - 1]
      BY <3>1, SubSeqProperties
    <3> HIDE DEF p
    <3>3. n - (keep + 1) + 1 = n - keep /\ keep + 1 <= n /\ \A i \in 1..(n - keep) : keep + 1 + i - 1 = keep + i
      BY <1>1, <2>2
    <3> QED
      BY <2>1, <3>2, <3>3
  <2> HIDE DEF p
  <2>5. gone = {s[i] : i \in (keep + 1)..n}
    <3>1. DOMAIN p = 1..(n - keep)
      BY <2>4
    <3>2. ASSUME NEW f \in gone PROVE f \in {s[i] : i \in (keep + 1)..n}
      <4>1. PICK i \in 1..(n - keep) : f = s[keep + i]
        BY <2>4, <3>1
      <4>2. keep + i \in (keep + 1)..n
        BY <1>1, <2>2
      <4> QED
        BY <4>1, <4>2
    <3>3. ASSUME NEW i \in (keep + 1)..n PROVE s[i] \in gone
      <4>1. i - keep \in 1..(n - keep) /\ keep + (i - keep) = i
        BY <1>1, <2>2
      <4>2. p[i - keep] = s[i]
        BY <2>4, <4>1
      <4> QED
        BY <3>1, <4>1, <4>2
    <3> QED
      BY <3>2, <3>3
  <2>6. S \ gone = {s[i] : i \in 1..keep}
    <3>1. \A i \in 1..n : i \in 1..keep \/ i \in (keep + 1)..n
      BY <1>1, <2>2
    <3>2. \A i \in 1..keep, j \in (keep + 1)..n : i \in 1..n /\ j \in 1..n /\ i < j
      BY <1>1, <2>2
    <3>3. \A i \in 1..keep, j \in (keep + 1)..n : s[i] # s[j]
      <4> SUFFICES ASSUME NEW i \in 1..keep, NEW j \in (keep + 1)..n PROVE s[i] # s[j]
        OBVIOUS
      <4>1. s[i] \in Nat /\ s[j] \in Nat /\ s[i] > s[j]
        BY <2>3, <3>2
      <4> QED
        BY <4>1
    <3> HIDE DEF gone
    <3>4. ASSUME NEW f \in S \ gone PROVE f \in {s[i] : i \in 1..keep}
      <4>1. PICK i \in 1..n : s[i] = f
        BY <2>3
      <4> QED
        BY <2>5, <3>1, <4>1
    <3>5. ASSUME NEW i \in 1..keep PROVE s[i] \in S \ gone
      <4>1. n \in (keep + 1)..n
        BY <1>1, <2>2
      <4>2. i \in 1..n
        BY <3>2, <4>1
      <4> QED
        BY <2>3, <2>5, <3>3, <4>2
    <3> QED
      BY <3>4, <3>5
  <2>7. Cardinality(S \ gone) = keep
    <3> DEFINE q == [i \in 1..keep |-> s[i]]
    <3>1. \A i, j \in 1..keep : s[i] = s[j] => i = j
      <4> SUFFICES ASSUME NEW i \in 1..keep, NEW j \in 1..keep, s[i] = s[j] PROVE i = j
        OBVIOUS
      <4>1. i \in 1..n /\ j \in 1..n /\ s[i] \in Nat /\ s[j] \in Nat
        <5>1. i \in 1..n /\ j \in 1..n
          BY <1>1, <2>2
        <5> QED
          BY <2>3, <5>1
      <4>2. ~(i < j) /\ ~(j < i)
        BY <2>3, <4>1
      <4> QED
        BY <4>2
    <3>2. q \in Bijection(1..keep, S \ gone)
      <4> HIDE DEF gone
      <4>1. q \in [1..keep -> S \ gone] /\ DOMAIN q = 1..keep
        BY <2>6
      <4>2. \A t \in S \ gone : \E i \in 1..keep : q[i] = t
        BY <2>6
      <4>3. \A i, j \in 1..keep : q[i] = q[j] => i = j
        BY <3>1
      <4> HIDE DEF q
      <4> QED
        BY <4>1, <4>2, <4>3 DEF Bijection, Injection, IsInjective, Surjection
    <3>3. IsFiniteSet(1..keep) /\ Cardinality(1..keep) = keep
      BY <2>2, FS_Interval
    <3>4. ExistsBijection(1..keep, S \ gone)
      BY <3>2 DEF ExistsBijection
    <3> QED
      BY <3>3, <3>4, FS_Bijection
  <2>8. ASSUME NEW f \in gone PROVE {g \in S \ gone : g > f} = S \ gone
    <3>1. PICK j \in (keep + 1)..n : f = s[j]
      BY <2>5
    <3>2. \A i \in 1..keep : i \in 1..n /\ j \in 1..n /\ i < j
      BY <1>1, <2>2
    <3>3. \A i \in 1..keep : s[i] > f
      BY <2>3, <3>1, <3>2
    <3> HIDE DEF gone
    <3> QED
      BY <2>6, <3>3
  <2> HIDE DEF gone
  <2>9. \A f \in gone : keep > 0 /\ Cardinality({g \in S \ gone : g > f}) >= keep
    BY <2>2, <2>7, <2>8
  <2>10. keep > 0 => Cardinality(S \ gone) <= keep
    BY <2>2, <2>7
  <2> QED
    BY <2>4, <2>9, <2>10 DEF p, gone
<1> QED
  BY <1>2, <1>3

\* The names a run has still to delete.
ToDelete == {prune.todo[i] : i \in DOMAIN prune.todo}

BackupTypeOK ==
    /\ made \in Nat /\ files \subseteq 1..made
    /\ prune \in [pc : {"idle", "listing", "deleting"}, todo : Seq(Nat)]
    /\ backupSetting \in [enabled : BOOLEAN, keep : Int]
    /\ backupJob = <<>> \/ \E keep \in Int : backupJob = <<keep>>
    /\ prune.pc # "idle" => backupJob # <<>>
    /\ prune.pc # "deleting" => prune.todo = <<>>

\* Of the files that are not to be deleted enough are newer than each that is, and if
\* nothing failed or interfered they are as many as are to be kept.
EnoughKept ==
    prune.pc = "deleting" =>
        /\ ~meddled => \A f \in ToDelete :
               /\ backupJob[1] > 0
               /\ Cardinality({g \in files \ ToDelete : g > f}) >= backupJob[1]
        /\ scheduleHad = {} /\ backupJob[1] > 0 => Cardinality(files \ ToDelete) <= backupJob[1]

BackupInv == BackupTypeOK /\ EnoughKept

LEMMA FilesFinite ==
    ASSUME BackupTypeOK
    PROVE  IsFiniteSet(files) /\ files \in SUBSET Nat
<1>1. made \in Nat /\ files \in SUBSET (1..made)
  BY DEF BackupTypeOK
<1>2. IsFiniteSet(1..made)
  BY <1>1, FS_Interval
<1>3. IsFiniteSet(files)
  BY <1>1, <1>2, FS_Subset
<1> QED
  BY <1>1, <1>3

\* More files, and no more of them to delete, keep enough.
LEMMA MoreAreNewer ==
    ASSUME BackupTypeOK, NEW S, NEW T, IsFiniteSet(T), S \subseteq T, NEW f
    PROVE  LET newer(U) == {g \in U : g > f} IN
           /\ Cardinality(newer(S)) \in Nat /\ Cardinality(newer(T)) \in Nat
           /\ Cardinality(newer(S)) <= Cardinality(newer(T))
<1> DEFINE newer(U) == {g \in U : g > f}
<1>1. newer(T) \in SUBSET T /\ newer(S) \in SUBSET newer(T)
  OBVIOUS
<1> HIDE DEF newer
<1>2. IsFiniteSet(newer(T))
  BY <1>1, FS_Subset
<1>3. IsFiniteSet(newer(S)) /\ Cardinality(newer(S)) <= Cardinality(newer(T))
  BY <1>1, <1>2, FS_Subset
<1>4. Cardinality(newer(S)) \in Nat /\ Cardinality(newer(T)) \in Nat
  BY <1>2, <1>3, FS_CardinalityType
<1> QED
  BY <1>3, <1>4 DEF newer

\* The backup's part of the state stays.
LEMMA BackupUntouched ==
    ASSUME BackupInv, UNCHANGED <<backupVars, scheduleHad>>
    PROVE  BackupInv'
  BY DEF BackupInv, BackupTypeOK, EnoughKept, ToDelete, backupVars

LEMMA ListBackupsKeeps ==
    ASSUME BackupInv, ListBackups
    PROVE  BackupInv'
<1>1. /\ prune.pc = "listing" /\ UNCHANGED <<backupSetting, backupJob, files, made, scheduleHad>>
      /\ prune' = [pc |-> "deleting", todo |-> selectBackupsForPruning(files, backupJob[1])]
  BY DEF ListBackups, regimeVars
<1>2. PICK keep \in Int : backupJob = <<keep>>
  BY <1>1 DEF BackupInv, BackupTypeOK
<1>3. backupJob[1] = keep /\ backupJob'[1] = keep
  BY <1>1, <1>2
<1> DEFINE p == selectBackupsForPruning(files, keep)  gone == {p[i] : i \in DOMAIN p}
<1>4. /\ p \in Seq(Nat)
      /\ \A f \in gone : keep > 0 /\ Cardinality({g \in files \ gone : g > f}) >= keep
      /\ keep > 0 => Cardinality(files \ gone) <= keep
  BY FilesFinite, PruningSparesNewest DEF BackupInv
<1>5. prune' = [pc |-> "deleting", todo |-> p]
  BY <1>1, <1>3
<1> HIDE DEF p
<1>6. ToDelete' = gone
  BY <1>5 DEF ToDelete
<1> HIDE DEF gone
<1>7. BackupTypeOK'
  BY <1>1, <1>2, <1>4, <1>5 DEF BackupInv, BackupTypeOK
<1>8. EnoughKept'
  BY <1>1, <1>3, <1>4, <1>6 DEF EnoughKept
<1> QED
  BY <1>7, <1>8 DEF BackupInv

\* A deletion, whether it succeeds or fails, takes one name from the list.
LEMMA DeleteTakes ==
    ASSUME BackupInv, DeleteBackup
    PROVE  /\ prune.pc = "deleting" /\ prune'.pc = "deleting" /\ BackupTypeOK'
           /\ prune.todo # <<>> /\ prune'.todo = Tail(prune.todo)
           /\ UNCHANGED <<backupJob, meddled>>
           /\ Head(prune.todo) \in ToDelete /\ ToDelete' \subseteq ToDelete
           /\ ToDelete \subseteq ToDelete' \union {Head(prune.todo)}
           /\ \/ files' = files \ {Head(prune.todo)} /\ scheduleHad' = scheduleHad
              \/ files' = files /\ scheduleHad' # {}
<1> DEFINE todo == prune.todo
<1>1. /\ prune.pc = "deleting" /\ todo # <<>> /\ prune' = [prune EXCEPT !.todo = Tail(todo)]
      /\ UNCHANGED <<backupSetting, backupJob, made, meddled>>
      /\ \/ files' = files \ {Head(todo)} /\ scheduleHad' = scheduleHad
         \/ files' = files /\ scheduleHad' # {}
  BY DEF DeleteBackup, Disturb, regimeVars
<1>2. todo \in Seq(Nat) /\ prune \in [pc : {"idle", "listing", "deleting"}, todo : Seq(Nat)]
  BY DEF BackupInv, BackupTypeOK
<1>3. /\ Len(todo) \in Nat /\ Len(todo) >= 1 /\ Head(todo) = todo[1]
      /\ Tail(todo) \in Seq(Nat) /\ Len(Tail(todo)) = Len(todo) - 1
      /\ \A i \in 1..Len(Tail(todo)) : Tail(todo)[i] = todo[i + 1]
  BY <1>1, <1>2, Elements
<1>4. prune'.pc = "deleting" /\ prune'.todo = Tail(todo)
  BY <1>1, <1>2
<1>5. BackupTypeOK'
  <2>1. files' \subseteq 1..made'
    BY <1>1 DEF BackupInv, BackupTypeOK
  <2>2. prune' \in [pc : {"idle", "listing", "deleting"}, todo : Seq(Nat)]
    BY <1>1, <1>2, <1>3
  <2> QED
    BY <1>1, <1>4, <2>1, <2>2 DEF BackupInv, BackupTypeOK
<1>6. DOMAIN todo = 1..Len(todo) /\ DOMAIN Tail(todo) = 1..(Len(todo) - 1)
  BY <1>2, <1>3
<1>7. /\ ToDelete = {todo[i] : i \in 1..Len(todo)}
      /\ ToDelete' = {Tail(todo)[i] : i \in 1..(Len(todo) - 1)}
  BY <1>4, <1>6 DEF ToDelete
<1> HIDE DEF todo
<1>8. Head(todo) \in ToDelete
  BY <1>3, <1>7
<1>9. ToDelete' \subseteq ToDelete
  <2> SUFFICES ASSUME NEW i \in 1..(Len(todo) - 1) PROVE Tail(todo)[i] \in ToDelete
    BY <1>7
  <2>1. i + 1 \in 1..Len(todo) /\ Tail(todo)[i] = todo[i + 1]
    BY <1>3
  <2> QED
    BY <1>7, <2>1
<1>10. ToDelete \subseteq ToDelete' \union {Head(todo)}
  <2> SUFFICES ASSUME NEW i \in 1..Len(todo) PROVE todo[i] \in ToDelete' \union {Head(todo)}
    BY <1>7
  <2>1. CASE i = 1
    BY <1>3, <2>1
  <2>2. CASE i # 1
    <3>1. i - 1 \in 1..(Len(todo) - 1) /\ Tail(todo)[i - 1] = todo[i - 1 + 1] /\ i - 1 + 1 = i
      BY <1>3, <2>2
    <3> QED
      BY <1>7, <3>1
  <2> QED
    BY <2>1, <2>2
<1> QED
  BY <1>1, <1>4, <1>5, <1>8, <1>9, <1>10 DEF todo

LEMMA DeleteBackupKeeps ==
    ASSUME BackupInv, DeleteBackup
    PROVE  BackupInv'
<1>1. /\ prune.pc = "deleting" /\ BackupTypeOK' /\ UNCHANGED <<backupJob, meddled>>
      /\ Head(prune.todo) \in ToDelete /\ ToDelete' \subseteq ToDelete
      /\ ToDelete \subseteq ToDelete' \union {Head(prune.todo)}
      /\ \/ files' = files \ {Head(prune.todo)} /\ scheduleHad' = scheduleHad
         \/ files' = files /\ scheduleHad' # {}
  BY DeleteTakes
<1> DEFINE kept == files \ ToDelete  left == files' \ ToDelete'
<1>2. kept \subseteq left /\ (scheduleHad' = {} => left = kept /\ scheduleHad = {})
  BY <1>1
<1>3. IsFiniteSet(left)
  <2>1. IsFiniteSet(files) /\ left \in SUBSET files
    BY <1>1, FilesFinite DEF BackupInv
  <2> QED
    BY <2>1, FS_Subset
<1> HIDE DEF kept, left
<1>4. ASSUME ~meddled', NEW f \in ToDelete'
      PROVE  backupJob'[1] > 0 /\ Cardinality({g \in left : g > f}) >= backupJob'[1]
  <2>1. /\ backupJob'[1] > 0 /\ backupJob'[1] = backupJob[1] /\ backupJob[1] \in Int
        /\ Cardinality({g \in kept : g > f}) >= backupJob[1]
    <3>1. f \in ToDelete /\ ~meddled /\ backupJob' = backupJob /\ backupJob # <<>>
      BY <1>1, <1>4 DEF BackupInv, BackupTypeOK
    <3>2. PICK keep \in Int : backupJob = <<keep>>
      BY <3>1 DEF BackupInv, BackupTypeOK
    <3>3. backupJob[1] > 0 /\ Cardinality({g \in kept : g > f}) >= backupJob[1]
      BY <1>1, <3>1 DEF BackupInv, EnoughKept, kept
    <3> QED
      BY <3>1, <3>2, <3>3
  <2>2. /\ Cardinality({g \in kept : g > f}) \in Nat /\ Cardinality({g \in left : g > f}) \in Nat
        /\ Cardinality({g \in kept : g > f}) <= Cardinality({g \in left : g > f})
    BY <1>2, <1>3, MoreAreNewer DEF BackupInv
  <2> QED
    BY <2>1, <2>2
<1>5. scheduleHad' = {} /\ backupJob'[1] > 0 => Cardinality(left) <= backupJob'[1]
  BY <1>1, <1>2 DEF BackupInv, EnoughKept, kept
<1>6. EnoughKept'
  BY <1>4, <1>5 DEF EnoughKept, left
<1> QED
  BY <1>1, <1>6 DEF BackupInv

LEMMA AdminKeeps ==
    ASSUME BackupInv, AdminBackups
    PROVE  BackupInv'
<1>1. /\ scheduleHad' # {} /\ UNCHANGED <<backupJob, prune>>
      /\ \/ files' = files \union {made + 1} /\ made' = made + 1 /\ UNCHANGED <<backupSetting, meddled>>
         \/ (\E f \in files : files' = files \ {f}) /\ meddled' = TRUE /\ UNCHANGED <<made, backupSetting>>
         \/ backupSetting' \in [enabled : BOOLEAN, keep : KeepSettings] /\ UNCHANGED <<files, made, meddled>>
  BY DEF AdminBackups, Disturb
<1>2. BackupTypeOK'
  <2>1. backupSetting' \in [enabled : BOOLEAN, keep : Int]
    BY <1>1, ScheduleAssumption DEF BackupInv, BackupTypeOK
  <2>2. made' \in Nat /\ files' \subseteq 1..made'
    <3>1. made \in Nat /\ files \subseteq 1..made
      BY DEF BackupInv, BackupTypeOK
    <3>2. 1..made \subseteq 1..(made + 1) /\ made + 1 \in 1..(made + 1) /\ made + 1 \in Nat
      BY <3>1
    <3>3. files' \subseteq files \/ (files' = files \union {made + 1} /\ made' = made + 1)
      BY <1>1
    <3>4. made' \in {made, made + 1}
      BY <1>1
    <3> QED
      BY <3>1, <3>2, <3>3, <3>4
  <2> QED
    BY <1>1, <2>1, <2>2 DEF BackupInv, BackupTypeOK
<1>3. CASE meddled'
  BY <1>1, <1>2, <1>3 DEF BackupInv, EnoughKept
<1>4. CASE ~meddled'
  <2>1. files \subseteq files' /\ ~meddled /\ ToDelete' = ToDelete /\ IsFiniteSet(files')
    <3>1. ToDelete' = ToDelete
      BY <1>1 DEF ToDelete
    <3>2. files \subseteq files' /\ meddled' = meddled
      BY <1>1, <1>4
    <3>3. IsFiniteSet(files')
      <4>1. made' \in Nat /\ files' \in SUBSET (1..made')
        BY <1>2 DEF BackupTypeOK
      <4>2. IsFiniteSet(1..made')
        BY <4>1, FS_Interval
      <4> QED
        BY <4>1, <4>2, FS_Subset
    <3> QED
      BY <1>4, <3>1, <3>2, <3>3
  <2> DEFINE kept == files \ ToDelete  left == files' \ ToDelete
  <2>2. kept \subseteq left /\ left \in SUBSET files'
    BY <2>1
  <2>3. IsFiniteSet(left)
    BY <2>1, <2>2, FS_Subset
  <2> HIDE DEF kept, left
  <2>4. ASSUME prune.pc = "deleting", NEW f \in ToDelete
        PROVE  backupJob[1] > 0 /\ Cardinality({g \in left : g > f}) >= backupJob[1]
    <3>1. /\ backupJob[1] > 0 /\ backupJob[1] \in Int
          /\ Cardinality({g \in kept : g > f}) >= backupJob[1]
      BY <2>1, <2>4 DEF BackupInv, BackupTypeOK, EnoughKept, kept
    <3>2. /\ Cardinality({g \in kept : g > f}) \in Nat /\ Cardinality({g \in left : g > f}) \in Nat
          /\ Cardinality({g \in kept : g > f}) <= Cardinality({g \in left : g > f})
      BY <2>2, <2>3, MoreAreNewer DEF BackupInv
    <3> QED
      BY <3>1, <3>2
  <2>5. EnoughKept'
    BY <1>1, <2>1, <2>4 DEF EnoughKept, left
  <2> QED
    BY <1>2, <2>5 DEF BackupInv
<1> QED
  BY <1>3, <1>4

LEMMA BackupInvInit == ScheduleInit(ScheduleRegimes) => BackupInv
<1> SUFFICES ASSUME ScheduleInit(ScheduleRegimes) PROVE BackupInv
  OBVIOUS
<1>1. /\ files = {} /\ made = 0 /\ prune = NoPrune /\ backupJob = RegisterBackup
      /\ backupSetting \in [enabled : BOOLEAN, keep : Int]
  <2>1. \/ backupSetting \in [enabled : BOOLEAN, keep : KeepSettings]
        \/ backupSetting = [enabled |-> FALSE, keep |-> 0]
    BY DEF ScheduleInit
  <2>2. backupSetting \in [enabled : BOOLEAN, keep : Int]
    <3>1. CASE backupSetting \in [enabled : BOOLEAN, keep : KeepSettings]
      BY <3>1, ScheduleAssumption
    <3>2. CASE backupSetting = [enabled |-> FALSE, keep |-> 0]
      BY <3>2
    <3> QED
      BY <2>1, <3>1, <3>2
  <2> QED
    BY <2>2 DEF ScheduleInit
<1>2. prune.pc = "idle" /\ prune.todo = <<>> /\ prune \in [pc : {"idle", "listing", "deleting"}, todo : Seq(Nat)]
  BY <1>1 DEF NoPrune
<1> QED
  BY <1>1, <1>2 DEF BackupInv, BackupTypeOK, EnoughKept, RegisterBackup

LEMMA BackupInvStep == BackupInv /\ [ScheduleNext]_scheduleVars => BackupInv'
<1> SUFFICES ASSUME BackupInv, [ScheduleNext]_scheduleVars PROVE BackupInv'
  OBVIOUS
<1>1. CASE \E s \in Save : SaveSetting(s) \/ HookStep(s)
  <2>1. UNCHANGED <<backupVars, scheduleHad>>
    BY <1>1 DEF SaveSetting, HookStep, LoadSettings, RemoveJob, AddJob, regimeVars
  <2> QED
    BY <2>1, BackupUntouched
<1>2. CASE RunBackup
  <2>1. /\ backupJob # <<>> /\ prune.pc = "idle" /\ UNCHANGED <<backupSetting, backupJob>>
        /\ \/ files' = files \union {made + 1} /\ made' = made + 1 /\ prune' = [NoPrune EXCEPT !.pc = "listing"]
           \/ UNCHANGED <<files, made, prune>>
    BY <1>2 DEF RunBackup
  <2>2. prune'.pc # "deleting" /\ prune'.todo = <<>> /\ prune' \in [pc : {"idle", "listing", "deleting"}, todo : Seq(Nat)]
    BY <2>1 DEF BackupInv, BackupTypeOK, NoPrune
  <2>3. made' \in Nat /\ files' \subseteq 1..made'
    BY <2>1 DEF BackupInv, BackupTypeOK
  <2> QED
    BY <2>1, <2>2, <2>3 DEF BackupInv, BackupTypeOK, EnoughKept
<1>3. CASE BackupReturns
  <2>1. prune' = NoPrune /\ UNCHANGED <<backupSetting, backupJob, files, made>>
    BY <1>3 DEF BackupReturns
  <2>2. prune'.pc = "idle" /\ prune'.todo = <<>> /\ prune' \in [pc : {"idle", "listing", "deleting"}, todo : Seq(Nat)]
    BY <2>1 DEF NoPrune
  <2> QED
    BY <2>1, <2>2 DEF BackupInv, BackupTypeOK, EnoughKept
<1>4. CASE RestartHub
  <2>1. /\ prune' = NoPrune /\ UNCHANGED <<backupSetting, files, made>>
        /\ backupJob' = IF backupSetting.enabled THEN <<backupSetting.keep>> ELSE <<>>
    BY <1>4 DEF RestartHub, RegisterBackup
  <2>2. prune'.pc = "idle" /\ prune'.todo = <<>> /\ prune' \in [pc : {"idle", "listing", "deleting"}, todo : Seq(Nat)]
    BY <2>1 DEF NoPrune
  <2>3. backupJob' = <<>> \/ \E keep \in Int : backupJob' = <<keep>>
    BY <2>1 DEF BackupInv, BackupTypeOK
  <2> QED
    BY <2>1, <2>2, <2>3 DEF BackupInv, BackupTypeOK, EnoughKept
<1>5. CASE UNCHANGED scheduleVars
  <2>1. UNCHANGED <<backupVars, scheduleHad>>
    BY <1>5 DEF scheduleVars, regimeVars
  <2> QED
    BY <2>1, BackupUntouched
<1> QED
  BY <1>1, <1>2, <1>3, <1>4, <1>5, ListBackupsKeeps, DeleteBackupKeeps, AdminKeeps
     DEF ScheduleNext, BackupStep

\* A scheduled run never costs a good backup (runBackup, pruneBackups): a file goes only
\* while as many newer ones as are to be kept are there, unless the admin deletes
\* files under a run's hands; and a run that nothing disturbed leaves no more than those,
\* for every number of backups, every backup_keep and restarts at any point.
THEOREM NewestBackupsKeptAlways == ScheduleSpec => NewestBackupsKept
<1> DEFINE Spares == \A f \in files \ files' :
                        prune.todo # <<>> /\ prune'.todo = Tail(prune.todo) /\ ~meddled =>
                            /\ Cardinality({g \in files' : g > f}) >= backupJob[1]
                            /\ backupJob[1] > 0
           Bounds == BackupReturns /\ scheduleHad = {} /\ backupJob[1] > 0 =>
                        Cardinality(files) <= backupJob[1]
<1>1. BackupInv /\ [ScheduleNext]_scheduleVars => [Spares]_scheduleVars
  <2> SUFFICES ASSUME BackupInv, ScheduleNext, NEW f \in files \ files',
                      prune.todo # <<>>, prune'.todo = Tail(prune.todo), ~meddled
               PROVE  Cardinality({g \in files' : g > f}) >= backupJob[1] /\ backupJob[1] > 0
    OBVIOUS
  <2>1. DeleteBackup
    <3>1. ~UNCHANGED files
      OBVIOUS
    <3>2. ~UNCHANGED prune
      <4> SUFFICES ASSUME prune' = prune PROVE FALSE
        OBVIOUS
      <4>1. prune.todo \in Seq(Nat)
        BY DEF BackupInv, BackupTypeOK
      <4>2. Len(Tail(prune.todo)) = Len(prune.todo) - 1 /\ Len(prune.todo) \in Nat
        BY <4>1, Elements
      <4>3. Tail(prune.todo) = prune.todo
        OBVIOUS
      <4>4. Len(prune.todo) = Len(prune.todo) - 1
        BY <4>2, <4>3
      <4> QED
        BY <4>2, <4>4
    <3>3. ~RunBackup
      BY <3>1 DEF RunBackup
    <3> QED
      BY <3>1, <3>2, <3>3 DEF ScheduleNext, SaveSetting, HookStep, LoadSettings, RemoveJob, AddJob, BackupStep,
         ListBackups, BackupReturns, AdminBackups, RestartHub, backupVars
  <2>2. /\ prune.pc = "deleting" /\ Head(prune.todo) \in ToDelete
        /\ files' = files \ {Head(prune.todo)} /\ f = Head(prune.todo)
    BY <2>1, DeleteTakes
  <2>3. /\ backupJob[1] > 0 /\ backupJob[1] \in Int
        /\ Cardinality({g \in files \ ToDelete : g > f}) >= backupJob[1]
    <3>1. backupJob # <<>>
      BY <2>2 DEF BackupInv, BackupTypeOK
    <3>2. PICK keep \in Int : backupJob = <<keep>>
      BY <3>1 DEF BackupInv, BackupTypeOK
    <3>3. f \in ToDelete
      BY <2>2
    <3> QED
      BY <2>2, <3>2, <3>3 DEF BackupInv, EnoughKept
  <2>4. IsFiniteSet(files') /\ files \ ToDelete \subseteq files'
    BY <2>2, FilesFinite, FS_RemoveElement DEF BackupInv
  <2>5. /\ Cardinality({g \in files \ ToDelete : g > f}) \in Nat /\ Cardinality({g \in files' : g > f}) \in Nat
        /\ Cardinality({g \in files \ ToDelete : g > f}) <= Cardinality({g \in files' : g > f})
    BY <2>4, MoreAreNewer DEF BackupInv
  <2> QED
    BY <2>3, <2>5
<1>2. BackupInv /\ [ScheduleNext]_scheduleVars => [Bounds]_scheduleVars
  <2> SUFFICES ASSUME BackupInv, BackupReturns, scheduleHad = {}, backupJob[1] > 0
               PROVE  Cardinality(files) <= backupJob[1]
    OBVIOUS
  <2>1. prune.pc = "deleting" /\ prune.todo = <<>>
    BY DEF BackupReturns
  <2>2. ToDelete = {}
    BY <2>1 DEF ToDelete
  <2>3. files \ ToDelete = files
    BY <2>2
  <2> QED
    BY <2>1, <2>3 DEF BackupInv, EnoughKept
<1> QED
  BY <1>1, <1>2, BackupInvInit, BackupInvStep, PTL DEF ScheduleSpec, NewestBackupsKept
-----------------------------------------------------------------------------
(* Image updates *)

ImageRow == [local : Nat, remote : Nat, update : BOOLEAN, at : Nat]
ImageReport == UNION {[D -> SUBSET ImageRow] : D \in SUBSET Container}

ImageTypeOK ==
    /\ tick \in Nat /\ pushed \in Seq(Nat)
    /\ image \in [Container -> Nat] /\ exists \subseteq Container
    /\ cache \in [known : BOOLEAN, digest : Nat, checkedAt : Nat]
    /\ outbox \in Seq(ImageReport) /\ shown \in [Container -> ImageRow]

\* The registry still served digest d at time t.
ServedUntil(d, t) == d \in 1..(Len(pushed) - 1) => pushed[d + 1] >= t

HonestRow(c, u) ==
    /\ u.local = image[c] /\ u.local # 0 /\ u.at <= tick
    /\ u.remote # 0 => (u.update <=> u.remote # u.local)
    /\ u.update => u.remote # 0
    /\ ServedUntil(u.remote, u.at - DigestTTL)

\* The cached digest was the registry's when it was looked up, and what is on its way
\* to the hub or stored there is honest of a container whose image stays the same.
ImageInv ==
    /\ cache.checkedAt <= tick /\ ServedUntil(cache.digest, cache.checkedAt)
    /\ \A n \in 1..Len(outbox) : \A c \in DOMAIN outbox[n] :
         c \in exists /\ \A u \in outbox[n][c] : HonestRow(c, u)
    /\ \A c \in Container : shown[c] # NotShown => c \in exists /\ HonestRow(c, shown[c])

\* What every step does to the clock, the registry and the containers.
LEMMA ImageMoves ==
    ASSUME ImageTypeOK, [ImageNext]_imageVars
    PROVE  /\ tick' \in Nat /\ tick' >= tick
           /\ image' \in [Container -> Nat] /\ exists \subseteq exists' /\ exists' \subseteq Container
           /\ \A c \in exists : image'[c] = image[c]
           /\ pushed' \in Seq(Nat) /\ Len(pushed) \in Nat
           /\ \/ pushed' = pushed
              \/ /\ Len(pushed') = Len(pushed) + 1 /\ pushed'[Len(pushed) + 1] = tick
                 /\ \A i \in 1..Len(pushed) : pushed'[i] = pushed[i]
<1>0. Len(pushed) \in Nat
  BY Elements DEF ImageTypeOK
<1>1. CASE PushImage
  BY <1>0, <1>1, Elements DEF PushImage, ImageTypeOK
<1>2. CASE ImageTick
  BY <1>0, <1>2 DEF ImageTick, ImageTypeOK
<1>3. ASSUME NEW c \in Container, RunContainer(c)
      PROVE  /\ image' \in [Container -> Nat] /\ exists' = exists \union {c}
             /\ \A d \in exists : image'[d] = image[d]
             /\ UNCHANGED <<tick, pushed>>
  BY <1>0, <1>3 DEF RunContainer, ImageTypeOK
<1>4. CASE CollectImages \/ IngestContainers \/ RestartCollector \/ UNCHANGED imageVars
  <2>1. UNCHANGED <<tick, pushed, image, exists>>
    BY <1>4 DEF CollectImages, IngestContainers, RestartCollector, imageVars
  <2> QED
    BY <1>0, <2>1 DEF ImageTypeOK
<1>5. CASE \E c \in Container : RunContainer(c)
  BY <1>0, <1>3, <1>5 DEF ImageTypeOK
<1> QED
  BY <1>1, <1>2, <1>4, <1>5 DEF ImageNext

LEMMA ServedStays ==
    ASSUME ImageTypeOK, [ImageNext]_imageVars, NEW d \in Nat, NEW t \in Int, t <= tick, ServedUntil(d, t)
    PROVE  ServedUntil(d, t)'
<1>1. CASE pushed' = pushed
  BY <1>1 DEF ServedUntil
<1>2. CASE /\ Len(pushed') = Len(pushed) + 1 /\ pushed'[Len(pushed) + 1] = tick
           /\ \A i \in 1..Len(pushed) : pushed'[i] = pushed[i]
  <2> SUFFICES ASSUME d \in 1..(Len(pushed') - 1) PROVE pushed'[d + 1] >= t
    BY DEF ServedUntil
  <2>0. Len(pushed) \in Nat
    BY ImageMoves
  <2>1. CASE d = Len(pushed)
    BY <1>2, <2>1 DEF ImageTypeOK
  <2>2. CASE d # Len(pushed)
    <3>1. d \in 1..(Len(pushed) - 1) /\ d + 1 \in 1..Len(pushed)
      BY <1>2, <2>0, <2>2
    <3> QED
      BY <1>2, <3>1 DEF ServedUntil
  <2> QED
    BY <2>1, <2>2
<1> QED
  BY <1>1, <1>2, ImageMoves

LEMMA ServedEarlier ==
    ASSUME ImageTypeOK, NEW d, NEW t \in Int, NEW u \in Int, u <= t, ServedUntil(d, t)
    PROVE  ServedUntil(d, u)
<1> SUFFICES ASSUME d \in 1..(Len(pushed) - 1) PROVE pushed[d + 1] >= u
  BY DEF ServedUntil
<1>1. Len(pushed) \in Nat /\ \A i \in 1..Len(pushed) : pushed[i] \in Nat
  BY Elements DEF ImageTypeOK
<1>2. pushed[d + 1] >= t /\ d + 1 \in 1..Len(pushed)
  BY <1>1 DEF ServedUntil
<1> QED
  BY <1>1, <1>2

LEMMA HonestStays ==
    ASSUME ImageTypeOK, [ImageNext]_imageVars, NEW c \in exists, NEW u \in ImageRow, HonestRow(c, u)
    PROVE  HonestRow(c, u)'
<1>1. /\ u.remote \in Nat /\ u.at \in Nat /\ u.at - DigestTTL \in Int /\ u.at - DigestTTL <= tick
      /\ tick \in Nat
  BY ImageAssumption DEF ImageRow, HonestRow, ImageTypeOK
<1>2. ServedUntil(u.remote, u.at - DigestTTL)'
  BY <1>1, ServedStays DEF HonestRow
<1>3. image'[c] = image[c] /\ tick' \in Nat /\ tick' >= tick
  BY ImageMoves
<1> QED
  BY <1>1, <1>2, <1>3 DEF HonestRow
LEMMA ReportFacts ==
    /\ \A r \in ImageReport : DOMAIN r \subseteq Container /\ \A c \in DOMAIN r : r[c] \subseteq ImageRow
    /\ \A D \in SUBSET Container : \A f : f \in [D -> SUBSET ImageRow] => f \in ImageReport
    /\ NotShown \in ImageRow
  BY DEF ImageReport, NotShown, ImageRow

\* The cache and the rows that stay as they are.
LEMMA HonestRest ==
    ASSUME ImageTypeOK, ImageInv, [ImageNext]_imageVars
    PROVE  /\ ServedUntil(cache.digest, cache.checkedAt)' \/ cache' # cache
           /\ cache.checkedAt <= tick'
           /\ \A n \in 1..Len(outbox) : \A c \in DOMAIN outbox[n] :
                c \in exists' /\ \A u \in outbox[n][c] : HonestRow(c, u)'
           /\ \A c \in Container : shown[c] # NotShown => c \in exists' /\ \A u : u = shown[c] => HonestRow(c, u)'
<1>1. cache.digest \in Nat /\ cache.checkedAt \in Int /\ cache.checkedAt <= tick /\ tick \in Nat
  BY DEF ImageTypeOK, ImageInv
<1>2. tick' \in Nat /\ tick' >= tick /\ exists \subseteq exists'
  BY ImageMoves
<1>3. ServedUntil(cache.digest, cache.checkedAt)' \/ cache' # cache
  <2> SUFFICES ASSUME cache' = cache PROVE ServedUntil(cache.digest, cache.checkedAt)'
    OBVIOUS
  <2> DEFINE d == cache.digest
             t == cache.checkedAt
  <2>1. ServedUntil(d, t)
    BY DEF ImageInv
  <2>2. d \in Nat /\ t \in Int /\ t <= tick
    BY <1>1
  <2>3. \A i, j : i \in Nat /\ j \in Int /\ j <= tick /\ ServedUntil(i, j) => ServedUntil(i, j)'
    BY ServedStays
  <2>4. \A i, j : i = d /\ j = t => ServedUntil(i, j)'
    BY <2>1, <2>2, <2>3
  <2> QED
    BY <2>4 DEF ServedUntil
<1>4. ASSUME NEW n \in 1..Len(outbox), NEW c \in DOMAIN outbox[n]
      PROVE  c \in exists' /\ \A u \in outbox[n][c] : HonestRow(c, u)'
  <2>1. outbox[n] \in ImageReport
    BY Elements DEF ImageTypeOK
  <2>2. outbox[n][c] \subseteq ImageRow
    BY <2>1, ReportFacts
  <2>3. c \in exists /\ \A u \in outbox[n][c] : HonestRow(c, u)
    BY DEF ImageInv
  <2>4. \A u \in outbox[n][c] : HonestRow(c, u)'
    BY <2>2, <2>3, HonestStays
  <2> QED
    BY <1>2, <2>3, <2>4
<1>5. ASSUME NEW c \in Container, shown[c] # NotShown
      PROVE  c \in exists' /\ \A u : u = shown[c] => HonestRow(c, u)'
  <2>1. shown[c] \in ImageRow /\ c \in exists /\ HonestRow(c, shown[c])
    BY <1>5 DEF ImageTypeOK, ImageInv
  <2>2. \A u \in ImageRow : HonestRow(c, u) => HonestRow(c, u)'
    BY <2>1, HonestStays
  <2>3. \A u : u = shown[c] => HonestRow(c, u)'
    BY <2>1, <2>2
  <2> QED
    BY <1>2, <2>1, <2>3
<1> QED
  BY <1>1, <1>2, <1>3, <1>4, <1>5

\* A step that leaves the cache, the reports and the rows alone.
LEMMA ImageFrame ==
    ASSUME ImageTypeOK, ImageInv, [ImageNext]_imageVars, UNCHANGED <<cache, outbox, shown>>
    PROVE  ImageTypeOK' /\ ImageInv'
<1>1. ImageTypeOK'
  BY ImageMoves DEF ImageTypeOK
<1>2. ImageInv'
  BY HonestRest DEF ImageInv
<1> QED
  BY <1>1, <1>2

LEMMA CollectStep ==
    ASSUME ImageTypeOK, ImageInv, CollectImages
    PROVE  ImageTypeOK' /\ ImageInv'
<1>0. /\ UNCHANGED <<tick, pushed, image, exists, shown>> /\ [ImageNext]_imageVars
      /\ exists \subseteq Container /\ tick \in Nat
  BY DEF CollectImages, ImageNext, ImageTypeOK
<1>1. ASSUME NEW r \in ImageReport, outbox' = Append(outbox, r),
             cache' \in [known : BOOLEAN, digest : Nat, checkedAt : Nat],
             cache'.checkedAt <= tick, ServedUntil(cache'.digest, cache'.checkedAt),
             \A c \in DOMAIN r : c \in exists /\ \A u \in r[c] : HonestRow(c, u)
      PROVE  ImageTypeOK' /\ ImageInv'
  <2>1. /\ outbox' \in Seq(ImageReport) /\ Len(outbox) \in Nat /\ Len(outbox') = Len(outbox) + 1
        /\ \A n \in 1..Len(outbox) : outbox'[n] = outbox[n]
        /\ outbox'[Len(outbox) + 1] = r
    BY <1>1, Elements DEF ImageTypeOK
  <2>2. ImageTypeOK'
    BY <1>0, <1>1, <2>1 DEF ImageTypeOK
  <2>3. ASSUME NEW n \in 1..Len(outbox'), NEW c \in DOMAIN outbox'[n]
        PROVE  c \in exists /\ \A u \in outbox'[n][c] : HonestRow(c, u)
    <3>1. CASE n \in 1..Len(outbox)
      BY <2>1, <2>3, <3>1 DEF ImageInv
    <3>2. CASE n = Len(outbox) + 1
      BY <1>1, <2>1, <2>3, <3>2
    <3> QED
      BY <2>1, <3>1, <3>2
  <2>4. \A c, u : HonestRow(c, u)' <=> HonestRow(c, u)
    BY <1>0 DEF HonestRow, ServedUntil
  <2>5. ServedUntil(cache.digest, cache.checkedAt)'
    BY <1>0, <1>1 DEF ServedUntil
  <2>6. \A c \in Container : shown'[c] # NotShown => c \in exists' /\ HonestRow(c, shown[c])'
    BY <1>0 DEF ImageInv, HonestRow, ServedUntil
  <2>7. ImageInv'
    BY <1>0, <1>1, <2>3, <2>4, <2>5, <2>6 DEF ImageInv
  <2> QED
    BY <2>2, <2>7
<1>2. CASE outbox' = Append(outbox, [c \in {} |-> {}]) /\ UNCHANGED cache
  <2> DEFINE r == [c \in {} |-> {}]
  <2>0. {} \in SUBSET Container
    OBVIOUS
  <2>1. r \in [{} -> SUBSET ImageRow] /\ DOMAIN r = {}
    OBVIOUS
  <2>2. r \in ImageReport
    BY <2>0, <2>1, ReportFacts
  <2>3. /\ cache' \in [known : BOOLEAN, digest : Nat, checkedAt : Nat]
        /\ cache'.checkedAt <= tick /\ ServedUntil(cache'.digest, cache'.checkedAt)
    BY <1>2 DEF ImageTypeOK, ImageInv
  <2> HIDE DEF r
  <2> QED
    BY <1>1, <1>2, <2>1, <2>2, <2>3 DEF r
<1>3. ASSUME NEW entry \in IF \E c \in exists : image[c] # 0 THEN remoteDigest ELSE {cache},
             cache' = entry,
             outbox' = Append(outbox, [c \in exists |-> checkImageUpdate(image[c], entry.digest)])
      PROVE  ImageTypeOK' /\ ImageInv'
  <2> DEFINE r == [c \in exists |-> checkImageUpdate(image[c], entry.digest)]
  <2>0. DigestTTL \in Nat /\ Len(pushed) \in Nat
    BY ImageAssumption, Elements DEF ImageTypeOK
  <2>1. /\ entry \in [known : BOOLEAN, digest : Nat, checkedAt : Nat]
        /\ entry.checkedAt <= tick /\ ServedUntil(entry.digest, entry.checkedAt)
        /\ (\E c \in exists : image[c] # 0) => tick - entry.checkedAt <= DigestTTL
    <3>1. CASE entry \in [known : {TRUE}, digest : {0, Len(pushed)}, checkedAt : {tick}]
      <4>1. entry.digest \notin 1..(Len(pushed) - 1) /\ entry.checkedAt = tick
        BY <2>0, <3>1
      <4>2. entry \in [known : BOOLEAN, digest : Nat, checkedAt : Nat]
        <5>1. PICK d \in {0, Len(pushed)} : entry = [known |-> TRUE, digest |-> d, checkedAt |-> tick]
          BY <3>1
        <5>2. d \in Nat
          BY <2>0
        <5> QED
          BY <1>0, <5>1, <5>2
      <4> QED
        BY <1>0, <2>0, <4>1, <4>2 DEF ServedUntil
    <3>2. CASE entry = cache /\ ((\E c \in exists : image[c] # 0) => Fresh(cache))
      <4>1. cache.checkedAt \in Nat /\ (Fresh(cache) => tick - cache.checkedAt <= DigestTTL)
        BY <1>0, <2>0 DEF Fresh, ImageTypeOK
      <4> QED
        BY <3>2, <4>1 DEF ImageTypeOK, ImageInv
    <3> QED
      BY <3>1, <3>2 DEF remoteDigest
  <2>2. ASSUME NEW c \in exists, NEW u \in checkImageUpdate(image[c], entry.digest)
        PROVE  u \in ImageRow /\ HonestRow(c, u)
    <3>1. image[c] \in Nat /\ entry.digest \in Nat /\ entry.checkedAt \in Nat
      BY <1>0, <2>1 DEF ImageTypeOK
    <3>2. /\ image[c] # 0
          /\ u = [local |-> image[c], remote |-> entry.digest,
                  update |-> entry.digest # 0 /\ entry.digest # image[c], at |-> tick]
      BY <2>2 DEF checkImageUpdate
    <3>3. u.local = image[c] /\ u.remote = entry.digest /\ u.at = tick
      BY <3>2
    <3>4. u \in ImageRow
      BY <1>0, <3>1, <3>2 DEF ImageRow
    <3>5. tick - DigestTTL \in Int /\ tick - DigestTTL <= entry.checkedAt
      BY <1>0, <2>0, <2>1, <3>1, <3>2
    <3>6. ServedUntil(entry.digest, tick - DigestTTL)
      BY <2>1, <3>1, <3>5, ServedEarlier
    <3>7. ServedUntil(u.remote, u.at - DigestTTL)
      BY <3>3, <3>6
    <3>8. /\ u.local = image[c] /\ u.local # 0 /\ u.at <= tick
          /\ u.remote # 0 => (u.update <=> u.remote # u.local)
          /\ u.update => u.remote # 0
      <4>1. image[c] # 0 /\ (u.update <=> entry.digest # 0 /\ entry.digest # image[c])
        BY <3>2
      <4> QED
        BY <1>0, <3>1, <3>3, <4>1
    <3> QED
      BY <3>4, <3>7, <3>8 DEF HonestRow
  <2>3. r \in [exists -> SUBSET ImageRow] /\ DOMAIN r = exists
    BY <2>2
  <2>4. r \in ImageReport
    BY <1>0, <2>3, ReportFacts
  <2>5. \A c \in DOMAIN r : c \in exists /\ \A u \in r[c] : HonestRow(c, u)
    BY <2>2
  <2> HIDE DEF r
  <2>6. outbox' = Append(outbox, r)
    BY <1>3 DEF r
  <2> QED
    BY <1>1, <1>3, <2>1, <2>4, <2>5, <2>6
<1> QED
  BY <1>2, <1>3 DEF CollectImages
LEMMA IngestStep ==
    ASSUME ImageTypeOK, ImageInv, IngestContainers
    PROVE  ImageTypeOK' /\ ImageInv'
<1>0. /\ UNCHANGED <<tick, pushed, image, exists, cache>> /\ outbox # <<>>
      /\ outbox' = Tail(outbox)
  BY DEF IngestContainers
<1>1. PICK saved \in SUBSET DOMAIN Head(outbox) :
        shown' = [c \in Container |-> IF c \in saved THEN upsertDockerContainer(shown[c], Head(outbox)[c])
                                      ELSE shown[c]]
  BY DEF IngestContainers
<1>2. /\ Len(outbox) \in Nat /\ Len(outbox) >= 1 /\ Head(outbox) = outbox[1] /\ Head(outbox) \in ImageReport
      /\ outbox' \in Seq(ImageReport) /\ Len(outbox') = Len(outbox) - 1
      /\ \A n \in 1..Len(outbox') : outbox'[n] = outbox[n + 1]
  BY <1>0, Elements DEF ImageTypeOK
<1>3. \A c, u : HonestRow(c, u)' <=> HonestRow(c, u)
  BY <1>0 DEF HonestRow, ServedUntil
<1>4. ASSUME NEW c \in Container
      PROVE  /\ shown'[c] \in ImageRow
             /\ shown'[c] # NotShown => c \in exists /\ HonestRow(c, shown'[c])
  <2>1. shown[c] \in ImageRow /\ (shown[c] # NotShown => c \in exists /\ HonestRow(c, shown[c]))
    BY DEF ImageTypeOK, ImageInv
  <2>2. CASE shown'[c] = shown[c]
    BY <2>1, <2>2
  <2>3. CASE shown'[c] # shown[c]
    <3>1. /\ c \in DOMAIN outbox[1] /\ outbox[1][c] # {}
          /\ shown'[c] = CHOOSE u \in outbox[1][c] : TRUE
      BY <1>1, <1>2, <2>3 DEF upsertDockerContainer
    <3>2. shown'[c] \in outbox[1][c]
      BY <3>1
    <3>3. c \in exists /\ \A u \in outbox[1][c] : HonestRow(c, u)
      BY <1>2, <3>1 DEF ImageInv
    <3>4. outbox[1][c] \subseteq ImageRow
      BY <1>2, <3>1, ReportFacts
    <3> QED
      BY <3>2, <3>3, <3>4
  <2> QED
    BY <2>2, <2>3
<1>5. ImageTypeOK'
  <2>1. shown' \in [Container -> ImageRow]
    BY <1>1, <1>4
  <2> QED
    BY <1>0, <1>2, <2>1 DEF ImageTypeOK
<1>6. ASSUME NEW n \in 1..Len(outbox'), NEW c \in DOMAIN outbox'[n]
      PROVE  c \in exists /\ \A u \in outbox'[n][c] : HonestRow(c, u)
  <2>1. n + 1 \in 1..Len(outbox) /\ outbox'[n] = outbox[n + 1]
    BY <1>2
  <2> QED
    BY <1>6, <2>1 DEF ImageInv
<1>7. ASSUME NEW c \in Container, shown'[c] # NotShown PROVE c \in exists' /\ HonestRow(c, shown[c])'
  BY <1>0, <1>4, <1>7 DEF HonestRow, ServedUntil
<1>8. (cache.checkedAt <= tick)' /\ ServedUntil(cache.digest, cache.checkedAt)'
  BY <1>0 DEF ImageInv, ServedUntil
<1>9. ImageInv'
  BY <1>0, <1>3, <1>6, <1>7, <1>8 DEF ImageInv
<1> QED
  BY <1>5, <1>9

LEMMA RestartCollectorStep ==
    ASSUME ImageTypeOK, ImageInv, RestartCollector
    PROVE  ImageTypeOK' /\ ImageInv'
<1>1. UNCHANGED <<tick, pushed, image, exists, outbox, shown>> /\ [ImageNext]_imageVars
  BY DEF RestartCollector, ImageNext
<1>2. cache' = [known |-> FALSE, digest |-> 0, checkedAt |-> 0]
  BY DEF RestartCollector
<1>3. ImageTypeOK'
  BY <1>1, <1>2 DEF ImageTypeOK
<1>4. (cache.checkedAt <= tick)' /\ ServedUntil(cache.digest, cache.checkedAt)'
  BY <1>1, <1>2 DEF ServedUntil, ImageTypeOK
<1>5. ImageInv'
  BY <1>1, <1>4, HonestRest DEF ImageInv
<1> QED
  BY <1>3, <1>5

LEMMA ImageImplies ==
    ASSUME ImageTypeOK, ImageInv
    PROVE  BadgeIsHonest
<1> SUFFICES ASSUME NEW c \in Container
             PROVE  LET s == shown[c] IN
                    /\ s # NotShown => s.local = image[c] /\ s.local # 0
                    /\ s.remote # 0 => (s.update <=> s.remote # s.local)
                    /\ s.update => /\ s.remote # 0
                                   /\ s.remote < Len(pushed) => pushed[s.remote + 1] >= s.at - DigestTTL
  BY DEF BadgeIsHonest
<1>1. CASE shown[c] = NotShown
  BY <1>1 DEF NotShown
<1>2. CASE shown[c] # NotShown
  <2>1. HonestRow(c, shown[c]) /\ shown[c].remote \in Nat /\ Len(pushed) \in Nat
    BY <1>2, Elements DEF ImageInv, ImageTypeOK, ImageRow
  <2>2. shown[c].remote # 0 /\ shown[c].remote < Len(pushed) => shown[c].remote \in 1..(Len(pushed) - 1)
    BY <2>1
  <2> QED
    BY <2>1, <2>2 DEF HonestRow, ServedUntil
<1> QED
  BY <1>1, <1>2

\* The update badge is honest for every number of containers, every length of the cache
\* and any interleaving of pushes, collections, restarts and partly saved reports: it
\* names the container's own digest and one the registry served at most the cache's time
\* before the report (checkImageUpdate, remoteDigest, upsertDockerContainer).
THEOREM BadgeIsHonestAlways == ImageSpec => []BadgeIsHonest
<1>1. ImageInit => ImageTypeOK /\ ImageInv
  <2> SUFFICES ASSUME ImageInit PROVE ImageTypeOK /\ ImageInv
    OBVIOUS
  <2>1. ImageTypeOK
    BY ReportFacts DEF ImageInit, ImageTypeOK
  <2>2. ImageInv
    BY DEF ImageInit, ImageInv, ServedUntil
  <2> QED
    BY <2>1, <2>2
<1>2. ImageTypeOK /\ ImageInv /\ [ImageNext]_imageVars => ImageTypeOK' /\ ImageInv'
  <2> SUFFICES ASSUME ImageTypeOK, ImageInv, [ImageNext]_imageVars PROVE ImageTypeOK' /\ ImageInv'
    OBVIOUS
  <2>1. CASE PushImage \/ ImageTick \/ (\E c \in Container : RunContainer(c)) \/ UNCHANGED imageVars
    <3>1. UNCHANGED <<cache, outbox, shown>>
      BY <2>1 DEF PushImage, ImageTick, RunContainer, imageVars
    <3> QED
      BY <3>1, ImageFrame
  <2> QED
    BY <2>1, CollectStep, IngestStep, RestartCollectorStep DEF ImageNext
<1>3. ImageTypeOK /\ ImageInv => BadgeIsHonest
  BY ImageImplies
<1> QED
  BY <1>1, <1>2, <1>3, PTL DEF ImageSpec
-----------------------------------------------------------------------------
(* Notifications *)

KeyStage == {"none", "lock", "read", "private", "public", "have", "failed"}
GoState ==
    [pc : {"idle", "next", "send", "push", "key", "test"}, n : Nat, kind : {"", "alert", "report"},
     todo : SUBSET Channel, at : SUBSET Channel, subs : SUBSET Subscription, key : KeyStage,
     pair : Nat, late : BOOLEAN, tried : SUBSET Channel, steady : SUBSET Channel]

NotifyTypeOK ==
    /\ channelState \in [Channel -> {"enabled", "disabled", "deleted"}]
    /\ job \in GoState /\ request \in GoState
    /\ public \in Nat /\ private \in Nat /\ pairs \in Nat
    /\ subscribed \in [Subscription -> Nat]

Holding(v) == v.key \in {"read", "private", "public"}

\* Who makes a pair found no public key, and has stored the private one first; who has
\* keys has the stored ones.
KeyGood(v, pub, priv) ==
    /\ v.key \in {"private", "public"} => pub = 0 /\ v.pair # 0
    /\ v.key = "public" => priv = v.pair
    /\ v.key = "have" => pub # 0 /\ priv = pub /\ v.pair = pub

PairGood(pub, priv, browsers) ==
    /\ pub # 0 => priv = pub
    /\ \A s \in Subscription : browsers[s] # 0 => pub # 0 /\ browsers[s] = priv

\* The mutex is held by the goroutine that is between the read and the second save, and
\* a goroutine asks for keys only while it has a message to send or a key to answer with.
KeyInv ==
    /\ keyLock = "job" <=> Holding(job)
    /\ keyLock = "request" <=> Holding(request)
    /\ job.key # "none" => job.pc = "push" /\ job.subs # {}
    /\ request.pc = "idle" \/ (request.pc = "test" /\ request.subs = {}) => request.key = "none"
    /\ "read" \notin troubles =>
         /\ PairGood(public, private, subscribed)
         /\ KeyGood(job, public, private) /\ KeyGood(request, public, private)

\* What a dispatch owes: the channels that were enabled all the time are to come, at
\* work or tried, if they are of use for its kind.
TriedInv ==
    /\ job.pc = "next" => job.at = {}
    /\ job.pc # "idle" =>
         \A c \in job.steady :
            /\ channelState[c] = "enabled"
            /\ (IF job.kind = "report" THEN c \in Email ELSE c \notin Unregistered) =>
                  c \in job.todo \union job.at \union job.tried

SameTask(v2, v) ==
    /\ v2.pc = v.pc /\ v2.kind = v.kind /\ v2.todo = v.todo /\ v2.at = v.at
    /\ v2.tried = v.tried /\ v2.steady = v.steady

\* The records the goroutines move through.
LEMMA IdleFacts ==
    ASSUME NEW n \in Nat
    PROVE  /\ Idle(n) \in GoState /\ Idle(n).pc = "idle" /\ Idle(n).key = "none" /\ Idle(n).subs = {}
           /\ Idle(n).n = n
  BY DEF Idle, GoState, KeyStage

WithKey(v, k) == [v EXCEPT !.key = k]
WithPair(v, k, p) == [v EXCEPT !.key = k, !.pair = p]
WithSubs(v, k, S) == [v EXCEPT !.subs = S, !.key = k]

LEMMA KeyMoves ==
    ASSUME NEW v \in GoState, NEW k \in KeyStage
    PROVE  /\ WithKey(v, k) \in GoState /\ SameTask(WithKey(v, k), v)
           /\ WithKey(v, k).key = k /\ WithKey(v, k).pair = v.pair /\ WithKey(v, k).subs = v.subs
  BY DEF GoState, SameTask, WithKey

LEMMA PairMoves ==
    ASSUME NEW v \in GoState, NEW k \in KeyStage, NEW p \in Nat
    PROVE  /\ WithPair(v, k, p) \in GoState /\ SameTask(WithPair(v, k, p), v)
           /\ WithPair(v, k, p).key = k /\ WithPair(v, k, p).pair = p /\ WithPair(v, k, p).subs = v.subs
  BY DEF GoState, SameTask, WithPair

LEMMA SubsMove ==
    ASSUME NEW v \in GoState, NEW k \in KeyStage, NEW S \in SUBSET Subscription
    PROVE  /\ WithSubs(v, k, S) \in GoState /\ SameTask(WithSubs(v, k, S), v)
           /\ WithSubs(v, k, S).key = k /\ WithSubs(v, k, S).subs = S /\ WithSubs(v, k, S).pair = v.pair
  BY DEF GoState, SameTask, WithSubs

LEMMA Stages ==
    /\ "none" \in KeyStage /\ "lock" \in KeyStage /\ "read" \in KeyStage /\ "private" \in KeyStage
    /\ "public" \in KeyStage /\ "have" \in KeyStage /\ "failed" \in KeyStage
  BY DEF KeyStage

LEMMA NotifyNumbers ==
    ASSUME NotifyTypeOK
    PROVE  /\ public \in Nat /\ private \in Nat /\ pairs \in Nat /\ pairs + 1 \in Nat /\ pairs + 1 # 0
           /\ \A v \in GoState : v.pair \in Nat /\ v.n \in Nat /\ v.key \in KeyStage
           /\ \A s \in Subscription : subscribed[s] \in Nat
<1>1. public \in Nat /\ private \in Nat /\ pairs \in Nat
  BY DEF NotifyTypeOK
<1>2. \A v \in GoState : v.pair \in Nat /\ v.n \in Nat /\ v.key \in KeyStage
  BY DEF GoState
<1>3. \A s \in Subscription : subscribed[s] \in Nat
  BY DEF NotifyTypeOK
<1> QED
  BY <1>1, <1>2, <1>3

\* One step of EnsureVAPIDKeys, whoever takes it.
LEMMA EnsureCases ==
    ASSUME NEW g, NEW v, NEW v2, EnsureVAPIDKeys(g, v, v2)
    PROVE  \/ /\ v.key = "lock" /\ v2 = WithKey(v, "read") /\ keyLock = "" /\ keyLock' = g
              /\ UNCHANGED <<public, private, pairs, troubles>>
           \/ /\ v.key = "read" /\ v2 = WithPair(v, "have", private) /\ keyLock' = ""
              /\ public # 0 /\ private # 0 /\ UNCHANGED <<public, private, pairs, troubles>>
           \/ /\ v.key = "read" /\ v2 = WithPair(v, "private", pairs + 1) /\ keyLock' = keyLock
              /\ UNCHANGED <<public, private>> /\ pairs' = pairs + 1
              /\ \/ (public = 0 \/ private = 0) /\ troubles' = troubles
                 \/ troubles' = troubles \union {"read"}
           \/ /\ v.key = "private" /\ v2 = WithKey(v, "public") /\ keyLock' = keyLock
              /\ private' = v.pair /\ UNCHANGED <<public, pairs, troubles>>
           \/ /\ v.key = "private" /\ v2 = WithKey(v, "failed") /\ keyLock' = ""
              /\ UNCHANGED <<public, private, pairs>> /\ troubles' = troubles \union {"save"}
           \/ /\ v.key = "public" /\ v2 = WithKey(v, "have") /\ keyLock' = ""
              /\ public' = v.pair /\ UNCHANGED <<private, pairs, troubles>>
           \/ /\ v.key = "public" /\ v2 = WithKey(v, "failed") /\ keyLock' = ""
              /\ UNCHANGED <<public, private, pairs>> /\ troubles' = troubles \union {"save"}
<1>1. CASE Lock(g, v, v2)
  BY <1>1 DEF Lock, WithKey, troubleVars
<1>2. CASE ReadKeys(v, v2)
  BY <1>2 DEF ReadKeys, WithPair, Unlocked, Trouble, troubleVars
<1>3. CASE StorePrivate(v, v2)
  BY <1>3 DEF StorePrivate, WithKey, Unlocked, Trouble, troubleVars
<1>4. CASE StorePublic(v, v2)
  BY <1>4 DEF StorePublic, WithKey, Unlocked, Trouble, troubleVars
<1> QED
  BY <1>1, <1>2, <1>3, <1>4 DEF EnsureVAPIDKeys

LEMMA EnsureKeeps ==
    ASSUME NotifyTypeOK, NEW g, NEW v \in GoState, NEW v2, EnsureVAPIDKeys(g, v, v2)
    PROVE  /\ v2 \in GoState /\ SameTask(v2, v) /\ v2.subs = v.subs
           /\ v.key \in {"lock", "read", "private", "public"} /\ v2.key # "none"
           /\ public' \in Nat /\ private' \in Nat /\ pairs' \in Nat
           /\ troubles \subseteq troubles'
<1>1. ASSUME NEW k \in KeyStage, k # "none", v2 = WithKey(v, k)
      PROVE  v2 \in GoState /\ SameTask(v2, v) /\ v2.subs = v.subs /\ v2.key # "none"
  BY <1>1, KeyMoves
<1>2. ASSUME NEW k \in KeyStage, k # "none", NEW p \in Nat, v2 = WithPair(v, k, p)
      PROVE  v2 \in GoState /\ SameTask(v2, v) /\ v2.subs = v.subs /\ v2.key # "none"
  BY <1>2, PairMoves
<1>3. v2 \in GoState /\ SameTask(v2, v) /\ v2.subs = v.subs /\ v2.key # "none"
  BY <1>1, <1>2, EnsureCases, Stages, NotifyNumbers
<1>4. /\ v.key \in {"lock", "read", "private", "public"}
      /\ public' \in Nat /\ private' \in Nat /\ pairs' \in Nat /\ troubles \subseteq troubles'
  BY EnsureCases, NotifyNumbers
<1> QED
  BY <1>3, <1>4

\* EnsureVAPIDKeys of goroutine g, while goroutine h is elsewhere.
LEMMA EnsureAgrees ==
    ASSUME NotifyTypeOK, NEW g \in Caller, NEW h \in Caller, g # h,
           NEW v \in GoState, NEW w \in GoState, NEW v2, EnsureVAPIDKeys(g, v, v2),
           keyLock = g <=> Holding(v), keyLock = h <=> Holding(w), UNCHANGED subscribed,
           "read" \notin troubles =>
             PairGood(public, private, subscribed) /\ KeyGood(v, public, private) /\ KeyGood(w, public, private)
    PROVE  /\ keyLock' = g <=> Holding(v2)
           /\ keyLock' = h <=> Holding(w)
           /\ "read" \notin troubles' =>
                /\ PairGood(public', private', subscribed')
                /\ KeyGood(v2, public', private') /\ KeyGood(w, public', private')
<1>0. g # "" /\ h # ""
  BY DEF Caller
<1>1. \A k \in KeyStage : v2 = WithKey(v, k) => v2.key = k /\ v2.pair = v.pair
  BY KeyMoves
<1>2. \A k \in KeyStage : \A p \in Nat : v2 = WithPair(v, k, p) => v2.key = k /\ v2.pair = p
  BY PairMoves
<1>3. CASE v.key = "lock" /\ v2 = WithKey(v, "read") /\ keyLock = "" /\ keyLock' = g
           /\ UNCHANGED <<public, private, pairs, troubles>>
  BY <1>0, <1>1, <1>3, Stages DEF Holding, KeyGood
<1>4. CASE /\ v.key = "read" /\ v2 = WithPair(v, "have", private) /\ keyLock' = ""
           /\ public # 0 /\ private # 0 /\ UNCHANGED <<public, private, pairs, troubles>>
  BY <1>0, <1>2, <1>4, Stages, NotifyNumbers DEF Holding, KeyGood, PairGood
<1>5. CASE /\ v.key = "read" /\ v2 = WithPair(v, "private", pairs + 1) /\ keyLock' = keyLock
           /\ UNCHANGED <<public, private>>
           /\ \/ (public = 0 \/ private = 0) /\ troubles' = troubles
              \/ troubles' = troubles \union {"read"}
  <2>1. v2.key = "private" /\ v2.pair = pairs + 1
    BY <1>2, <1>5, Stages, NotifyNumbers
  <2> QED
    BY <1>0, <1>5, <2>1, NotifyNumbers DEF Holding, KeyGood, PairGood
<1>6. CASE /\ v.key = "private" /\ v2 = WithKey(v, "public") /\ keyLock' = keyLock
           /\ private' = v.pair /\ UNCHANGED <<public, pairs, troubles>>
  <2>1. v2.key = "public" /\ v2.pair = v.pair
    BY <1>1, <1>6, Stages
  <2>2. ~Holding(w) /\ keyLock = g
    BY <1>6 DEF Holding
  <2> QED
    BY <1>0, <1>6, <2>1, <2>2 DEF Holding, KeyGood, PairGood
<1>7. CASE /\ v.key \in {"private", "public"} /\ v2 = WithKey(v, "failed") /\ keyLock' = ""
           /\ UNCHANGED <<public, private, pairs>> /\ troubles' = troubles \union {"save"}
  <2>1. v2.key = "failed"
    BY <1>1, <1>7, Stages
  <2> QED
    BY <1>0, <1>7, <2>1 DEF Holding, KeyGood
<1>8. CASE /\ v.key = "public" /\ v2 = WithKey(v, "have") /\ keyLock' = ""
           /\ public' = v.pair /\ UNCHANGED <<private, pairs, troubles>>
  <2>1. v2.key = "have" /\ v2.pair = v.pair
    BY <1>1, <1>8, Stages
  <2>2. ~Holding(w) /\ keyLock = g
    BY <1>8 DEF Holding
  <2> QED
    BY <1>0, <1>8, <2>1, <2>2 DEF Holding, KeyGood, PairGood
<1> DEFINE locks == v.key = "lock" /\ v2 = WithKey(v, "read") /\ keyLock = "" /\ keyLock' = g
                    /\ UNCHANGED <<public, private, pairs, troubles>>
           finds == /\ v.key = "read" /\ v2 = WithPair(v, "have", private) /\ keyLock' = ""
                    /\ public # 0 /\ private # 0 /\ UNCHANGED <<public, private, pairs, troubles>>
           makes == /\ v.key = "read" /\ v2 = WithPair(v, "private", pairs + 1) /\ keyLock' = keyLock
                    /\ UNCHANGED <<public, private>>
                    /\ \/ (public = 0 \/ private = 0) /\ troubles' = troubles
                       \/ troubles' = troubles \union {"read"}
           storesFirst == /\ v.key = "private" /\ v2 = WithKey(v, "public") /\ keyLock' = keyLock
                          /\ private' = v.pair /\ UNCHANGED <<public, pairs, troubles>>
           fails == /\ v.key \in {"private", "public"} /\ v2 = WithKey(v, "failed") /\ keyLock' = ""
                    /\ UNCHANGED <<public, private, pairs>> /\ troubles' = troubles \union {"save"}
           storesSecond == /\ v.key = "public" /\ v2 = WithKey(v, "have") /\ keyLock' = ""
                           /\ public' = v.pair /\ UNCHANGED <<private, pairs, troubles>>
<1>9. locks \/ finds \/ makes \/ storesFirst \/ fails \/ storesSecond
  BY EnsureCases
<1> QED
  BY <1>3, <1>4, <1>5, <1>6, <1>7, <1>8, <1>9
LEMMA SendMoves ==
    ASSUME NotifyTypeOK, NEW v \in GoState, NEW v2, NEW s \in Subscription, SendToSubscription(v, v2, s)
    PROVE  /\ v2 \in GoState /\ SameTask(v2, v)
           /\ v.key \in {"have", "failed"} /\ v2.key \in {"none", "lock"}
           /\ v2.subs = {} <=> v2.key = "none"
           /\ subscribed' \in [Subscription -> Nat]
           /\ \A t \in Subscription : subscribed'[t] = subscribed[t] \/ subscribed'[t] = 0
<1>1. PICK k \in {"none", "lock"} :
        v2 = WithSubs(v, k, v.subs \ {s}) /\ (k = "none" <=> v.subs = {s})
  BY DEF SendToSubscription, WithSubs
<1>2. s \in v.subs /\ v.subs \ {s} \in SUBSET Subscription /\ v.key \in {"have", "failed"}
  BY DEF SendToSubscription, GoState
<1>3. v2 \in GoState /\ SameTask(v2, v) /\ v2.key = k /\ v2.subs = v.subs \ {s}
  BY <1>1, <1>2, SubsMove, Stages
<1>4. v.subs \ {s} = {} <=> v.subs = {s}
  BY <1>2
<1>5. /\ subscribed' \in [Subscription -> Nat]
      /\ \A t \in Subscription : subscribed'[t] = subscribed[t] \/ subscribed'[t] = 0
  BY DEF SendToSubscription, NotifyTypeOK
<1> QED
  BY <1>1, <1>2, <1>3, <1>4, <1>5

LEMMA FewerBrowsers ==
    ASSUME NEW pub, NEW priv, NEW b, NEW b2, PairGood(pub, priv, b),
           \A t \in Subscription : b2[t] = b[t] \/ b2[t] = 0
    PROVE  PairGood(pub, priv, b2)
  BY DEF PairGood

\* The dispatching goroutine looks for keys, or sends to one subscription.
LEMMA PushStepInv ==
    ASSUME NotifyTypeOK, KeyInv, TriedInv, PushStep
    PROVE  NotifyTypeOK' /\ KeyInv' /\ TriedInv'
<1>0. job \in GoState /\ request \in GoState /\ "job" \in Caller /\ "request" \in Caller /\ job.pc = "push"
  BY DEF NotifyTypeOK, Caller, PushStep
<1>1. UNCHANGED <<channelState, request>>
  BY DEF PushStep
<1>2. ASSUME job' \in GoState, SameTask(job', job) PROVE TriedInv'
  BY <1>1, <1>2 DEF TriedInv, SameTask
<1>3. CASE EnsureVAPIDKeys("job", job, job') /\ UNCHANGED subscribed
  <2>1. /\ job' \in GoState /\ SameTask(job', job) /\ job'.subs = job.subs
        /\ job.key # "none" /\ job'.key # "none"
        /\ public' \in Nat /\ private' \in Nat /\ pairs' \in Nat
    BY <1>0, <1>3, EnsureKeeps
  <2>2. NotifyTypeOK'
    BY <1>1, <1>3, <2>1 DEF NotifyTypeOK
  <2>3. /\ keyLock' = "job" <=> Holding(job')
        /\ keyLock' = "request" <=> Holding(request)
        /\ "read" \notin troubles' =>
             /\ PairGood(public', private', subscribed')
             /\ KeyGood(job', public', private') /\ KeyGood(request, public', private')
    <3>1. /\ keyLock = "job" <=> Holding(job)
          /\ keyLock = "request" <=> Holding(request)
          /\ "read" \notin troubles =>
               /\ PairGood(public, private, subscribed)
               /\ KeyGood(job, public, private) /\ KeyGood(request, public, private)
      BY DEF KeyInv
    <3> QED
      BY <1>0, <1>3, <3>1, EnsureAgrees
  <2>4. job'.pc = "push" /\ job'.subs # {}
    BY <1>0, <2>1 DEF SameTask, KeyInv
  <2>5. request'.pc = "idle" \/ (request'.pc = "test" /\ request'.subs = {}) => request'.key = "none"
    BY <1>1 DEF KeyInv
  <2>6. KeyInv'
    BY <1>1, <2>3, <2>4, <2>5 DEF KeyInv
  <2> QED
    BY <1>2, <2>1, <2>2, <2>6
<1>4. ASSUME NEW s \in Subscription, SendToSubscription(job, job', s), UNCHANGED <<keyVars, troubleVars>>
      PROVE  NotifyTypeOK' /\ KeyInv' /\ TriedInv'
  <2>0. UNCHANGED <<keyLock, public, private, pairs, troubles>>
    BY <1>4 DEF keyVars, troubleVars
  <2>1. /\ job' \in GoState /\ SameTask(job', job)
        /\ job.key \in {"have", "failed"} /\ job'.key \in {"none", "lock"}
        /\ job'.subs = {} <=> job'.key = "none"
        /\ subscribed' \in [Subscription -> Nat]
        /\ \A t \in Subscription : subscribed'[t] = subscribed[t] \/ subscribed'[t] = 0
    BY <1>0, <1>4, SendMoves
  <2>2. NotifyTypeOK'
    BY <1>1, <2>0, <2>1 DEF NotifyTypeOK
  <2>3. "read" \notin troubles => PairGood(public, private, subscribed')
    BY <2>1, FewerBrowsers DEF KeyInv
  <2>4. ~Holding(job) /\ ~Holding(job') /\ KeyGood(job', public, private) /\ job'.pc = "push"
    BY <1>0, <2>1 DEF Holding, KeyGood, SameTask
  <2>5. KeyInv'
    BY <1>1, <2>0, <2>1, <2>3, <2>4 DEF KeyInv
  <2> QED
    BY <1>2, <2>1, <2>2, <2>5
<1> QED
  BY <1>3, <1>4 DEF PushStep

LEMMA RequestStepInv ==
    ASSUME NotifyTypeOK, KeyInv, TriedInv, RequestStep
    PROVE  NotifyTypeOK' /\ KeyInv' /\ TriedInv'
<1>0. job \in GoState /\ request \in GoState /\ "job" \in Caller /\ "request" \in Caller /\ request.pc # "idle"
  BY DEF NotifyTypeOK, Caller, RequestStep
<1>1. UNCHANGED <<channelState, job>>
  BY DEF RequestStep
<1>2. TriedInv'
  BY <1>1 DEF TriedInv
<1>3. CASE EnsureVAPIDKeys("request", request, request') /\ UNCHANGED subscribed
  <2>1. /\ request' \in GoState /\ SameTask(request', request) /\ request'.subs = request.subs
        /\ request.key # "none" /\ request'.key # "none"
        /\ public' \in Nat /\ private' \in Nat /\ pairs' \in Nat
    BY <1>0, <1>3, EnsureKeeps
  <2>2. NotifyTypeOK'
    BY <1>1, <1>3, <2>1 DEF NotifyTypeOK
  <2>3. /\ keyLock' = "request" <=> Holding(request')
        /\ keyLock' = "job" <=> Holding(job)
        /\ "read" \notin troubles' =>
             /\ PairGood(public', private', subscribed')
             /\ KeyGood(request', public', private') /\ KeyGood(job, public', private')
    <3>1. /\ keyLock = "job" <=> Holding(job)
          /\ keyLock = "request" <=> Holding(request)
          /\ "read" \notin troubles =>
               /\ PairGood(public, private, subscribed)
               /\ KeyGood(job, public, private) /\ KeyGood(request, public, private)
      BY DEF KeyInv
    <3> QED
      BY <1>0, <1>3, <3>1, EnsureAgrees
  <2>4. ~(request'.pc = "idle" \/ (request'.pc = "test" /\ request'.subs = {}))
    BY <1>0, <2>1 DEF SameTask, KeyInv
  <2>5. job'.key # "none" => job'.pc = "push" /\ job'.subs # {}
    BY <1>1 DEF KeyInv
  <2>6. KeyInv'
    BY <1>1, <2>3, <2>4, <2>5 DEF KeyInv
  <2> QED
    BY <1>2, <2>2, <2>6
<1>4. ASSUME NEW s \in Subscription, SendToSubscription(request, request', s),
             UNCHANGED <<keyVars, troubleVars>>
      PROVE  NotifyTypeOK' /\ KeyInv' /\ TriedInv'
  <2>0. UNCHANGED <<keyLock, public, private, pairs, troubles>>
    BY <1>4 DEF keyVars, troubleVars
  <2>1. /\ request' \in GoState /\ SameTask(request', request)
        /\ request.key \in {"have", "failed"} /\ request'.key \in {"none", "lock"}
        /\ request'.subs = {} <=> request'.key = "none"
        /\ subscribed' \in [Subscription -> Nat]
        /\ \A t \in Subscription : subscribed'[t] = subscribed[t] \/ subscribed'[t] = 0
    BY <1>0, <1>4, SendMoves
  <2>2. NotifyTypeOK'
    BY <1>1, <2>0, <2>1 DEF NotifyTypeOK
  <2>3. "read" \notin troubles => PairGood(public, private, subscribed')
    BY <2>1, FewerBrowsers DEF KeyInv
  <2>4. /\ ~Holding(request) /\ ~Holding(request') /\ KeyGood(request', public, private)
        /\ request'.pc = request.pc
    BY <1>0, <2>1 DEF Holding, KeyGood, SameTask
  <2>5. KeyInv'
    BY <1>0, <1>1, <2>0, <2>1, <2>3, <2>4 DEF KeyInv
  <2> QED
    BY <1>2, <2>2, <2>5
<1> QED
  BY <1>3, <1>4 DEF RequestStep
\* A step of the dispatching goroutine without a key, from and to a state that holds
\* nothing: only what it owes its channels is at stake.
LEMMA JobMoves ==
    ASSUME NotifyTypeOK, KeyInv, job' \in GoState, ~Holding(job), ~Holding(job'),
           UNCHANGED <<request, keyVars, subscribed>>, troubles \subseteq troubles',
           channelState' \in [Channel -> {"enabled", "disabled", "deleted"}],
           job'.key # "none" => job'.pc = "push" /\ job'.subs # {},
           job'.key = "have" => job.key = "have" /\ job'.pair = job.pair
    PROVE  NotifyTypeOK' /\ KeyInv'
<1>1. UNCHANGED <<keyLock, public, private, pairs>>
  BY DEF keyVars
<1>2. NotifyTypeOK'
  BY <1>1 DEF NotifyTypeOK
<1>3. "read" \notin troubles => KeyGood(job', public, private)
  BY DEF KeyInv, KeyGood, Holding
<1>4. KeyInv'
  BY <1>1, <1>3 DEF KeyInv
<1> QED
  BY <1>2, <1>4

\* The records of the dispatch.
Begun(n, kind, C) == [Idle(n) EXCEPT !.pc = "next", !.kind = kind, !.todo = Channel, !.steady = C]
Without(v, c) == [v EXCEPT !.todo = @ \ {c}]
Turned(v, c, pc, S, k) ==
    [v EXCEPT !.todo = @ \ {c}, !.at = {c}, !.late = FALSE, !.pc = pc, !.subs = S, !.key = k]
Returned(v, T) == [v EXCEPT !.pc = "next", !.at = {}, !.tried = @ \union v.at, !.todo = T]
Late(v) == [v EXCEPT !.late = TRUE]
Unsteady(v, c) == [v EXCEPT !.steady = @ \ {c}]

LEMMA BegunFacts ==
    ASSUME NEW n \in Nat, NEW kind \in {"alert", "report"}, NEW C \in SUBSET Channel
    PROVE  /\ Begun(n, kind, C) \in GoState /\ Begun(n, kind, C).pc = "next" /\ Begun(n, kind, C).at = {}
           /\ Begun(n, kind, C).todo = Channel /\ Begun(n, kind, C).steady = C
           /\ Begun(n, kind, C).key = "none"
  BY DEF Begun, Idle, GoState, KeyStage

LEMMA WithoutFacts ==
    ASSUME NEW v \in GoState, NEW c \in Channel
    PROVE  /\ Without(v, c) \in GoState /\ Without(v, c).pc = v.pc /\ Without(v, c).kind = v.kind
           /\ Without(v, c).todo = v.todo \ {c} /\ Without(v, c).at = v.at /\ Without(v, c).tried = v.tried
           /\ Without(v, c).steady = v.steady /\ Without(v, c).key = v.key /\ Without(v, c).subs = v.subs
           /\ Without(v, c).pair = v.pair
  BY DEF Without, GoState

LEMMA TurnedFacts ==
    ASSUME NEW v \in GoState, NEW c \in Channel, NEW pc \in {"push", "send"},
           NEW S \in SUBSET Subscription, NEW k \in {"lock", "none"}
    PROVE  /\ Turned(v, c, pc, S, k) \in GoState
           /\ Turned(v, c, pc, S, k).pc = pc /\ Turned(v, c, pc, S, k).kind = v.kind
           /\ Turned(v, c, pc, S, k).todo = v.todo \ {c} /\ Turned(v, c, pc, S, k).at = {c}
           /\ Turned(v, c, pc, S, k).tried = v.tried /\ Turned(v, c, pc, S, k).steady = v.steady
           /\ Turned(v, c, pc, S, k).key = k /\ Turned(v, c, pc, S, k).subs = S
  BY DEF Turned, GoState, KeyStage

LEMMA ReturnedFacts ==
    ASSUME NEW v \in GoState, NEW T \in SUBSET Channel
    PROVE  /\ Returned(v, T) \in GoState /\ Returned(v, T).pc = "next" /\ Returned(v, T).kind = v.kind
           /\ Returned(v, T).todo = T /\ Returned(v, T).at = {} /\ Returned(v, T).tried = v.tried \union v.at
           /\ Returned(v, T).steady = v.steady /\ Returned(v, T).key = v.key /\ Returned(v, T).subs = v.subs
           /\ Returned(v, T).pair = v.pair
  BY DEF Returned, GoState

LEMMA LateFacts ==
    ASSUME NEW v \in GoState
    PROVE  /\ Late(v) \in GoState /\ SameTask(Late(v), v) /\ Late(v).key = v.key /\ Late(v).subs = v.subs
           /\ Late(v).pair = v.pair
  BY DEF Late, GoState, SameTask

LEMMA UnsteadyFacts ==
    ASSUME NEW v \in GoState, NEW c \in Channel
    PROVE  /\ Unsteady(v, c) \in GoState /\ Unsteady(v, c).pc = v.pc /\ Unsteady(v, c).kind = v.kind
           /\ Unsteady(v, c).todo = v.todo /\ Unsteady(v, c).at = v.at /\ Unsteady(v, c).tried = v.tried
           /\ Unsteady(v, c).steady = v.steady \ {c} /\ Unsteady(v, c).key = v.key
           /\ Unsteady(v, c).subs = v.subs /\ Unsteady(v, c).pair = v.pair
  BY DEF Unsteady, GoState
LEMMA DispatchStep ==
    ASSUME NotifyTypeOK, KeyInv, TriedInv, Dispatch
    PROVE  NotifyTypeOK' /\ KeyInv' /\ TriedInv'
<1> DEFINE C == {c \in Channel : channelState[c] = "enabled"}
<1>0. /\ UNCHANGED <<channelState, request, keyVars, subscribed, troubles>> /\ job.pc = "idle"
      /\ job.n + 1 \in Nat /\ C \in SUBSET Channel
      /\ channelState \in [Channel -> {"enabled", "disabled", "deleted"}]
  <2>1. UNCHANGED <<channelState, request, keyVars, subscribed, troubles>> /\ job.pc = "idle"
    BY DEF Dispatch, troubleVars
  <2>2. job \in GoState /\ channelState \in [Channel -> {"enabled", "disabled", "deleted"}]
    BY DEF NotifyTypeOK
  <2>3. job.n + 1 \in Nat
    BY <2>2, NotifyNumbers
  <2>4. C \in SUBSET Channel
    OBVIOUS
  <2> QED
    BY <2>1, <2>2, <2>3, <2>4
<1>1. PICK kind \in {"alert", "report"} : job' = Begun(job.n + 1, kind, C)
  BY DEF Dispatch, Begun
<1> HIDE DEF C
<1>2. /\ job' \in GoState /\ job'.pc = "next" /\ job'.at = {} /\ job'.todo = Channel /\ job'.steady = C
      /\ job'.key = "none"
  BY <1>0, <1>1, BegunFacts
<1>3. ~Holding(job) /\ ~Holding(job')
  BY <1>0, <1>2 DEF Holding, KeyInv
<1>4. NotifyTypeOK' /\ KeyInv'
  BY <1>0, <1>2, <1>3, JobMoves
<1>5. TriedInv'
  BY <1>0, <1>2 DEF TriedInv, C
<1> QED
  BY <1>4, <1>5

LEMMA NextChannelStep ==
    ASSUME NotifyTypeOK, KeyInv, TriedInv, NextChannel
    PROVE  NotifyTypeOK' /\ KeyInv' /\ TriedInv'
<1>0. /\ UNCHANGED <<channelState, request, keyVars, subscribed, troubles>> /\ job.pc = "next"
      /\ job \in GoState /\ job.todo \in SUBSET Channel
      /\ channelState \in [Channel -> {"enabled", "disabled", "deleted"}]
  BY DEF NextChannel, troubleVars, NotifyTypeOK, GoState
<1>1. job.key = "none" /\ ~Holding(job) /\ job.at = {}
  BY <1>0 DEF KeyInv, Holding, TriedInv
<1> DEFINE subs == {s \in Subscription : subscribed[s] # 0}
<1>2. PICK c \in job.todo :
        IF ~Usable(c) THEN job' = Without(job, c)
        ELSE job' = Turned(job, c, IF c \in PushChannel /\ subs # {} THEN "push" ELSE "send",
                           IF c \in PushChannel THEN subs ELSE {},
                           IF c \in PushChannel /\ subs # {} THEN "lock" ELSE "none")
  BY DEF NextChannel, Without, Turned
<1>3. c \in Channel
  BY <1>0
<1>4. CASE ~Usable(c)
  <2>1. /\ job' \in GoState /\ job'.pc = job.pc /\ job'.kind = job.kind /\ job'.todo = job.todo \ {c}
        /\ job'.at = job.at /\ job'.tried = job.tried /\ job'.steady = job.steady /\ job'.key = job.key
    BY <1>0, <1>2, <1>3, <1>4, WithoutFacts
  <2>2. ~Holding(job')
    BY <1>1, <2>1 DEF Holding
  <2>3. NotifyTypeOK' /\ KeyInv'
    BY <1>0, <1>1, <2>1, <2>2, JobMoves
  <2>4. c \in job.steady => ~(IF job.kind = "report" THEN c \in Email ELSE c \notin Unregistered)
    BY <1>0, <1>4 DEF Usable, TriedInv
  <2>5. TriedInv'
    BY <1>0, <1>1, <2>1, <2>4 DEF TriedInv
  <2> QED
    BY <2>3, <2>5
<1>5. CASE Usable(c)
  <2> DEFINE pc == IF c \in PushChannel /\ subs # {} THEN "push" ELSE "send"
             S == IF c \in PushChannel THEN subs ELSE {}
             k == IF c \in PushChannel /\ subs # {} THEN "lock" ELSE "none"
  <2>1. /\ pc \in {"push", "send"} /\ S \in SUBSET Subscription /\ k \in {"lock", "none"}
        /\ k # "none" => pc = "push" /\ S # {}
    OBVIOUS
  <2>2. job' = Turned(job, c, pc, S, k)
    BY <1>2, <1>5
  <2> HIDE DEF pc, S, k, subs
  <2>3. /\ job' \in GoState /\ job'.pc = pc /\ job'.kind = job.kind /\ job'.todo = job.todo \ {c}
        /\ job'.at = {c} /\ job'.tried = job.tried /\ job'.steady = job.steady /\ job'.key = k
        /\ job'.subs = S
    BY <1>0, <1>3, <2>1, <2>2, TurnedFacts
  <2>4. ~Holding(job') /\ job'.key # "have"
    BY <2>1, <2>3 DEF Holding
  <2>5. NotifyTypeOK' /\ KeyInv'
    BY <1>0, <1>1, <2>1, <2>3, <2>4, JobMoves
  <2>6. job'.pc \in {"push", "send"}
    BY <2>1, <2>3
  <2>7. TriedInv'
    BY <1>0, <1>1, <2>3, <2>6 DEF TriedInv
  <2> QED
    BY <2>5, <2>7
<1> QED
  BY <1>4, <1>5

LEMMA SendReturnsStep ==
    ASSUME NotifyTypeOK, KeyInv, TriedInv, SendReturns
    PROVE  NotifyTypeOK' /\ KeyInv' /\ TriedInv'
<1>0. /\ UNCHANGED <<channelState, request, keyVars, subscribed, troubles>>
      /\ job.pc = "send" \/ (job.pc = "push" /\ job.subs = {})
      /\ job \in GoState /\ job.todo \in SUBSET Channel /\ job' = Returned(job, job.todo)
      /\ channelState \in [Channel -> {"enabled", "disabled", "deleted"}]
  BY DEF SendReturns, AfterSend, Returned, troubleVars, NotifyTypeOK, GoState
<1>1. job.key = "none" /\ ~Holding(job)
  BY <1>0 DEF KeyInv, Holding
<1>2. /\ job' \in GoState /\ job'.pc = "next" /\ job'.kind = job.kind /\ job'.todo = job.todo
      /\ job'.at = {} /\ job'.tried = job.tried \union job.at /\ job'.steady = job.steady
      /\ job'.key = job.key
  BY <1>0, ReturnedFacts
<1>3. ~Holding(job')
  BY <1>1, <1>2 DEF Holding
<1>4. NotifyTypeOK' /\ KeyInv'
  BY <1>0, <1>1, <1>2, <1>3, JobMoves
<1>5. TriedInv'
  BY <1>0, <1>2 DEF TriedInv
<1> QED
  BY <1>4, <1>5

LEMMA PushHangsStep ==
    ASSUME NotifyTypeOK, KeyInv, TriedInv, PushHangs
    PROVE  NotifyTypeOK' /\ KeyInv' /\ TriedInv'
<1>0. /\ UNCHANGED <<channelState, request, keyVars, subscribed, troubles>>
      /\ job.pc = "push" /\ job.key = "have" /\ job \in GoState /\ job' = Late(job)
      /\ channelState \in [Channel -> {"enabled", "disabled", "deleted"}]
  BY DEF PushHangs, Late, troubleVars, NotifyTypeOK
<1>1. job' \in GoState /\ SameTask(job', job) /\ job'.key = job.key /\ job'.subs = job.subs
      /\ job'.pair = job.pair
  BY <1>0, LateFacts
<1>2. ~Holding(job) /\ ~Holding(job') /\ job'.pc = "push" /\ job'.subs # {}
  BY <1>0, <1>1 DEF Holding, SameTask, KeyInv
<1>3. NotifyTypeOK' /\ KeyInv'
  BY <1>0, <1>1, <1>2, JobMoves
<1>4. TriedInv'
  BY <1>0, <1>1 DEF TriedInv, SameTask
<1> QED
  BY <1>3, <1>4

LEMMA DispatchReturnsStep ==
    ASSUME NotifyTypeOK, KeyInv, TriedInv, DispatchReturns
    PROVE  NotifyTypeOK' /\ KeyInv' /\ TriedInv'
<1>0. /\ UNCHANGED <<channelState, request, keyVars, subscribed, troubles>>
      /\ job.pc = "next" /\ job.n \in Nat /\ job' = Idle(job.n)
      /\ channelState \in [Channel -> {"enabled", "disabled", "deleted"}]
  BY DEF DispatchReturns, troubleVars, NotifyTypeOK, GoState
<1>1. job' \in GoState /\ job'.pc = "idle" /\ job'.key = "none"
  BY <1>0, IdleFacts
<1>2. ~Holding(job) /\ ~Holding(job')
  BY <1>0, <1>1 DEF Holding, KeyInv
<1>3. NotifyTypeOK' /\ KeyInv'
  BY <1>0, <1>1, <1>2, JobMoves
<1>4. TriedInv'
  BY <1>1 DEF TriedInv
<1> QED
  BY <1>3, <1>4

LEMMA EditChannelStep ==
    ASSUME NotifyTypeOK, KeyInv, TriedInv, EditChannel
    PROVE  NotifyTypeOK' /\ KeyInv' /\ TriedInv'
<1>0. /\ UNCHANGED <<request, keyVars, subscribed>> /\ troubles' = troubles \union {"admin"}
      /\ job \in GoState /\ channelState \in [Channel -> {"enabled", "disabled", "deleted"}]
  BY DEF EditChannel, Trouble, NotifyTypeOK
<1>1. PICK c \in Channel, how \in {"enabled", "disabled", "deleted"} :
        channelState' = [channelState EXCEPT ![c] = how] /\ job' = Unsteady(job, c)
  BY DEF EditChannel, Unsteady
<1>2. /\ job' \in GoState /\ job'.pc = job.pc /\ job'.kind = job.kind /\ job'.todo = job.todo
      /\ job'.at = job.at /\ job'.tried = job.tried /\ job'.steady = job.steady \ {c}
      /\ job'.key = job.key /\ job'.subs = job.subs /\ job'.pair = job.pair
  BY <1>0, <1>1, UnsteadyFacts
<1>3. /\ channelState' \in [Channel -> {"enabled", "disabled", "deleted"}]
      /\ \A d \in Channel \ {c} : channelState'[d] = channelState[d]
  BY <1>0, <1>1
<1>4. job'.steady \subseteq Channel
  BY <1>2 DEF GoState
<1>5. UNCHANGED <<keyLock, public, private, pairs>>
  BY <1>0 DEF keyVars
<1>6. NotifyTypeOK'
  BY <1>0, <1>2, <1>3, <1>5 DEF NotifyTypeOK
<1>7. /\ Holding(job') <=> Holding(job)
      /\ KeyGood(job', public, private) <=> KeyGood(job, public, private)
  BY <1>2 DEF Holding, KeyGood
<1>8. KeyInv'
  BY <1>0, <1>2, <1>5, <1>7 DEF KeyInv
<1>9. TriedInv'
  BY <1>2, <1>3, <1>4 DEF TriedInv
<1> QED
  BY <1>6, <1>8, <1>9
Asked(n) == [Idle(n) EXCEPT !.pc = "key", !.key = "lock"]
Tested(n, s) == [Idle(n) EXCEPT !.pc = "test", !.key = "lock", !.subs = {s}]

LEMMA AskedFacts ==
    ASSUME NEW n \in Nat
    PROVE  /\ Asked(n) \in GoState /\ Asked(n).pc = "key" /\ Asked(n).key = "lock"
           /\ \A s \in Subscription : /\ Tested(n, s) \in GoState /\ Tested(n, s).pc = "test"
                                      /\ Tested(n, s).key = "lock" /\ Tested(n, s).subs # {}
  BY DEF Asked, Tested, Idle, GoState, KeyStage

LEMMA RequestStartsStep ==
    ASSUME NotifyTypeOK, KeyInv, TriedInv, RequestStarts
    PROVE  NotifyTypeOK' /\ KeyInv' /\ TriedInv'
<1>0. UNCHANGED <<channelState, job, keyLock, public, private, pairs, subscribed, troubles>>
      /\ request.pc = "idle"
  BY DEF RequestStarts, keyVars, troubleVars
<1>1. request.n + 1 \in Nat
  BY NotifyNumbers DEF NotifyTypeOK
<1>2. \/ request' = Asked(request.n + 1)
      \/ \E s \in Subscription : request' = Tested(request.n + 1, s)
  BY DEF RequestStarts, Asked, Tested
<1>3. /\ request' \in GoState /\ request'.key = "lock"
      /\ request'.pc = "key" \/ (request'.pc = "test" /\ request'.subs # {})
  BY <1>1, <1>2, AskedFacts
<1>4. NotifyTypeOK'
  BY <1>0, <1>3 DEF NotifyTypeOK
<1>5. ~Holding(request) /\ ~Holding(request') /\ KeyGood(request', public, private)
  BY <1>0, <1>3 DEF Holding, KeyInv, KeyGood
<1>6. KeyInv'
  BY <1>0, <1>3, <1>5 DEF KeyInv
<1>7. TriedInv'
  BY <1>0 DEF TriedInv
<1> QED
  BY <1>4, <1>6, <1>7

LEMMA RequestReturnsStep ==
    ASSUME NotifyTypeOK, KeyInv, TriedInv, RequestReturns
    PROVE  NotifyTypeOK' /\ KeyInv' /\ TriedInv'
<1>0. UNCHANGED <<channelState, job, keyLock, public, private, pairs, troubles>>
  BY DEF RequestReturns, keyVars, troubleVars
<1>1. request' \in GoState /\ request'.pc = "idle" /\ request'.key = "none"
  <2>1. request' = Idle(request.n) /\ request.n \in Nat
    BY NotifyNumbers DEF RequestReturns, NotifyTypeOK
  <2> QED
    BY <2>1, IdleFacts
<1>2. ~Holding(request)
  BY DEF RequestReturns, Holding, KeyInv
<1>3. /\ subscribed' \in [Subscription -> Nat]
      /\ "read" \notin troubles => PairGood(public, private, subscribed')
  <2>1. CASE UNCHANGED subscribed
    BY <2>1 DEF NotifyTypeOK, KeyInv, PairGood
  <2>2. ASSUME request.key = "have",
               NEW s \in Subscription, subscribed' = [subscribed EXCEPT ![s] = request.pair]
        PROVE  /\ subscribed' \in [Subscription -> Nat]
               /\ "read" \notin troubles => PairGood(public, private, subscribed')
    <3>1. request.pair \in Nat
      BY NotifyNumbers DEF NotifyTypeOK
    <3>2. /\ subscribed' \in [Subscription -> Nat] /\ subscribed'[s] = request.pair
          /\ \A t \in Subscription \ {s} : subscribed'[t] = subscribed[t]
      BY <2>2, <3>1 DEF NotifyTypeOK
    <3>3. ASSUME "read" \notin troubles PROVE PairGood(public, private, subscribed')
      <4>1. public # 0 /\ private = public /\ request.pair = public
        BY <2>2, <3>3 DEF KeyInv, KeyGood
      <4>2. PairGood(public, private, subscribed)
        BY <3>3 DEF KeyInv
      <4> QED
        BY <3>2, <4>1, <4>2 DEF PairGood
    <3> QED
      BY <3>2, <3>3
  <2> QED
    BY <2>1, <2>2 DEF RequestReturns
<1>4. NotifyTypeOK'
  BY <1>0, <1>1, <1>3 DEF NotifyTypeOK
<1>5. ~Holding(request') /\ KeyGood(request', public, private)
  BY <1>1 DEF Holding, KeyGood
<1>6. KeyInv'
  BY <1>0, <1>1, <1>2, <1>3, <1>5 DEF KeyInv
<1>7. TriedInv'
  BY <1>0 DEF TriedInv
<1> QED
  BY <1>4, <1>6, <1>7

LEMMA NotifyCrashStep ==
    ASSUME NotifyTypeOK, KeyInv, TriedInv, NotifyCrash
    PROVE  NotifyTypeOK' /\ KeyInv' /\ TriedInv'
<1>0. /\ UNCHANGED <<channelState, public, private, pairs, subscribed>> /\ keyLock' = ""
      /\ troubles' = troubles \union {"crash"}
  BY DEF NotifyCrash, Trouble
<1>1. /\ job' \in GoState /\ job'.pc = "idle" /\ job'.key = "none"
      /\ request' \in GoState /\ request'.pc = "idle" /\ request'.key = "none"
  <2>1. job' = Idle(job.n) /\ request' = Idle(request.n) /\ job.n \in Nat /\ request.n \in Nat
    BY NotifyNumbers DEF NotifyCrash, NotifyTypeOK
  <2> QED
    BY <2>1, IdleFacts
<1>2. NotifyTypeOK'
  BY <1>0, <1>1 DEF NotifyTypeOK
<1>3. /\ ~Holding(job') /\ ~Holding(request')
      /\ KeyGood(job', public, private) /\ KeyGood(request', public, private)
  BY <1>1 DEF Holding, KeyGood
<1>4. KeyInv'
  BY <1>0, <1>1, <1>3 DEF KeyInv
<1>5. TriedInv'
  BY <1>1 DEF TriedInv
<1> QED
  BY <1>2, <1>4, <1>5

LEMMA NotifyInitial ==
    ASSUME NotifyInit(NotifyRegimes)
    PROVE  NotifyTypeOK /\ KeyInv /\ TriedInv
<1>1. /\ job \in GoState /\ job.pc = "idle" /\ job.key = "none"
      /\ request \in GoState /\ request.pc = "idle" /\ request.key = "none"
  BY IdleFacts DEF NotifyInit
<1>2. /\ channelState \in [Channel -> {"enabled", "disabled", "deleted"}]
      /\ keyLock = "" /\ public = 0 /\ private = 0 /\ pairs = 0
      /\ subscribed \in [Subscription -> Nat] /\ \A s \in Subscription : subscribed[s] = 0
  BY DEF NotifyInit
<1>3. NotifyTypeOK
  BY <1>1, <1>2 DEF NotifyTypeOK
<1>4. KeyInv
  BY <1>1, <1>2 DEF KeyInv, Holding, KeyGood, PairGood
<1>5. TriedInv
  BY <1>1 DEF TriedInv
<1> QED
  BY <1>3, <1>4, <1>5

LEMMA NotifyStep ==
    ASSUME NotifyTypeOK, KeyInv, TriedInv, [NotifyNext]_notifyVars
    PROVE  NotifyTypeOK' /\ KeyInv' /\ TriedInv'
<1>1. CASE UNCHANGED notifyVars
  <2>1. UNCHANGED <<channelState, job, request, keyLock, public, private, pairs, subscribed, troubles>>
    BY <1>1 DEF notifyVars, keyVars, troubleVars
  <2> QED
    BY <2>1 DEF NotifyTypeOK, KeyInv, TriedInv
<1> QED
  BY <1>1, DispatchStep, NextChannelStep, SendReturnsStep, PushStepInv, PushHangsStep,
     DispatchReturnsStep, RequestStartsStep, RequestStepInv, RequestReturnsStep, EditChannelStep,
     NotifyCrashStep DEF NotifyNext, JobStep, RequestGoesOn

\* For every set of browsers, channels and disturbances the stored key pair belongs
\* together and every browser subscribed with the key that signs, through concurrent
\* requests, failing saves and a crash between the two saves, unless a read failed
\* (EnsureVAPIDKeys, handleVAPIDPublicKey).
THEOREM KeysAgreeAlways == NotifySpec => []KeysAgree
<1>1. NotifyInit(NotifyRegimes) => NotifyTypeOK /\ KeyInv /\ TriedInv
  BY NotifyInitial
<1>2. NotifyTypeOK /\ KeyInv /\ TriedInv /\ [NotifyNext]_notifyVars => NotifyTypeOK' /\ KeyInv' /\ TriedInv'
  BY NotifyStep
<1>3. KeyInv => KeysAgree
  BY DEF KeyInv, KeysAgree, PairGood
<1> QED
  BY <1>1, <1>2, <1>3, PTL DEF NotifySpec

\* A dispatch that comes to its end has tried every channel that was enabled all the
\* time and is of use for its kind, whatever failed, hung or was edited meanwhile
\* (dispatchToChannels, SendReport).
THEOREM EveryChannelTriedAlways == NotifySpec => EveryChannelTried
<1> DEFINE Done ==
        job.pc = "next" /\ job'.pc = "idle" /\ troubles' = troubles =>
          \A c \in job.steady :
             (IF job.kind = "report" THEN c \in Email ELSE c \notin Unregistered) => c \in job.tried
<1>1. NotifyInit(NotifyRegimes) => NotifyTypeOK /\ KeyInv /\ TriedInv
  BY NotifyInitial
<1>2. NotifyTypeOK /\ KeyInv /\ TriedInv /\ [NotifyNext]_notifyVars => NotifyTypeOK' /\ KeyInv' /\ TriedInv'
  BY NotifyStep
<1>3. NotifyTypeOK /\ KeyInv /\ TriedInv /\ [NotifyNext]_notifyVars => [Done]_notifyVars
  <2> SUFFICES ASSUME NotifyTypeOK, KeyInv, TriedInv, NotifyNext,
                      job.pc = "next", job'.pc = "idle", troubles' = troubles
               PROVE  \A c \in job.steady :
                        (IF job.kind = "report" THEN c \in Email ELSE c \notin Unregistered) => c \in job.tried
    OBVIOUS
  <2>1. ~(EditChannel \/ NotifyCrash)
    BY DEF EditChannel, NotifyCrash, Trouble
  <2>2. ~(Dispatch \/ SendReturns \/ PushStep \/ PushHangs)
    BY DEF Dispatch, SendReturns, PushStep, PushHangs
  <2>3. ~(RequestStarts \/ RequestGoesOn)
    BY DEF RequestStarts, RequestGoesOn, RequestStep, RequestReturns
  <2>4. ~NextChannel
    <3> SUFFICES ASSUME NextChannel PROVE FALSE
      OBVIOUS
    <3>1. PICK c \in job.todo :
            \/ job' = Without(job, c)
            \/ \E pc \in {"push", "send"}, S \in SUBSET Subscription, k \in {"lock", "none"} :
                 job' = Turned(job, c, pc, S, k)
      <4> DEFINE subs == {s \in Subscription : subscribed[s] # 0}
      <4>1. PICK c \in job.todo :
              \/ job' = Without(job, c)
              \/ job' = Turned(job, c, IF c \in PushChannel /\ subs # {} THEN "push" ELSE "send",
                               IF c \in PushChannel THEN subs ELSE {},
                               IF c \in PushChannel /\ subs # {} THEN "lock" ELSE "none")
        BY DEF NextChannel, Without, Turned
      <4>2. /\ (IF c \in PushChannel /\ subs # {} THEN "push" ELSE "send") \in {"push", "send"}
            /\ (IF c \in PushChannel THEN subs ELSE {}) \in SUBSET Subscription
            /\ (IF c \in PushChannel /\ subs # {} THEN "lock" ELSE "none") \in {"lock", "none"}
        OBVIOUS
      <4> HIDE DEF subs
      <4> QED
        BY <4>1, <4>2
    <3>2. job \in GoState /\ c \in Channel
      BY DEF NotifyTypeOK, GoState
    <3>3. job'.pc \in {"next", "push", "send"}
      BY <3>1, <3>2, WithoutFacts, TurnedFacts
    <3> QED
      BY <3>3
  <2>5. DispatchReturns
    BY <2>1, <2>2, <2>3, <2>4 DEF NotifyNext, JobStep
  <2> QED
    BY <2>5 DEF DispatchReturns, TriedInv
<1> QED
  BY <1>1, <1>2, <1>3, PTL DEF NotifySpec, EveryChannelTried
-----------------------------------------------------------------------------
(* The agent's configuration *)

LEMMA OptionFacts ==
    /\ \A o \in DOMAIN Option :
         /\ Option[o] \in {"duration", "bool", "int"}
         /\ Option[o] = "duration" <=> o \in {"interval", "cve_scan_interval"}
         /\ Option[o] # "bool" => DefaultConfig[o] \in Int /\ DefaultConfig[o] > 0
    /\ {"interval", "cve_scan_interval", "cve_scan_max_images", "logs_max_lines_per_sec"} \subseteq DOMAIN Option
    /\ Option["interval"] = "duration" /\ Option["cve_scan_interval"] = "duration"
    /\ Option["cve_scan_max_images"] = "int" /\ Option["logs_max_lines_per_sec"] = "int"
  BY DEF Option, DefaultConfig

\* What a source says is a value of the kind it has.
Plain(raw) ==
    /\ raw.kind \in {"int", "float", "duration_text", "digits"} => raw.value \in Int
    /\ raw.kind \in {"bool", "bool_text"} => raw.value \in BOOLEAN

LEMMA SaidFacts ==
    ASSUME ConfigInit(ConfigSources), NEW s \in {"file", "env", "flag"}, NEW o, Says(s, o) # <<>>
    PROVE  o \in DOMAIN Option /\ Says(s, o) = <<given[s][o]>> /\ Plain(Says(s, o)[1])
<1>1. o \in DOMAIN given[s] /\ Says(s, o) = <<given[s][o]>>
  BY DEF Says
<1>2. DOMAIN given[s] \subseteq DOMAIN Option /\ Plain(given[s][o])
  BY <1>1, SourcesAssumption DEF ConfigInit, Plain
<1> QED
  BY <1>1, <1>2

\* What the merge comes to is what one of the sources says, or nothing.
LEMMA MergedFacts ==
    ASSUME ConfigInit(ConfigSources), NEW o, Merged(o) # <<>>
    PROVE  Plain(Merged(o)[1])
<1>1. \E s \in {"file", "env", "flag"} : Merged(o) = Says(s, o) /\ Says(s, o) # <<>>
  BY DEF Merged
<1> QED
  BY <1>1, SaidFacts

LEMMA ReadFacts ==
    ASSUME ConfigInit(ConfigSources), NEW o \in DOMAIN Option, Option[o] # "bool"
    PROVE  ReadOption(o) \in Int
<1>1. CASE Merged(o) = <<>>
  BY <1>1, OptionFacts DEF ReadOption
<1>2. CASE Merged(o) # <<>> /\ Option[o] = "duration"
  BY <1>2, OptionFacts, MergedFacts DEF ReadOption, ReadDuration, Plain
<1>3. CASE Merged(o) # <<>> /\ Option[o] = "int"
  BY <1>3, OptionFacts, MergedFacts DEF ReadOption, ReadInt, Plain
<1> QED
  BY <1>1, <1>2, <1>3, OptionFacts

\* A usable value is neither replaced nor raised.
LEMMA SoundIsKept ==
    ASSUME ConfigInit(ConfigSources), NEW o \in DOMAIN Option, NEW raw, Merged(o) = <<raw>>, Sound(o, raw)
    PROVE  Clamp(o, ReadOption(o)) = raw.value
<1>1. Merged(o) # <<>> /\ Merged(o)[1] = raw /\ Plain(raw)
  BY MergedFacts
<1>2. CASE Option[o] = "bool"
  <2>1. raw.kind \in {"bool", "bool_text"}
    BY <1>2 DEF Sound
  <2>2. ReadOption(o) = raw.value
    BY <1>1, <1>2, <2>1 DEF ReadOption, ReadBool
  <2>3. o # "interval" /\ o # "cve_scan_interval"
    BY <1>2, OptionFacts
  <2> QED
    BY <1>2, <2>2, <2>3 DEF Clamp
<1>3. CASE Option[o] = "duration"
  <2>1. raw.kind \in {"int", "float", "digits", "duration_text"} /\ raw.value >= 3600
    BY <1>3 DEF Sound
  <2>2. ReadOption(o) = ReadDuration(raw, DefaultConfig[o])
    BY <1>1, <1>3 DEF ReadOption
  <2>3. ReadOption(o) = raw.value
    BY <2>1, <2>2 DEF ReadDuration
  <2>4. raw.value \in Int
    BY <1>1, <2>1 DEF Plain
  <2>5. CASE o = "interval"
    <3>1. \A x \in Int : x >= 3600 => Clamp("interval", x) = x
      BY OptionFacts DEF Clamp
    <3> QED
      BY <2>1, <2>3, <2>4, <2>5, <3>1
  <2>6. CASE o = "cve_scan_interval"
    <3>1. \A x \in Int : x >= 3600 => Clamp("cve_scan_interval", x) = x
      BY OptionFacts DEF Clamp
    <3> QED
      BY <2>1, <2>3, <2>4, <2>6, <3>1
  <2> QED
    BY <1>3, <2>5, <2>6, OptionFacts
<1>4. CASE Option[o] = "int"
  <2>1. raw.kind \in {"int", "float", "digits"} /\ raw.value > 0
    BY <1>4 DEF Sound
  <2>2. ReadOption(o) = raw.value /\ raw.value \in Int
    BY <1>1, <1>4, <2>1 DEF ReadOption, ReadInt, Plain
  <2>3. o # "interval" /\ o # "cve_scan_interval"
    BY <1>4, OptionFacts
  <2> QED
    BY <1>4, <2>1, <2>2, <2>3 DEF Clamp
<1> QED
  BY <1>2, <1>3, <1>4, OptionFacts

\* Whatever a file, an environment and a command line say, a usable value of the
\* strongest source that names an option is in force, and no source pushes the interval,
\* the scans or the limits out of their range (Load).
THEOREM ConfigInForceAtStart == ConfigInit(ConfigSources) => ConfigInForce
<1> SUFFICES ASSUME ConfigInit(ConfigSources) PROVE ConfigInForce
  OBVIOUS
<1>1. ASSUME NEW o \in Named, NEW i \in 1..3,
             Says(Order[i], o) # <<>>, Sound(o, Says(Order[i], o)[1]),
             \A j \in 1..(i - 1) : Says(Order[j], o) = <<>>
      PROVE  LoadConfig[o] = Says(Order[i], o)[1].value
  <2>1. Order[1] = "flag" /\ Order[2] = "env" /\ Order[3] = "file"
    BY DEF Order
  <2>2. Merged(o) = Says(Order[i], o)
    <3>1. CASE i = 1
      BY <1>1, <2>1, <3>1 DEF Merged
    <3>2. CASE i = 2
      <4>1. Says("flag", o) = <<>>
        BY <1>1, <2>1, <3>2
      <4> QED
        BY <1>1, <2>1, <3>2, <4>1 DEF Merged
    <3>3. CASE i = 3
      <4>1. Says("flag", o) = <<>> /\ Says("env", o) = <<>>
        BY <1>1, <2>1, <3>3
      <4> QED
        BY <2>1, <3>3, <4>1 DEF Merged
    <3> QED
      BY <3>1, <3>2, <3>3
  <2>3. Order[i] \in {"file", "env", "flag"}
    BY <2>1
  <2>4. o \in DOMAIN Option /\ Says(Order[i], o) = <<given[Order[i]][o]>>
    BY <1>1, <2>3, SaidFacts
  <2>5. LoadConfig[o] = Clamp(o, ReadOption(o))
    BY <2>4 DEF LoadConfig
  <2>6. /\ Merged(o) = <<given[Order[i]][o]>> /\ Sound(o, given[Order[i]][o])
        /\ Says(Order[i], o)[1] = given[Order[i]][o]
    BY <1>1, <2>2, <2>4
  <2> QED
    BY <2>4, <2>5, <2>6, SoundIsKept
<1>2. ASSUME NEW o \in DOMAIN Option PROVE LoadConfig[o] = Clamp(o, ReadOption(o))
  BY DEF LoadConfig
<1>3. LoadConfig["interval"] >= 1
  BY <1>2, OptionFacts, ReadFacts DEF Clamp
<1>4. LoadConfig["cve_scan_interval"] >= 3600
  <2>1. ReadOption("cve_scan_interval") \in Int /\ "cve_scan_interval" # "interval"
    BY OptionFacts, ReadFacts
  <2>2. Clamp("cve_scan_interval", ReadOption("cve_scan_interval")) >= 3600
    BY <2>1, OptionFacts DEF Clamp
  <2> QED
    BY <1>2, <2>2, OptionFacts
<1>5. ASSUME NEW o \in {"cve_scan_max_images", "logs_max_lines_per_sec"} PROVE LoadConfig[o] > 0
  <2>1. /\ o \in DOMAIN Option /\ Option[o] = "int" /\ o # "interval" /\ o # "cve_scan_interval"
        /\ DefaultConfig[o] \in Int /\ DefaultConfig[o] > 0
    BY OptionFacts
  <2>2. ReadOption(o) \in Int
    BY <2>1, ReadFacts
  <2>3. Clamp(o, ReadOption(o)) > 0
    BY <2>1, <2>2 DEF Clamp
  <2> QED
    BY <1>2, <2>1, <2>3
<1> QED
  BY <1>1, <1>3, <1>4, <1>5 DEF ConfigInForce
=============================================================================
