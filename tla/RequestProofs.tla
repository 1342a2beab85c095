---------------------------- MODULE RequestProofs ----------------------------
(***************************************************************************)
(* The hub's requests to its agents.  The broker's correlation of answers   *)
(* with callers, for any number of calls, pumps and responses; and that the *)
(* row of an agent tells the outcome of its update once everything sent has *)
(* been handled, for any number of requests and connections and in every    *)
(* regime.                                                                  *)
(***************************************************************************)
EXTENDS CommandBroker, UpdateFlow, TLAPS

-----------------------------------------------------------------------------
\* Type correctness of BrokerSpec: no interleaving of calls, pumps and answers leaves
\* the broker's variables outside their types.
THEOREM BrokerTypeCorrect == BrokerSpec => []BrokerTypeOK
<1> USE DEF Id, Response, NoResponse, Unmatched
<1>1. BrokerInit => BrokerTypeOK
  BY BrokerAssumption DEF BrokerInit, BrokerTypeOK
<1>2. BrokerTypeOK /\ [BrokerNext]_brokerVars => BrokerTypeOK'
  <2> SUFFICES ASSUME BrokerTypeOK, [BrokerNext]_brokerVars PROVE BrokerTypeOK'
    OBVIOUS
  <2>1. CASE BrokerTick
    BY <2>1, BrokerAssumption DEF BrokerTick, BrokerTypeOK
  <2>2. ASSUME NEW r \in Request, SendStep(r) PROVE BrokerTypeOK'
    <3>1. CASE Register(r)
      BY <3>1 DEF Register, BrokerTypeOK
    <3>2. CASE SendCommand(r) \/ StartWaiting(r) \/ GiveUp(r)
      BY <3>2 DEF SendCommand, StartWaiting, GiveUp, BrokerTypeOK
    <3>3. CASE TakeResponse(r)
      BY <3>3 DEF TakeResponse, BrokerTypeOK
    <3>4. CASE Cleanup(r)
      BY <3>4 DEF Cleanup, BrokerTypeOK
    <3> QED
      BY <2>2, <3>1, <3>2, <3>3, <3>4 DEF SendStep
  <2>3. ASSUME NEW r \in Request, Answer(r) PROVE BrokerTypeOK'
    <3>1. answers[r] + 1 \in 1..MaxAnswers
      BY <2>3, BrokerAssumption DEF Answer, BrokerTypeOK
    <3> QED
      BY <2>3, <3>1, BrokerAssumption DEF Answer, BrokerTypeOK
  <2>4. ASSUME NEW p \in Pump, PumpStep(p) PROVE BrokerTypeOK'
    <3>1. CASE Deliver(p)
      BY <3>1 DEF Deliver, BrokerTypeOK
    <3>2. ASSUME NEW m \in inbound, Match(p, m) PROVE BrokerTypeOK'
      <4>1. m \in Response
        BY DEF BrokerTypeOK
      <4>2. CASE pending[rid[m.to]] = NoRequest
        BY <3>2, <4>2 DEF Match, BrokerTypeOK
      <4>3. CASE pending[rid[m.to]] # NoRequest
        <5>1. pending' = [pending EXCEPT ![rid[m.to]] = NoRequest]
          BY <3>2, <4>3 DEF Match
        <5>2. match' = [match EXCEPT ![p] = [req |-> pending[rid[m.to]], resp |-> m]]
          BY <3>2, <4>3 DEF Match
        <5>3. m.to \in Request
          BY <4>1
        <5>4. pending[rid[m.to]] \in Request
          BY <5>3, <4>3 DEF BrokerTypeOK
        <5>5. pending' \in [Id -> Request \union {NoRequest}]
          BY <5>1 DEF BrokerTypeOK
        <5>6. match' \in [Pump -> [req : Request \union {NoRequest}, resp : Response \union {NoResponse}]]
          BY <5>2, <5>4, <4>1 DEF BrokerTypeOK
        <5> QED
          BY <3>2, <5>5, <5>6 DEF Match, BrokerTypeOK
      <4> QED
        BY <4>2, <4>3
    <3> QED
      BY <2>4, <3>1, <3>2 DEF PumpStep
  <2>5. CASE UNCHANGED brokerVars
    BY <2>5 DEF brokerVars, BrokerTypeOK
  <2> QED
    BY <2>1, <2>2, <2>3, <2>4, <2>5 DEF BrokerNext
<1> QED
  BY <1>1, <1>2, PTL DEF BrokerSpec
-----------------------------------------------------------------------------
\* The inductive invariant.

\* Where the one response a call can get is: still expected, held by one pump,
\* or in the channel; never in two of these places, and never there for a call
\* that has not begun.
Exclusive ==
    /\ \A p \in Pump : match[p] # Unmatched =>
          /\ match[p].req \in Request
          /\ call[match[p].req] # "idle"
          /\ channel[match[p].req] = NoResponse
          /\ pending[rid[match[p].req]] # match[p].req
    /\ \A p, q \in Pump : p # q /\ match[p] # Unmatched => match[q].req # match[p].req
    /\ \A r \in Request : channel[r] # NoResponse =>
          call[r] # "idle" /\ pending[rid[r]] # r

\* A response carries the id of the call that ends up with it.
Begun(r) == r \in Request /\ call[r] # "idle"
SameId(m, r) == Begun(m.to) /\ rid[m.to] = rid[r]
Origin ==
    /\ \A r \in atAgent : Begun(r)
    /\ \A m \in inbound : Begun(m.to)
    /\ \A p \in Pump : match[p] # Unmatched => SameId(match[p].resp, match[p].req)
    /\ \A r \in Request : channel[r] # NoResponse => SameId(channel[r], r)
    /\ \A r \in Request : result[r] # NoResponse => SameId(result[r], r) /\ Begun(r)

BrokerInv == NoStrandedEntry /\ Exclusive /\ Origin

\* What BrokerTypeOK gives the steps below.
LEMMA Types ==
    ASSUME BrokerTypeOK
    PROVE  /\ millis \in Id /\ rid \in [Request -> Id]
           /\ DOMAIN call = Request /\ DOMAIN pending = Id /\ DOMAIN channel = Request
           /\ DOMAIN result = Request /\ DOMAIN match = Pump
           /\ \A i \in Id : pending[i] \in Request \union {NoRequest}
           /\ \A m \in inbound : m.to \in Request
           /\ atAgent \subseteq Request
  BY DEF BrokerTypeOK, Response

\* An idle pump holds no request; the sentinels are not requests.
LEMMA Sentinels ==
    /\ NoRequest \notin Request
    /\ Unmatched.req = NoRequest /\ Unmatched.resp = NoResponse /\ NoResponse.to = NoRequest
  BY BrokerAssumption DEF Unmatched, NoResponse

\* Facts about one call that begins: nothing in the broker mentions it yet.
LEMMA FreshCall ==
    ASSUME BrokerTypeOK, BrokerInv, NEW r \in Request, call[r] = "idle"
    PROVE  /\ \A i \in Id : pending[i] # r
           /\ \A p \in Pump : match[p] # Unmatched => match[p].req # r /\ match[p].resp.to # r
           /\ channel[r] = NoResponse /\ result[r] = NoResponse
           /\ \A m \in inbound : m.to # r
           /\ \A q \in Request : channel[q] # NoResponse => channel[q].to # r
           /\ \A q \in Request : result[q] # NoResponse => result[q].to # r
           /\ r \notin atAgent
<1>1. \A i \in Id : pending[i] # r
  BY Types, Sentinels DEF BrokerInv, NoStrandedEntry
<1>2. \A p \in Pump : match[p] # Unmatched => match[p].req # r /\ match[p].resp.to # r
  BY DEF BrokerInv, Exclusive, Origin, SameId, Begun
<1>3. channel[r] = NoResponse /\ result[r] = NoResponse
  BY DEF BrokerInv, Exclusive, Origin, Begun
<1> QED
  BY <1>1, <1>2, <1>3 DEF BrokerInv, Origin, SameId, Begun

LEMMA RegisterStep ==
    ASSUME BrokerTypeOK, BrokerInv, NEW r \in Request, Register(r)
    PROVE  BrokerInv'
<1>1. call[r] = "idle"
  BY DEF Register
<1>2. /\ rid' = [rid EXCEPT ![r] = millis]
      /\ pending' = [pending EXCEPT ![millis] = r]
      /\ call' = [call EXCEPT ![r] = "registered"]
      /\ channel' = channel /\ result' = result /\ atAgent' = atAgent
      /\ inbound' = inbound /\ match' = match
  BY DEF Register
<1>3. NoStrandedEntry'
  BY <1>1, <1>2, Types, Sentinels, FreshCall DEF BrokerInv, NoStrandedEntry
<1>4. Exclusive'
  BY <1>1, <1>2, Types, Sentinels, FreshCall DEF BrokerInv, Exclusive
<1>5. \A q : Begun(q) => Begun(q)' /\ rid'[q] = rid[q]
  BY <1>1, <1>2, Types DEF Begun
<1>6. Origin'
  BY <1>1, <1>2, <1>5, FreshCall, Types DEF BrokerInv, Exclusive, Origin, SameId
<1> QED
  BY <1>3, <1>4, <1>6 DEF BrokerInv

\* The steps of a call that has begun change neither its id nor anybody else's.
LEMMA CallStep ==
    ASSUME BrokerTypeOK, BrokerInv, NEW r \in Request, SendStep(r), ~Register(r)
    PROVE  BrokerInv'
<1>0. call[r] # "idle" /\ rid' = rid /\ match' = match /\ inbound' = inbound
  BY DEF SendStep, SendCommand, StartWaiting, GiveUp, TakeResponse, Cleanup
<1>1. \A q \in Request : call[q] # "idle" <=> call'[q] # "idle"
  BY Types DEF SendStep, SendCommand, StartWaiting, GiveUp, TakeResponse, Cleanup
<1>2. \A q : Begun(q) <=> Begun(q)'
  BY <1>1 DEF Begun
<1>3. CASE SendCommand(r)
  <2>1. /\ call' = [call EXCEPT ![r] = "sending"] /\ atAgent' \subseteq atAgent \union {r}
        /\ pending' = pending /\ channel' = channel /\ result' = result
    BY <1>3 DEF SendCommand
  <2>2. NoStrandedEntry'
    BY <2>1, <1>0, <1>3, Types DEF BrokerInv, NoStrandedEntry, SendCommand
  <2>3. Exclusive'
    BY <2>1, <1>0, <1>1 DEF BrokerInv, Exclusive
  <2>4. Origin'
    BY <2>1, <1>0, <1>2 DEF BrokerInv, Origin, SameId, Begun
  <2> QED
    BY <2>2, <2>3, <2>4 DEF BrokerInv
<1>4. CASE StartWaiting(r) \/ GiveUp(r)
  <2>1. /\ pending' = pending /\ channel' = channel /\ result' = result /\ atAgent' = atAgent
        /\ \A q \in Request : call'[q] = call[q] \/ call'[q] \in {"waiting", "returning"}
    BY <1>4, Types DEF StartWaiting, GiveUp
  <2>2. NoStrandedEntry'
    BY <2>1, <1>0, Types DEF BrokerInv, NoStrandedEntry
  <2>3. Exclusive'
    BY <2>1, <1>0, <1>1 DEF BrokerInv, Exclusive
  <2>4. Origin'
    BY <2>1, <1>0, <1>2 DEF BrokerInv, Origin, SameId
  <2> QED
    BY <2>2, <2>3, <2>4 DEF BrokerInv
<1>5. CASE TakeResponse(r)
  <2>1. /\ pending' = pending /\ atAgent' = atAgent
        /\ call' = [call EXCEPT ![r] = "returning"]
        /\ channel' = [channel EXCEPT ![r] = NoResponse]
        /\ result' = [result EXCEPT ![r] = channel[r]]
        /\ channel[r] # NoResponse
    BY <1>5 DEF TakeResponse
  <2>2. NoStrandedEntry'
    BY <2>1, <1>0, Types DEF BrokerInv, NoStrandedEntry
  <2>3. Exclusive'
    BY <2>1, <1>0, <1>1, Types DEF BrokerInv, Exclusive
  <2>4. SameId(channel[r], r) /\ Begun(r)
    BY <2>1, <1>0 DEF BrokerInv, Origin, Begun
  <2>5. Origin'
    BY <2>1, <2>4, <1>0, <1>2, Types DEF BrokerInv, Origin, SameId
  <2> QED
    BY <2>2, <2>3, <2>5 DEF BrokerInv
<1>6. CASE Cleanup(r)
  <2>1. /\ pending' = [pending EXCEPT ![rid[r]] = NoRequest]
        /\ call' = [call EXCEPT ![r] = "returned"]
        /\ channel' = channel /\ result' = result /\ atAgent' = atAgent
    BY <1>6 DEF Cleanup
  <2>2. NoStrandedEntry'
    BY <2>1, <1>0, Types, Sentinels DEF BrokerInv, NoStrandedEntry
  <2>3. Exclusive'
    BY <2>1, <1>0, <1>1, Types, Sentinels DEF BrokerInv, Exclusive
  <2>4. Origin'
    BY <2>1, <1>0, <1>2 DEF BrokerInv, Origin, SameId
  <2> QED
    BY <2>2, <2>3, <2>4 DEF BrokerInv
<1> QED
  BY <1>3, <1>4, <1>5, <1>6 DEF SendStep

LEMMA AnswerStep ==
    ASSUME BrokerTypeOK, BrokerInv, NEW r \in Request, Answer(r)
    PROVE  BrokerInv'
<1>1. /\ inbound' = inbound \union {[to |-> r, k |-> answers[r] + 1]} /\ r \in atAgent
      /\ call' = call /\ rid' = rid /\ pending' = pending /\ channel' = channel
      /\ result' = result /\ atAgent' = atAgent /\ match' = match
  BY DEF Answer
<1>2. NoStrandedEntry' /\ Exclusive'
  BY <1>1 DEF BrokerInv, NoStrandedEntry, Exclusive
<1>3. \A q : Begun(q) <=> Begun(q)'
  BY <1>1 DEF Begun
<1>4. \A m \in inbound' : Begun(m.to)
  BY <1>1 DEF BrokerInv, Origin
<1>5. Origin'
  BY <1>1, <1>3, <1>4 DEF BrokerInv, Origin, SameId
<1> QED
  BY <1>2, <1>5 DEF BrokerInv

LEMMA MatchStep ==
    ASSUME BrokerTypeOK, BrokerInv, NEW p \in Pump, NEW m \in inbound, Match(p, m)
    PROVE  BrokerInv'
<1> DEFINE q == pending[rid[m.to]]
<1>0. /\ call' = call /\ rid' = rid /\ channel' = channel /\ result' = result
      /\ atAgent' = atAgent /\ inbound' \subseteq inbound /\ match[p] = Unmatched
      /\ m.to \in Request /\ rid[m.to] \in Id
  BY Types DEF Match
<1>1. \A x : Begun(x) <=> Begun(x)'
  BY <1>0 DEF Begun
<1>2. CASE q = NoRequest
  <2>1. pending' = pending /\ match' = match
    BY <1>2 DEF Match
  <2>2. NoStrandedEntry' /\ Exclusive'
    BY <2>1, <1>0 DEF BrokerInv, NoStrandedEntry, Exclusive
  <2>3. Origin'
    BY <2>1, <1>0, <1>1 DEF BrokerInv, Origin, SameId
  <2> QED
    BY <2>2, <2>3 DEF BrokerInv
<1>3. CASE q # NoRequest
  <2>1. /\ pending' = [pending EXCEPT ![rid[m.to]] = NoRequest]
        /\ match' = [match EXCEPT ![p] = [req |-> q, resp |-> m]]
    BY <1>3 DEF Match
  <2>2. q \in Request /\ call[q] # "idle" /\ rid[q] = rid[m.to]
    BY <1>0, <1>3, Types DEF BrokerInv, NoStrandedEntry
  <2>3. channel[q] = NoResponse /\ \A x \in Pump : match[x] # Unmatched => match[x].req # q
    BY <1>0, <2>2 DEF BrokerInv, Exclusive
  <2>4. NoStrandedEntry'
    BY <2>1, <1>0, Types DEF BrokerInv, NoStrandedEntry
  <2>5. match'[p].req = q /\ match'[p].resp = m /\ \A x \in Pump \ {p} : match'[x] = match[x]
    BY <2>1, Types
  <2>6. \A r \in Request : pending'[rid[r]] = r => pending[rid[r]] = r /\ r # q
    BY <2>1, <2>2, <1>0, Types, Sentinels
  <2>7. \A x \in Pump : match'[x] # Unmatched =>
           /\ match'[x].req \in Request /\ call[match'[x].req] # "idle"
           /\ channel[match'[x].req] = NoResponse
           /\ pending'[rid[match'[x].req]] # match'[x].req
    BY <2>2, <2>3, <2>5, <2>6 DEF BrokerInv, Exclusive
  <2>8. \A x, y \in Pump : x # y /\ match'[x] # Unmatched => match'[y].req # match'[x].req
    <3> SUFFICES ASSUME NEW x \in Pump, NEW y \in Pump, x # y, match'[x] # Unmatched
                 PROVE  match'[y].req # match'[x].req
      OBVIOUS
    <3>1. CASE x = p
      <4>1. match'[y] = match[y] /\ match'[x].req = q
        BY <3>1, <2>5
      <4>2. CASE match[y] = Unmatched
        BY <4>1, <4>2, <2>2, Sentinels
      <4>3. CASE match[y] # Unmatched
        BY <4>1, <4>3, <2>3
      <4> QED
        BY <4>2, <4>3
    <3>2. CASE y = p
      BY <3>2, <2>3, <2>5
    <3>3. CASE x # p /\ y # p
      BY <3>3, <2>5 DEF BrokerInv, Exclusive
    <3> QED
      BY <3>1, <3>2, <3>3
  <2>9. \A r \in Request : channel[r] # NoResponse => call[r] # "idle" /\ pending'[rid[r]] # r
    BY <2>6 DEF BrokerInv, Exclusive
  <2>10. Exclusive'
    BY <2>7, <2>8, <2>9, <1>0 DEF Exclusive
  <2>11. Begun(m.to) /\ rid[m.to] = rid[q]
    BY <2>2 DEF BrokerInv, Origin
  <2>12. \A x \in Pump : match'[x] # Unmatched => SameId(match'[x].resp, match'[x].req)
    BY <2>5, <2>11 DEF BrokerInv, Origin, SameId
  <2>13. Origin'
    BY <2>12, <1>0, <1>1 DEF BrokerInv, Origin, SameId
  <2> QED
    BY <2>4, <2>10, <2>13 DEF BrokerInv
<1> QED
  BY <1>2, <1>3

LEMMA DeliverStep ==
    ASSUME BrokerTypeOK, BrokerInv, NEW p \in Pump, Deliver(p)
    PROVE  BrokerInv'
<1> DEFINE q == match[p].req
<1>0. /\ call' = call /\ rid' = rid /\ pending' = pending /\ result' = result
      /\ atAgent' = atAgent /\ inbound' = inbound /\ match[p] # Unmatched
      /\ match' = [match EXCEPT ![p] = Unmatched]
  BY DEF Deliver
<1>1. /\ q \in Request /\ channel[q] = NoResponse /\ call[q] # "idle" /\ pending[rid[q]] # q
      /\ \A x \in Pump \ {p} : match[x].req # q
  BY <1>0 DEF BrokerInv, Exclusive
<1>2. channel' = [channel EXCEPT ![q] = match[p].resp]
  BY <1>1 DEF Deliver
<1>3. match'[p] = Unmatched /\ \A x \in Pump \ {p} : match'[x] = match[x]
  BY <1>0, Types
<1>4. channel'[q] = match[p].resp /\ \A r \in Request \ {q} : channel'[r] = channel[r]
  BY <1>1, <1>2, Types
<1>5. NoStrandedEntry'
  BY <1>0 DEF BrokerInv, NoStrandedEntry
<1>6. \A x \in Pump : match'[x] # Unmatched => match[x] # Unmatched /\ x # p /\ match[x].req # q
  BY <1>1, <1>3
<1>7. Exclusive'
  <2>1. \A x \in Pump : match'[x] # Unmatched =>
           /\ match'[x].req \in Request /\ call[match'[x].req] # "idle"
           /\ channel'[match'[x].req] = NoResponse
           /\ pending[rid[match'[x].req]] # match'[x].req
    BY <1>3, <1>4, <1>6 DEF BrokerInv, Exclusive
  <2>2. \A x, y \in Pump : x # y /\ match'[x] # Unmatched => match'[y].req # match'[x].req
    BY <1>3, <1>6, <2>1, Sentinels DEF BrokerInv, Exclusive
  <2>3. \A r \in Request : channel'[r] # NoResponse => call[r] # "idle" /\ pending[rid[r]] # r
    BY <1>1, <1>4 DEF BrokerInv, Exclusive
  <2> QED
    BY <2>1, <2>2, <2>3, <1>0 DEF Exclusive
<1>8. \A x : Begun(x) <=> Begun(x)'
  BY <1>0 DEF Begun
<1>9. SameId(match[p].resp, q)
  BY <1>0 DEF BrokerInv, Origin
<1>10. \A r \in Request : channel'[r] # NoResponse => SameId(channel'[r], r)
  BY <1>4, <1>9 DEF BrokerInv, Origin
<1>11. \A x \in Pump : match'[x] # Unmatched => SameId(match'[x].resp, match'[x].req)
  BY <1>3, <1>6 DEF BrokerInv, Origin
<1>12. Origin'
  BY <1>0, <1>8, <1>10, <1>11 DEF BrokerInv, Origin, SameId
<1> QED
  BY <1>5, <1>7, <1>12 DEF BrokerInv

\* The invariant holds in every reachable state of BrokerSpec: where a response can be
\* and which id it carries, through every race of HandleResponse, timeouts and
\* the deferred deletes.
THEOREM BrokerInvariant == BrokerSpec => []BrokerInv
<1>1. BrokerInit => BrokerInv
  BY Sentinels DEF BrokerInit, BrokerInv, NoStrandedEntry, Exclusive, Origin
<1>2. BrokerTypeOK /\ BrokerInv /\ [BrokerNext]_brokerVars => BrokerInv'
  <2> SUFFICES ASSUME BrokerTypeOK, BrokerInv, [BrokerNext]_brokerVars PROVE BrokerInv'
    OBVIOUS
  <2>1. CASE BrokerTick \/ UNCHANGED brokerVars
    <3>1. /\ call' = call /\ rid' = rid /\ pending' = pending /\ channel' = channel
          /\ result' = result /\ atAgent' = atAgent /\ inbound' = inbound /\ match' = match
      BY <2>1 DEF BrokerTick, brokerVars
    <3> QED
      BY <3>1 DEF BrokerInv, NoStrandedEntry, Exclusive, Origin, SameId, Begun
  <2>2. ASSUME NEW r \in Request, SendStep(r) PROVE BrokerInv'
    BY <2>2, RegisterStep, CallStep
  <2>3. ASSUME NEW r \in Request, Answer(r) PROVE BrokerInv'
    BY <2>3, AnswerStep
  <2>4. ASSUME NEW p \in Pump, PumpStep(p) PROVE BrokerInv'
    BY <2>4, MatchStep, DeliverStep DEF PumpStep
  <2> QED
    BY <2>1, <2>2, <2>3, <2>4 DEF BrokerNext
<1> QED
  BY <1>1, <1>2, BrokerTypeCorrect, PTL DEF BrokerSpec

\* HandleResponse never drops a response it matched: the default case of its send
\* is unreachable.
THEOREM MatchedIsDeliveredAlways == BrokerSpec => []MatchedIsDelivered
<1>1. BrokerInv => MatchedIsDelivered
  BY DEF BrokerInv, Exclusive, MatchedIsDelivered
<1> QED
  BY <1>1, BrokerInvariant, PTL

\* No call leaves an entry behind in Broker.pending.
THEOREM NoStrandedEntryAlways == BrokerSpec => []NoStrandedEntry
<1>1. BrokerInv => NoStrandedEntry
  BY DEF BrokerInv
<1> QED
  BY <1>1, BrokerInvariant, PTL

\* Send never returns the response to another call's command unless the two calls
\* share a request id.
THEOREM AnswerIsOwnAlways == BrokerSpec => []AnswerIsOwn
<1>1. BrokerInv => AnswerIsOwn
  BY DEF BrokerInv, Origin, SameId, Begun, AnswerIsOwn, Shared
<1> QED
  BY <1>1, BrokerInvariant, PTL
-----------------------------------------------------------------------------
\* A response wakes the call that waits for it.

\* While a call may still be woken, and nobody shares its id, its one chance is in one
\* place: expected, with every response so far still on its way, held by a pump, or in
\* its channel.
Expected(r) == pending[rid[r]] = r /\ \A k \in 1..answers[r] : [to |-> r, k |-> k] \in inbound
AtPump(r) == \E p \in Pump : match[p].req = r /\ match[p].resp.to = r
WakeUp(r) == Expected(r) \/ AtPump(r) \/ channel[r] # NoResponse

Unanswered == \A r \in Request : call[r] = "idle" => answers[r] = 0

WakeInv ==
    /\ Unanswered
    /\ \A r \in Request : call[r] \in {"registered", "sending", "waiting"} /\ ~Shared(r) => WakeUp(r)

LEMMA WakeInvImplies == BrokerTypeOK /\ WakeInv => ResponseWakesCaller
<1> SUFFICES ASSUME BrokerTypeOK, WakeInv, NEW r \in Request, call[r] = "waiting", Handled(r), ~Shared(r)
             PROVE  channel[r] # NoResponse
  BY DEF ResponseWakesCaller
<1>1. WakeUp(r)
  BY DEF WakeInv
<1>2. ~Expected(r)
  <2>1. answers[r] \in Nat /\ answers[r] > 0
    BY BrokerAssumption DEF Handled, BrokerTypeOK
  <2>2. 1 \in 1..answers[r]
    BY <2>1
  <2> QED
    BY <2>2 DEF Handled, Expected
<1>3. ~AtPump(r)
  BY DEF Handled, AtPump
<1> QED
  BY <1>1, <1>2, <1>3 DEF WakeUp

LEMMA WakeInit == BrokerInit => WakeInv
  BY DEF BrokerInit, WakeInv, Unanswered

\* Whoever was shared stays shared: ids and calls that began do not go back.
LEMMA SharedStays ==
    ASSUME \A q \in Request : call[q] # "idle" => call'[q] # "idle" /\ rid'[q] = rid[q],
           NEW r \in Request, call[r] # "idle", Shared(r)
    PROVE  Shared(r)'
  BY DEF Shared

LEMMA RegisterWakes ==
    ASSUME BrokerTypeOK, BrokerInv, WakeInv, NEW r \in Request, Register(r)
    PROVE  WakeInv'
<1>1. /\ call[r] = "idle" /\ rid' = [rid EXCEPT ![r] = millis]
      /\ pending' = [pending EXCEPT ![millis] = r]
      /\ call' = [call EXCEPT ![r] = "registered"]
      /\ UNCHANGED <<channel, answers, inbound, match>>
  BY DEF Register
<1>2. /\ rid'[r] = millis /\ pending'[millis] = r /\ call'[r] = "registered" /\ millis \in Id
      /\ \A q \in Request \ {r} : rid'[q] = rid[q] /\ call'[q] = call[q]
      /\ \A i \in Id \ {millis} : pending'[i] = pending[i]
  BY <1>1, Types
<1>3. Unanswered'
  BY <1>1, <1>2 DEF WakeInv, Unanswered
<1>4. WakeUp(r)'
  <2>1. answers'[r] = 0
    BY <1>1 DEF WakeInv, Unanswered
  <2>2. \A k \in 1..answers'[r] : FALSE
    BY <2>1
  <2> QED
    BY <1>2, <2>2 DEF WakeUp, Expected
<1>5. ASSUME NEW q \in Request \ {r}, call'[q] \in {"registered", "sending", "waiting"}, ~Shared(q)'
      PROVE  WakeUp(q)'
  <2>1. call[q] = call'[q] /\ rid'[q] = rid[q] /\ rid[q] \in Id
    BY <1>2, Types
  <2>2. ~Shared(q)
    BY <1>1, <1>2, <1>5, <2>1, SharedStays
  <2>3. rid[q] # millis
    BY <1>2, <1>5, <2>1 DEF Shared
  <2>4. WakeUp(q)
    BY <1>5, <2>1, <2>2 DEF WakeInv
  <2> QED
    BY <1>1, <1>2, <2>1, <2>3, <2>4 DEF WakeUp, Expected, AtPump
<1> QED
  BY <1>3, <1>4, <1>5 DEF WakeInv

\* The other steps of a call: one that returns is woken no more, and its deferred
\* delete hits nobody but those who share its id.
LEMMA CallWakes ==
    ASSUME BrokerTypeOK, BrokerInv, WakeInv, NEW r \in Request, SendStep(r), ~Register(r)
    PROVE  WakeInv'
<1>1. /\ call[r] # "idle" /\ UNCHANGED <<rid, match, inbound, answers>>
  BY DEF SendStep, SendCommand, StartWaiting, GiveUp, TakeResponse, Cleanup
<1>2. \A q \in Request \ {r} : call'[q] = call[q]
  BY Types DEF SendStep, SendCommand, StartWaiting, GiveUp, TakeResponse, Cleanup
<1>3. call'[r] # "idle"
  BY Types DEF SendStep, SendCommand, StartWaiting, GiveUp, TakeResponse, Cleanup
<1>4. Unanswered'
  BY <1>1, <1>2, <1>3 DEF WakeInv, Unanswered
<1>5. ASSUME NEW q \in Request, call'[q] \in {"registered", "sending", "waiting"}, ~Shared(q)'
      PROVE  WakeUp(q)'
  <2>1. call[q] \in {"registered", "sending", "waiting"}
    <3>1. CASE q = r
      BY <1>5, <3>1, Types DEF SendStep, SendCommand, StartWaiting, GiveUp, TakeResponse, Cleanup
    <3>2. CASE q # r
      BY <1>2, <1>5, <3>2
    <3> QED
      BY <3>1, <3>2
  <2>2. ~Shared(q)
    BY <1>1, <1>2, <1>3, <1>5, <2>1, SharedStays
  <2>3. WakeUp(q)
    BY <2>1, <2>2 DEF WakeInv
  <2>4. channel'[q] = channel[q]
    <3>1. CASE TakeResponse(r)
      <4>1. q # r
        BY <1>5, <3>1, Types DEF TakeResponse
      <4> QED
        BY <3>1, <4>1, Types DEF TakeResponse
    <3>2. CASE ~TakeResponse(r)
      BY <3>2 DEF SendStep, SendCommand, StartWaiting, GiveUp, Cleanup
    <3> QED
      BY <3>1, <3>2
  <2>5. pending'[rid[q]] = pending[rid[q]]
    <3>1. CASE Cleanup(r)
      <4>1. q # r
        BY <1>5, <3>1, Types DEF Cleanup
      <4>2. rid[q] # rid[r]
        BY <1>1, <2>2, <4>1 DEF Shared
      <4> QED
        BY <3>1, <4>2, Types DEF Cleanup
    <3>2. CASE ~Cleanup(r)
      BY <3>2 DEF SendStep, SendCommand, StartWaiting, GiveUp, TakeResponse
    <3> QED
      BY <3>1, <3>2
  <2> QED
    BY <1>1, <2>3, <2>4, <2>5 DEF WakeUp, Expected, AtPump
<1> QED
  BY <1>4, <1>5 DEF WakeInv

LEMMA AnswerWakes ==
    ASSUME BrokerTypeOK, BrokerInv, WakeInv, NEW r \in Request, Answer(r)
    PROVE  WakeInv'
<1>1. /\ answers' = [answers EXCEPT ![r] = @ + 1] /\ r \in atAgent
      /\ inbound' = inbound \union {[to |-> r, k |-> answers[r] + 1]}
      /\ UNCHANGED <<call, rid, pending, channel, match>>
  BY DEF Answer
<1>2. /\ answers'[r] = answers[r] + 1 /\ answers[r] \in Nat /\ call[r] # "idle"
      /\ \A q \in Request \ {r} : answers'[q] = answers[q]
  BY <1>1, BrokerAssumption DEF BrokerTypeOK, BrokerInv, Origin, Begun
<1>3. Unanswered'
  BY <1>1, <1>2 DEF WakeInv, Unanswered
<1>4. ASSUME NEW q \in Request, Expected(q) PROVE Expected(q)'
  <2> SUFFICES ASSUME NEW k \in 1..answers'[q] PROVE [to |-> q, k |-> k] \in inbound'
    BY <1>1, <1>4 DEF Expected
  <2>1. CASE k \in 1..answers[q]
    BY <1>1, <1>4, <2>1 DEF Expected
  <2>2. CASE k \notin 1..answers[q]
    <3>1. q = r /\ k = answers[r] + 1
      BY <1>2, <2>2
    <3> QED
      BY <1>1, <3>1
  <2> QED
    BY <2>1, <2>2
<1>5. \A q \in Request : Shared(q)' <=> Shared(q)
  BY <1>1 DEF Shared
<1> QED
  BY <1>1, <1>3, <1>4, <1>5 DEF WakeInv, WakeUp, AtPump

\* A response to a call that is expected is matched to it; one to another call leaves
\* it alone, unless they share an id.
LEMMA MatchWakes ==
    ASSUME BrokerTypeOK, BrokerInv, WakeInv, NEW p \in Pump, NEW m \in inbound, Match(p, m)
    PROVE  WakeInv'
<1> DEFINE q == pending[rid[m.to]]
<1>1. /\ match[p] = Unmatched /\ inbound' = inbound \ {m}
      /\ UNCHANGED <<call, rid, channel, answers>>
  BY DEF Match
<1>2. m.to \in Request /\ call[m.to] # "idle" /\ rid[m.to] \in Id
  BY Types DEF BrokerInv, Origin, Begun
<1>3. \A x \in Request : Shared(x)' <=> Shared(x)
  BY <1>1 DEF Shared
<1>4. Unanswered'
  BY <1>1 DEF WakeInv, Unanswered
<1>5. ASSUME NEW r \in Request, call[r] \in {"registered", "sending", "waiting"}, ~Shared(r)
      PROVE  WakeUp(r)'
  <2>1. WakeUp(r)
    BY <1>5 DEF WakeInv
  <2>2. CASE channel[r] # NoResponse
    BY <1>1, <2>2 DEF WakeUp
  <2>3. CASE AtPump(r)
    <3>1. PICK x \in Pump : match[x].req = r /\ match[x].resp.to = r
      BY <2>3 DEF AtPump
    <3>2. x # p
      BY <1>1, <3>1, Sentinels
    <3>3. match'[x] = match[x]
      BY <3>2, Types DEF Match
    <3> QED
      BY <3>1, <3>3 DEF WakeUp, AtPump
  <2>4. CASE Expected(r) /\ m.to = r
    <3>1. q = r /\ q # NoRequest
      BY <2>4, Sentinels DEF Expected
    <3>2. match' = [match EXCEPT ![p] = [req |-> q, resp |-> m]]
      BY <3>1 DEF Match
    <3>3. match'[p].req = r /\ match'[p].resp = m
      BY <3>1, <3>2, Types
    <3> QED
      BY <2>4, <3>3 DEF WakeUp, AtPump
  <2>5. CASE Expected(r) /\ m.to # r
    <3>1. rid[m.to] # rid[r] /\ rid[r] \in Id
      BY <1>2, <1>5, <2>5, Types DEF Shared
    <3>2. pending'[rid[r]] = r
      BY <1>2, <2>5, <3>1, Types DEF Match, Expected
    <3>3. \A k \in 1..answers[r] : [to |-> r, k |-> k] \in inbound'
      BY <1>1, <2>5 DEF Expected
    <3> QED
      BY <1>1, <3>2, <3>3 DEF WakeUp, Expected
  <2> QED
    BY <2>1, <2>2, <2>3, <2>4, <2>5 DEF WakeUp
<1> QED
  BY <1>1, <1>3, <1>4, <1>5 DEF WakeInv

\* What a pump holds for a call goes into its channel.
LEMMA DeliverWakes ==
    ASSUME BrokerTypeOK, BrokerInv, WakeInv, NEW p \in Pump, Deliver(p)
    PROVE  WakeInv'
<1>1. /\ match[p] # Unmatched /\ match' = [match EXCEPT ![p] = Unmatched]
      /\ UNCHANGED <<call, rid, pending, answers, inbound>>
  BY DEF Deliver
<1>2. \A x \in Pump \ {p} : match'[x] = match[x]
  BY <1>1, Types
<1>3. match[p].req \in Request /\ channel[match[p].req] = NoResponse
  BY <1>1 DEF BrokerInv, Exclusive
<1>4. /\ channel'[match[p].req] = match[p].resp
      /\ \A r \in Request : r # match[p].req => channel'[r] = channel[r]
  BY <1>3, Types DEF Deliver
<1>5. \A x \in Request : Shared(x)' <=> Shared(x)
  BY <1>1 DEF Shared
<1>6. Unanswered'
  BY <1>1 DEF WakeInv, Unanswered
<1>7. ASSUME NEW r \in Request, WakeUp(r) PROVE WakeUp(r)'
  <2>1. CASE Expected(r)
    BY <1>1, <2>1 DEF WakeUp, Expected
  <2>2. CASE channel[r] # NoResponse
    BY <1>3, <1>4, <2>2 DEF WakeUp
  <2>3. CASE AtPump(r)
    <3>1. PICK x \in Pump : match[x].req = r /\ match[x].resp.to = r
      BY <2>3 DEF AtPump
    <3>2. CASE x = p
      <4>1. channel'[r] = match[p].resp /\ match[p].resp.to = r
        BY <1>4, <3>1, <3>2
      <4>2. channel'[r] # NoResponse
        BY <4>1, Sentinels
      <4> QED
        BY <4>2 DEF WakeUp
    <3>3. CASE x # p
      BY <1>2, <3>1, <3>3 DEF WakeUp, AtPump
    <3> QED
      BY <3>2, <3>3
  <2> QED
    BY <1>7, <2>1, <2>2, <2>3 DEF WakeUp
<1> QED
  BY <1>1, <1>5, <1>6, <1>7 DEF WakeInv

LEMMA WakeStep == BrokerTypeOK /\ BrokerInv /\ WakeInv /\ [BrokerNext]_brokerVars => WakeInv'
<1> SUFFICES ASSUME BrokerTypeOK, BrokerInv, WakeInv, [BrokerNext]_brokerVars PROVE WakeInv'
  OBVIOUS
<1>1. CASE BrokerTick \/ UNCHANGED brokerVars
  <2>1. UNCHANGED <<call, rid, pending, channel, answers, inbound, match>>
    BY <1>1 DEF BrokerTick, brokerVars
  <2> QED
    BY <2>1 DEF WakeInv, Unanswered, WakeUp, Expected, AtPump, Shared
<1>2. ASSUME NEW r \in Request, SendStep(r) PROVE WakeInv'
  BY <1>2, RegisterWakes, CallWakes
<1>3. ASSUME NEW r \in Request, Answer(r) PROVE WakeInv'
  BY <1>3, AnswerWakes
<1>4. ASSUME NEW p \in Pump, PumpStep(p) PROVE WakeInv'
  BY <1>4, MatchWakes, DeliverWakes DEF PumpStep
<1> QED
  BY <1>1, <1>2, <1>3, <1>4 DEF BrokerNext

\* Send is woken by the response to its command (Broker.Send, HandleResponse): however
\* the pumps, the timeouts and the deferred deletes of any number of calls interleave, a
\* call that still waits when a response to it has been handled finds one in its
\* channel, unless another call shares its id.
THEOREM ResponseWakesCallerAlways == BrokerSpec => []ResponseWakesCaller
  BY WakeInit, WakeStep, WakeInvImplies, BrokerTypeCorrect, BrokerInvariant, PTL DEF BrokerSpec
-----------------------------------------------------------------------------
(* The update flow *)


HttpPhase == {"idle", "read", "waiting", "acked", "gaveUp", "done"}
RowStatus == Stages \union {"", "done"}
JobStage == Stages \union {"none", "commanded", "replaced", "killed"}

FlowTypeOK ==
    /\ flowMay \subseteq FlowDisturbances
    /\ agentRow \in AgentRow
    /\ http \in [UpdateRequest -> HttpPhase]
    /\ read \in [UpdateRequest -> AgentRow]
    /\ woken \in [UpdateRequest -> Stages \union {"none"}]
    /\ stageOf \in [UpdateRequest -> JobStage]
    /\ runs \in Version
    /\ conn \in Conn
    /\ up \in [Conn -> Seq(Message)]
    /\ pump \in [Conn -> BOOLEAN]
    /\ copy \in [Conn -> AgentRow]

RegisterMsg(version) == [kind |-> "REGISTER", version |-> version]
ResponseMsg(r, stage) == [kind |-> "RESPONSE", req |-> r, stage |-> stage]

\* Nothing is sent on a connection to come, a pump has a message, and a connection
\* carries a REGISTER at most first.
LineInv ==
    \A c \in Conn :
        /\ c > conn => up[c] = <<>>
        /\ pump[c] => up[c] # <<>>
        /\ \A i \in 2..Len(up[c]) : up[c][i].kind = "RESPONSE"

\* Handled in order, the connections leave the version of the last REGISTER: it is still
\* to be handled, or the row has it.
VersionInv ==
    "overtaking" \notin flowMay =>
        /\ \A c \in Conn : pump[c] =>
              copy[c].version = agentRow.version /\ \A d \in Conn : d < c => up[d] = <<>>
        /\ \/ up[conn] # <<>> /\ up[conn][1] = RegisterMsg(runs)
           \/ /\ agentRow.version = runs
              /\ \A d \in Conn : d < conn => up[d] = <<>>
              /\ up[conn] # <<>> => up[conn][1].kind = "RESPONSE"

\* A request is answered only while its handler waits; one not dispatched has no job, one
\* not recorded is not the target of the row nor of its copy.
RequestInv ==
    \A q \in UpdateRequest :
        /\ woken[q] # "none" => http[q] = "waiting"
        /\ http[q] \in {"idle", "read"} => stageOf[q] = "none"
        /\ http[q] # "done" => agentRow.target # q /\ read[q].target # q
        /\ runs = q => stageOf[q] = "replaced"

\* One update at a time, nothing lost, the handler saves before the pumps go on.
Calm == flowMay \subseteq {"overtaking"}

\* The connection an update reports on, before and after the agent is replaced, and the
\* last stage sent there.
LineOf(r) == IF stageOf[r] = "replaced" THEN conn - 1 ELSE conn
LastSent(r) == IF stageOf[r] = "replaced" THEN "restarting" ELSE stageOf[r]

FirstStages == {"started", "failed"}
ShowsFailure == agentRow.status = "failed" /\ agentRow.err

\* What is on the connection of an update.
LineHolds(r, l) ==
    /\ \A d \in Conn : d # l /\ d # conn => up[d] = <<>>
    /\ \A i \in 1..Len(up[l]) : up[l][i] = ResponseMsg(r, up[l][i].stage)
    /\ up[l] # <<>> => up[l][Len(up[l])].stage = LastSent(r)

\* Until the first message is stored the row is as the handler read it; a pump works on
\* the present row, or on the one from before the handler gave up, and then it handles
\* the first message.
HandlerFollows(r, l) ==
    /\ http[r] = "read" => agentRow = read[r] /\ stageOf[r] = "none"
    /\ http[r] = "waiting" /\ woken[r] = "none" =>
         /\ agentRow = read[r]
         /\ up[l] = <<>> => stageOf[r] = "commanded"
         /\ up[l] # <<>> => up[l][1].stage \in FirstStages
    /\ pump[l] =>
         /\ http[r] \notin {"read", "acked"} /\ woken[r] = "none"
         /\ \/ copy[l] = agentRow
            \/ http[r] = "done" /\ ShowsFailure /\ up[l][1].stage \in FirstStages
         /\ http[r] \in {"waiting", "gaveUp"} => agentRow = read[r] /\ up[l][1].stage \in FirstStages

\* When the last message is handled the row has its outcome, and what the handler may
\* still save does not change it.
OutcomeKept(r, l) ==
    up[l] = <<>> =>
        /\ LastSent(r) = "none" =>
             /\ http[r] \in {"read", "gaveUp", "done"}
             /\ http[r] = "gaveUp" => agentRow = read[r]
             /\ http[r] = "done" => ShowsFailure
        /\ LastSent(r) = "failed" =>
             /\ http[r] \in {"waiting", "gaveUp", "done"}
             /\ http[r] = "waiting" => woken[r] = "failed"
             /\ ShowsFailure
        /\ LastSent(r) = "restart_required" =>
             http[r] = "done" /\ agentRow.status = "restart_required" /\ ~agentRow.err
        /\ LastSent(r) = "restarting" =>
             /\ http[r] = "done"
             /\ stageOf[r] = "restarting" \/ up[conn] # <<>> => agentRow.status = "restarting"

\* The agent that replaced the old one registers after everything the old one sent.
RegisterFollows(r, l) ==
    stageOf[r] = "replaced" =>
        /\ up[conn] \in {<<>>, <<RegisterMsg(r)>>}
        /\ up[conn] = <<>> =>
             up[l] = <<>> /\ http[r] = "done" /\ agentRow.status = "done" /\ ~agentRow.err
        /\ pump[conn] => up[l] = <<>> /\ copy[conn] = agentRow

LineFacts(r, l) ==
    LineHolds(r, l) /\ HandlerFollows(r, l) /\ OutcomeKept(r, l) /\ RegisterFollows(r, l)

\* r is the update requested last: the others are over, and the row names it once its
\* handler has saved.
Alone(r) ==
    /\ \A q \in UpdateRequest \ {r} : http[q] \in {"idle", "done"} /\ stageOf[q] \in JobEnded
    /\ http[r] # "idle" /\ stageOf[r] # "killed"
    /\ http[r] = "done" => agentRow.target = r

\* Overtaking may show the stages of the old agent after the REGISTER of the new one.
InOrder(r) == stageOf[r] # "replaced" \/ "overtaking" \notin flowMay

JobInv(r) ==
    Alone(r) /\ (InOrder(r) => \E l \in Conn : l = LineOf(r) /\ LineFacts(r, l))

NothingYet ==
    /\ \A q \in UpdateRequest : http[q] = "idle"
    /\ \A c \in Conn : up[c] = <<>>
    /\ agentRow = Empty /\ runs = Base

OutcomeInv == Calm => NothingYet \/ \E r \in UpdateRequest : JobInv(r)

FlowInv == FlowTypeOK /\ LineInv /\ VersionInv /\ RequestInv /\ OutcomeInv

-----------------------------------------------------------------------------
(* Sequences, messages and rows *)

LEMMA LineElements ==
    ASSUME NEW S, NEW s \in Seq(S)
    PROVE  /\ Len(s) \in Nat /\ (s = <<>> <=> Len(s) = 0) /\ \A i \in 1..Len(s) : s[i] \in S
           /\ \A e \in S : /\ Append(s, e) \in Seq(S) /\ Append(s, e) # <<>>
                           /\ Len(Append(s, e)) = Len(s) + 1
                           /\ \A i \in 1..Len(s) : Append(s, e)[i] = s[i]
                           /\ Append(s, e)[Len(s) + 1] = e
           /\ s # <<>> => /\ Len(s) >= 1 /\ Head(s) = s[1] /\ Head(s) \in S
                          /\ Tail(s) \in Seq(S) /\ Len(Tail(s)) = Len(s) - 1
                          /\ \A i \in 1..Len(Tail(s)) : Tail(s)[i] = s[i + 1]
           /\ \A k \in 0..Len(s) : /\ SubSeq(s, 1, k) \in Seq(S) /\ Len(SubSeq(s, 1, k)) = k
                                   /\ \A i \in 1..k : SubSeq(s, 1, k)[i] = s[i]
           /\ SubSeq(s, 1, Len(s)) = s
  OBVIOUS

LEMMA MessageFacts ==
    /\ \A v \in Version : RegisterMsg(v) \in Message /\ RegisterMsg(v).kind = "REGISTER" /\ RegisterMsg(v).version = v
    /\ \A q \in UpdateRequest, stage \in Stages :
          /\ ResponseMsg(q, stage) \in Message /\ ResponseMsg(q, stage).kind = "RESPONSE"
          /\ ResponseMsg(q, stage).req = q /\ ResponseMsg(q, stage).stage = stage
    /\ \A m \in Message :
          /\ m.kind \in {"REGISTER", "RESPONSE"}
          /\ m.kind = "REGISTER" => m.version \in Version /\ m = RegisterMsg(m.version)
          /\ m.kind = "RESPONSE" => m.req \in UpdateRequest /\ m.stage \in Stages /\ m = ResponseMsg(m.req, m.stage)
<1>1. \A v \in Version : RegisterMsg(v) \in Message /\ RegisterMsg(v).kind = "REGISTER" /\ RegisterMsg(v).version = v
  BY DEF RegisterMsg, Message
<1>2. \A q \in UpdateRequest, stage \in Stages :
          /\ ResponseMsg(q, stage) \in Message /\ ResponseMsg(q, stage).kind = "RESPONSE"
          /\ ResponseMsg(q, stage).req = q /\ ResponseMsg(q, stage).stage = stage
  BY DEF ResponseMsg, Message
<1>3. ASSUME NEW m \in [kind : {"REGISTER"}, version : Version]
      PROVE  m.kind = "REGISTER" /\ m.version \in Version /\ m = RegisterMsg(m.version)
  BY DEF RegisterMsg
<1>4. ASSUME NEW m \in [kind : {"RESPONSE"}, req : UpdateRequest, stage : Stages]
      PROVE  m.kind = "RESPONSE" /\ m.req \in UpdateRequest /\ m.stage \in Stages /\ m = ResponseMsg(m.req, m.stage)
  BY DEF ResponseMsg
<1> QED
  BY <1>1, <1>2, <1>3, <1>4 DEF Message

LEMMA RowFields ==
    ASSUME NEW row \in AgentRow
    PROVE  /\ DOMAIN row = {"status", "target", "version", "err"}
           /\ row.status \in RowStatus /\ row.target \in UpdateRequest \union {NoTarget}
           /\ row.version \in Version /\ row.err \in BOOLEAN
  BY DEF AgentRow, RowStatus

LEMMA EmptyRow ==
    /\ Empty \in AgentRow /\ Empty.target = NoTarget /\ Empty.version = Base /\ Empty.err = FALSE
    /\ Empty.status # "failed"
  BY DEF Empty, AgentRow, Version

LEMMA RequestedRow ==
    ASSUME NEW old \in AgentRow, NEW r \in UpdateRequest, NEW ok \in BOOLEAN
    PROVE  /\ Requested(old, r, ok) \in AgentRow
           /\ Requested(old, r, ok).target = r /\ Requested(old, r, ok).version = old.version
           /\ ~ok => Requested(old, r, ok).status = "failed" /\ Requested(old, r, ok).err = TRUE
  BY DEF Requested, AgentRow, Stages

LEMMA ReportedRow ==
    ASSUME NEW old \in AgentRow, NEW stage \in Stages
    PROVE  /\ Reported(old, stage) \in AgentRow
           /\ Reported(old, stage).status = stage
           /\ Reported(old, stage).target = old.target /\ Reported(old, stage).version = old.version
           /\ stage = "failed" => Reported(old, stage).err = TRUE
           /\ stage = "restart_required" => Reported(old, stage).err = FALSE
  BY DEF Reported, AgentRow, Stages

LEMMA RegisteredRow ==
    ASSUME NEW old \in AgentRow, NEW v \in Version
    PROVE  /\ Registered(old, v) \in AgentRow
           /\ Registered(old, v).target = old.target /\ Registered(old, v).version = v
           /\ old.target = v /\ old.status # "done" =>
                Registered(old, v).status = "done" /\ Registered(old, v).err = FALSE
  BY DEF Registered, AgentRow, Stages

\* A save field by field.
SavedFields(old, new) ==
    /\ agentRow'.status = (IF new.status # old.status THEN new.status ELSE agentRow.status)
    /\ agentRow'.target = (IF new.target # old.target THEN new.target ELSE agentRow.target)
    /\ agentRow'.version = (IF new.version # old.version THEN new.version ELSE agentRow.version)
    /\ agentRow'.err = (IF new.err # old.err THEN new.err ELSE agentRow.err)

LEMMA SavedRow ==
    ASSUME agentRow \in AgentRow, NEW old \in AgentRow, NEW new \in AgentRow, SaveRecord(old, new)
    PROVE  agentRow' \in AgentRow /\ SavedFields(old, new)
<1> DEFINE saved(f) == IF new[f] # old[f] THEN new[f] ELSE agentRow[f]
<1>1. DOMAIN agentRow = {"status", "target", "version", "err"}
  BY RowFields
<1>2. agentRow' = [f \in {"status", "target", "version", "err"} |-> saved(f)]
  BY <1>1 DEF SaveRecord
<1>3. /\ saved("status") \in RowStatus /\ saved("target") \in UpdateRequest \union {NoTarget}
      /\ saved("version") \in Version /\ saved("err") \in BOOLEAN
  BY RowFields
<1>4. /\ agentRow'.status = saved("status") /\ agentRow'.target = saved("target")
      /\ agentRow'.version = saved("version") /\ agentRow'.err = saved("err")
  BY <1>2
<1>5. agentRow' \in AgentRow
  <2> HIDE DEF saved
  <2> QED
    BY <1>2, <1>3 DEF AgentRow, RowStatus
<1> QED
  BY <1>4, <1>5 DEF SavedFields

-----------------------------------------------------------------------------
(* What the steps do to rows and lines *)

LEMMA FlowConstants ==
    /\ Conn \subseteq Nat /\ \A c, d \in Conn : c < d \/ d < c \/ c = d
    /\ 1 \in Conn /\ \A c \in Conn : c < MaxConns => c + 1 \in Conn
    /\ Base \in Version /\ UpdateRequest \subseteq Version /\ NoTarget \notin Version
    /\ Base \notin UpdateRequest
  BY FlowAssumption DEF Conn, Version

LEMMA FlowLines ==
    ASSUME FlowTypeOK
    PROVE  /\ conn \in Conn /\ conn \in Nat
           /\ \A c \in Conn :
                 /\ up[c] \in Seq(Message) /\ Len(up[c]) \in Nat /\ (up[c] = <<>> <=> Len(up[c]) = 0)
                 /\ \A i \in 1..Len(up[c]) : up[c][i] \in Message
                 /\ pump[c] \in BOOLEAN
                 /\ copy[c] \in AgentRow
<1>1. conn \in Conn /\ \A c \in Conn : up[c] \in Seq(Message) /\ pump[c] \in BOOLEAN /\ copy[c] \in AgentRow
  BY DEF FlowTypeOK
<1> QED
  BY <1>1, LineElements, FlowConstants

\* A stage goes to the end of the present connection.
LEMMA SendEffect ==
    ASSUME FlowTypeOK, NEW r \in UpdateRequest, NEW stage \in Stages, SendStage(r, stage)
    PROVE  /\ up' \in [Conn -> Seq(Message)] /\ \A d \in Conn : d # conn => up'[d] = up[d]
           /\ up'[conn] # <<>> /\ Len(up'[conn]) = Len(up[conn]) + 1
           /\ \A i \in 1..Len(up[conn]) : up'[conn][i] = up[conn][i]
           /\ up'[conn][Len(up[conn]) + 1] = ResponseMsg(r, stage)
           /\ stageOf' \in [UpdateRequest -> JobStage] /\ stageOf'[r] = stage
           /\ \A q \in UpdateRequest : q # r => stageOf'[q] = stageOf[q]
           /\ UNCHANGED <<hubSide, runs, conn>>
<1>1. conn \in Conn /\ up[conn] \in Seq(Message) /\ up \in [Conn -> Seq(Message)]
  BY FlowLines DEF FlowTypeOK
<1>2. ResponseMsg(r, stage) \in Message
  BY MessageFacts
<1>3. up' = [up EXCEPT ![conn] = Append(up[conn], ResponseMsg(r, stage))]
  BY DEF SendStage, SendToHub, ResponseMsg
<1>4. Append(up[conn], ResponseMsg(r, stage)) \in Seq(Message)
  BY <1>1, <1>2, LineElements
<1>5. up' \in [Conn -> Seq(Message)] /\ \A d \in Conn : d # conn => up'[d] = up[d]
  BY <1>1, <1>3, <1>4
<1>6. up'[conn] = Append(up[conn], ResponseMsg(r, stage))
  BY <1>1, <1>3
<1>7. /\ up'[conn] # <<>> /\ Len(up'[conn]) = Len(up[conn]) + 1
      /\ \A i \in 1..Len(up[conn]) : up'[conn][i] = up[conn][i]
      /\ up'[conn][Len(up[conn]) + 1] = ResponseMsg(r, stage)
  BY <1>1, <1>2, <1>6, LineElements
<1>8. /\ stageOf' \in [UpdateRequest -> JobStage] /\ stageOf'[r] = stage
      /\ \A q \in UpdateRequest : q # r => stageOf'[q] = stageOf[q]
  BY DEF SendStage, FlowTypeOK, JobStage
<1> QED
  BY <1>5, <1>7, <1>8 DEF SendStage

\* A new connection begins with a REGISTER; the old one keeps a prefix of what it carried.
LEMMA ConnectEffect ==
    ASSUME FlowTypeOK, NEW v \in Version, NewConnection(v)
    PROVE  /\ conn' = conn + 1 /\ conn' \in Conn
           /\ up' \in [Conn -> Seq(Message)] /\ up'[conn'] = <<RegisterMsg(v)>>
           /\ \A d \in Conn : d # conn /\ d # conn' => up'[d] = up[d]
           /\ Len(up'[conn]) <= Len(up[conn])
           /\ \A i \in 1..Len(up'[conn]) : up'[conn][i] = up[conn][i]
           /\ pump[conn] /\ up[conn] # <<>> => up'[conn] # <<>>
           /\ "loss" \notin flowMay => up'[conn] = up[conn]
<1>1. conn \in Conn /\ conn' = conn + 1 /\ conn' \in Conn /\ conn # conn'
  BY FlowLines, FlowConstants DEF NewConnection
<1>2. up[conn] \in Seq(Message) /\ up \in [Conn -> Seq(Message)] /\ Len(up[conn]) \in Nat
  BY FlowLines DEF FlowTypeOK
<1>3. PICK k \in 0..Len(up[conn]) :
          /\ "loss" \in flowMay \/ k = Len(up[conn])
          /\ k < Len(up[conn]) => ~pump[conn] \/ k > 0
          /\ up' = [up EXCEPT ![conn] = SubSeq(up[conn], 1, k), ![conn + 1] = <<RegisterMsg(v)>>]
  BY <1>1 DEF NewConnection, RegisterMsg
<1>4. <<RegisterMsg(v)>> \in Seq(Message)
  BY MessageFacts
<1>5. /\ SubSeq(up[conn], 1, k) \in Seq(Message) /\ Len(SubSeq(up[conn], 1, k)) = k
      /\ \A i \in 1..k : SubSeq(up[conn], 1, k)[i] = up[conn][i]
      /\ SubSeq(up[conn], 1, Len(up[conn])) = up[conn]
  BY <1>2, LineElements
<1>6. /\ up' \in [Conn -> Seq(Message)] /\ up'[conn'] = <<RegisterMsg(v)>>
      /\ \A d \in Conn : d # conn /\ d # conn' => up'[d] = up[d]
      /\ up'[conn] = SubSeq(up[conn], 1, k)
  BY <1>1, <1>2, <1>3, <1>4, <1>5
<1>7. pump[conn] /\ up[conn] # <<>> => up'[conn] # <<>>
  <2> SUFFICES ASSUME pump[conn], up[conn] # <<>> PROVE up'[conn] # <<>>
    OBVIOUS
  <2>1. k > 0
    BY <1>2, <1>3, LineElements
  <2>2. Len(up'[conn]) = k /\ Len(<<>>) = 0
    BY <1>5, <1>6
  <2> QED
    BY <2>1, <2>2
<1>8. /\ Len(up'[conn]) <= Len(up[conn])
      /\ \A i \in 1..Len(up'[conn]) : up'[conn][i] = up[conn][i]
  BY <1>2, <1>5, <1>6
<1>9. "loss" \notin flowMay => up'[conn] = up[conn]
  <2> SUFFICES ASSUME "loss" \notin flowMay PROVE up'[conn] = up[conn]
    OBVIOUS
  <2>1. k = Len(up[conn])
    BY <1>3
  <2> QED
    BY <2>1, <1>5, <1>6
<1> QED
  BY <1>1, <1>6, <1>7, <1>8, <1>9

\* A pump stores its first message.
LEMMA StoreEffect ==
    ASSUME FlowTypeOK, LineInv, NEW c \in Conn, StoreRow(c)
    PROVE  /\ pump[c] /\ up[c] # <<>> /\ up[c][1] \in Message
           /\ up' \in [Conn -> Seq(Message)] /\ \A d \in Conn : d # c => up'[d] = up[d]
           /\ Len(up'[c]) = Len(up[c]) - 1 /\ \A i \in 1..Len(up'[c]) : up'[c][i] = up[c][i + 1]
           /\ \/ /\ up[c][1].kind = "REGISTER" /\ UNCHANGED woken
                 /\ SaveRecord(copy[c], Registered(copy[c], up[c][1].version))
              \/ /\ up[c][1].kind = "RESPONSE"
                 /\ SaveRecord(copy[c], Reported(copy[c], up[c][1].stage))
                 /\ woken' = IF http[up[c][1].req] = "waiting" /\ woken[up[c][1].req] = "none"
                             THEN [woken EXCEPT ![up[c][1].req] = up[c][1].stage] ELSE woken
           /\ agentRow' \in AgentRow /\ agentRow'.target = agentRow.target
           /\ pump' = [pump EXCEPT ![c] = FALSE] /\ copy' = [copy EXCEPT ![c] = Empty]
           /\ UNCHANGED <<flowMay, http, read, stageOf, runs, conn>>
<1>1. /\ pump[c] /\ up[c] # <<>> /\ up[c] \in Seq(Message) /\ up \in [Conn -> Seq(Message)]
      /\ copy[c] \in AgentRow /\ agentRow \in AgentRow
  BY FlowLines DEF StoreRow, LineInv, FlowTypeOK
<1>2. Head(up[c]) = up[c][1] /\ up[c][1] \in Message
  BY <1>1, LineElements
<1>3. /\ Tail(up[c]) \in Seq(Message) /\ Len(Tail(up[c])) = Len(up[c]) - 1
      /\ \A i \in 1..Len(Tail(up[c])) : Tail(up[c])[i] = up[c][i + 1]
  BY <1>1, LineElements
<1>4. up' = [up EXCEPT ![c] = Tail(up[c])]
  BY DEF StoreRow
<1>5. up' \in [Conn -> Seq(Message)] /\ up'[c] = Tail(up[c]) /\ \A d \in Conn : d # c => up'[d] = up[d]
  BY <1>1, <1>3, <1>4
<1>6. \/ /\ up[c][1].kind = "REGISTER" /\ UNCHANGED woken
         /\ SaveRecord(copy[c], Registered(copy[c], up[c][1].version))
      \/ /\ up[c][1].kind = "RESPONSE"
         /\ SaveRecord(copy[c], Reported(copy[c], up[c][1].stage))
         /\ woken' = IF http[up[c][1].req] = "waiting" /\ woken[up[c][1].req] = "none"
                     THEN [woken EXCEPT ![up[c][1].req] = up[c][1].stage] ELSE woken
  BY <1>2 DEF StoreRow
<1>7. agentRow' \in AgentRow /\ agentRow'.target = agentRow.target
  <2>1. CASE up[c][1].kind = "REGISTER" /\ SaveRecord(copy[c], Registered(copy[c], up[c][1].version))
    <3>1. up[c][1].version \in Version
      BY <1>2, <2>1, MessageFacts
    <3>2. /\ Registered(copy[c], up[c][1].version) \in AgentRow
          /\ Registered(copy[c], up[c][1].version).target = copy[c].target
      BY <1>1, <3>1, RegisteredRow
    <3>3. agentRow' \in AgentRow /\ SavedFields(copy[c], Registered(copy[c], up[c][1].version))
      BY <1>1, <2>1, <3>2, SavedRow
    <3> QED
      BY <3>2, <3>3 DEF SavedFields
  <2>2. CASE up[c][1].kind = "RESPONSE" /\ SaveRecord(copy[c], Reported(copy[c], up[c][1].stage))
    <3>1. up[c][1].stage \in Stages
      BY <1>2, <2>2, MessageFacts
    <3>2. /\ Reported(copy[c], up[c][1].stage) \in AgentRow
          /\ Reported(copy[c], up[c][1].stage).target = copy[c].target
      BY <1>1, <3>1, ReportedRow
    <3>3. agentRow' \in AgentRow /\ SavedFields(copy[c], Reported(copy[c], up[c][1].stage))
      BY <1>1, <2>2, <3>2, SavedRow
    <3> QED
      BY <3>2, <3>3 DEF SavedFields
  <2> QED
    BY <1>6, <2>1, <2>2
<1>8. /\ pump' = [pump EXCEPT ![c] = FALSE] /\ copy' = [copy EXCEPT ![c] = Empty]
      /\ UNCHANGED <<flowMay, http, read, stageOf, runs, conn>>
  BY DEF StoreRow
<1> QED
  BY <1>1, <1>2, <1>3, <1>5, <1>6, <1>7, <1>8

\* The handler records its outcome.
LEMMA RecordEffect ==
    ASSUME FlowTypeOK, NEW r \in UpdateRequest, recordUpdateRequest(r)
    PROVE  /\ agentRow' \in AgentRow /\ agentRow'.version = agentRow.version
           /\ read[r].target # r => agentRow'.target = r
           /\ agentRow'.target \in {r, agentRow.target}
           /\ http[r] = "gaveUp" /\ read[r] = agentRow => agentRow'.status = "failed" /\ agentRow'.err
           /\ http[r] = "gaveUp" /\ ShowsFailure => agentRow'.status = "failed" /\ agentRow'.err
<1> DEFINE ok == http[r] = "acked"
<1>1. agentRow \in AgentRow /\ read[r] \in AgentRow /\ ok \in BOOLEAN
  BY DEF FlowTypeOK
<1>2. SaveRecord(read[r], Requested(read[r], r, ok))
  BY DEF recordUpdateRequest
<1>3. /\ Requested(read[r], r, ok) \in AgentRow
      /\ Requested(read[r], r, ok).target = r /\ Requested(read[r], r, ok).version = read[r].version
      /\ ~ok => Requested(read[r], r, ok).status = "failed" /\ Requested(read[r], r, ok).err = TRUE
  BY <1>1, RequestedRow
<1>4. http[r] = "gaveUp" => ~ok
  OBVIOUS
<1> HIDE DEF ok
<1>5. agentRow' \in AgentRow /\ SavedFields(read[r], Requested(read[r], r, ok))
  BY <1>1, <1>2, <1>3, SavedRow
<1>6. /\ agentRow'.version = agentRow.version /\ agentRow'.target \in {r, agentRow.target}
      /\ read[r].target # r => agentRow'.target = r
  BY <1>3, <1>5 DEF SavedFields
<1>7. ASSUME http[r] = "gaveUp", read[r] = agentRow \/ ShowsFailure
      PROVE  agentRow'.status = "failed" /\ agentRow'.err
  <2>1. /\ agentRow'.status = (IF "failed" # read[r].status THEN "failed" ELSE agentRow.status)
        /\ agentRow'.err = (IF TRUE # read[r].err THEN TRUE ELSE agentRow.err)
    BY <1>3, <1>4, <1>5, <1>7 DEF SavedFields
  <2>2. agentRow'.status = "failed"
    BY <1>7, <2>1 DEF ShowsFailure
  <2>3. agentRow'.err
    BY <1>7, <2>1 DEF ShowsFailure
  <2> QED
    BY <2>2, <2>3
<1> QED
  BY <1>5, <1>6, <1>7

\* The steps of the agent that report a stage.
Reporting(r, stage) ==
    /\ SendStage(r, stage)
    /\ stageOf[r] \in {"commanded", "started", "downloading", "verifying", "installing"}
    /\ stageOf[r] = "commanded" => stage \in FirstStages

LEMMA ReportCases ==
    ASSUME NEW r \in UpdateRequest, HandleUpdateCommand(r) \/ Progress(r) \/ ApplyFails(r)
    PROVE  \E stage \in Stages : Reporting(r, stage)
  BY DEF HandleUpdateCommand, Progress, ApplyFails, Reporting, FirstStages, Stages

LEMMA FlowCases ==
    ASSUME [FlowNext]_flowVars
    PROVE  \/ \E r \in UpdateRequest : \/ ReadAgentRow(r) \/ DispatchUpdate(r) \/ Wake(r)
                                       \/ Timeout(r) \/ recordUpdateRequest(r)
                                       \/ \E stage \in Stages : Reporting(r, stage)
                                       \/ RestartAgent(r)
           \/ \E c \in Conn : LoadRow(c) \/ StoreRow(c)
           \/ Reconnect
           \/ UNCHANGED flowVars
  BY ReportCases DEF FlowNext, HandlerStep, AgentStep, FlowPumpStep

LEMMA FlowTypeInit == FlowInit(FlowRegimes) => FlowTypeOK
<1> SUFFICES ASSUME FlowInit(FlowRegimes) PROVE FlowTypeOK
  OBVIOUS
<1>1. flowMay \subseteq FlowDisturbances
  BY FlowAssumption DEF FlowInit
<1>2. agentRow \in AgentRow /\ read \in [UpdateRequest -> AgentRow] /\ copy \in [Conn -> AgentRow]
  BY EmptyRow DEF FlowInit
<1>3. /\ http \in [UpdateRequest -> HttpPhase] /\ woken \in [UpdateRequest -> Stages \union {"none"}]
      /\ stageOf \in [UpdateRequest -> JobStage]
  BY DEF FlowInit, HttpPhase, JobStage
<1>4. runs \in Version /\ conn \in Conn /\ pump \in [Conn -> BOOLEAN]
  BY FlowConstants DEF FlowInit
<1>5. <<>> \in Seq(Message)
  OBVIOUS
<1>6. up \in [Conn -> Seq(Message)]
  BY <1>5 DEF FlowInit
<1> QED
  BY <1>1, <1>2, <1>3, <1>4, <1>6 DEF FlowTypeOK

LEMMA FlowTypeStep ==
    ASSUME FlowTypeOK, LineInv, [FlowNext]_flowVars
    PROVE  FlowTypeOK'
<1>1. ASSUME NEW r \in UpdateRequest, ReadAgentRow(r) PROVE FlowTypeOK'
  BY <1>1 DEF FlowTypeOK, ReadAgentRow, HttpPhase
<1>2. ASSUME NEW r \in UpdateRequest, DispatchUpdate(r) PROVE FlowTypeOK'
  <2>1. http' \in [UpdateRequest -> HttpPhase]
    BY <1>2 DEF FlowTypeOK, DispatchUpdate, HttpPhase
  <2>2. stageOf' = stageOf \/ stageOf' = [stageOf EXCEPT ![r] = "commanded"]
    BY <1>2 DEF DispatchUpdate
  <2>3. stageOf' \in [UpdateRequest -> JobStage]
    BY <2>2 DEF FlowTypeOK, JobStage
  <2> QED
    BY <1>2, <2>1, <2>3 DEF FlowTypeOK, DispatchUpdate
<1>3. ASSUME NEW r \in UpdateRequest, Wake(r) PROVE FlowTypeOK'
  BY <1>3 DEF FlowTypeOK, Wake, HttpPhase
<1>4. ASSUME NEW r \in UpdateRequest, Timeout(r) PROVE FlowTypeOK'
  BY <1>4 DEF FlowTypeOK, Timeout, HttpPhase
<1>5. ASSUME NEW r \in UpdateRequest, recordUpdateRequest(r) PROVE FlowTypeOK'
  <2>1. agentRow' \in AgentRow
    BY <1>5, RecordEffect
  <2>2. http' \in [UpdateRequest -> HttpPhase] /\ read' \in [UpdateRequest -> AgentRow]
    BY <1>5, EmptyRow DEF FlowTypeOK, recordUpdateRequest, HttpPhase
  <2> QED
    BY <1>5, <2>1, <2>2 DEF FlowTypeOK, recordUpdateRequest
<1>6. ASSUME NEW r \in UpdateRequest, NEW stage \in Stages, Reporting(r, stage) PROVE FlowTypeOK'
  <2>1. SendStage(r, stage)
    BY <1>6 DEF Reporting
  <2>2. /\ up' \in [Conn -> Seq(Message)] /\ stageOf' \in [UpdateRequest -> JobStage]
        /\ UNCHANGED <<hubSide, runs, conn>>
    BY <2>1, SendEffect
  <2> QED
    BY <2>2 DEF FlowTypeOK, hubSide
<1>7. ASSUME NEW r \in UpdateRequest, RestartAgent(r) PROVE FlowTypeOK'
  <2>1. r \in Version
    BY FlowConstants
  <2>2. conn' \in Conn /\ up' \in [Conn -> Seq(Message)]
    BY <1>7, <2>1, ConnectEffect DEF RestartAgent
  <2>3. stageOf' \in [UpdateRequest -> JobStage]
    BY <1>7 DEF FlowTypeOK, RestartAgent, JobStage
  <2> QED
    BY <1>7, <2>1, <2>2, <2>3 DEF FlowTypeOK, RestartAgent, hubSide
<1>8. ASSUME NEW c \in Conn, LoadRow(c) PROVE FlowTypeOK'
  BY <1>8 DEF FlowTypeOK, LoadRow
<1>9. ASSUME NEW c \in Conn, StoreRow(c) PROVE FlowTypeOK'
  <2>1. /\ up' \in [Conn -> Seq(Message)] /\ agentRow' \in AgentRow
        /\ pump' = [pump EXCEPT ![c] = FALSE] /\ copy' = [copy EXCEPT ![c] = Empty]
        /\ UNCHANGED <<flowMay, http, read, stageOf, runs, conn>>
        /\ up[c][1] \in Message
    BY <1>9, StoreEffect
  <2>2. woken' \in [UpdateRequest -> Stages \union {"none"}]
    <3>1. up[c][1].kind = "RESPONSE" => up[c][1].req \in UpdateRequest /\ up[c][1].stage \in Stages
      BY <2>1, MessageFacts
    <3>2. \/ UNCHANGED woken
          \/ /\ up[c][1].kind = "RESPONSE"
             /\ woken' = IF http[up[c][1].req] = "waiting" /\ woken[up[c][1].req] = "none"
                         THEN [woken EXCEPT ![up[c][1].req] = up[c][1].stage] ELSE woken
      BY <1>9, StoreEffect
    <3> QED
      BY <3>1, <3>2 DEF FlowTypeOK
  <2> QED
    BY <2>1, <2>2, EmptyRow DEF FlowTypeOK
<1>10. CASE Reconnect
  <2>1. conn' \in Conn /\ up' \in [Conn -> Seq(Message)]
    BY <1>10, ConnectEffect DEF Reconnect, FlowTypeOK
  <2> QED
    BY <1>10, <2>1 DEF FlowTypeOK, Reconnect, hubSide
<1>11. CASE UNCHANGED flowVars
  BY <1>11 DEF FlowTypeOK, flowVars
<1> QED
  BY <1>1, <1>2, <1>3, <1>4, <1>5, <1>6, <1>7, <1>8, <1>9, <1>10, <1>11, FlowCases

-----------------------------------------------------------------------------
(* Lines and versions *)

\* Where lines, pumps and connection stay, so do the facts about them.
LEMMA LineFrame ==
    ASSUME LineInv, UNCHANGED <<up, pump, conn>>
    PROVE  LineInv'
  BY DEF LineInv

LEMMA VersionFrame ==
    ASSUME VersionInv, UNCHANGED <<flowMay, up, pump, conn, copy, runs>>, agentRow'.version = agentRow.version
    PROVE  VersionInv'
  BY DEF VersionInv, RegisterMsg

LEMMA LineStep ==
    ASSUME FlowTypeOK, LineInv, [FlowNext]_flowVars
    PROVE  LineInv'
<1>0. FlowTypeOK'
  BY FlowTypeStep
<1>1. ASSUME NEW r \in UpdateRequest, NEW stage \in Stages, SendStage(r, stage) PROVE LineInv'
  <2>1. /\ \A d \in Conn : d # conn => up'[d] = up[d]
        /\ up'[conn] # <<>> /\ Len(up'[conn]) = Len(up[conn]) + 1
        /\ \A i \in 1..Len(up[conn]) : up'[conn][i] = up[conn][i]
        /\ up'[conn][Len(up[conn]) + 1] = ResponseMsg(r, stage)
        /\ UNCHANGED <<pump, conn>>
    BY <1>1, SendEffect DEF hubSide
  <2>2. ResponseMsg(r, stage).kind = "RESPONSE"
    BY MessageFacts
  <2>3. \A i \in 2..Len(up'[conn]) : up'[conn][i].kind = "RESPONSE"
    <3> TAKE i \in 2..Len(up'[conn])
    <3>1. conn \in Conn /\ Len(up[conn]) \in Nat
      BY FlowLines
    <3>2. CASE i = Len(up[conn]) + 1
      BY <2>1, <2>2, <3>2
    <3>3. CASE i \in 2..Len(up[conn])
      <4>1. up[conn][i].kind = "RESPONSE"
        BY <3>1, <3>3 DEF LineInv
      <4>2. i \in 1..Len(up[conn])
        BY <3>1, <3>3
      <4> QED
        BY <2>1, <4>1, <4>2
    <3> QED
      BY <2>1, <3>1, <3>2, <3>3
  <2> QED
    BY <2>1, <2>3, FlowLines DEF LineInv
<1>2. ASSUME NEW v \in Version, NewConnection(v), UNCHANGED pump PROVE LineInv'
  <2>1. /\ conn' = conn + 1 /\ conn' \in Conn
        /\ up'[conn'] = <<RegisterMsg(v)>>
        /\ \A d \in Conn : d # conn /\ d # conn' => up'[d] = up[d]
        /\ Len(up'[conn]) <= Len(up[conn])
        /\ \A i \in 1..Len(up'[conn]) : up'[conn][i] = up[conn][i]
        /\ pump[conn] /\ up[conn] # <<>> => up'[conn] # <<>>
    BY <1>2, ConnectEffect
  <2>2. Len(<<RegisterMsg(v)>>) = 1
    OBVIOUS
  <2>3. conn \in Conn /\ conn \in Nat /\ Len(up[conn]) \in Nat /\ Len(up'[conn]) \in Nat
    BY <1>0, FlowLines DEF FlowTypeOK
  <2>4. ASSUME NEW c \in Conn PROVE c > conn' => up'[c] = <<>>
    BY <2>1, <2>3, FlowConstants DEF LineInv
  <2>5. ASSUME NEW c \in Conn PROVE pump'[c] => up'[c] # <<>>
    <3>1. CASE c = conn'
      BY <1>2, <2>1, <2>2, <2>3, <3>1 DEF LineInv
    <3>2. CASE c # conn'
      BY <1>2, <2>1, <3>2 DEF LineInv
    <3> QED
      BY <3>1, <3>2
  <2>6. ASSUME NEW c \in Conn PROVE \A i \in 2..Len(up'[c]) : up'[c][i].kind = "RESPONSE"
    <3>1. CASE c = conn'
      BY <2>1, <2>2, <3>1
    <3>2. CASE c = conn
      BY <2>1, <2>3, <3>2 DEF LineInv
    <3>3. CASE c # conn /\ c # conn'
      BY <2>1, <3>3 DEF LineInv
    <3> QED
      BY <3>1, <3>2, <3>3
  <2> QED
    BY <2>4, <2>5, <2>6 DEF LineInv
<1>3. ASSUME NEW c \in Conn, LoadRow(c) PROVE LineInv'
  <2>1. up[c] # <<>> /\ pump' = [pump EXCEPT ![c] = TRUE] /\ UNCHANGED <<up, conn>>
    BY <1>3 DEF LoadRow
  <2>2. \A d \in Conn : pump'[d] => up[d] # <<>>
    BY <2>1 DEF LineInv, FlowTypeOK
  <2> QED
    BY <2>1, <2>2 DEF LineInv
<1>4. ASSUME NEW c \in Conn, StoreRow(c) PROVE LineInv'
  <2>1. /\ up[c] # <<>> /\ \A d \in Conn : d # c => up'[d] = up[d]
        /\ Len(up'[c]) = Len(up[c]) - 1 /\ \A i \in 1..Len(up'[c]) : up'[c][i] = up[c][i + 1]
        /\ pump' = [pump EXCEPT ![c] = FALSE] /\ conn' = conn
    BY <1>4, StoreEffect
  <2>2. pump'[c] = FALSE /\ \A d \in Conn : d # c => pump'[d] = pump[d]
    BY <2>1 DEF FlowTypeOK
  <2>3. ~ c > conn
    BY <2>1 DEF LineInv
  <2>4. Len(up[c]) \in Nat /\ Len(up'[c]) \in Nat
    BY <1>0, FlowLines DEF FlowTypeOK
  <2>5. \A i \in 2..Len(up'[c]) : up'[c][i].kind = "RESPONSE"
    BY <2>1, <2>4 DEF LineInv
  <2> QED
    BY <2>1, <2>2, <2>3, <2>5 DEF LineInv
<1> QED
  <2>1. ASSUME NEW r \in UpdateRequest,
               ReadAgentRow(r) \/ DispatchUpdate(r) \/ Wake(r) \/ Timeout(r) \/ recordUpdateRequest(r)
        PROVE  LineInv'
    BY <2>1, LineFrame DEF ReadAgentRow, DispatchUpdate, Wake, Timeout, recordUpdateRequest
  <2>2. ASSUME NEW r \in UpdateRequest, NEW stage \in Stages, Reporting(r, stage) PROVE LineInv'
    BY <1>1, <2>2 DEF Reporting
  <2>3. ASSUME NEW r \in UpdateRequest, RestartAgent(r) PROVE LineInv'
    BY <1>2, <2>3, FlowConstants DEF RestartAgent, hubSide
  <2>4. CASE Reconnect
    BY <1>2, <2>4 DEF Reconnect, hubSide, FlowTypeOK
  <2>5. CASE UNCHANGED flowVars
    BY <2>5, LineFrame DEF flowVars
  <2> QED
    BY <1>3, <1>4, <2>1, <2>2, <2>3, <2>4, <2>5, FlowCases

\* What the pumps read is the version of the row, and only one works at a time.
LEMMA VersionStep ==
    ASSUME FlowTypeOK, LineInv, VersionInv, [FlowNext]_flowVars
    PROVE  VersionInv'
<1>0. FlowTypeOK' /\ LineInv'
  BY FlowTypeStep, LineStep
<1>1. ASSUME NEW r \in UpdateRequest, NEW stage \in Stages, SendStage(r, stage) PROVE VersionInv'
  <2>1. /\ \A d \in Conn : d # conn => up'[d] = up[d]
        /\ up'[conn] # <<>> /\ Len(up'[conn]) = Len(up[conn]) + 1
        /\ \A i \in 1..Len(up[conn]) : up'[conn][i] = up[conn][i]
        /\ up'[conn][Len(up[conn]) + 1] = ResponseMsg(r, stage)
        /\ UNCHANGED <<flowMay, agentRow, pump, copy, conn, runs>>
    BY <1>1, SendEffect DEF hubSide
  <2>2. ResponseMsg(r, stage).kind = "RESPONSE" /\ conn \in Conn
    BY MessageFacts, FlowLines
  <2>3. \/ up[conn] # <<>> /\ up'[conn][1] = up[conn][1]
        \/ up[conn] = <<>> /\ up'[conn][1].kind = "RESPONSE"
    BY <2>1, <2>2, FlowLines
  <2>4. \A c, d \in Conn : pump[c] /\ d < c => d # conn
    BY FlowLines, FlowConstants DEF LineInv
  <2> SUFFICES ASSUME "overtaking" \notin flowMay PROVE VersionInv'
    BY <2>1 DEF VersionInv
  <2>5. /\ \A c \in Conn : pump'[c] => copy'[c].version = agentRow'.version
        /\ \A c, d \in Conn : pump'[c] /\ d < c => up'[d] = <<>>
    BY <2>1, <2>4 DEF VersionInv
  <2>6. \/ up'[conn] # <<>> /\ up'[conn][1] = RegisterMsg(runs)
        \/ /\ agentRow.version = runs
           /\ \A d \in Conn : d < conn => up[d] = <<>>
           /\ up'[conn][1].kind = "RESPONSE"
    BY <2>1, <2>3 DEF VersionInv
  <2>7. \A d \in Conn : d < conn => up'[d] = up[d]
    BY <2>1, <2>2, FlowConstants
  <2> QED
    BY <2>1, <2>5, <2>6, <2>7 DEF VersionInv, RegisterMsg
<1>2. ASSUME NEW v \in Version, NewConnection(v), runs' = v,
             UNCHANGED <<flowMay, agentRow, pump, copy>>
      PROVE  VersionInv'
  <2>1. /\ conn' = conn + 1 /\ conn' \in Conn /\ conn \in Conn /\ conn \in Nat
        /\ up'[conn'] = <<RegisterMsg(v)>>
        /\ \A d \in Conn : d # conn /\ d # conn' => up'[d] = up[d]
    BY <1>2, ConnectEffect, FlowLines
  <2>2. up'[conn'] # <<>> /\ up'[conn'][1] = RegisterMsg(v)
    BY <2>1
  <2>3. \A c, d \in Conn : pump[c] /\ d < c => d # conn /\ d # conn'
    BY <2>1, FlowConstants DEF LineInv
  <2> QED
    BY <1>2, <2>1, <2>2, <2>3 DEF VersionInv, RegisterMsg
<1>3. ASSUME NEW c \in Conn, LoadRow(c) PROVE VersionInv'
  <2>1. /\ "overtaking" \in flowMay \/ \A d \in Conn : d < c => up[d] = <<>>
        /\ pump' = [pump EXCEPT ![c] = TRUE] /\ copy' = [copy EXCEPT ![c] = agentRow]
        /\ UNCHANGED <<flowMay, agentRow, up, conn, runs>>
    BY <1>3 DEF LoadRow
  <2>2. /\ copy'[c] = agentRow
        /\ \A d \in Conn : d # c => pump'[d] = pump[d] /\ copy'[d] = copy[d]
    BY <2>1 DEF FlowTypeOK
  <2> QED
    BY <2>1, <2>2 DEF VersionInv, RegisterMsg
<1>4. ASSUME NEW c \in Conn, StoreRow(c) PROVE VersionInv'
  <2> SUFFICES ASSUME "overtaking" \notin flowMay' PROVE VersionInv'
    BY DEF VersionInv
  <2>1. /\ pump[c] /\ up[c] # <<>> /\ \A d \in Conn : d # c => up'[d] = up[d]
        /\ Len(up'[c]) = Len(up[c]) - 1 /\ \A i \in 1..Len(up'[c]) : up'[c][i] = up[c][i + 1]
        /\ pump' = [pump EXCEPT ![c] = FALSE] /\ copy' = [copy EXCEPT ![c] = Empty]
        /\ UNCHANGED <<flowMay, http, read, stageOf, runs, conn>>
        /\ up[c][1] \in Message
    BY <1>4, StoreEffect
  <2>2. /\ copy[c].version = agentRow.version /\ \A d \in Conn : d < c => up[d] = <<>>
        /\ copy[c] \in AgentRow /\ agentRow \in AgentRow
    BY <2>1, FlowLines DEF VersionInv, FlowTypeOK
  <2>3. \A d \in Conn : ~pump'[d]
    <3>1. \A d \in Conn : d # c => ~pump[d]
      BY <2>1, <2>2, FlowConstants DEF VersionInv, LineInv
    <3> QED
      BY <2>1, <3>1 DEF FlowTypeOK
  <2>4. /\ up[c][1].kind = "REGISTER" => agentRow'.version = up[c][1].version
        /\ up[c][1].kind = "RESPONSE" => agentRow'.version = agentRow.version
    <3>1. CASE up[c][1].kind = "REGISTER" /\ SaveRecord(copy[c], Registered(copy[c], up[c][1].version))
      <4>1. up[c][1].version \in Version
        BY <2>1, <3>1, MessageFacts
      <4>2. /\ Registered(copy[c], up[c][1].version) \in AgentRow
            /\ Registered(copy[c], up[c][1].version).version = up[c][1].version
        BY <2>2, <4>1, RegisteredRow
      <4>3. SavedFields(copy[c], Registered(copy[c], up[c][1].version))
        BY <2>2, <3>1, <4>2, SavedRow
      <4> QED
        BY <2>2, <3>1, <4>2, <4>3 DEF SavedFields
    <3>2. CASE up[c][1].kind = "RESPONSE" /\ SaveRecord(copy[c], Reported(copy[c], up[c][1].stage))
      <4>1. up[c][1].stage \in Stages
        BY <2>1, <3>2, MessageFacts
      <4>2. /\ Reported(copy[c], up[c][1].stage) \in AgentRow
            /\ Reported(copy[c], up[c][1].stage).version = copy[c].version
        BY <2>2, <4>1, ReportedRow
      <4>3. SavedFields(copy[c], Reported(copy[c], up[c][1].stage))
        BY <2>2, <3>2, <4>2, SavedRow
      <4> QED
        BY <3>2, <4>2, <4>3 DEF SavedFields
    <3> QED
      BY <1>4, <3>1, <3>2, StoreEffect
  <2>5. up'[c] # <<>> => up'[c][1].kind = "RESPONSE"
    <3> SUFFICES ASSUME up'[c] # <<>> PROVE up'[c][1].kind = "RESPONSE"
      OBVIOUS
    <3>1. up' \in [Conn -> Seq(Message)]
      BY <1>0 DEF FlowTypeOK
    <3>2. Len(up'[c]) \in Nat /\ Len(up'[c]) # 0 /\ Len(up[c]) \in Nat
      BY <3>1, LineElements, FlowLines
    <3>3. up'[c][1] = up[c][2] /\ 2 \in 2..Len(up[c])
      BY <2>1, <3>2
    <3> QED
      BY <3>3 DEF LineInv
  <2>6. CASE c = conn
    <3>1. agentRow'.version = runs
      <4>1. CASE up[conn][1] = RegisterMsg(runs)
        BY <2>4, <2>6, <4>1, MessageFacts DEF FlowTypeOK
      <4>2. CASE agentRow.version = runs /\ up[conn][1].kind = "RESPONSE"
        BY <2>4, <2>6, <4>2
      <4> QED
        BY <2>1, <2>6, <4>1, <4>2 DEF VersionInv
    <3> QED
      BY <2>1, <2>2, <2>3, <2>5, <2>6, <3>1, FlowConstants DEF VersionInv
  <2>7. CASE c # conn
    <3>1. c < conn
      BY <2>1, <2>7, FlowLines, FlowConstants DEF LineInv
    <3>2. up[conn] # <<>> /\ up[conn][1] = RegisterMsg(runs)
      BY <2>1, <3>1 DEF VersionInv
    <3> QED
      BY <2>1, <2>3, <2>7, <3>2, FlowLines DEF VersionInv, RegisterMsg
  <2> QED
    BY <2>6, <2>7
<1> QED
  <2>1. ASSUME NEW r \in UpdateRequest,
               ReadAgentRow(r) \/ DispatchUpdate(r) \/ Wake(r) \/ Timeout(r)
        PROVE  VersionInv'
    BY <2>1, VersionFrame DEF ReadAgentRow, DispatchUpdate, Wake, Timeout
  <2>2. ASSUME NEW r \in UpdateRequest, recordUpdateRequest(r) PROVE VersionInv'
    <3>1. agentRow'.version = agentRow.version
      BY <2>2, RecordEffect
    <3> QED
      BY <2>2, <3>1, VersionFrame DEF recordUpdateRequest
  <2>3. ASSUME NEW r \in UpdateRequest, NEW stage \in Stages, Reporting(r, stage) PROVE VersionInv'
    BY <1>1, <2>3 DEF Reporting
  <2>4. ASSUME NEW r \in UpdateRequest, RestartAgent(r) PROVE VersionInv'
    BY <1>2, <2>4, FlowConstants DEF RestartAgent, hubSide
  <2>5. CASE Reconnect
    BY <1>2, <2>5 DEF Reconnect, hubSide, FlowTypeOK
  <2>6. CASE UNCHANGED flowVars
    BY <2>6, VersionFrame DEF flowVars
  <2> QED
    BY <1>3, <1>4, <2>1, <2>2, <2>3, <2>4, <2>5, <2>6, FlowCases

-----------------------------------------------------------------------------
(* Requests *)

LEMMA RequestStep ==
    ASSUME FlowTypeOK, LineInv, RequestInv, [FlowNext]_flowVars
    PROVE  RequestInv'
<1>1. ASSUME NEW r \in UpdateRequest, ReadAgentRow(r) PROVE RequestInv'
  BY <1>1 DEF RequestInv, ReadAgentRow, FlowTypeOK
<1>2. ASSUME NEW r \in UpdateRequest, DispatchUpdate(r) PROVE RequestInv'
  <2>1. stageOf' = stageOf \/ stageOf' = [stageOf EXCEPT ![r] = "commanded"]
    BY <1>2 DEF DispatchUpdate
  <2>2. /\ http[r] = "read" /\ http'[r] \in {"gaveUp", "waiting"}
        /\ \A q \in UpdateRequest : q # r => http'[q] = http[q] /\ stageOf'[q] = stageOf[q]
        /\ UNCHANGED <<agentRow, read, woken, runs>>
    BY <1>2, <2>1 DEF DispatchUpdate, FlowTypeOK
  <2>3. woken[r] = "none" /\ runs # r
    BY <2>2 DEF RequestInv
  <2> QED
    BY <2>2, <2>3 DEF RequestInv
<1>3. ASSUME NEW r \in UpdateRequest, Wake(r) PROVE RequestInv'
  BY <1>3 DEF RequestInv, Wake, FlowTypeOK
<1>4. ASSUME NEW r \in UpdateRequest, Timeout(r) PROVE RequestInv'
  BY <1>4 DEF RequestInv, Timeout, FlowTypeOK
<1>5. ASSUME NEW r \in UpdateRequest, recordUpdateRequest(r) PROVE RequestInv'
  <2>1. agentRow'.target \in {r, agentRow.target}
    BY <1>5, RecordEffect
  <2>2. /\ http[r] \in {"acked", "gaveUp"} /\ http'[r] = "done"
        /\ \A q \in UpdateRequest : q # r => http'[q] = http[q] /\ read'[q] = read[q]
        /\ UNCHANGED <<stageOf, woken, runs>>
    BY <1>5 DEF recordUpdateRequest, FlowTypeOK
  <2> QED
    BY <2>1, <2>2 DEF RequestInv
<1>6. ASSUME NEW r \in UpdateRequest, NEW stage \in Stages, Reporting(r, stage) PROVE RequestInv'
  <2>1. /\ stageOf[r] \notin {"none", "replaced"}
        /\ \A q \in UpdateRequest : q # r => stageOf'[q] = stageOf[q]
        /\ UNCHANGED <<agentRow, http, read, woken, runs>>
    BY <1>6, SendEffect DEF Reporting, hubSide
  <2> QED
    BY <2>1 DEF RequestInv
<1>7. ASSUME NEW r \in UpdateRequest, RestartAgent(r) PROVE RequestInv'
  <2>1. /\ stageOf[r] = "restarting" /\ runs' = r /\ stageOf'[r] = "replaced"
        /\ \A q \in UpdateRequest : stageOf[q] = "none" => stageOf'[q] = "none"
        /\ UNCHANGED <<agentRow, http, read, woken>>
    BY <1>7 DEF RestartAgent, hubSide, JobEnded
  <2> QED
    BY <2>1 DEF RequestInv
<1>8. ASSUME NEW c \in Conn, LoadRow(c) PROVE RequestInv'
  BY <1>8 DEF RequestInv, LoadRow
<1>9. ASSUME NEW c \in Conn, StoreRow(c) PROVE RequestInv'
  <2>1. /\ agentRow'.target = agentRow.target /\ UNCHANGED <<http, read, stageOf, runs>>
        /\ up[c][1] \in Message
    BY <1>9, StoreEffect
  <2>2. up[c][1].kind = "RESPONSE" => up[c][1].req \in UpdateRequest
    BY <2>1, MessageFacts
  <2>3. \A q \in UpdateRequest : woken'[q] = woken[q] \/ http[q] = "waiting"
    <3>1. \/ UNCHANGED woken
          \/ /\ up[c][1].kind = "RESPONSE"
             /\ woken' = IF http[up[c][1].req] = "waiting" /\ woken[up[c][1].req] = "none"
                         THEN [woken EXCEPT ![up[c][1].req] = up[c][1].stage] ELSE woken
      BY <1>9, StoreEffect
    <3> QED
      BY <2>2, <3>1 DEF FlowTypeOK
  <2> QED
    BY <2>1, <2>3 DEF RequestInv
<1>10. CASE Reconnect
  BY <1>10 DEF RequestInv, Reconnect, hubSide
<1>11. CASE UNCHANGED flowVars
  BY <1>11 DEF RequestInv, flowVars
<1> QED
  BY <1>1, <1>2, <1>3, <1>4, <1>5, <1>6, <1>7, <1>8, <1>9, <1>10, <1>11, FlowCases

-----------------------------------------------------------------------------
(* One update in calm conditions *)

LEMMA CalmMeans ==
    ASSUME Calm
    PROVE  "overlap" \notin flowMay /\ "loss" \notin flowMay /\ "late_save" \notin flowMay
  BY DEF Calm

LEMMA EndedStages ==
    /\ \A s \in JobEnded : s \notin {"commanded", "started", "downloading", "verifying", "installing", "restarting"}
    /\ \A s \in Stages : s \notin {"none", "commanded", "replaced", "killed"}
  BY DEF JobEnded, Stages

\* A new request finds everything settled.
LEMMA ReadStep ==
    ASSUME FlowTypeOK, LineInv, RequestInv, Calm, NEW r \in UpdateRequest, ReadAgentRow(r)
    PROVE  JobInv(r)'
<1>1. Settled
  BY CalmMeans DEF ReadAgentRow
<1>2. /\ http[r] = "idle" /\ http'[r] = "read" /\ read'[r] = agentRow
      /\ \A q \in UpdateRequest : q # r => http'[q] = http[q]
      /\ UNCHANGED <<flowMay, agentRow, woken, stageOf, runs, conn, up, pump, copy>>
  BY DEF ReadAgentRow, FlowTypeOK
<1>3. stageOf[r] = "none" /\ conn \in Conn
  BY <1>2, FlowLines DEF RequestInv
<1>4. \A c \in Conn : up[c] = <<>> /\ ~pump[c]
  BY <1>1 DEF Settled, LineInv
<1>5. Alone(r)'
  BY <1>1, <1>2, <1>3 DEF Alone, Settled
<1>6. conn = LineOf(r)' /\ LastSent(r)' = "none"
  BY <1>2, <1>3 DEF LineOf, LastSent
<1>7. LineHolds(r, conn)'
  BY <1>2, <1>3, <1>4 DEF LineHolds
<1>8. HandlerFollows(r, conn)'
  BY <1>2, <1>3, <1>4 DEF HandlerFollows
<1>9. OutcomeKept(r, conn)'
  BY <1>2, <1>3, <1>6 DEF OutcomeKept
<1>10. RegisterFollows(r, conn)'
  BY <1>2, <1>3 DEF RegisterFollows
<1>11. LineFacts(r, conn)' /\ conn' = conn
  BY <1>2, <1>7, <1>8, <1>9, <1>10 DEF LineFacts
<1> QED
  BY <1>3, <1>5, <1>6, <1>11 DEF JobInv

\* The requests before the last one are over: only the last one's handler and job move.
LEMMA OnlyTheLast ==
    ASSUME NEW r \in UpdateRequest, Alone(r), NEW q \in UpdateRequest,
           \/ DispatchUpdate(q) \/ Wake(q) \/ Timeout(q) \/ recordUpdateRequest(q)
           \/ RestartAgent(q) \/ \E stage \in Stages : Reporting(q, stage)
    PROVE  q = r
<1> SUFFICES ASSUME q # r PROVE FALSE
  OBVIOUS
<1>1. http[q] \in {"idle", "done"} /\ stageOf[q] \in JobEnded
  BY DEF Alone
<1> QED
  BY <1>1, EndedStages DEF DispatchUpdate, Wake, Timeout, recordUpdateRequest, RestartAgent, Reporting

LEMMA AloneFrame ==
    ASSUME FlowTypeOK, NEW r \in UpdateRequest, Alone(r), agentRow'.target = agentRow.target,
           UNCHANGED <<stageOf, http>>
    PROVE  Alone(r)'
  BY DEF Alone

LEMMA LineMessages ==
    ASSUME FlowTypeOK, NEW r \in UpdateRequest, NEW l \in Conn, LineHolds(r, l)
    PROVE  /\ \A i \in 1..Len(up[l]) : /\ up[l][i].kind = "RESPONSE" /\ up[l][i].req = r
                                       /\ up[l][i].stage \in Stages
           /\ LastSent(r) \in {"none", "commanded"} => up[l] = <<>>
<1>1. ASSUME NEW i \in 1..Len(up[l])
      PROVE  up[l][i].kind = "RESPONSE" /\ up[l][i].req = r /\ up[l][i].stage \in Stages
  <2>1. up[l][i] \in Message /\ up[l][i] = ResponseMsg(r, up[l][i].stage)
    BY FlowLines DEF LineHolds
  <2>2. up[l][i].kind = "RESPONSE" /\ up[l][i].req = r
    BY <2>1 DEF ResponseMsg
  <2> QED
    BY <2>1, <2>2, MessageFacts
<1>2. ASSUME up[l] # <<>> PROVE LastSent(r) \in Stages
  <2>1. Len(up[l]) \in 1..Len(up[l])
    BY <1>2, FlowLines
  <2> QED
    BY <1>1, <1>2, <2>1 DEF LineHolds
<1> QED
  BY <1>1, <1>2, EndedStages

LEMMA DispatchStep ==
    ASSUME FlowTypeOK, LineInv, RequestInv, Calm, NEW r \in UpdateRequest, JobInv(r), DispatchUpdate(r)
    PROVE  JobInv(r)'
<1>1. /\ http[r] = "read" /\ http'[r] \in {"gaveUp", "waiting"}
      /\ http'[r] = "gaveUp" => stageOf' = stageOf
      /\ http'[r] = "waiting" => stageOf' = [stageOf EXCEPT ![r] = "commanded"]
      /\ \A q \in UpdateRequest : q # r => http'[q] = http[q]
      /\ UNCHANGED <<flowMay, agentRow, read, woken, runs, conn, up, pump, copy>>
  BY CalmMeans DEF DispatchUpdate, FlowTypeOK
<1>2. stageOf[r] = "none" /\ woken[r] = "none"
  BY <1>1 DEF RequestInv
<1>3. /\ stageOf'[r] = IF http'[r] = "waiting" THEN "commanded" ELSE "none"
      /\ \A q \in UpdateRequest : q # r => stageOf'[q] = stageOf[q]
  BY <1>1, <1>2 DEF FlowTypeOK
<1>4. Alone(r)'
  BY <1>1, <1>3 DEF Alone, JobInv
<1>5. PICK l \in Conn : l = LineOf(r) /\ LineFacts(r, l)
  BY <1>2 DEF JobInv, InOrder
<1>6. /\ l = conn /\ l = LineOf(r)' /\ LastSent(r) = "none" /\ LastSent(r)' = stageOf'[r]
  BY <1>1, <1>2, <1>3, <1>5 DEF LineOf, LastSent
<1>7. up[l] = <<>> /\ ~pump[l]
  BY <1>5, <1>6, LineMessages DEF LineFacts, LineInv
<1>8. LineHolds(r, l)'
  BY <1>1, <1>5, <1>7 DEF LineFacts, LineHolds
<1>9. HandlerFollows(r, l)'
  BY <1>1, <1>2, <1>3, <1>5, <1>7 DEF LineFacts, HandlerFollows
<1>10. OutcomeKept(r, l)'
  BY <1>1, <1>2, <1>3, <1>5, <1>6 DEF LineFacts, HandlerFollows, OutcomeKept
<1>11. RegisterFollows(r, l)'
  BY <1>3 DEF RegisterFollows
<1> QED
  BY <1>4, <1>6, <1>8, <1>9, <1>10, <1>11 DEF JobInv, LineFacts

\* Wake and Timeout change neither row nor lines.
LEMMA WaitStep ==
    ASSUME FlowTypeOK, LineInv, RequestInv, Calm, NEW r \in UpdateRequest, JobInv(r), Wake(r) \/ Timeout(r)
    PROVE  JobInv(r)'
<1>1. /\ http[r] = "waiting" /\ woken'[r] = "none"
      /\ Wake(r) => /\ woken[r] # "none"
                    /\ http'[r] = IF woken[r] = "failed" THEN "gaveUp" ELSE "acked"
      /\ Timeout(r) => woken[r] = "none" /\ http'[r] = "gaveUp"
      /\ \A q \in UpdateRequest : q # r => http'[q] = http[q]
      /\ UNCHANGED <<flowMay, agentRow, read, stageOf, runs, conn, up, pump, copy>>
  BY DEF Wake, Timeout, FlowTypeOK
<1>2. Alone(r)'
  BY <1>1 DEF Alone, JobInv
<1>3. CASE ~InOrder(r)
  BY <1>1, <1>2, <1>3 DEF JobInv, InOrder
<1>4. CASE InOrder(r)
  <2>1. PICK l \in Conn : l = LineOf(r) /\ LineFacts(r, l)
    BY <1>4 DEF JobInv
  <2>2. l = LineOf(r)' /\ LastSent(r)' = LastSent(r)
    BY <1>1, <2>1 DEF LineOf, LastSent
  <2>3. LineHolds(r, l)'
    BY <1>1, <2>1, <2>2 DEF LineFacts, LineHolds
  <2>4. HandlerFollows(r, l)'
    BY <1>1, <2>1 DEF LineFacts, HandlerFollows, ShowsFailure
  <2>5. OutcomeKept(r, l)'
    <3> SUFFICES ASSUME up[l] = <<>>
                 PROVE  /\ LastSent(r) \notin {"none", "restart_required", "restarting"}
                        /\ LastSent(r) = "failed" => http'[r] = "gaveUp" /\ ShowsFailure
      BY <1>1, <2>2 DEF OutcomeKept, ShowsFailure
    <3>1. LastSent(r) \notin {"none", "restart_required", "restarting"}
      BY <1>1, <2>1 DEF LineFacts, OutcomeKept
    <3>2. LastSent(r) = "failed" => woken[r] = "failed" /\ ShowsFailure
      BY <1>1, <2>1 DEF LineFacts, OutcomeKept
    <3> QED
      BY <1>1, <3>1, <3>2
  <2>6. RegisterFollows(r, l)'
    <3>1. stageOf[r] = "replaced" => up[conn] # <<>>
      BY <1>1, <2>1 DEF LineFacts, RegisterFollows
    <3> QED
      BY <1>1, <2>1, <3>1 DEF LineFacts, RegisterFollows, RegisterMsg
  <2> QED
    BY <1>2, <2>2, <2>3, <2>4, <2>5, <2>6 DEF JobInv, LineFacts
<1> QED
  BY <1>3, <1>4

LEMMA RecordStep ==
    ASSUME FlowTypeOK, LineInv, RequestInv, Calm, NEW r \in UpdateRequest, JobInv(r), recordUpdateRequest(r)
    PROVE  JobInv(r)'
<1>1. /\ http[r] \in {"acked", "gaveUp"} /\ http'[r] = "done"
      /\ \A q \in UpdateRequest : q # r => http'[q] = http[q]
      /\ UNCHANGED <<flowMay, woken, stageOf, runs, conn, up, pump, copy>>
  BY DEF recordUpdateRequest, FlowTypeOK
<1>2. woken[r] = "none" /\ read[r].target # r
  BY <1>1 DEF RequestInv
<1>3. /\ agentRow'.target = r
      /\ http[r] = "gaveUp" /\ (read[r] = agentRow \/ ShowsFailure) => ShowsFailure'
  BY <1>2, RecordEffect DEF ShowsFailure
<1>4. Alone(r)'
  BY <1>1, <1>3 DEF Alone, JobInv
<1>5. CASE ~InOrder(r)
  BY <1>1, <1>4, <1>5 DEF JobInv, InOrder
<1>6. CASE InOrder(r)
  <2>1. PICK l \in Conn : l = LineOf(r) /\ LineFacts(r, l)
    BY <1>6 DEF JobInv
  <2>2. l = LineOf(r)' /\ LastSent(r)' = LastSent(r)
    BY <1>1, <2>1 DEF LineOf, LastSent
  <2>3. LineHolds(r, l)'
    BY <1>1, <2>1, <2>2 DEF LineFacts, LineHolds
  <2>4. HandlerFollows(r, l)'
    <3>1. pump[l] => ShowsFailure' /\ up[l][1].stage \in FirstStages
      BY <1>1, <1>3, <2>1 DEF LineFacts, HandlerFollows
    <3> QED
      BY <1>1, <1>2, <3>1 DEF HandlerFollows
  <2>5. OutcomeKept(r, l)'
    <3> SUFFICES ASSUME up[l] = <<>>
                 PROVE  /\ LastSent(r) \notin {"restart_required", "restarting"}
                        /\ LastSent(r) \in {"none", "failed"} => ShowsFailure'
      BY <1>1, <2>2 DEF OutcomeKept
    <3>1. LastSent(r) \notin {"restart_required", "restarting"}
      BY <1>1, <2>1 DEF LineFacts, OutcomeKept
    <3>2. LastSent(r) \in {"none", "failed"} => http[r] = "gaveUp" /\ (read[r] = agentRow \/ ShowsFailure)
      BY <1>1, <2>1 DEF LineFacts, OutcomeKept
    <3> QED
      BY <1>3, <3>1, <3>2
  <2>6. RegisterFollows(r, l)'
    <3>1. stageOf[r] = "replaced" => up[conn] # <<>> /\ ~pump[conn]
      <4>1. stageOf[r] = "replaced" /\ up[l] = <<>> => http[r] = "done"
        BY <2>1 DEF LineFacts, OutcomeKept, LastSent
      <4> QED
        BY <1>1, <2>1, <4>1 DEF LineFacts, RegisterFollows
    <3> QED
      BY <1>1, <2>1, <3>1 DEF LineFacts, RegisterFollows, RegisterMsg
  <2> QED
    BY <1>4, <2>2, <2>3, <2>4, <2>5, <2>6 DEF JobInv, LineFacts
<1> QED
  BY <1>5, <1>6

LEMMA ReportStep ==
    ASSUME FlowTypeOK, LineInv, RequestInv, Calm, NEW r \in UpdateRequest, JobInv(r),
           NEW stage \in Stages, Reporting(r, stage)
    PROVE  JobInv(r)'
<1>1. /\ \A d \in Conn : d # conn => up'[d] = up[d]
      /\ up'[conn] # <<>> /\ Len(up'[conn]) = Len(up[conn]) + 1
      /\ \A i \in 1..Len(up[conn]) : up'[conn][i] = up[conn][i]
      /\ up'[conn][Len(up[conn]) + 1] = ResponseMsg(r, stage)
      /\ stageOf'[r] = stage
      /\ \A q \in UpdateRequest : q # r => stageOf'[q] = stageOf[q]
      /\ UNCHANGED <<flowMay, agentRow, http, read, woken, pump, copy, runs, conn>>
  BY SendEffect DEF Reporting, hubSide
<1>2. /\ stageOf[r] \in {"commanded", "started", "downloading", "verifying", "installing"}
      /\ stageOf[r] = "commanded" => stage \in FirstStages
  BY DEF Reporting
<1>3. stage \notin {"none", "commanded", "replaced", "killed"}
  BY EndedStages
<1>4. Alone(r)'
  BY <1>1, <1>3 DEF Alone, JobInv
<1>5. PICK l \in Conn : l = LineOf(r) /\ LineFacts(r, l)
  BY <1>2 DEF JobInv, InOrder
<1>6. l = conn /\ l = LineOf(r)' /\ LastSent(r)' = stage
  BY <1>1, <1>2, <1>3, <1>5 DEF LineOf, LastSent
<1>7. /\ Len(up[l]) \in Nat /\ (up[l] = <<>> <=> Len(up[l]) = 0)
      /\ ResponseMsg(r, stage).stage = stage
  BY FlowLines, MessageFacts
<1>8. LineHolds(r, l)'
  <2>1. \A i \in 1..Len(up'[l]) : up'[l][i] = ResponseMsg(r, up'[l][i].stage)
    <3> SUFFICES ASSUME NEW i \in 1..Len(up'[l]) PROVE up'[l][i] = ResponseMsg(r, up'[l][i].stage)
      OBVIOUS
    <3>1. CASE i \in 1..Len(up[l])
      BY <1>1, <1>5, <1>6, <3>1 DEF LineFacts, LineHolds
    <3>2. CASE i = Len(up[l]) + 1
      BY <1>1, <1>6, <1>7, <3>2
    <3> QED
      BY <1>1, <1>6, <1>7, <3>1, <3>2
  <2>2. \A d \in Conn : d # l /\ d # conn => up'[d] = <<>>
    BY <1>1, <1>5, <1>6 DEF LineFacts, LineHolds
  <2>3. up'[l][Len(up'[l])].stage = stage
    BY <1>1, <1>6, <1>7
  <2> QED
    BY <1>1, <1>6, <2>1, <2>2, <2>3 DEF LineHolds
<1>9. up[l] # <<>> => up'[l][1] = up[l][1]
  BY <1>1, <1>6, <1>7
<1>10. HandlerFollows(r, l)'
  <2>1. http[r] # "read"
    BY <1>2 DEF RequestInv
  <2>2. ASSUME http[r] = "waiting", woken[r] = "none"
        PROVE  agentRow = read[r] /\ up'[l][1].stage \in FirstStages
    <3>1. CASE up[l] = <<>>
      <4>1. stageOf[r] = "commanded" /\ agentRow = read[r]
        BY <1>5, <2>2, <3>1 DEF LineFacts, HandlerFollows
      <4>2. up'[l][1] = ResponseMsg(r, stage)
        BY <1>1, <1>6, <1>7, <3>1
      <4> QED
        BY <1>2, <1>7, <4>1, <4>2
    <3>2. CASE up[l] # <<>>
      BY <1>5, <1>9, <2>2, <3>2 DEF LineFacts, HandlerFollows
    <3> QED
      BY <3>1, <3>2
  <2>3. pump[l] => up[l] # <<>>
    BY DEF LineInv
  <2> QED
    BY <1>1, <1>5, <1>6, <1>9, <2>1, <2>2, <2>3 DEF LineFacts, HandlerFollows, ShowsFailure
<1>11. OutcomeKept(r, l)'
  BY <1>1, <1>6 DEF OutcomeKept
<1>12. RegisterFollows(r, l)'
  BY <1>1, <1>3 DEF RegisterFollows
<1> QED
  BY <1>4, <1>6, <1>8, <1>10, <1>11, <1>12 DEF JobInv, LineFacts

LEMMA RestartStep ==
    ASSUME FlowTypeOK, LineInv, RequestInv, Calm, NEW r \in UpdateRequest, JobInv(r), RestartAgent(r)
    PROVE  JobInv(r)'
<1>1. /\ conn' = conn + 1 /\ conn' \in Conn /\ conn \in Conn /\ conn \in Nat
      /\ up'[conn'] = <<RegisterMsg(r)>>
      /\ \A d \in Conn : d # conn' => up'[d] = up[d]
  BY CalmMeans, ConnectEffect, FlowConstants, FlowLines DEF RestartAgent
<1>2. /\ stageOf[r] = "restarting" /\ stageOf'[r] = "replaced"
      /\ \A q \in UpdateRequest : stageOf[q] \in JobEnded => stageOf'[q] \in JobEnded
      /\ UNCHANGED <<flowMay, agentRow, http, read, woken, pump, copy>>
  BY DEF RestartAgent, hubSide, JobEnded
<1>3. Alone(r)'
  BY <1>2 DEF Alone, JobInv
<1>4. CASE "overtaking" \in flowMay
  BY <1>2, <1>3, <1>4 DEF JobInv, InOrder
<1>5. CASE "overtaking" \notin flowMay
  <2>1. PICK l \in Conn : l = LineOf(r) /\ LineFacts(r, l)
    BY <1>5 DEF JobInv, InOrder
  <2>2. l = conn /\ l = LineOf(r)' /\ LastSent(r) = "restarting" /\ LastSent(r)' = "restarting"
    BY <1>1, <1>2, <2>1 DEF LineOf, LastSent
  <2>3. up'[l] = up[l] /\ l # conn'
    BY <1>1, <2>2
  <2>4. ~pump[conn'] /\ up'[conn'] # <<>>
    BY <1>1 DEF LineInv
  <2>5. LineHolds(r, l)'
    BY <1>1, <2>1, <2>2, <2>3 DEF LineFacts, LineHolds
  <2>6. HandlerFollows(r, l)'
    <3>1. http[r] # "read" /\ ~(http[r] = "waiting" /\ woken[r] = "none" /\ up[l] = <<>>)
      BY <1>2, <2>1 DEF LineFacts, HandlerFollows
    <3> QED
      BY <1>2, <2>1, <2>3, <3>1 DEF LineFacts, HandlerFollows, ShowsFailure
  <2>7. OutcomeKept(r, l)'
    BY <1>2, <2>1, <2>2, <2>3 DEF LineFacts, OutcomeKept
  <2>8. RegisterFollows(r, l)'
    BY <1>1, <1>2, <2>4 DEF RegisterFollows, RegisterMsg
  <2> QED
    BY <1>3, <2>2, <2>5, <2>6, <2>7, <2>8 DEF JobInv, LineFacts
<1> QED
  BY <1>4, <1>5

LEMMA LoadStep ==
    ASSUME FlowTypeOK, LineInv, RequestInv, Calm, NEW r \in UpdateRequest, JobInv(r),
           NEW c \in Conn, LoadRow(c)
    PROVE  JobInv(r)'
<1>1. /\ up[c] # <<>> /\ ~pump[c]
      /\ "overtaking" \in flowMay \/ \A d \in Conn : d < c => up[d] = <<>>
      /\ http[r] \notin {"acked", "gaveUp"} /\ woken[r] = "none"
      /\ UNCHANGED <<flowMay, agentRow, http, read, woken, stageOf, runs, conn, up>>
  BY CalmMeans DEF LoadRow
<1>2. /\ pump'[c] = TRUE /\ copy'[c] = agentRow
      /\ \A d \in Conn : d # c => pump'[d] = pump[d] /\ copy'[d] = copy[d]
  BY DEF LoadRow, FlowTypeOK
<1>3. Alone(r)'
  BY <1>1, AloneFrame DEF JobInv
<1>4. CASE ~InOrder(r)
  BY <1>1, <1>3, <1>4 DEF JobInv, InOrder
<1>5. CASE InOrder(r)
  <2>1. PICK l \in Conn : l = LineOf(r) /\ LineFacts(r, l)
    BY <1>5 DEF JobInv
  <2>2. l = LineOf(r)' /\ LastSent(r)' = LastSent(r) /\ (l # conn => l < conn /\ stageOf[r] = "replaced")
    BY <1>1, <2>1, FlowLines DEF LineOf, LastSent
  <2>3. c = l \/ c = conn
    BY <1>1, <2>1 DEF LineFacts, LineHolds
  <2>4. LineHolds(r, l)'
    BY <1>1, <2>1, <2>2 DEF LineFacts, LineHolds
  <2>5. HandlerFollows(r, l)'
    <3>1. CASE c = l
      <4>1. LastSent(r) # "none"
        BY <1>1, <2>1, <3>1, LineMessages DEF LineFacts
      <4>2. http[r] # "read"
        BY <2>1, <4>1 DEF LineFacts, HandlerFollows, LastSent
      <4> QED
        BY <1>1, <1>2, <2>1, <3>1, <4>2 DEF LineFacts, HandlerFollows
    <3>2. CASE c # l
      BY <1>1, <1>2, <2>1, <3>2 DEF LineFacts, HandlerFollows, ShowsFailure
    <3> QED
      BY <3>1, <3>2
  <2>6. OutcomeKept(r, l)'
    BY <1>1, <2>1, <2>2 DEF LineFacts, OutcomeKept, ShowsFailure
  <2>7. RegisterFollows(r, l)'
    <3>1. CASE c = conn /\ stageOf[r] = "replaced"
      <4>1. l # conn /\ l < conn
        BY <2>1, <3>1, FlowLines DEF LineOf
      <4>2. up[l] = <<>>
        BY <1>1, <1>5, <3>1, <4>1 DEF InOrder
      <4> QED
        BY <1>1, <1>2, <2>1, <3>1, <4>2 DEF LineFacts, RegisterFollows, RegisterMsg
    <3>2. CASE c # conn \/ stageOf[r] # "replaced"
      BY <1>1, <1>2, <2>1, <3>2, FlowLines DEF LineFacts, RegisterFollows, RegisterMsg
    <3> QED
      BY <3>1, <3>2
  <2> QED
    BY <1>3, <2>2, <2>4, <2>5, <2>6, <2>7 DEF JobInv, LineFacts
<1> QED
  BY <1>4, <1>5

\* What a stored stage leaves in the row, also from the copy of a handler that gave up.
LEMMA ReportedEffect ==
    ASSUME agentRow \in AgentRow, NEW old \in AgentRow, NEW stage \in Stages,
           SaveRecord(old, Reported(old, stage))
    PROVE  /\ old = agentRow => agentRow'.status = stage
           /\ stage = "failed" /\ (old = agentRow \/ ShowsFailure) => ShowsFailure'
           /\ stage = "restart_required" /\ old = agentRow => agentRow'.err = FALSE
<1>1. /\ Reported(old, stage) \in AgentRow /\ Reported(old, stage).status = stage
      /\ stage = "failed" => Reported(old, stage).err = TRUE
      /\ stage = "restart_required" => Reported(old, stage).err = FALSE
  BY ReportedRow
<1>2. SavedFields(old, Reported(old, stage))
  BY <1>1, SavedRow
<1>3. agentRow'.status = (IF stage # old.status THEN stage ELSE agentRow.status)
  BY <1>1, <1>2 DEF SavedFields
<1>4. stage = "failed" => agentRow'.err = (IF TRUE # old.err THEN TRUE ELSE agentRow.err)
  BY <1>1, <1>2 DEF SavedFields
<1>5. stage = "restart_required" => agentRow'.err = (IF FALSE # old.err THEN FALSE ELSE agentRow.err)
  BY <1>1, <1>2 DEF SavedFields
<1>6. old = agentRow => agentRow'.status = stage
  BY <1>3
<1>7. stage = "restart_required" /\ old = agentRow => agentRow'.err = FALSE
  BY <1>5
<1>8. ASSUME stage = "failed", old = agentRow \/ ShowsFailure PROVE ShowsFailure'
  <2>1. agentRow'.status = "failed"
    BY <1>3, <1>8 DEF ShowsFailure
  <2>2. agentRow'.err
    BY <1>4, <1>8 DEF ShowsFailure
  <2> QED
    BY <2>1, <2>2 DEF ShowsFailure
<1> QED
  BY <1>6, <1>7, <1>8

LEMMA RegisteredEffect ==
    ASSUME agentRow \in AgentRow, NEW v \in Version, agentRow.target = v, agentRow.status # "done",
           SaveRecord(agentRow, Registered(agentRow, v))
    PROVE  agentRow'.status = "done" /\ agentRow'.err = FALSE
<1>1. /\ Registered(agentRow, v) \in AgentRow
      /\ Registered(agentRow, v).status = "done" /\ Registered(agentRow, v).err = FALSE
  BY RegisteredRow
<1>2. SavedFields(agentRow, Registered(agentRow, v))
  BY <1>1, SavedRow
<1>3. /\ agentRow'.status = (IF "done" # agentRow.status THEN "done" ELSE agentRow.status)
      /\ agentRow'.err = (IF FALSE # agentRow.err THEN FALSE ELSE agentRow.err)
  BY <1>1, <1>2 DEF SavedFields
<1> QED
  BY <1>3

\* A pump stores a stage of the update.
LEMMA StoreStageStep ==
    ASSUME FlowTypeOK, LineInv, Calm, NEW r \in UpdateRequest, Alone(r), NEW l \in Conn,
           l = LineOf(r), LineFacts(r, l), StoreRow(l)
    PROVE  LineFacts(r, l)'
<1>0. FlowTypeOK'
  BY FlowTypeStep DEF FlowNext, FlowPumpStep
<1>1. /\ pump[l] /\ up[l] # <<>> /\ \A d \in Conn : d # l => up'[d] = up[d]
      /\ Len(up'[l]) = Len(up[l]) - 1 /\ \A i \in 1..Len(up'[l]) : up'[l][i] = up[l][i + 1]
      /\ pump' = [pump EXCEPT ![l] = FALSE] /\ copy' = [copy EXCEPT ![l] = Empty]
      /\ UNCHANGED <<flowMay, http, read, stageOf, runs, conn>>
  BY StoreEffect
<1>2. /\ Len(up[l]) \in Nat /\ Len(up[l]) >= 1 /\ 1 \in 1..Len(up[l])
      /\ Len(up'[l]) \in Nat /\ (up'[l] = <<>> <=> Len(up'[l]) = 0)
  <2>1. up'[l] \in Seq(Message)
    BY <1>0 DEF FlowTypeOK
  <2>2. Len(up'[l]) \in Nat /\ (up'[l] = <<>> <=> Len(up'[l]) = 0)
    BY <2>1, LineElements
  <2>3. Len(up[l]) \in Nat /\ Len(up[l]) # 0
    BY <1>1, FlowLines
  <2> QED
    BY <2>2, <2>3
<1>3. up[l][1].kind = "RESPONSE" /\ up[l][1].req = r /\ up[l][1].stage \in Stages
  BY <1>2, LineMessages DEF LineFacts
<1>4. /\ SaveRecord(copy[l], Reported(copy[l], up[l][1].stage))
      /\ woken' = IF http[r] = "waiting" /\ woken[r] = "none"
                  THEN [woken EXCEPT ![r] = up[l][1].stage] ELSE woken
  BY <1>3, StoreEffect
<1>5. /\ copy[l] = agentRow => agentRow'.status = up[l][1].stage
      /\ up[l][1].stage = "failed" /\ (copy[l] = agentRow \/ ShowsFailure) => ShowsFailure'
      /\ up[l][1].stage = "restart_required" /\ copy[l] = agentRow => agentRow'.err = FALSE
  <2>1. agentRow \in AgentRow /\ copy[l] \in AgentRow
    BY DEF FlowTypeOK
  <2> QED
    BY <1>3, <1>4, <2>1, ReportedEffect
<1>6. /\ pump'[l] = FALSE /\ \A d \in Conn : d # l => pump'[d] = pump[d] /\ copy'[d] = copy[d]
      /\ LastSent(r)' = LastSent(r)
  BY <1>1 DEF FlowTypeOK, LastSent
<1>7. /\ http[r] \notin {"read", "acked"} /\ woken[r] = "none"
      /\ \/ copy[l] = agentRow
         \/ http[r] = "done" /\ ShowsFailure /\ up[l][1].stage \in FirstStages
      /\ http[r] \in {"waiting", "gaveUp"} => up[l][1].stage \in FirstStages
  BY <1>1 DEF LineFacts, HandlerFollows
<1>8. http[r] \in {"waiting", "gaveUp", "done"}
  BY <1>7 DEF FlowTypeOK, HttpPhase, Alone
<1>9. http[r] = "waiting" => woken'[r] = up[l][1].stage /\ woken'[r] # "none"
  BY <1>3, <1>4, <1>7, EndedStages DEF FlowTypeOK
<1>10. LineHolds(r, l)'
  <2>1. \A i \in 1..Len(up'[l]) : i + 1 \in 1..Len(up[l]) /\ up'[l][i] = up[l][i + 1]
    BY <1>1, <1>2
  <2>2. \A i \in 1..Len(up'[l]) : up'[l][i] = ResponseMsg(r, up'[l][i].stage)
    BY <2>1 DEF LineFacts, LineHolds
  <2>3. up'[l] # <<>> => up'[l][Len(up'[l])] = up[l][Len(up[l])]
    <3> SUFFICES ASSUME up'[l] # <<>> PROVE up'[l][Len(up'[l])] = up[l][Len(up[l])]
      OBVIOUS
    <3>1. Len(up'[l]) \in 1..Len(up'[l]) /\ Len(up'[l]) + 1 = Len(up[l])
      BY <1>1, <1>2
    <3> QED
      BY <2>1, <3>1
  <2>4. \A d \in Conn : d # l /\ d # conn => up'[d] = <<>>
    BY <1>1 DEF LineFacts, LineHolds
  <2> QED
    BY <1>1, <1>6, <2>2, <2>3, <2>4 DEF LineFacts, LineHolds
<1>11. HandlerFollows(r, l)'
  BY <1>1, <1>6, <1>7, <1>9 DEF HandlerFollows
<1>12. OutcomeKept(r, l)'
  <2> SUFFICES ASSUME up'[l] = <<>> PROVE OutcomeKept(r, l)'
    BY DEF OutcomeKept
  <2>1. LastSent(r) = up[l][1].stage
    BY <1>1, <1>2 DEF LineFacts, LineHolds
  <2>2. LastSent(r) # "none"
    BY <1>3, <2>1, EndedStages
  <2>3. LastSent(r) = "failed" => /\ http'[r] = "waiting" => woken'[r] = "failed"
                                  /\ ShowsFailure'
    BY <1>1, <1>5, <1>7, <1>9, <2>1
  <2>4. LastSent(r) \in {"restart_required", "restarting"} =>
           http'[r] = "done" /\ copy[l] = agentRow
    BY <1>1, <1>7, <1>8, <2>1 DEF FirstStages
  <2>5. /\ LastSent(r) \in {"restart_required", "restarting"} => agentRow'.status = LastSent(r)
        /\ LastSent(r) = "restart_required" => agentRow'.err = FALSE
    BY <1>5, <2>1, <2>4
  <2> QED
    BY <1>1, <1>6, <1>8, <2>2, <2>3, <2>4, <2>5 DEF OutcomeKept
<1>13. RegisterFollows(r, l)'
  <2> SUFFICES ASSUME stageOf[r] = "replaced" PROVE RegisterFollows(r, l)'
    BY <1>1 DEF RegisterFollows
  <2>1. conn # l /\ conn \in Conn
    BY FlowLines DEF LineOf
  <2>2. up[conn] # <<>> /\ up[conn] \in {<<>>, <<RegisterMsg(r)>>} /\ ~pump[conn]
    BY <1>1 DEF LineFacts, RegisterFollows
  <2> QED
    BY <1>1, <1>6, <2>1, <2>2 DEF RegisterFollows, RegisterMsg
<1> QED
  BY <1>10, <1>11, <1>12, <1>13 DEF LineFacts

\* A pump stores the REGISTER of the agent that replaced the old one.
LEMMA StoreRegisterStep ==
    ASSUME FlowTypeOK, LineInv, Calm, NEW r \in UpdateRequest, Alone(r), NEW l \in Conn,
           l = LineOf(r), LineFacts(r, l), l # conn, StoreRow(conn)
    PROVE  LineFacts(r, l)'
<1>1. conn \in Conn /\ stageOf[r] = "replaced" /\ LastSent(r) = "restarting"
  BY FlowLines DEF LineOf, LastSent
<1>2. /\ pump[conn] /\ up[conn] # <<>> /\ \A d \in Conn : d # conn => up'[d] = up[d]
      /\ Len(up'[conn]) = Len(up[conn]) - 1
      /\ pump' = [pump EXCEPT ![conn] = FALSE] /\ copy' = [copy EXCEPT ![conn] = Empty]
      /\ UNCHANGED <<flowMay, http, read, stageOf, runs, conn>>
      /\ up' \in [Conn -> Seq(Message)]
  BY <1>1, StoreEffect
<1>3. /\ up[conn] = <<RegisterMsg(r)>> /\ up[l] = <<>> /\ copy[conn] = agentRow
      /\ http[r] = "done" /\ agentRow.status = "restarting" /\ agentRow.target = r
  BY <1>1, <1>2 DEF LineFacts, RegisterFollows, OutcomeKept, Alone
<1>4. up[conn][1] = RegisterMsg(r) /\ Len(up[conn]) = 1 /\ r \in Version
  BY <1>3, FlowConstants
<1>5. up'[conn] = <<>>
  BY <1>1, <1>2, <1>4, LineElements
<1>6. up[conn][1].kind = "REGISTER" /\ up[conn][1].version = r
  BY <1>4, MessageFacts
<1>7. SaveRecord(agentRow, Registered(agentRow, r)) /\ UNCHANGED woken
  BY <1>1, <1>3, <1>6, StoreEffect
<1>8. agentRow'.status = "done" /\ agentRow'.err = FALSE
  BY <1>3, <1>4, <1>7, RegisteredEffect DEF FlowTypeOK
<1>9. /\ pump'[conn] = FALSE /\ pump'[l] = pump[l] /\ LastSent(r)' = "restarting" /\ ~pump[l]
  BY <1>1, <1>2, <1>3 DEF FlowTypeOK, LastSent, LineInv
<1>10. LineHolds(r, l)'
  <2>1. up'[l] = <<>> /\ Len(up'[l]) = 0
    BY <1>2, <1>3
  <2>2. \A d \in Conn : d # l /\ d # conn' => up'[d] = <<>>
    BY <1>2 DEF LineFacts, LineHolds
  <2> QED
    BY <2>1, <2>2 DEF LineHolds
<1>11. HandlerFollows(r, l)'
  BY <1>2, <1>3, <1>9 DEF HandlerFollows
<1>12. OutcomeKept(r, l)'
  BY <1>1, <1>2, <1>3, <1>5, <1>9 DEF OutcomeKept
<1>13. RegisterFollows(r, l)'
  BY <1>2, <1>3, <1>5, <1>8, <1>9 DEF RegisterFollows
<1> QED
  BY <1>10, <1>11, <1>12, <1>13 DEF LineFacts

LEMMA StoreStep ==
    ASSUME FlowTypeOK, LineInv, Calm, NEW r \in UpdateRequest, JobInv(r), NEW c \in Conn, StoreRow(c)
    PROVE  JobInv(r)'
<1>1. /\ pump[c] /\ up[c] # <<>> /\ agentRow'.target = agentRow.target
      /\ UNCHANGED <<flowMay, http, read, stageOf, runs, conn>>
  BY StoreEffect
<1>2. Alone(r) /\ Alone(r)'
  BY <1>1, AloneFrame DEF JobInv
<1>3. CASE ~InOrder(r)
  BY <1>1, <1>2, <1>3 DEF JobInv, InOrder
<1>4. CASE InOrder(r)
  <2>1. PICK l \in Conn : l = LineOf(r) /\ LineFacts(r, l)
    BY <1>4 DEF JobInv
  <2>2. l = LineOf(r)'
    BY <1>1, <2>1 DEF LineOf
  <2>3. c = l \/ c = conn
    BY <1>1, <2>1 DEF LineFacts, LineHolds
  <2>4. LineFacts(r, l)'
    BY <1>2, <2>1, <2>3, StoreStageStep, StoreRegisterStep
  <2> QED
    BY <1>2, <2>2, <2>4 DEF JobInv
<1> QED
  BY <1>3, <1>4

LEMMA OutcomeStep ==
    ASSUME FlowTypeOK, LineInv, RequestInv, OutcomeInv, [FlowNext]_flowVars
    PROVE  OutcomeInv'
<1>0. flowMay' = flowMay
  <2>1. \A r \in UpdateRequest : RestartAgent(r) => flowMay' = flowMay
    BY DEF RestartAgent, hubSide
  <2>2. \A r \in UpdateRequest, stage \in Stages : Reporting(r, stage) => flowMay' = flowMay
    BY DEF Reporting, SendStage, hubSide
  <2>3. \A r \in UpdateRequest : ReadAgentRow(r) \/ DispatchUpdate(r) \/ Wake(r) \/ Timeout(r) \/ recordUpdateRequest(r)
                                    => flowMay' = flowMay
    BY DEF ReadAgentRow, DispatchUpdate, Wake, Timeout, recordUpdateRequest
  <2>4. \A c \in Conn : LoadRow(c) \/ StoreRow(c) => flowMay' = flowMay
    BY DEF LoadRow, StoreRow
  <2>5. Reconnect \/ UNCHANGED flowVars => flowMay' = flowMay
    BY DEF Reconnect, hubSide, flowVars
  <2> QED
    BY <2>1, <2>2, <2>3, <2>4, <2>5, FlowCases
<1> SUFFICES ASSUME Calm PROVE NothingYet' \/ \E r \in UpdateRequest : JobInv(r)'
  BY <1>0 DEF OutcomeInv, Calm
<1>1. ASSUME NEW q \in UpdateRequest, ReadAgentRow(q) PROVE \E r \in UpdateRequest : JobInv(r)'
  BY <1>1, ReadStep
<1>2. ~Reconnect
  BY CalmMeans DEF Reconnect
<1>3. NothingYet /\ UNCHANGED flowVars => NothingYet'
  BY DEF NothingYet, flowVars
<1>4. CASE NothingYet
  <2>1. \A q \in UpdateRequest : http[q] = "idle" /\ stageOf[q] = "none"
    BY <1>4 DEF NothingYet, RequestInv
  <2>2. \A q \in UpdateRequest : ~(DispatchUpdate(q) \/ Wake(q) \/ Timeout(q) \/ recordUpdateRequest(q))
    BY <2>1 DEF DispatchUpdate, Wake, Timeout, recordUpdateRequest
  <2>3. \A q \in UpdateRequest : ~RestartAgent(q) /\ \A stage \in Stages : ~Reporting(q, stage)
    BY <2>1 DEF RestartAgent, Reporting
  <2>4. \A c \in Conn : ~LoadRow(c) /\ ~StoreRow(c)
    BY <1>4 DEF NothingYet, LineInv, LoadRow, StoreRow
  <2> QED
    BY <1>1, <1>2, <1>3, <1>4, <2>2, <2>3, <2>4, FlowCases
<1>5. ASSUME NEW r \in UpdateRequest, JobInv(r) PROVE \E q \in UpdateRequest : JobInv(q)'
  <2>0. Alone(r)
    BY <1>5 DEF JobInv
  <2>1. ASSUME NEW q \in UpdateRequest,
               \/ DispatchUpdate(q) \/ Wake(q) \/ Timeout(q) \/ recordUpdateRequest(q)
               \/ RestartAgent(q) \/ \E stage \in Stages : Reporting(q, stage)
        PROVE  JobInv(r)'
    <3>1. q = r
      BY <2>0, <2>1, OnlyTheLast
    <3>2. CASE \E stage \in Stages : Reporting(q, stage)
      BY <1>5, <3>1, <3>2, ReportStep
    <3> QED
      BY <1>5, <2>1, <3>1, <3>2, DispatchStep, WaitStep, RecordStep, RestartStep
  <2>2. ASSUME NEW c \in Conn, LoadRow(c) \/ StoreRow(c) PROVE JobInv(r)'
    BY <1>5, <2>2, LoadStep, StoreStep
  <2>3. CASE UNCHANGED flowVars
    <3>1. Alone(r)' /\ InOrder(r)' = InOrder(r) /\ LineOf(r)' = LineOf(r)
      BY <1>5, <2>3 DEF JobInv, Alone, InOrder, LineOf, flowVars
    <3>2. ASSUME NEW l \in Conn, LineFacts(r, l) PROVE LineFacts(r, l)'
      BY <2>3, <3>2 DEF LineFacts, LineHolds, HandlerFollows, OutcomeKept, RegisterFollows,
                        LastSent, ShowsFailure, RegisterMsg, ResponseMsg, flowVars
    <3> QED
      BY <1>5, <3>1, <3>2 DEF JobInv
  <2> QED
    BY <1>1, <1>2, <2>1, <2>2, <2>3, FlowCases
<1> QED
  BY <1>4, <1>5 DEF OutcomeInv

-----------------------------------------------------------------------------
(* The theorems *)

LEMMA FlowInvInit == FlowInit(FlowRegimes) => FlowInv
<1> SUFFICES ASSUME FlowInit(FlowRegimes) PROVE FlowInv
  OBVIOUS
<1>1. FlowTypeOK
  BY FlowTypeInit
<1>2. /\ agentRow = Empty /\ runs = Base /\ conn = 1
      /\ \A c \in Conn : up[c] = <<>> /\ pump[c] = FALSE
      /\ \A q \in UpdateRequest : /\ http[q] = "idle" /\ woken[q] = "none" /\ stageOf[q] = "none"
                                  /\ read[q] = Empty
  BY DEF FlowInit
<1>3. Len(<<>>) = 0
  OBVIOUS
<1>4. LineInv
  BY <1>2, <1>3 DEF LineInv
<1>5. VersionInv
  BY <1>2, EmptyRow, FlowConstants DEF VersionInv
<1>6. RequestInv
  BY <1>2, EmptyRow, FlowConstants DEF RequestInv
<1>7. OutcomeInv
  BY <1>2 DEF OutcomeInv, NothingYet
<1> QED
  BY <1>1, <1>4, <1>5, <1>6, <1>7 DEF FlowInv

LEMMA FlowInvStep == FlowInv /\ [FlowNext]_flowVars => FlowInv'
  BY FlowTypeStep, LineStep, VersionStep, RequestStep, OutcomeStep DEF FlowInv

LEMMA FlowInvSuffices == FlowInv => RowTellsOutcome
<1> SUFFICES ASSUME FlowInv, Settled PROVE FailureIsShown /\ UpdateIsReconciled /\ VersionIsCurrent
  BY DEF RowTellsOutcome
<1>1. FlowTypeOK /\ VersionInv /\ RequestInv /\ OutcomeInv
  BY DEF FlowInv
<1>2. conn \in Conn /\ \A c \in Conn : up[c] = <<>>
  BY <1>1, FlowLines DEF Settled
<1>3. VersionIsCurrent
  BY <1>1, <1>2 DEF VersionIsCurrent, VersionInv
<1>4. CASE Calm /\ NothingYet
  <2>1. agentRow.target = NoTarget /\ agentRow.err = FALSE /\ agentRow.status # "failed" /\ runs = Base
    BY <1>4, EmptyRow DEF NothingYet
  <2>2. FailureIsShown
    BY <2>1, FlowConstants DEF FailureIsShown
  <2>3. UpdateIsReconciled
    BY <2>1, FlowConstants DEF UpdateIsReconciled
  <2> QED
    BY <1>3, <2>2, <2>3
<1>5. ASSUME Calm, NEW r \in UpdateRequest, JobInv(r)
      PROVE  FailureIsShown /\ UpdateIsReconciled
  <2>1. http[r] = "done" /\ agentRow.target = r /\ stageOf[r] \in JobEnded /\ stageOf[r] # "killed"
    BY <1>5 DEF Settled, JobInv, Alone
  <2>2. InOrder(r) => \E l \in Conn : OutcomeKept(r, l) /\ RegisterFollows(r, l)
    BY <1>5 DEF JobInv, LineFacts
  <2>3. FailureIsShown
    <3>1. stageOf[r] = "failed" => ShowsFailure
      BY <1>2, <2>2 DEF InOrder, OutcomeKept, LastSent
    <3> QED
      BY <2>1, <3>1 DEF FailureIsShown, ShowsFailure
  <2>4. UpdateIsReconciled
    <3> SUFFICES ASSUME flowMay = {}
                 PROVE  /\ agentRow.target = runs => agentRow.status = "done"
                        /\ agentRow.err <=> agentRow.status = "failed"
      BY DEF UpdateIsReconciled
    <3>1. PICK l \in Conn : OutcomeKept(r, l) /\ RegisterFollows(r, l)
      BY <2>2 DEF InOrder
    <3>2. agentRow.err \in BOOLEAN
      BY <1>1, RowFields DEF FlowTypeOK
    <3>3. CASE stageOf[r] \in {"none", "failed"}
      <4>1. ShowsFailure
        BY <1>2, <2>1, <3>1, <3>3 DEF OutcomeKept, LastSent
      <4>2. agentRow.target # runs
        BY <1>1, <2>1, <3>3 DEF RequestInv
      <4> QED
        BY <3>2, <4>1, <4>2 DEF ShowsFailure
    <3>4. CASE stageOf[r] = "restart_required"
      <4>1. agentRow.status = "restart_required" /\ ~agentRow.err
        BY <1>2, <3>1, <3>4 DEF OutcomeKept, LastSent
      <4>2. agentRow.target # runs
        BY <1>1, <2>1, <3>4 DEF RequestInv
      <4> QED
        BY <4>1, <4>2
    <3>5. CASE stageOf[r] = "replaced"
      BY <1>2, <3>1, <3>5 DEF RegisterFollows
    <3> QED
      BY <2>1, <3>3, <3>4, <3>5 DEF JobEnded
  <2> QED
    BY <2>3, <2>4
<1>6. CASE ~Calm
  BY <1>3, <1>6 DEF Calm, FailureIsShown, UpdateIsReconciled
<1> QED
  BY <1>1, <1>3, <1>4, <1>5, <1>6 DEF OutcomeInv

\* The row of an agent, the copies of it that handlers and pumps hold and the messages
\* between hub and agent keep their types, for any number of requests and connections.
THEOREM FlowTypeCorrect == FlowSpec => []FlowTypeOK
<1>1. FlowInit(FlowRegimes) => FlowTypeOK /\ LineInv
  BY FlowInvInit DEF FlowInv
<1>2. FlowTypeOK /\ LineInv /\ [FlowNext]_flowVars => (FlowTypeOK /\ LineInv)'
  BY FlowTypeStep, LineStep
<1> QED
  BY <1>1, <1>2, PTL DEF FlowSpec

\* handleAgentUpdate, HandleResponse and handleRegister each save an older copy of the
\* row: when everything sent has been handled, a failed update is shown as failed with its
\* error, an agent that runs the version asked for as done, and the version shown is the
\* one that runs, each where its regime promises it.
THEOREM RowTellsOutcomeAlways == FlowSpec => []RowTellsOutcome
  BY FlowInvInit, FlowInvStep, FlowInvSuffices, PTL DEF FlowSpec
=============================================================================
