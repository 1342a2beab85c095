--------------------------- MODULE CommandBroker ----------------------------
(***************************************************************************)
(* The broker that correlates a COMMAND with its COMMAND_RESPONSE          *)
(* (internal/hub/commands/broker.go) between the HTTP handlers that wait   *)
(* in Send (docker_routes.go, update_routes.go) and the read pumps that    *)
(* call HandleResponse (cmd/hub/main.go, ws/handler.go).                   *)
(*                                                                         *)
(* A request is one call of Send.  Its id is the wall clock in             *)
(* milliseconds with a prefix both callers share for one agent or          *)
(* container, so calls within a millisecond get the same id.               *)
(***************************************************************************)
EXTENDS Naturals, FiniteSets

CONSTANTS
    Request,        \* calls of Send
    Pump,           \* read pumps that call HandleResponse concurrently
    NoRequest,
    MaxClock,       \* bound: distinct milliseconds
    MaxAnswers      \* bound: responses to one command (an update streams several)

ASSUME BrokerAssumption ==
    /\ NoRequest \notin Request
    /\ MaxClock \in Nat /\ MaxAnswers \in Nat

Id == 0..MaxClock
Response == [to : Request, k : 1..MaxAnswers]   \* the k-th response to a command
NoResponse == [to |-> NoRequest, k |-> 0]

VARIABLES
    millis,     \* milliseconds
    call,      \* call[r]: where Send is
    rid,       \* rid[r]: its request id
    pending,   \* Broker.pending: the request whose channel is stored under an id
    channel,   \* channel[r]: the response in its channel, of capacity one
    result,    \* result[r]: what Send returned
    atAgent,   \* commands that reached the agent
    answers,   \* answers[r]: responses the agent has sent to it so far
    inbound,   \* responses in flight
    match      \* match[p]: the request pump p matched, and the response it holds

brokerVars == <<millis, call, rid, pending, channel, result, atAgent, answers, inbound, match>>

Unmatched == [req |-> NoRequest, resp |-> NoResponse]

BrokerInit ==
    /\ millis = 0
    /\ call = [r \in Request |-> "idle"]
    /\ rid = [r \in Request |-> 0]
    /\ pending = [i \in Id |-> NoRequest]
    /\ channel = [r \in Request |-> NoResponse]
    /\ result = [r \in Request |-> NoResponse]
    /\ atAgent = {}
    /\ answers = [r \in Request |-> 0]
    /\ inbound = {}
    /\ match = [p \in Pump |-> Unmatched]

BrokerTypeOK ==
    /\ millis \in Id
    /\ call \in [Request -> {"idle", "registered", "sending", "waiting", "returning", "returned"}]
    /\ rid \in [Request -> Id]
    /\ pending \in [Id -> Request \union {NoRequest}]
    /\ channel \in [Request -> Response \union {NoResponse}]
    /\ result \in [Request -> Response \union {NoResponse}]
    /\ atAgent \in SUBSET Request
    /\ answers \in [Request -> 0..MaxAnswers]
    /\ inbound \in SUBSET Response
    /\ match \in [Pump -> [req : Request \union {NoRequest}, resp : Response \union {NoResponse}]]

-----------------------------------------------------------------------------
BrokerTick ==
    /\ millis < MaxClock
    /\ millis' = millis + 1
    /\ UNCHANGED <<call, rid, pending, channel, result, atAgent, answers, inbound, match>>

\* Send: a channel of capacity one is stored under the id, over whatever is there.
Register(r) ==
    /\ call[r] = "idle"
    /\ rid' = [rid EXCEPT ![r] = millis]
    /\ pending' = [pending EXCEPT ![millis] = r]
    /\ call' = [call EXCEPT ![r] = "registered"]
    /\ UNCHANGED <<millis, channel, result, atAgent, answers, inbound, match>>

\* sender.SendCommand writes the command, which may be lost; the answer to it can
\* arrive before SendCommand has returned and the call starts to wait.
SendCommand(r) ==
    /\ call[r] = "registered"
    /\ call' = [call EXCEPT ![r] = "sending"]
    /\ atAgent' \in {atAgent, atAgent \union {r}}
    /\ UNCHANGED <<millis, rid, pending, channel, result, answers, inbound, match>>

StartWaiting(r) ==
    /\ call[r] = "sending"
    /\ call' = [call EXCEPT ![r] = "waiting"]
    /\ UNCHANGED <<millis, rid, pending, channel, result, atAgent, answers, inbound, match>>

\* The agent is not connected, the write fails, the wait times out, or the caller
\* goes away.
GiveUp(r) ==
    /\ call[r] \in {"registered", "sending", "waiting"}
    /\ call' = [call EXCEPT ![r] = "returning"]
    /\ UNCHANGED <<millis, rid, pending, channel, result, atAgent, answers, inbound, match>>

TakeResponse(r) ==
    /\ call[r] = "waiting" /\ channel[r] # NoResponse
    /\ result' = [result EXCEPT ![r] = channel[r]]
    /\ channel' = [channel EXCEPT ![r] = NoResponse]
    /\ call' = [call EXCEPT ![r] = "returning"]
    /\ UNCHANGED <<millis, rid, pending, atAgent, answers, inbound, match>>

\* The deferred delete removes the entry under the id, whoever stored it.
Cleanup(r) ==
    /\ call[r] = "returning"
    /\ pending' = [pending EXCEPT ![rid[r]] = NoRequest]
    /\ call' = [call EXCEPT ![r] = "returned"]
    /\ UNCHANGED <<millis, rid, channel, result, atAgent, answers, inbound, match>>

-----------------------------------------------------------------------------
\* The agent's command goroutine answers, echoing the id.
Answer(r) ==
    /\ r \in atAgent /\ answers[r] < MaxAnswers
    /\ answers' = [answers EXCEPT ![r] = @ + 1]
    /\ inbound' = inbound \union {[to |-> r, k |-> answers[r] + 1]}
    /\ UNCHANGED <<millis, call, rid, pending, channel, result, atAgent, match>>

\* HandleResponse under the mutex: find the channel and delete its entry.
Match(p, m) ==
    /\ match[p] = Unmatched /\ m \in inbound
    /\ inbound' = inbound \ {m}
    /\ LET q == pending[rid[m.to]] IN
       IF q = NoRequest
       THEN UNCHANGED <<pending, match>>
       ELSE /\ pending' = [pending EXCEPT ![rid[m.to]] = NoRequest]
            /\ match' = [match EXCEPT ![p] = [req |-> q, resp |-> m]]
    /\ UNCHANGED <<millis, call, rid, channel, result, atAgent, answers>>

\* Mutant: a channel without a buffer drops a response nobody waits for yet.
MutantDeliver(p) ==
    /\ match[p] # Unmatched
    /\ channel' = IF call[match[p].req] = "waiting"
                  THEN [channel EXCEPT ![match[p].req] = match[p].resp] ELSE channel
    /\ match' = [match EXCEPT ![p] = Unmatched]
    /\ UNCHANGED <<millis, call, rid, pending, result, atAgent, answers, inbound>>

\* Mutant: a response goes to every call that waits for one.
MutantDeliverAll(p) ==
    /\ match[p] # Unmatched
    /\ channel' = [q \in Request |->
                      IF channel[q] = NoResponse /\ (q = match[p].req \/ call[q] = "waiting")
                      THEN match[p].resp ELSE channel[q]]
    /\ match' = [match EXCEPT ![p] = Unmatched]
    /\ UNCHANGED <<millis, call, rid, pending, result, atAgent, answers, inbound>>

\* HandleResponse after the unlock: a send that drops the response if the channel is full.
Deliver(p) ==
    /\ match[p] # Unmatched
    /\ LET q == match[p].req IN
       channel' = [channel EXCEPT ![q] = IF @ = NoResponse THEN match[p].resp ELSE @]
    /\ match' = [match EXCEPT ![p] = Unmatched]
    /\ UNCHANGED <<millis, call, rid, pending, result, atAgent, answers, inbound>>

-----------------------------------------------------------------------------
SendStep(r) == \/ Register(r) \/ SendCommand(r) \/ StartWaiting(r)
               \/ GiveUp(r) \/ TakeResponse(r) \/ Cleanup(r)
PumpStep(p) == Deliver(p) \/ \E m \in inbound : Match(p, m)

BrokerNext ==
    \/ BrokerTick
    \/ \E r \in Request : SendStep(r) \/ Answer(r)
    \/ \E p \in Pump : PumpStep(p)

BrokerSpec == BrokerInit /\ [][BrokerNext]_brokerVars

-----------------------------------------------------------------------------
\* A response matched to a waiting call is never thrown away, however the two
\* read pumps, the timeout and the deletes interleave: the channel of a matched
\* call is empty and no other pump is about to fill it (HandleResponse deletes
\* the entry in the critical section that finds it).
MatchedIsDelivered ==
    \A p \in Pump : match[p] # Unmatched =>
        /\ channel[match[p].req] = NoResponse
        /\ pending[rid[match[p].req]] # match[p].req
        /\ \A q \in Pump \ {p} : match[q].req # match[p].req

\* Entries do not outlive their call: one that times out, is cancelled, fails to
\* send or is answered leaves nothing behind (the deferred delete of Send).
NoStrandedEntry ==
    \A i \in Id : pending[i] # NoRequest =>
        call[pending[i]] \in {"registered", "sending", "waiting", "returning"} /\ rid[pending[i]] = i

Shared(r) == \E q \in Request \ {r} : call[q] # "idle" /\ rid[q] = rid[r]

\* A call returns a response to its own command, unless another call shares its id.
AnswerIsOwn ==
    \A r \in Request : result[r] # NoResponse => result[r].to = r \/ Shared(r)

\* broker.go:42-44, Send "blocks until a COMMAND_RESPONSE carrying the same
\* requestID arrives (via HandleResponse)": a call still waiting after a response
\* to its command went through HandleResponse has one in its channel, unless
\* another call shares its id and may have replaced its pending entry.
Handled(r) == /\ answers[r] > 0
              /\ \A k \in 1..answers[r] : [to |-> r, k |-> k] \notin inbound
              /\ \A p \in Pump : match[p].resp.to # r
ResponseWakesCaller ==
    \A r \in Request :
        call[r] = "waiting" /\ Handled(r) => channel[r] # NoResponse \/ Shared(r)
=============================================================================
