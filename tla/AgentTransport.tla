--------------------------- MODULE AgentTransport ---------------------------
(***************************************************************************)
(* WSTransport of the agent (internal/agent/transport/ws.go): the reconnect *)
(* loop of Start, the read and write pumps it runs per connection, the     *)
(* bounded send queue and the concurrent Stop, with the callers in         *)
(* cmd/agent/main.go.  Delays (backoff, heartbeat period) are not counted: *)
(* a timer may fire whenever its goroutine waits for it.                   *)
(*                                                                         *)
(* Goroutines: the loop (`tpc'), the read pump (`rp'), the write pump      *)
(* (`wp'), the helper that turns a closed stopCh into a cancelled context, *)
(* and the caller of Stop (`stopper').                                     *)
(***************************************************************************)
EXTENDS Link

CONSTANTS
    QueueSize,   \* sendQueueSize
    MaxMessages, \* bound: messages passed to Send by the collectors
    MaxStops     \* bound: 0 when the agent is never told to shut down

ASSUME TransportAssumption ==
    QueueSize \in Nat \ {0} /\ MaxMessages \in Nat /\ MaxStops \in {0, 1}

VARIABLES
    tpc,      \* where Start is
    dialed,   \* the connection DialContext returned, not yet stored in t.conn
    conn,     \* t.conn
    rp,       \* the read pump
    rconn,    \* its copy of t.conn
    wp,       \* the write pump
    wconn,    \* its copy of t.conn
    ctxDone,  \* the context derived in Start is cancelled
    pumpDone, \* the pumps' own context is cancelled
    stopCh,   \* stopCh is closed
    stopper,  \* the caller of Stop
    queue,    \* sendCh
    sent,     \* messages passed to Send so far
    dropped   \* droppedMessages

agentVars == <<tpc, dialed, conn, rp, rconn, wp, wconn, ctxDone, pumpDone,
               stopCh, stopper, queue, sent, dropped>>

LoopState == {"loop", "dialing", "dialed", "connected", "pumps", "closing", "backoff", "done"}
PumpState == {"off", "start", "check", "wait", "exited"}

AgentInit ==
    /\ tpc = "loop" /\ dialed = NoConn /\ conn = NoConn
    /\ rp = "off" /\ rconn = NoConn
    /\ wp = "off" /\ wconn = NoConn
    /\ ctxDone = FALSE /\ pumpDone = FALSE
    /\ stopCh = FALSE /\ stopper = "idle"
    /\ queue = <<>> /\ sent = 0 /\ dropped = 0

AgentTypeOK ==
    /\ tpc \in LoopState
    /\ dialed \in Conn \union {NoConn}
    /\ conn \in Conn \union {NoConn}
    /\ rp \in PumpState /\ rconn \in Conn \union {NoConn}
    /\ wp \in PumpState \ {"check"} /\ wconn \in Conn \union {NoConn}
    /\ ctxDone \in BOOLEAN /\ pumpDone \in BOOLEAN /\ stopCh \in BOOLEAN
    /\ stopper \in {"idle", "closing", "returned"}
    /\ queue \in Seq(Frame)
    /\ sent \in Nat /\ dropped \in Nat

-----------------------------------------------------------------------------

\* Mutant of Enqueue: REGISTER jumps the queue.
MutantEnqueuePriority(kind) ==
    /\ sent' = sent + 1
    /\ queue' = IF kind = "REGISTER" THEN <<[kind |-> kind, n |-> sent + 1]>> \o queue
                                     ELSE Append(queue, [kind |-> kind, n |-> sent + 1])
    /\ UNCHANGED dropped

\* Send, up to the choice between queueing and dropping.
Enqueue(kind) ==
    /\ sent' = sent + 1
    /\ IF Len(queue) < QueueSize
       THEN /\ queue' = Append(queue, [kind |-> kind, n |-> sent + 1])
            /\ UNCHANGED dropped
       ELSE /\ dropped' = dropped + 1
            /\ UNCHANGED queue

\* collectAndSend, sendLogsBatch and the command handlers call Send.
SendMetrics ==
    /\ sent < MaxMessages
    /\ Enqueue("METRICS")
    /\ UNCHANGED <<tpc, dialed, conn, rp, rconn, wp, wconn, ctxDone, pumpDone,
                   stopCh, stopper, linkVars>>

closeConn ==
    /\ conn' = NoConn
    /\ cli' = IF conn = NoConn THEN cli ELSE [cli EXCEPT ![conn] = "closed"]

-----------------------------------------------------------------------------
\* The reconnect loop of Start.

Finish ==
    /\ tpc = "loop" /\ (ctxDone \/ stopCh)
    /\ closeConn
    /\ tpc' = "done"
    /\ UNCHANGED <<dialed, rp, rconn, wp, wconn, ctxDone, pumpDone, stopCh, stopper,
                   queue, sent, dropped, dials, srv, cut, wire>>

Dial ==
    /\ tpc = "loop" /\ ~ctxDone /\ ~stopCh
    /\ dials < MaxConns
    /\ dials' = dials + 1
    /\ tpc' = "dialing"
    /\ UNCHANGED <<dialed, conn, rp, rconn, wp, wconn, ctxDone, pumpDone, stopCh, stopper,
                   queue, sent, dropped, cli, srv, cut, wire>>

\* DialContext returns once the hub has upgraded the request.
DialOk ==
    /\ tpc = "dialing" /\ srv[dials] # "none" /\ dials \notin cut
    /\ cli' = [cli EXCEPT ![dials] = "open"]
    /\ dialed' = dials
    /\ tpc' = "dialed"
    /\ UNCHANGED <<conn, rp, rconn, wp, wconn, ctxDone, pumpDone, stopCh, stopper,
                   queue, sent, dropped, dials, srv, cut, wire>>

\* Refused, timed out, or the context was cancelled; the hub may still upgrade it.
DialFails ==
    /\ tpc = "dialing"
    /\ cli' = [cli EXCEPT ![dials] = "closed"]
    /\ tpc' = "backoff"
    /\ UNCHANGED <<dialed, conn, rp, rconn, wp, wconn, ctxDone, pumpDone, stopCh, stopper,
                   queue, sent, dropped, dials, srv, cut, wire>>

WaitBackoff ==
    /\ tpc = "backoff"
    /\ \/ tpc' = "loop"
       \/ (ctxDone \/ stopCh) /\ tpc' = "done"
    /\ UNCHANGED <<dialed, conn, rp, rconn, wp, wconn, ctxDone, pumpDone, stopCh, stopper,
                   queue, sent, dropped, linkVars>>

StoreConn ==
    /\ tpc = "dialed"
    /\ conn' = dialed /\ dialed' = NoConn
    /\ tpc' = "connected"
    /\ UNCHANGED <<rp, rconn, wp, wconn, ctxDone, pumpDone, stopCh, stopper,
                   queue, sent, dropped, linkVars>>

\* OnConnect queues a REGISTER behind whatever is waiting, then runPumps starts.
OnConnect ==
    /\ tpc = "connected"
    /\ Enqueue("REGISTER")
    /\ rp' = "start" /\ wp' = "start" /\ pumpDone' = FALSE
    /\ tpc' = "pumps"
    /\ UNCHANGED <<dialed, conn, rconn, wconn, ctxDone, stopCh, stopper, linkVars>>

\* wg.Wait returns when both pumps have exited; runPumps then closes the connection.
RunPumpsReturns ==
    /\ tpc = "pumps" /\ rp = "exited" /\ wp = "exited"
    /\ tpc' = "closing"
    /\ rp' = "off" /\ wp' = "off" /\ rconn' = NoConn /\ wconn' = NoConn
    /\ UNCHANGED <<dialed, conn, ctxDone, pumpDone, stopCh, stopper,
                   queue, sent, dropped, linkVars>>

\* Mutant: runPumps returns without closing the connection.
MutantCloseAfterPumps ==
    /\ tpc = "closing"
    /\ tpc' = "loop"
    /\ UNCHANGED <<dialed, conn, rp, rconn, wp, wconn, ctxDone, pumpDone, stopCh, stopper,
                   queue, sent, dropped, linkVars>>

CloseAfterPumps ==
    /\ tpc = "closing"
    /\ closeConn
    /\ tpc' = "loop"
    /\ UNCHANGED <<dialed, rp, rconn, wp, wconn, ctxDone, pumpDone, stopCh, stopper,
                   queue, sent, dropped, dials, srv, cut, wire>>

-----------------------------------------------------------------------------
\* readPump

ReadStart ==
    /\ rp = "start"
    /\ rconn' = conn
    /\ rp' = IF conn = NoConn THEN "exited" ELSE "check"
    /\ pumpDone' = (pumpDone \/ conn = NoConn)
    /\ UNCHANGED <<tpc, dialed, conn, wp, wconn, ctxDone, stopCh, stopper,
                   queue, sent, dropped, linkVars>>

ReadCheck ==
    /\ rp = "check"
    /\ rp' = IF ctxDone \/ pumpDone THEN "exited" ELSE "wait"
    /\ pumpDone' = (pumpDone \/ ctxDone)
    /\ UNCHANGED <<tpc, dialed, conn, rconn, wp, wconn, ctxDone, stopCh, stopper,
                   queue, sent, dropped, linkVars>>

\* ReadMessage returns an ACK or a COMMAND, and OnMessage handles it.
ReadMessage ==
    /\ rp = "wait"
    /\ cli[rconn] = "open" /\ srv[rconn] = "open" /\ rconn \notin cut
    /\ rp' = "check"
    /\ UNCHANGED <<tpc, dialed, conn, rconn, wp, wconn, ctxDone, pumpDone, stopCh, stopper,
                   queue, sent, dropped, linkVars>>

\* ReadMessage has no deadline: it fails only when one end is closed.
ReadFails ==
    /\ rp = "wait"
    /\ cli[rconn] = "closed" \/ (srv[rconn] = "closed" /\ rconn \notin cut)
    /\ rp' = "exited" /\ pumpDone' = TRUE
    /\ UNCHANGED <<tpc, dialed, conn, rconn, wp, wconn, ctxDone, stopCh, stopper,
                   queue, sent, dropped, linkVars>>

-----------------------------------------------------------------------------
\* writePump: the cases of its select that are ready compete.

WriteStart ==
    /\ wp = "start"
    /\ wconn' = conn
    /\ wp' = IF conn = NoConn THEN "exited" ELSE "wait"
    /\ pumpDone' = (pumpDone \/ conn = NoConn)
    /\ UNCHANGED <<tpc, dialed, conn, rp, rconn, ctxDone, stopCh, stopper,
                   queue, sent, dropped, linkVars>>

\* One conn.WriteMessage: the pump exits when it fails.
WriteFrame(f) ==
    \/ /\ WriteSucceeds(wconn)
       /\ wire' = Carry(wconn, f)
       /\ UNCHANGED <<wp, pumpDone>>
    \/ /\ WriteFails(wconn)
       /\ wp' = "exited" /\ pumpDone' = TRUE
       /\ UNCHANGED wire

\* The message has left the queue whether or not the write succeeds.
WriteQueued ==
    /\ wp = "wait" /\ queue # <<>>
    /\ WriteFrame(Head(queue))
    /\ queue' = Tail(queue)
    /\ UNCHANGED <<tpc, dialed, conn, rp, rconn, wconn, ctxDone, stopCh, stopper,
                   sent, dropped, dials, cli, srv, cut>>

WriteHeartbeat ==
    /\ wp = "wait"
    /\ WriteFrame([kind |-> "HEARTBEAT", n |-> dropped])
    /\ UNCHANGED <<tpc, dialed, conn, rp, rconn, wconn, ctxDone, stopCh, stopper,
                   queue, sent, dropped, dials, cli, srv, cut>>

\* Mutant: the pump observes neither the transport's context nor stopCh.
MutantWriteCancelled ==
    /\ wp = "wait" /\ pumpDone
    /\ wp' = "exited"
    /\ UNCHANGED <<tpc, dialed, conn, rp, rconn, wconn, ctxDone, pumpDone, stopCh, stopper,
                   queue, sent, dropped, linkVars>>

\* The context case sends a close frame, best effort; the stopCh case does not.
WriteCancelled ==
    /\ wp = "wait"
    /\ \/ /\ ctxDone \/ pumpDone
          /\ wire' = IF WriteSucceeds(wconn) THEN Carry(wconn, [kind |-> "CLOSE", n |-> 0])
                                             ELSE wire
       \/ stopCh /\ UNCHANGED wire
    /\ wp' = "exited" /\ pumpDone' = TRUE
    /\ UNCHANGED <<tpc, dialed, conn, rp, rconn, wconn, ctxDone, stopCh, stopper,
                   queue, sent, dropped, dials, cli, srv, cut>>

-----------------------------------------------------------------------------
\* Shutdown: a signal cancels the context and runAgent then calls Stop; the
\* self-update's reexecOrExit calls Stop alone.

Signal ==
    /\ ~ctxDone /\ MaxStops > 0
    /\ ctxDone' = TRUE
    /\ UNCHANGED <<tpc, dialed, conn, rp, rconn, wp, wconn, pumpDone, stopCh, stopper,
                   queue, sent, dropped, linkVars>>

StopBegins ==
    /\ stopper = "idle" /\ MaxStops > 0
    /\ stopCh' = TRUE /\ stopper' = "closing"
    /\ UNCHANGED <<tpc, dialed, conn, rp, rconn, wp, wconn, ctxDone, pumpDone,
                   queue, sent, dropped, linkVars>>

StopCloses ==
    /\ stopper = "closing"
    /\ closeConn
    /\ stopper' = "returned"
    /\ UNCHANGED <<tpc, dialed, rp, rconn, wp, wconn, ctxDone, pumpDone, stopCh,
                   queue, sent, dropped, dials, srv, cut, wire>>

\* The goroutine of Start that cancels the context once stopCh is closed.
Propagate ==
    /\ stopCh /\ ~ctxDone
    /\ ctxDone' = TRUE
    /\ UNCHANGED <<tpc, dialed, conn, rp, rconn, wp, wconn, pumpDone, stopCh, stopper,
                   queue, sent, dropped, linkVars>>

-----------------------------------------------------------------------------
LoopStep == \/ Finish \/ Dial \/ DialOk \/ DialFails \/ WaitBackoff \/ StoreConn
            \/ OnConnect \/ RunPumpsReturns \/ CloseAfterPumps
ReadStep == ReadStart \/ ReadCheck \/ ReadMessage \/ ReadFails
WriteStep == WriteStart \/ WriteQueued \/ WriteHeartbeat \/ WriteCancelled
StopStep == Signal \/ StopBegins \/ StopCloses \/ Propagate

AgentNext == LoopStep \/ ReadStep \/ WriteStep \/ StopStep \/ SendMetrics
=============================================================================
