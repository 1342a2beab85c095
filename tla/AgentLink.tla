----------------------------- MODULE AgentLink ------------------------------
(***************************************************************************)
(* AgentTransport and WsHub composed over the connections of Link: every   *)
(* step is a step of one goroutine of the agent, of one goroutine of the   *)
(* hub, or of the network.                                                 *)
(***************************************************************************)
EXTENDS AgentTransport, WsHub

vars == <<linkVars, agentVars, hubVars>>

\* The agent's write pump is alive on c, so a heartbeat follows within 30 s.
Writing(c) == wp = "wait" /\ wconn = c /\ cli[c] = "open" /\ c \notin cut

Init == LinkInit /\ AgentInit /\ HubInit

AgentStep == AgentNext /\ UNCHANGED hubVars
HubStep ==
    /\ \/ \E c \in Conn : ServeStep(c) \/ FallSilent(c, Writing(c))
       \/ CheckerStep
       \/ HubCrash
    /\ UNCHANGED agentVars
NetworkStep == (\E c \in Conn : Cut(c)) /\ UNCHANGED <<agentVars, hubVars>>

Next == AgentStep \/ HubStep \/ NetworkStep

Spec == Init /\ [][Next]_vars

\* Every goroutine that can run eventually does, a silent connection is noticed,
\* and a signalled agent calls Stop.  Nothing makes the agent's reads end by
\* themselves, nobody has to ask for a shutdown or cut a connection, and a dial
\* that keeps failing may do so forever.
Fairness ==
    /\ WF_vars((Finish \/ Dial \/ WaitBackoff \/ StoreConn \/ OnConnect
                \/ RunPumpsReturns \/ CloseAfterPumps \/ DialOk \/ DialFails) /\ UNCHANGED hubVars)
    /\ WF_vars((ReadStart \/ ReadCheck \/ ReadFails) /\ UNCHANGED hubVars)
    /\ WF_vars((WriteStart \/ WriteQueued \/ WriteCancelled) /\ UNCHANGED hubVars)
    /\ WF_vars(WriteHeartbeat /\ UNCHANGED hubVars)
    /\ WF_vars((StopCloses \/ (ctxDone /\ StopBegins)) /\ UNCHANGED hubVars)
    /\ WF_vars(Propagate /\ UNCHANGED hubVars)
    /\ \A c \in Conn : WF_vars(ServeStep(c) /\ UNCHANGED agentVars)
    /\ \A c \in Conn : WF_vars(FallSilent(c, Writing(c)) /\ UNCHANGED agentVars)
    /\ WF_vars(CheckerStep /\ UNCHANGED agentVars)

FairSpec == Spec /\ Fairness

TypeOK == LinkTypeOK /\ AgentTypeOK /\ HubTypeOK

-----------------------------------------------------------------------------
\* Nothing passed to Send is handled twice, and the messages of one connection
\* are handled in the order in which they were sent, whatever is dropped by a
\* full queue, lost with a failed write or cut off by a reconnect (Send,
\* writePump, readPump of the hub).
DeliveredInOrder ==
    \A i, j \in 1..Len(handled) :
        i < j => /\ handled[i][2] # handled[j][2]
                 /\ handled[i][1] = handled[j][1] => handled[i][2] < handled[j][2]

\* The transport never leaks a socket across reconnects and Stop: an open one is
\* t.conn or the one DialContext has just returned, and none is open once Start
\* has returned (connect, closeConn, runPumps, Stop).
NoLeakedSocket ==
    /\ \A c \in Conn : cli[c] = "open" => c \in {conn, dialed}
    /\ tpc = "done" => \A c \in Conn : cli[c] # "open"

\* SendCommand never finds a connection whose cleanup is over: an entry of
\* Hub.agents is always served by a goroutine that will still remove it
\* (HandleWebSocket stores before it starts the read pump, readPump removes last).
NoGhostEntry ==
    reg # NoConn => hpc[reg] \in {"stored", "reading", "saving", "removing"}

\* While the hub process lives and its saves succeed, an agent shown online has a
\* goroutine that is going to mark it offline when its connection ends; no
\* interleaving of reconnects, late messages and the heartbeat checker leaves the
\* row online for good (the saves of HandleWebSocket, updateLastSeen and removeAgent).
OnlineHasOwner ==
    (~DbFaults /\ crashes = 0 /\ status = "online") =>
        \E c \in Conn :
            \/ hpc[c] \in {"reading", "saving", "removing"}
            \/ hpc[c] = "offline" /\ seen[c] = "online"

-----------------------------------------------------------------------------
\* Stop() then Wait() ends: once stopCh is closed Start returns, wherever the
\* reconnect loop was (Start's comment on Stop()+Wait() blocking forever).
StopTerminates == stopCh ~> tpc = "done"

\* An agent that has lost its last connection for good is shown offline for good.
OfflineSettles ==
    <>[](\A c \in Conn : cli[c] # "open") => <>[](status = "offline")

\* A connection both ends keep serving brings the row back online, even after
\* the clean-up of an earlier connection marked it offline.
Served(c) == Writing(c) /\ hpc[c] \in {"reading", "saving"} /\ srv[c] = "open"
ServedIsOnline == \A c \in Conn : Served(c) ~> (status = "online" \/ ~Served(c))

-----------------------------------------------------------------------------
\* A property stated by a comment of the code that does not hold.

\* handler.go:100, ConnectedAgentCount "returns the number of currently connected
\* agents": while a read pump serves the agent, Hub.agents has an entry for it.
ConnectedIsCounted ==
    (\E c \in Conn : hpc[c] \in {"reading", "saving"} /\ srv[c] = "open"
                     /\ cli[c] = "open" /\ c \notin silent)
        => reg # NoConn
=============================================================================
