------------------------------- MODULE WsHub --------------------------------
(***************************************************************************)
(* The hub's end of the agent connections (internal/hub/ws/handler.go): the *)
(* HTTP handler that accepts a connection, one read pump per connection,   *)
(* the heartbeat checker, the map of connected agents and the status field *)
(* of the agent's row.                                                     *)
(*                                                                         *)
(* A goroutine per connection runs `hpc'.  Each one reads the row, sets    *)
(* fields and saves it, with other goroutines in between: `seen' is the    *)
(* status its copy of the record held when it was read.                    *)
(***************************************************************************)
EXTENDS Link

CONSTANTS
    DbFaults,       \* may a save of the row fail
    MaxHubCrashes   \* bound: restarts of the hub process

ASSUME HubAssumption == DbFaults \in BOOLEAN /\ MaxHubCrashes \in Nat

VARIABLES
    hpc,      \* hpc[c]: the goroutine serving connection c
    seen,     \* seen[c]: the status in that goroutine's copy of the row
    reg,      \* Hub.agents: the connection stored for the agent, NoConn if none
    silent,   \* connections whose last message is older than the timeouts (90 s)
    checker,  \* the heartbeat checker: "idle", "remove" or "save"
    cseen,    \* the status in the checker's copy of the row
    status,   \* agents.status
    rowDropped,  \* agents.dropped_messages
    handled,  \* history: <<connection, message number>> in the order of handling
    crashes

hubVars == <<hpc, seen, reg, silent, checker, cseen, status, rowDropped, handled, crashes>>

HandlerState == {"none", "auth", "upgraded", "stored", "reading", "saving",
                 "removing", "offline", "gone"}
Status == {"online", "offline"}

HubInit ==
    /\ hpc = [c \in Conn |-> "none"]
    /\ seen = [c \in Conn |-> "offline"]
    /\ reg = NoConn
    /\ silent = {}
    /\ checker = "idle" /\ cseen = "offline"
    /\ status = "offline"
    /\ rowDropped = 0
    /\ handled = <<>>
    /\ crashes = 0

HubTypeOK ==
    /\ hpc \in [Conn -> HandlerState]
    /\ seen \in [Conn -> Status]
    /\ reg \in Conn \union {NoConn}
    /\ silent \in SUBSET Conn
    /\ checker \in {"idle", "remove", "save"}
    /\ cseen \in Status
    /\ status \in Status
    /\ rowDropped \in Nat
    /\ handled \in Seq(Conn \X Nat)
    /\ crashes \in Nat

-----------------------------------------------------------------------------
\* app.Save writes the fields that differ from the record as it was read.
SaveStatus(read, new) ==
    \/ status' = IF read = new THEN status ELSE new
    \/ DbFaults /\ status' = status

\* HandleWebSocket, up to the upgrade: findAgentByToken reads the row.
Authenticate(c) ==
    /\ hpc[c] = "none" /\ c <= dials
    /\ hpc' = [hpc EXCEPT ![c] = "auth"]
    /\ seen' = [seen EXCEPT ![c] = status]
    /\ UNCHANGED <<reg, silent, checker, cseen, status, rowDropped, handled, crashes, linkVars>>

Upgrade(c) ==
    /\ hpc[c] = "auth"
    /\ \/ srv' = [srv EXCEPT ![c] = "open"] /\ hpc' = [hpc EXCEPT ![c] = "upgraded"]
       \/ /\ cli[c] = "closed" \/ c \in cut    \* the upgrade itself fails
          /\ srv' = [srv EXCEPT ![c] = "closed"] /\ hpc' = [hpc EXCEPT ![c] = "gone"]
    /\ UNCHANGED <<seen, reg, silent, checker, cseen, status, rowDropped, handled, crashes,
                   dials, cli, cut, wire>>

StoreAgent(c) ==
    /\ hpc[c] = "upgraded"
    /\ reg' = c
    /\ hpc' = [hpc EXCEPT ![c] = "stored"]
    /\ UNCHANGED <<seen, silent, checker, cseen, status, rowDropped, handled, crashes, linkVars>>

\* The save that marks the agent online, then `go h.readPump(ca)'.
MarkOnline(c) ==
    /\ hpc[c] = "stored"
    /\ SaveStatus(seen[c], "online")
    /\ hpc' = [hpc EXCEPT ![c] = "reading"]
    /\ UNCHANGED <<seen, reg, silent, checker, cseen, rowDropped, handled, crashes, linkVars>>

-----------------------------------------------------------------------------
\* readPump.  A message refreshes LastSeen and the read deadline, is routed to
\* its handler, and the handler reads the row ...
Receive(c) ==
    /\ hpc[c] = "reading" /\ srv[c] = "open" /\ wire[c] # <<>>
    /\ Head(wire[c]).kind # "CLOSE"
    /\ wire' = [wire EXCEPT ![c] = Tail(@)]
    /\ silent' = silent \ {c}
    /\ seen' = [seen EXCEPT ![c] = status]
    /\ hpc' = [hpc EXCEPT ![c] = "saving"]
    /\ IF Head(wire[c]).kind = "HEARTBEAT"
       THEN rowDropped' = Head(wire[c]).n /\ UNCHANGED handled
       ELSE handled' = Append(handled, <<c, Head(wire[c]).n>>) /\ UNCHANGED rowDropped
    /\ UNCHANGED <<reg, checker, cseen, status, crashes, dials, cli, srv, cut>>

\* Mutant: the handlers refresh last_seen but not the status.
MutantSaveSeen(c) ==
    /\ hpc[c] = "saving"
    /\ hpc' = [hpc EXCEPT ![c] = "reading"]
    /\ UNCHANGED <<seen, reg, silent, checker, cseen, status, rowDropped, handled, crashes, linkVars>>

\* ... and saves it with status online (handleRegister, updateLastSeen, recordHeartbeat).
SaveSeen(c) ==
    /\ hpc[c] = "saving"
    /\ SaveStatus(seen[c], "online")
    /\ hpc' = [hpc EXCEPT ![c] = "reading"]
    /\ UNCHANGED <<seen, reg, silent, checker, cseen, rowDropped, handled, crashes, linkVars>>

\* ReadMessage fails: a close frame, the peer's close, our own close, or the deadline.
ReadEnds(c) ==
    \/ wire[c] # <<>> /\ Head(wire[c]).kind = "CLOSE"
    \/ PeerClosed(c)
    \/ srv[c] = "closed"
    \/ c \in silent

\* The deferred Conn.Close and removeAgent: the map entry of the AGENT is deleted ...
PumpExits(c) ==
    /\ hpc[c] = "reading" /\ ReadEnds(c)
    /\ srv' = [srv EXCEPT ![c] = "closed"]
    /\ hpc' = [hpc EXCEPT ![c] = "removing"]
    /\ UNCHANGED <<seen, reg, silent, checker, cseen, status, rowDropped, handled, crashes,
                   dials, cli, cut, wire>>

\* Mutant: a connection that is not the registered one cleans nothing up.
MutantRemoveAgent(c) ==
    /\ hpc[c] = "removing"
    /\ reg' = IF reg = c THEN NoConn ELSE reg
    /\ seen' = [seen EXCEPT ![c] = status]
    /\ hpc' = [hpc EXCEPT ![c] = IF reg = c THEN "offline" ELSE "gone"]
    /\ UNCHANGED <<silent, checker, cseen, status, rowDropped, handled, crashes, linkVars>>

RemoveAgent(c) ==
    /\ hpc[c] = "removing"
    /\ reg' = NoConn
    /\ seen' = [seen EXCEPT ![c] = status]
    /\ hpc' = [hpc EXCEPT ![c] = "offline"]
    /\ UNCHANGED <<silent, checker, cseen, status, rowDropped, handled, crashes, linkVars>>

\* ... and its row marked offline.
MarkOffline(c) ==
    /\ hpc[c] = "offline"
    /\ SaveStatus(seen[c], "offline")
    /\ hpc' = [hpc EXCEPT ![c] = "gone"]
    /\ UNCHANGED <<seen, reg, silent, checker, cseen, rowDropped, handled, crashes, linkVars>>

-----------------------------------------------------------------------------
\* Nothing arrived for 90 s: no frame is waiting and nobody writes any.
FallSilent(c, writing) ==
    /\ hpc[c] = "reading" /\ c \notin silent /\ wire[c] = <<>> /\ ~writing
    /\ silent' = silent \union {c}
    /\ UNCHANGED <<hpc, seen, reg, checker, cseen, status, rowDropped, handled, crashes, linkVars>>

\* StartHeartbeatChecker closes a stale connection and removes its agent.
CheckerFinds ==
    /\ checker = "idle" /\ reg # NoConn /\ reg \in silent
    /\ srv' = [srv EXCEPT ![reg] = "closed"]
    /\ checker' = "remove"
    /\ UNCHANGED <<hpc, seen, reg, silent, cseen, status, rowDropped, handled, crashes,
                   dials, cli, cut, wire>>

CheckerRemoves ==
    /\ checker = "remove"
    /\ reg' = NoConn
    /\ cseen' = status
    /\ checker' = "save"
    /\ UNCHANGED <<hpc, seen, silent, status, rowDropped, handled, crashes, linkVars>>

CheckerSaves ==
    /\ checker = "save"
    /\ SaveStatus(cseen, "offline")
    /\ checker' = "idle"
    /\ UNCHANGED <<hpc, seen, reg, silent, cseen, rowDropped, handled, crashes, linkVars>>

\* The hub process dies and comes back: only the row survives.
HubCrash ==
    /\ crashes < MaxHubCrashes
    /\ crashes' = crashes + 1
    /\ hpc' = [c \in Conn |-> IF c <= dials THEN "gone" ELSE "none"]
    /\ srv' = [c \in Conn |-> IF c <= dials THEN "closed" ELSE "none"]
    /\ reg' = NoConn /\ silent' = {} /\ checker' = "idle"
    /\ UNCHANGED <<seen, cseen, status, rowDropped, handled, dials, cli, cut, wire>>

-----------------------------------------------------------------------------
ServeStep(c) ==
    \/ Authenticate(c) \/ Upgrade(c) \/ StoreAgent(c) \/ MarkOnline(c)
    \/ Receive(c) \/ SaveSeen(c) \/ PumpExits(c) \/ RemoveAgent(c) \/ MarkOffline(c)
CheckerStep == CheckerFinds \/ CheckerRemoves \/ CheckerSaves
=============================================================================
