-------------------------- MODULE AgentLinkProofs ---------------------------
(***************************************************************************)
(* Safety of the agent link for every number of connections, buffer sizes  *)
(* and bounds: what AgentLink's runs check on two connections.             *)
(***************************************************************************)
EXTENDS AgentLink, TLAPS

-----------------------------------------------------------------------------
\* Facts about the operators the steps are built from.

\* Truncating a sequence, dropping its head and appending keep its element type.
LEMMA SeqFacts ==
    ASSUME NEW S, NEW s \in Seq(S)
    PROVE  /\ \A e \in S : Append(s, e) \in Seq(S)
           /\ s # <<>> => Head(s) \in S /\ Tail(s) \in Seq(S)
           /\ \A k \in 0..Len(s) : SubSeq(s, 1, k) \in Seq(S)
  OBVIOUS

\* A frame written by the agent leaves the wire well-typed, delivered or not.
LEMMA CarryType ==
    ASSUME LinkTypeOK, NEW c, NEW f \in Frame
    PROVE  Carry(c, f) \in [Conn -> Seq(Frame)]
<1>1. CASE c \in Conn
  BY <1>1, SeqFacts DEF Carry, LinkTypeOK
<1>2. CASE c \notin Conn
  BY <1>2 DEF Carry, LinkTypeOK
<1> QED
  BY <1>1, <1>2

\* closeConn leaves the sockets well-typed and, when t.conn was set, closed.
LEMMA CloseConnFacts ==
    ASSUME cli \in [Conn -> Socket], conn \in Conn \union {NoConn}, closeConn
    PROVE  /\ cli' \in [Conn -> Socket]
           /\ conn' = NoConn
           /\ \A c \in Conn : cli'[c] = "open" => cli[c] = "open" /\ c # conn
  BY DEF closeConn, Socket, NoConn, Conn

\* Send leaves the queue and its counters well-typed.
LEMMA EnqueueType ==
    ASSUME queue \in Seq(Frame), sent \in Nat, dropped \in Nat,
           NEW k \in {"REGISTER", "METRICS"}, Enqueue(k)
    PROVE  queue' \in Seq(Frame) /\ sent' \in Nat /\ dropped' \in Nat
<1>1. [kind |-> k, n |-> sent + 1] \in Frame
  BY DEF Frame
<1>2. CASE UNCHANGED queue
  BY <1>2 DEF Enqueue
<1>3. CASE queue' = Append(queue, [kind |-> k, n |-> sent + 1])
  <2>1. queue' \in Seq(Frame)
    BY <1>1, <1>3, SeqFacts
  <2> QED
    BY <2>1 DEF Enqueue
<1> QED
  BY <1>2, <1>3 DEF Enqueue
-----------------------------------------------------------------------------
\* Type correctness.

\* A step of one of the agent's goroutines keeps the agent's variables and the
\* connections well-typed.
LEMMA AgentStepType ==
    ASSUME LinkTypeOK, AgentTypeOK, AgentNext
    PROVE  LinkTypeOK' /\ AgentTypeOK'
<1> USE DEF NoConn
<1>0. dials \in Nat /\ MaxConns \in Nat /\ Conn = 1..MaxConns
  BY LinkAssumption DEF LinkTypeOK, Conn
<1>1. CASE SendMetrics
  BY <1>1, EnqueueType DEF SendMetrics, linkVars, LinkTypeOK, AgentTypeOK
<1>2. CASE Finish \/ CloseAfterPumps \/ StopCloses
  BY <1>2, CloseConnFacts DEF Finish, CloseAfterPumps, StopCloses, LinkTypeOK, AgentTypeOK, LoopState
<1>3. CASE Dial
  BY <1>3, <1>0 DEF Dial, LinkTypeOK, AgentTypeOK, LoopState
<1>4. CASE DialOk \/ DialFails
  <2>1. dials \in Conn \union {NoConn}
    BY <1>0 DEF LinkTypeOK
  <2>2. cli' \in [Conn -> Socket] /\ dialed' \in Conn \union {NoConn} /\ tpc' \in LoopState
    BY <1>4, <2>1 DEF DialOk, DialFails, LinkTypeOK, AgentTypeOK, LoopState, Socket
  <2> QED
    BY <1>4, <2>2 DEF DialOk, DialFails, LinkTypeOK, AgentTypeOK
<1>5. CASE WaitBackoff \/ StoreConn \/ RunPumpsReturns
  BY <1>5 DEF WaitBackoff, StoreConn, RunPumpsReturns, linkVars, LinkTypeOK, AgentTypeOK,
              LoopState, PumpState
<1>6. CASE OnConnect
  <2>1. queue' \in Seq(Frame) /\ sent' \in Nat /\ dropped' \in Nat
    BY <1>6, EnqueueType DEF OnConnect, AgentTypeOK
  <2> QED
    BY <1>6, <2>1 DEF OnConnect, linkVars, LinkTypeOK, AgentTypeOK, LoopState, PumpState
<1>7. CASE ReadStep
  <2>1. CASE ReadStart
    BY <2>1 DEF ReadStart, linkVars, LinkTypeOK, AgentTypeOK, PumpState
  <2>2. CASE ReadCheck
    BY <2>2 DEF ReadCheck, linkVars, LinkTypeOK, AgentTypeOK, PumpState
  <2>3. CASE ReadMessage
    BY <2>3 DEF ReadMessage, linkVars, LinkTypeOK, AgentTypeOK, PumpState
  <2>4. CASE ReadFails
    BY <2>4 DEF ReadFails, linkVars, LinkTypeOK, AgentTypeOK, PumpState
  <2> QED
    BY <1>7, <2>1, <2>2, <2>3, <2>4 DEF ReadStep
<1>8. CASE WriteStart
  BY <1>8 DEF WriteStart, linkVars, LinkTypeOK, AgentTypeOK, PumpState
<1>9. ASSUME NEW f \in Frame, WriteFrame(f)
      PROVE  wire' \in [Conn -> Seq(Frame)] /\ wp' \in PumpState \ {"check"} /\ pumpDone' \in BOOLEAN
  <2>1. Carry(wconn, f) \in [Conn -> Seq(Frame)]
    BY CarryType
  <2>2. CASE WriteSucceeds(wconn) /\ wire' = Carry(wconn, f) /\ UNCHANGED <<wp, pumpDone>>
    BY <2>1, <2>2 DEF AgentTypeOK
  <2>3. CASE wp' = "exited" /\ pumpDone' = TRUE /\ UNCHANGED wire
    BY <2>3 DEF LinkTypeOK, PumpState
  <2> QED
    BY <1>9, <2>2, <2>3 DEF WriteFrame
<1>10. CASE WriteQueued
  <2>1. Head(queue) \in Frame /\ queue' \in Seq(Frame)
    BY <1>10, SeqFacts DEF WriteQueued, AgentTypeOK
  <2>2. wire' \in [Conn -> Seq(Frame)] /\ wp' \in PumpState \ {"check"} /\ pumpDone' \in BOOLEAN
    BY <1>10, <1>9, <2>1 DEF WriteQueued
  <2> QED
    BY <1>10, <2>1, <2>2 DEF WriteQueued, LinkTypeOK, AgentTypeOK
<1>11. CASE WriteHeartbeat
  <2>1. [kind |-> "HEARTBEAT", n |-> dropped] \in Frame
    BY DEF Frame, AgentTypeOK
  <2>2. wire' \in [Conn -> Seq(Frame)] /\ wp' \in PumpState \ {"check"} /\ pumpDone' \in BOOLEAN
    BY <1>11, <1>9, <2>1 DEF WriteHeartbeat
  <2> QED
    BY <1>11, <2>2 DEF WriteHeartbeat, LinkTypeOK, AgentTypeOK
<1>12. CASE WriteCancelled
  <2>1. [kind |-> "CLOSE", n |-> 0] \in Frame
    BY DEF Frame
  <2>2. wire' \in [Conn -> Seq(Frame)]
    BY <1>12, <2>1, CarryType DEF WriteCancelled, LinkTypeOK
  <2> QED
    BY <1>12, <2>2 DEF WriteCancelled, LinkTypeOK, AgentTypeOK, PumpState
<1>13. CASE Signal \/ StopBegins \/ Propagate
  BY <1>13 DEF Signal, StopBegins, Propagate, linkVars, LinkTypeOK, AgentTypeOK
<1> QED
  BY <1>1, <1>2, <1>3, <1>4, <1>5, <1>6, <1>7, <1>8, <1>10, <1>11, <1>12, <1>13
     DEF AgentNext, LoopStep, WriteStep, StopStep

\* A step of one of the hub's goroutines keeps the hub's variables and the
\* connections well-typed.
LEMMA HubStepType ==
    ASSUME LinkTypeOK, HubTypeOK, HubStep
    PROVE  LinkTypeOK' /\ HubTypeOK'
<1>0. ASSUME NEW r, NEW x \in Status, SaveStatus(r, x) PROVE status' \in Status
  BY <1>0 DEF SaveStatus, HubTypeOK
<1>1. ASSUME NEW c \in Conn, ServeStep(c) PROVE LinkTypeOK' /\ HubTypeOK'
  <2>1. CASE Authenticate(c) \/ StoreAgent(c) \/ RemoveAgent(c)
    <3>1. CASE Authenticate(c)
      BY <3>1 DEF Authenticate, linkVars, LinkTypeOK, HubTypeOK, HandlerState
    <3>2. CASE StoreAgent(c)
      BY <3>2 DEF StoreAgent, linkVars, LinkTypeOK, HubTypeOK, HandlerState
    <3>3. CASE RemoveAgent(c)
      BY <3>3 DEF RemoveAgent, linkVars, LinkTypeOK, HubTypeOK, HandlerState
    <3> QED
      BY <2>1, <3>1, <3>2, <3>3
  <2>2. CASE Upgrade(c) \/ PumpExits(c)
    <3>1. CASE Upgrade(c)
      BY <3>1 DEF Upgrade, LinkTypeOK, HubTypeOK, HandlerState, Socket
    <3>2. CASE PumpExits(c)
      BY <3>2 DEF PumpExits, LinkTypeOK, HubTypeOK, HandlerState, Socket
    <3> QED
      BY <2>2, <3>1, <3>2
  <2>3. CASE MarkOnline(c) \/ SaveSeen(c) \/ MarkOffline(c)
    <3>1. status' \in Status
      BY <2>3, <1>0 DEF MarkOnline, SaveSeen, MarkOffline, Status
    <3> QED
      BY <2>3, <3>1 DEF MarkOnline, SaveSeen, MarkOffline, linkVars, LinkTypeOK, HubTypeOK, HandlerState
  <2>4. CASE Receive(c)
    <3>1. Head(wire[c]) \in Frame /\ Tail(wire[c]) \in Seq(Frame)
      BY <2>4, SeqFacts DEF Receive, LinkTypeOK
    <3>2. Head(wire[c]).n \in Nat
      BY <3>1 DEF Frame
    <3>3. LinkTypeOK'
      BY <2>4, <3>1 DEF Receive, LinkTypeOK
    <3>4. rowDropped' \in Nat /\ handled' \in Seq(Conn \X Nat)
      <4>1. <<c, Head(wire[c]).n>> \in Conn \X Nat
        BY <3>2
      <4>2. Append(handled, <<c, Head(wire[c]).n>>) \in Seq(Conn \X Nat)
        BY <4>1, SeqFacts DEF HubTypeOK
      <4> QED
        BY <2>4, <3>2, <4>2 DEF Receive, HubTypeOK
    <3> QED
      BY <2>4, <3>3, <3>4 DEF Receive, HubTypeOK, HandlerState
  <2> QED
    BY <1>1, <2>1, <2>2, <2>3, <2>4 DEF ServeStep
<1>2. ASSUME NEW c \in Conn, FallSilent(c, Writing(c)) PROVE LinkTypeOK' /\ HubTypeOK'
  BY <1>2 DEF FallSilent, linkVars, LinkTypeOK, HubTypeOK
<1>3. CASE CheckerStep
  <2>1. status' \in Status
    BY <1>3, <1>0 DEF CheckerStep, CheckerFinds, CheckerRemoves, CheckerSaves, HubTypeOK, Status
  <2> QED
    BY <1>3, <2>1 DEF CheckerStep, CheckerFinds, CheckerRemoves, CheckerSaves, linkVars,
                      LinkTypeOK, HubTypeOK, Socket, NoConn
<1>4. CASE HubCrash
  BY <1>4 DEF HubCrash, LinkTypeOK, HubTypeOK, HandlerState, Socket, NoConn
<1> QED
  BY <1>1, <1>2, <1>3, <1>4 DEF HubStep

\* Every variable of the composed system keeps its type, whatever the two ends
\* and the network do.
THEOREM LinkTypeCorrect == Spec => []TypeOK
<1>1. Init => TypeOK
  <2> SUFFICES ASSUME Init PROVE TypeOK
    OBVIOUS
  <2>1. LinkTypeOK
    BY LinkAssumption DEF Init, LinkInit, LinkTypeOK, Socket
  <2>2. AgentTypeOK
    <3>1. ctxDone \in BOOLEAN /\ pumpDone \in BOOLEAN /\ stopCh \in BOOLEAN
      BY DEF Init, AgentInit
    <3>2. queue \in Seq(Frame) /\ sent \in Nat /\ dropped \in Nat
      BY DEF Init, AgentInit
    <3> QED
      BY <3>1, <3>2 DEF Init, AgentInit, AgentTypeOK, LoopState, PumpState, NoConn
  <2>3. HubTypeOK
    BY DEF Init, HubInit, HubTypeOK, HandlerState, Status, NoConn
  <2> QED
    BY <2>1, <2>2, <2>3 DEF TypeOK
<1>2. TypeOK /\ [Next]_vars => TypeOK'
  <2> SUFFICES ASSUME TypeOK, [Next]_vars PROVE TypeOK'
    OBVIOUS
  <2>1. CASE AgentStep
    BY <2>1, AgentStepType DEF AgentStep, TypeOK, HubTypeOK, hubVars
  <2>2. CASE HubStep
    BY <2>2, HubStepType DEF HubStep, TypeOK, AgentTypeOK, agentVars
  <2>3. CASE NetworkStep
    <3>1. LinkTypeOK'
      BY <2>3, SeqFacts DEF NetworkStep, Cut, TypeOK, LinkTypeOK
    <3> QED
      BY <2>3, <3>1 DEF NetworkStep, TypeOK, AgentTypeOK, HubTypeOK, agentVars, hubVars
  <2>4. CASE UNCHANGED vars
    BY <2>4 DEF vars, linkVars, agentVars, hubVars, TypeOK, LinkTypeOK, AgentTypeOK, HubTypeOK
  <2> QED
    BY <2>1, <2>2, <2>3, <2>4 DEF Next
<1> QED
  BY <1>1, <1>2, PTL DEF Spec
-----------------------------------------------------------------------------
\* The map of connected agents.

\* No step removes the goroutine behind an entry of Hub.agents without removing
\* the entry: a stale entry cannot survive its connection.
THEOREM NoGhostEntryAlways == Spec => []NoGhostEntry
<1>1. Init => NoGhostEntry
  BY DEF Init, HubInit, NoGhostEntry
<1>2. TypeOK /\ NoGhostEntry /\ [Next]_vars => NoGhostEntry'
  <2> SUFFICES ASSUME TypeOK, NoGhostEntry, [Next]_vars PROVE NoGhostEntry'
    OBVIOUS
  <2>0. hpc \in [Conn -> HandlerState] /\ reg \in Conn \union {NoConn}
    BY DEF TypeOK, HubTypeOK
  <2>1. CASE UNCHANGED <<hpc, reg>>
    BY <2>1 DEF NoGhostEntry
  <2>2. ASSUME NEW c \in Conn, ServeStep(c) PROVE NoGhostEntry'
    <3>1. CASE Authenticate(c) \/ Upgrade(c)
      BY <3>1, <2>0 DEF Authenticate, Upgrade, NoGhostEntry
    <3>2. CASE StoreAgent(c)
      BY <3>2, <2>0 DEF StoreAgent, NoGhostEntry
    <3>3. CASE MarkOnline(c) \/ SaveSeen(c) \/ Receive(c) \/ PumpExits(c)
      BY <3>3, <2>0 DEF MarkOnline, SaveSeen, Receive, PumpExits, NoGhostEntry
    <3>4. CASE RemoveAgent(c)
      BY <3>4 DEF RemoveAgent, NoGhostEntry
    <3>5. CASE MarkOffline(c)
      BY <3>5, <2>0 DEF MarkOffline, NoGhostEntry
    <3> QED
      BY <2>2, <3>1, <3>2, <3>3, <3>4, <3>5 DEF ServeStep
  <2>3. ASSUME NEW c \in Conn, FallSilent(c, Writing(c)) PROVE UNCHANGED <<hpc, reg>>
    BY <2>3 DEF FallSilent
  <2>4. CASE CheckerStep \/ HubCrash
    BY <2>4 DEF CheckerStep, CheckerFinds, CheckerRemoves, CheckerSaves, HubCrash, NoGhostEntry
  <2>5. CASE AgentStep \/ NetworkStep \/ UNCHANGED vars
    BY <2>1, <2>5 DEF AgentStep, NetworkStep, vars, hubVars
  <2> QED
    BY <2>1, <2>2, <2>3, <2>4, <2>5 DEF Next, HubStep
<1> QED
  BY <1>1, <1>2, LinkTypeCorrect, PTL DEF Spec

-----------------------------------------------------------------------------
\* The status of the agent's row.

\* The goroutines that will still mark the agent offline.
Owner(c) == \/ hpc[c] \in {"reading", "saving", "removing"}
            \/ hpc[c] = "offline" /\ seen[c] = "online"

\* A row left online always has an owner, as long as saves succeed and the hub
\* process lives: the property is its own inductive invariant, because the
\* goroutine that writes "online" is one that later reads the row and writes
\* "offline", and a save that changes nothing leaves the writer of "online" in place.
THEOREM OnlineHasOwnerAlways == Spec => []OnlineHasOwner
<1>1. Init => OnlineHasOwner
  BY DEF Init, HubInit, OnlineHasOwner
<1>2. TypeOK /\ OnlineHasOwner /\ [Next]_vars => OnlineHasOwner'
  <2> SUFFICES ASSUME TypeOK, OnlineHasOwner, [Next]_vars, ~DbFaults, crashes' = 0,
                      status' = "online"
               PROVE  \E c \in Conn : Owner(c)'
    BY DEF OnlineHasOwner, Owner
  <2>0. /\ hpc \in [Conn -> HandlerState] /\ seen \in [Conn -> Status]
        /\ crashes \in Nat /\ status \in Status
    BY DEF TypeOK, HubTypeOK
  <2>a. ASSUME crashes = 0, status = "online" PROVE \E c \in Conn : Owner(c)
    BY <2>a DEF OnlineHasOwner, Owner
  <2>1. CASE UNCHANGED <<hpc, seen, status, crashes>>
    BY <2>1, <2>a DEF Owner
  <2>2. ASSUME NEW c \in Conn, ServeStep(c) PROVE \E d \in Conn : Owner(d)'
    <3>1. CASE MarkOnline(c) \/ SaveSeen(c)
      <4>1. hpc'[c] = "reading"
        BY <3>1, <2>0 DEF MarkOnline, SaveSeen
      <4> QED
        BY <4>1 DEF Owner
    <3>2. CASE Receive(c) \/ PumpExits(c)
      <4>1. hpc'[c] \in {"saving", "removing"}
        BY <3>2, <2>0 DEF Receive, PumpExits
      <4> QED
        BY <4>1 DEF Owner
    <3>3. CASE Authenticate(c) \/ Upgrade(c) \/ StoreAgent(c)
      <4>1. crashes = 0 /\ status = "online"
        BY <3>3 DEF Authenticate, Upgrade, StoreAgent
      <4>2. PICK d \in Conn : Owner(d)
        BY <4>1, <2>a
      <4>3. d # c
        BY <3>3, <4>2 DEF Authenticate, Upgrade, StoreAgent, Owner
      <4>4. hpc'[d] = hpc[d] /\ seen'[d] = seen[d]
        BY <3>3, <4>3, <2>0 DEF Authenticate, Upgrade, StoreAgent
      <4> QED
        BY <4>2, <4>4 DEF Owner
    <3>4. CASE RemoveAgent(c)
      <4>1. hpc'[c] = "offline" /\ seen'[c] = "online"
        BY <3>4, <2>0 DEF RemoveAgent
      <4> QED
        BY <4>1 DEF Owner
    <3>5. CASE MarkOffline(c)
      <4>1. seen[c] = "offline" /\ status = "online" /\ crashes = 0
        BY <3>5, <2>0 DEF MarkOffline, SaveStatus, Status
      <4>2. PICK d \in Conn : Owner(d)
        BY <4>1, <2>a
      <4>3. d # c
        BY <3>5, <4>1, <4>2 DEF MarkOffline, Owner
      <4>4. hpc'[d] = hpc[d] /\ seen'[d] = seen[d]
        BY <3>5, <4>3, <2>0 DEF MarkOffline
      <4> QED
        BY <4>2, <4>4 DEF Owner
    <3> QED
      BY <2>2, <3>1, <3>2, <3>3, <3>4, <3>5 DEF ServeStep
  <2>3. ASSUME NEW c \in Conn, FallSilent(c, Writing(c)) PROVE \E d \in Conn : Owner(d)'
    BY <2>1, <2>3 DEF FallSilent
  <2>4. CASE CheckerStep
    <3>1. status = "online" /\ UNCHANGED <<hpc, seen, crashes>>
      BY <2>4, <2>0 DEF CheckerStep, CheckerFinds, CheckerRemoves, CheckerSaves, SaveStatus, Status
    <3> QED
      BY <2>1, <3>1
  <2>5. CASE HubCrash
    BY <2>5, <2>0 DEF HubCrash
  <2>6. CASE AgentStep \/ NetworkStep \/ UNCHANGED vars
    BY <2>1, <2>6 DEF AgentStep, NetworkStep, vars, hubVars
  <2> QED
    BY <2>2, <2>3, <2>4, <2>5, <2>6 DEF Next, HubStep
<1> QED
  BY <1>1, <1>2, LinkTypeCorrect, PTL DEF Spec

-----------------------------------------------------------------------------
\* The agent's sockets.

\* The loop holds no connection outside the part of it that runs the pumps, and
\* `dialed' only between DialContext and the assignment of t.conn.
LoopHolds ==
    /\ tpc \notin {"connected", "pumps", "closing"} => conn = NoConn
    /\ tpc # "dialed" => dialed = NoConn

SocketInv ==
    /\ LoopHolds
    /\ \A c \in Conn : cli[c] = "open" => c \in {conn, dialed}

\* No sequence of failed dials, lost connections, reconnects and a concurrent
\* Stop leaks a socket.  NoLeakedSocket is not inductive: overwriting t.conn is
\* harmless only because the loop cleared it before dialing again, which SocketInv adds.
THEOREM NoLeakedSocketAlways == Spec => []NoLeakedSocket
<1>0. SocketInv => NoLeakedSocket
  BY DEF SocketInv, LoopHolds, NoLeakedSocket, NoConn, Conn
<1>1. Init => SocketInv
  BY DEF Init, LinkInit, AgentInit, SocketInv, LoopHolds
<1>2. TypeOK /\ SocketInv /\ [Next]_vars => SocketInv'
  <2> SUFFICES ASSUME TypeOK, SocketInv, [Next]_vars PROVE SocketInv'
    OBVIOUS
  <2>0. /\ cli \in [Conn -> Socket] /\ tpc \in LoopState
        /\ conn \in Conn \union {NoConn} /\ dialed \in Conn \union {NoConn}
    BY DEF TypeOK, LinkTypeOK, AgentTypeOK
  <2>1. CASE UNCHANGED <<cli, tpc, conn, dialed>>
    BY <2>1 DEF SocketInv, LoopHolds
  <2>2. CASE Finish \/ CloseAfterPumps \/ StopCloses
    <3>1. /\ conn' = NoConn
          /\ \A c \in Conn : cli'[c] = "open" => cli[c] = "open" /\ c # conn
      BY <2>0, <2>2, CloseConnFacts DEF Finish, CloseAfterPumps, StopCloses
    <3>2. dialed' = dialed /\ (tpc' = "dialed" <=> tpc = "dialed")
      BY <2>2 DEF Finish, CloseAfterPumps, StopCloses
    <3> QED
      BY <3>1, <3>2 DEF SocketInv, LoopHolds
  <2>3. CASE Dial \/ WaitBackoff
    BY <2>3 DEF Dial, WaitBackoff, linkVars, SocketInv, LoopHolds
  <2>4. CASE DialOk \/ DialFails
    BY <2>4, <2>0 DEF DialOk, DialFails, SocketInv, LoopHolds
  <2>5. CASE StoreConn \/ OnConnect \/ RunPumpsReturns
    BY <2>5 DEF StoreConn, OnConnect, RunPumpsReturns, linkVars, SocketInv, LoopHolds
  <2>6. CASE ReadStep \/ WriteStep \/ SendMetrics
    BY <2>1, <2>6 DEF ReadStep, ReadStart, ReadCheck, ReadMessage, ReadFails, WriteStep, WriteStart,
       WriteQueued, WriteHeartbeat, WriteCancelled, SendMetrics, linkVars
  <2>7. CASE Signal \/ StopBegins \/ Propagate
    BY <2>1, <2>7 DEF Signal, StopBegins, Propagate, linkVars
  <2>8. CASE HubStep
    BY <2>1, <2>8 DEF HubStep, ServeStep, Authenticate, Upgrade, StoreAgent, MarkOnline, Receive,
       SaveSeen, PumpExits, RemoveAgent, MarkOffline, FallSilent, CheckerStep, CheckerFinds,
       CheckerRemoves, CheckerSaves, HubCrash, linkVars, agentVars
  <2>9. CASE NetworkStep \/ UNCHANGED vars
    BY <2>1, <2>9 DEF NetworkStep, Cut, vars, linkVars, agentVars
  <2> QED
    BY <2>2, <2>3, <2>4, <2>5, <2>6, <2>7, <2>8, <2>9
       DEF Next, AgentStep, AgentNext, LoopStep, StopStep
<1> QED
  BY <1>0, <1>1, <1>2, LinkTypeCorrect, PTL DEF Spec
-----------------------------------------------------------------------------
\* The order of messages, from Send to the hub's handlers.

Message(f) == f.kind \in {"REGISTER", "METRICS"}

\* The numbers grow along the queue, along each wire and from the wires to the
\* queue; what is handled is older than what its connection still carries; and no
\* number is in two places.
QueueInOrder ==
    /\ \A i \in 1..Len(queue) : Message(queue[i]) /\ queue[i].n <= sent
    /\ \A i, j \in 1..Len(queue) : i < j => queue[i].n < queue[j].n

WireInOrder ==
    /\ \A c \in Conn : \A i \in 1..Len(wire[c]) : Message(wire[c][i]) =>
          /\ wire[c][i].n <= sent
          /\ \A k \in 1..Len(queue) : wire[c][i].n < queue[k].n
    /\ \A c \in Conn : \A i, j \in 1..Len(wire[c]) :
          Message(wire[c][i]) /\ Message(wire[c][j]) /\ i < j => wire[c][i].n < wire[c][j].n

WiresApart ==
    \A c, d \in Conn : \A i \in 1..Len(wire[c]) : \A j \in 1..Len(wire[d]) :
        Message(wire[c][i]) /\ Message(wire[d][j]) /\ wire[c][i].n = wire[d][j].n => c = d

HandledInOrder ==
    \A h \in 1..Len(handled) :
        /\ handled[h][2] <= sent
        /\ \A k \in 1..Len(queue) : handled[h][2] < queue[k].n
        /\ \A d \in Conn : \A j \in 1..Len(wire[d]) : Message(wire[d][j]) =>
              /\ handled[h][2] # wire[d][j].n
              /\ handled[h][1] = d => handled[h][2] < wire[d][j].n

OrderInv == QueueInOrder /\ WireInOrder /\ WiresApart /\ HandledInOrder /\ DeliveredInOrder

\* What appending, dropping the head and truncating do to the elements.
LEMMA SeqElements ==
    ASSUME NEW S, NEW s \in Seq(S)
    PROVE  /\ Len(s) \in Nat /\ \A i \in 1..Len(s) : s[i] \in S
           /\ \A e \in S : /\ Len(Append(s, e)) = Len(s) + 1
                           /\ \A i \in 1..Len(s) : Append(s, e)[i] = s[i]
                           /\ Append(s, e)[Len(s) + 1] = e
           /\ s # <<>> => /\ Len(s) >= 1 /\ Head(s) = s[1] /\ Len(Tail(s)) = Len(s) - 1
                          /\ \A i \in 1..Len(Tail(s)) : Tail(s)[i] = s[i + 1]
           /\ \A k \in 0..Len(s) : /\ Len(SubSeq(s, 1, k)) = k
                                   /\ \A i \in 1..k : SubSeq(s, 1, k)[i] = s[i]
  OBVIOUS

LEMMA OrderTypes ==
    ASSUME TypeOK
    PROVE  /\ sent \in Nat /\ queue \in Seq(Frame) /\ wire \in [Conn -> Seq(Frame)]
           /\ handled \in Seq(Conn \X Nat)
           /\ Len(queue) \in Nat /\ Len(handled) \in Nat
           /\ \A c \in Conn : Len(wire[c]) \in Nat
           /\ \A k \in 1..Len(queue) : queue[k].n \in Nat
           /\ \A c \in Conn : \A i \in 1..Len(wire[c]) : wire[c][i].n \in Nat
           /\ \A h \in 1..Len(handled) : handled[h][1] \in Conn /\ handled[h][2] \in Nat
<1>1. /\ sent \in Nat /\ queue \in Seq(Frame) /\ wire \in [Conn -> Seq(Frame)]
      /\ handled \in Seq(Conn \X Nat)
  BY DEF TypeOK, LinkTypeOK, AgentTypeOK, HubTypeOK
<1>2. Len(queue) \in Nat /\ \A k \in 1..Len(queue) : queue[k] \in Frame
  BY <1>1, SeqElements
<1>3. \A c \in Conn : Len(wire[c]) \in Nat /\ \A i \in 1..Len(wire[c]) : wire[c][i] \in Frame
  BY <1>1, SeqElements
<1>4. Len(handled) \in Nat /\ \A h \in 1..Len(handled) : handled[h] \in Conn \X Nat
  BY <1>1, SeqElements
<1>5. \A f \in Frame : f.n \in Nat
  BY DEF Frame
<1>6. \A p \in Conn \X Nat : p[1] \in Conn /\ p[2] \in Nat
  OBVIOUS
<1> QED
  BY <1>1, <1>2, <1>3, <1>4, <1>5, <1>6

\* Nothing new: messages only leave the front or the end of the queue and the wires.
LEMMA OrderShrinks ==
    ASSUME TypeOK, TypeOK', OrderInv, UNCHANGED <<sent, handled>>,
           NEW q \in {0, 1}, NEW w \in [Conn -> {0, 1}],
           \A i \in 1..Len(queue') : i + q \in 1..Len(queue) /\ queue'[i] = queue[i + q],
           \A c \in Conn : \A i \in 1..Len(wire'[c]) : Message(wire'[c][i]) =>
               i + w[c] \in 1..Len(wire[c]) /\ wire'[c][i] = wire[c][i + w[c]]
    PROVE  OrderInv'
<1>1. /\ Len(queue') \in Nat /\ \A c \in Conn : Len(wire'[c]) \in Nat /\ w[c] \in {0, 1}
  <2>1. queue' \in Seq(Frame) /\ wire' \in [Conn -> Seq(Frame)]
    BY DEF TypeOK, LinkTypeOK, AgentTypeOK
  <2> QED
    BY <2>1, SeqElements
<1>2. QueueInOrder'
  <2>1. \A i \in 1..Len(queue') : Message(queue'[i]) /\ queue'[i].n <= sent'
    BY DEF OrderInv, QueueInOrder
  <2>2. ASSUME NEW i \in 1..Len(queue'), NEW j \in 1..Len(queue'), i < j
        PROVE  queue'[i].n < queue'[j].n
    <3>1. i + q < j + q
      BY <2>2, <1>1
    <3> QED
      BY <3>1 DEF OrderInv, QueueInOrder
  <2> QED
    BY <2>1, <2>2 DEF QueueInOrder
<1>3. WireInOrder'
  <2>1. ASSUME NEW c \in Conn, NEW i \in 1..Len(wire'[c]), Message(wire'[c][i])
        PROVE  /\ wire'[c][i].n <= sent'
               /\ \A k \in 1..Len(queue') : wire'[c][i].n < queue'[k].n
    BY <2>1 DEF OrderInv, WireInOrder
  <2>2. ASSUME NEW c \in Conn, NEW i \in 1..Len(wire'[c]), NEW j \in 1..Len(wire'[c]),
               Message(wire'[c][i]), Message(wire'[c][j]), i < j
        PROVE  wire'[c][i].n < wire'[c][j].n
    <3>1. i + w[c] < j + w[c]
      BY <2>2, <1>1
    <3> QED
      BY <2>2, <3>1 DEF OrderInv, WireInOrder
  <2> QED
    BY <2>1, <2>2 DEF WireInOrder
<1>4. WiresApart'
  <2> SUFFICES ASSUME NEW c \in Conn, NEW d \in Conn, NEW i \in 1..Len(wire'[c]),
                      NEW j \in 1..Len(wire'[d]), Message(wire'[c][i]), Message(wire'[d][j]),
                      wire'[c][i].n = wire'[d][j].n
               PROVE  c = d
    BY DEF WiresApart
  <2>1. /\ i + w[c] \in 1..Len(wire[c]) /\ wire'[c][i] = wire[c][i + w[c]]
        /\ j + w[d] \in 1..Len(wire[d]) /\ wire'[d][j] = wire[d][j + w[d]]
    OBVIOUS
  <2> QED
    <3>1. WiresApart
      BY DEF OrderInv
    <3>2. wire[c][i + w[c]].n = wire[d][j + w[d]].n
      BY <2>1
    <3>3. Message(wire[c][i + w[c]]) /\ Message(wire[d][j + w[d]])
      BY <2>1
    <3> QED
      BY <2>1, <3>1, <3>2, <3>3, Zenon DEF WiresApart
<1>5. HandledInOrder'
  <2> SUFFICES \A h \in 1..Len(handled') :
                  /\ handled'[h][2] <= sent'
                  /\ \A k \in 1..Len(queue') : handled'[h][2] < queue'[k].n
                  /\ \A d \in Conn : \A j \in 1..Len(wire'[d]) : Message(wire'[d][j]) =>
                        /\ handled'[h][2] # wire'[d][j].n
                        /\ handled'[h][1] = d => handled'[h][2] < wire'[d][j].n
    BY Zenon DEF HandledInOrder
  <2> TAKE h \in 1..Len(handled')
  <2>1. h \in 1..Len(handled) /\ handled'[h] = handled[h] /\ handled[h][2] <= sent'
    BY DEF OrderInv, HandledInOrder
  <2>2. ASSUME NEW k \in 1..Len(queue') PROVE handled[h][2] < queue'[k].n
    BY <2>1 DEF OrderInv, HandledInOrder
  <2>3. ASSUME NEW d \in Conn, NEW j \in 1..Len(wire'[d]), Message(wire'[d][j])
        PROVE  handled[h][2] # wire'[d][j].n /\ (handled[h][1] = d => handled[h][2] < wire'[d][j].n)
    BY <2>1, <2>3 DEF OrderInv, HandledInOrder
  <2> QED
    BY <2>1, <2>2, <2>3
<1>6. DeliveredInOrder'
  BY DEF OrderInv, DeliveredInOrder
<1> QED
  BY <1>2, <1>3, <1>4, <1>5, <1>6 DEF OrderInv

\* Send: the new number is above every other one.
LEMMA EnqueueInOrder ==
    ASSUME TypeOK, OrderInv, UNCHANGED <<wire, handled>>,
           NEW kind \in {"REGISTER", "METRICS"}, Enqueue(kind)
    PROVE  OrderInv'
<1> DEFINE f == [kind |-> kind, n |-> sent + 1]
<1>0. sent' = sent + 1 /\ sent \in Nat
  BY OrderTypes DEF Enqueue
<1>a. f \in Frame /\ Message(f) /\ f.n = sent + 1
  BY <1>0 DEF Frame, Message
<1> HIDE DEF f
<1>1. ASSUME NEW i \in 1..Len(queue')
      PROVE  \/ i \in 1..Len(queue) /\ queue'[i] = queue[i]
             \/ queue' # queue /\ i = Len(queue) + 1 /\ queue'[i] = f
  <2>1. CASE queue' = queue
    BY <2>1
  <2>2. CASE queue' = Append(queue, f)
    <3>1. /\ Len(queue') = Len(queue) + 1 /\ Len(queue) \in Nat /\ queue'[Len(queue) + 1] = f
          /\ \A j \in 1..Len(queue) : queue'[j] = queue[j]
      BY <1>a, <2>2, OrderTypes, SeqElements
    <3>2. i \in 1..Len(queue) \/ i = Len(queue) + 1
      BY <3>1
    <3>3. Len(queue') # Len(queue)
      BY <3>1
    <3> QED
      BY <3>1, <3>2, <3>3
  <2> QED
    BY <2>1, <2>2 DEF Enqueue, f
<1>2. QueueInOrder'
  <2>1. ASSUME NEW i \in 1..Len(queue') PROVE Message(queue'[i]) /\ queue'[i].n <= sent'
    <3>1. CASE i \in 1..Len(queue) /\ queue'[i] = queue[i]
      <4>1. Message(queue[i]) /\ queue[i].n <= sent
        BY <3>1 DEF OrderInv, QueueInOrder
      <4>2. queue[i].n \in Nat
        BY <3>1, OrderTypes
      <4>3. queue[i].n <= sent'
        BY <1>0, <4>1, <4>2
      <4> QED
        BY <3>1, <4>1, <4>3
    <3>2. CASE queue'[i] = f
      <4>1. f.n <= sent'
        BY <1>0, <1>a
      <4> QED
        BY <1>a, <3>2, <4>1
    <3> QED
      BY <1>1, <3>1, <3>2
  <2>2. ASSUME NEW i \in 1..Len(queue'), NEW j \in 1..Len(queue'), i < j
        PROVE  queue'[i].n < queue'[j].n
    <3>1. i \in 1..Len(queue) /\ queue'[i] = queue[i]
      <4>1. CASE j \in 1..Len(queue)
        <5>1. i # Len(queue) + 1
          BY <2>2, <4>1, OrderTypes
        <5> QED
          BY <1>1, <5>1
      <4>2. CASE j = Len(queue) + 1
        <5>1. i # Len(queue) + 1
          BY <2>2, <4>2, OrderTypes
        <5> QED
          BY <1>1, <5>1
      <4> QED
        BY <1>1, <4>1, <4>2
    <3>2. queue[i].n <= sent /\ queue[i].n \in Nat
      BY <3>1, OrderTypes DEF OrderInv, QueueInOrder
    <3>3. CASE queue'[j] = f
      BY <1>0, <1>a, <3>1, <3>2, <3>3
    <3>4. CASE j \in 1..Len(queue) /\ queue'[j] = queue[j]
      BY <2>2, <3>1, <3>4 DEF OrderInv, QueueInOrder
    <3> QED
      BY <1>1, <3>3, <3>4
  <2> QED
    BY <2>1, <2>2 DEF QueueInOrder
<1>3. WireInOrder'
  <2>1. ASSUME NEW c \in Conn, NEW i \in 1..Len(wire[c]), Message(wire[c][i])
        PROVE  wire[c][i].n <= sent' /\ \A k \in 1..Len(queue') : wire[c][i].n < queue'[k].n
    <3>1. wire[c][i].n \in Nat /\ wire[c][i].n <= sent
      BY <2>1, OrderTypes DEF OrderInv, WireInOrder
    <3>2. \A k \in 1..Len(queue) : wire[c][i].n < queue[k].n
      BY <2>1 DEF OrderInv, WireInOrder
    <3>3. wire[c][i].n <= sent' /\ wire[c][i].n < f.n
      BY <1>0, <1>a, <3>1
    <3> QED
      BY <1>1, <3>2, <3>3
  <2> QED
    BY <2>1 DEF OrderInv, WireInOrder
<1>4. WiresApart'
  BY DEF OrderInv, WiresApart
<1>5. HandledInOrder'
  <2>1. ASSUME NEW h \in 1..Len(handled)
        PROVE  handled[h][2] <= sent' /\ \A k \in 1..Len(queue') : handled[h][2] < queue'[k].n
    <3>1. handled[h][2] \in Nat /\ handled[h][2] <= sent
      BY OrderTypes DEF OrderInv, HandledInOrder
    <3>2. \A k \in 1..Len(queue) : handled[h][2] < queue[k].n
      BY DEF OrderInv, HandledInOrder
    <3>3. handled[h][2] <= sent' /\ handled[h][2] < f.n
      BY <1>0, <1>a, <3>1
    <3> QED
      BY <1>1, <3>2, <3>3
  <2> QED
    BY <2>1 DEF OrderInv, HandledInOrder
<1>6. DeliveredInOrder'
  BY DEF OrderInv, DeliveredInOrder
<1> QED
  BY <1>2, <1>3, <1>4, <1>5, <1>6 DEF OrderInv

\* writePump: the head of the queue goes to the end of one wire.
LEMMA WriteInOrder ==
    ASSUME TypeOK, TypeOK', OrderInv, UNCHANGED <<sent, handled>>, NEW x \in Conn,
           queue # <<>>, queue' = Tail(queue),
           wire' = [wire EXCEPT ![x] = Append(@, Head(queue))]
    PROVE  OrderInv'
<1> DEFINE f == Head(queue)
<1>1. /\ Len(queue) >= 1 /\ f = queue[1] /\ Len(queue') = Len(queue) - 1
      /\ \A i \in 1..Len(queue') : queue'[i] = queue[i + 1]
  BY OrderTypes, SeqElements
<1>2. f \in Frame /\ Message(f) /\ f.n \in Nat /\ f.n <= sent
  <2>1. 1 \in 1..Len(queue)
    BY <1>1, OrderTypes
  <2>2. f \in Frame
    BY OrderTypes, SeqFacts
  <2> QED
    BY <1>1, <2>1, <2>2, OrderTypes DEF OrderInv, QueueInOrder
<1>3. \A k \in 1..Len(queue') : k + 1 \in 1..Len(queue) /\ queue'[k] = queue[k + 1]
  BY <1>1, OrderTypes
<1>4. ASSUME NEW k \in 1..Len(queue') PROVE f.n < queue'[k].n
  <2>1. 1 \in 1..Len(queue) /\ k + 1 \in 1..Len(queue) /\ 1 < k + 1
    BY <1>1, <1>3, OrderTypes
  <2> QED
    BY <1>1, <1>3, <2>1 DEF OrderInv, QueueInOrder
<1>5. ASSUME NEW c \in Conn, NEW i \in 1..Len(wire'[c])
      PROVE  \/ i \in 1..Len(wire[c]) /\ wire'[c][i] = wire[c][i]
             \/ c = x /\ i = Len(wire[c]) + 1 /\ wire'[c][i] = f
  <2>1. CASE c # x
    BY <2>1, OrderTypes
  <2>2. CASE c = x
    <3>1. wire'[c] = Append(wire[c], f)
      BY <2>2, OrderTypes
    <3>2. /\ Len(wire'[c]) = Len(wire[c]) + 1 /\ Len(wire[c]) \in Nat
          /\ wire'[c][Len(wire[c]) + 1] = f
          /\ \A j \in 1..Len(wire[c]) : wire'[c][j] = wire[c][j]
      BY <1>2, <3>1, OrderTypes, SeqElements
    <3>3. i \in 1..Len(wire[c]) \/ i = Len(wire[c]) + 1
      BY <3>2
    <3> QED
      BY <2>2, <3>2, <3>3
  <2> QED
    BY <2>1, <2>2
\* The number that moves is above all the wires and everything handled.
<1>6. /\ \A c \in Conn : \A i \in 1..Len(wire[c]) : Message(wire[c][i]) => wire[c][i].n < f.n
      /\ \A h \in 1..Len(handled) : handled[h][2] < f.n
  <2>1. 1 \in 1..Len(queue)
    BY <1>1, OrderTypes
  <2> QED
    BY <1>1, <2>1 DEF OrderInv, WireInOrder, HandledInOrder
<1> HIDE DEF f
<1>7. QueueInOrder'
  <2>1. \A i \in 1..Len(queue') : Message(queue'[i]) /\ queue'[i].n <= sent'
    BY <1>3 DEF OrderInv, QueueInOrder
  <2>2. ASSUME NEW i \in 1..Len(queue'), NEW j \in 1..Len(queue'), i < j
        PROVE  queue'[i].n < queue'[j].n
    <3>1. i + 1 < j + 1
      BY <2>2
    <3> QED
      BY <1>3, <3>1 DEF OrderInv, QueueInOrder
  <2> QED
    BY <2>1, <2>2 DEF QueueInOrder
<1>8. WireInOrder'
  <2>1. ASSUME NEW c \in Conn, NEW i \in 1..Len(wire'[c]), Message(wire'[c][i])
        PROVE  /\ wire'[c][i].n <= sent'
               /\ \A k \in 1..Len(queue') : wire'[c][i].n < queue'[k].n
    <3>1. CASE wire'[c][i] = f
      BY <1>2, <1>4, <3>1
    <3>2. CASE i \in 1..Len(wire[c]) /\ wire'[c][i] = wire[c][i]
      BY <1>3, <2>1, <3>2 DEF OrderInv, WireInOrder
    <3> QED
      BY <1>5, <3>1, <3>2
  <2>2. ASSUME NEW c \in Conn, NEW i \in 1..Len(wire'[c]), NEW j \in 1..Len(wire'[c]),
               Message(wire'[c][i]), Message(wire'[c][j]), i < j
        PROVE  wire'[c][i].n < wire'[c][j].n
    <3>1. i \in 1..Len(wire[c]) /\ wire'[c][i] = wire[c][i]
      <4>1. CASE j \in 1..Len(wire[c])
        BY <1>5, <2>2, <4>1, OrderTypes
      <4>2. CASE j = Len(wire[c]) + 1
        BY <1>5, <2>2, <4>2, OrderTypes
      <4> QED
        BY <1>5, <4>1, <4>2
    <3>2. CASE wire'[c][j] = f
      BY <1>6, <2>2, <3>1, <3>2
    <3>3. CASE j \in 1..Len(wire[c]) /\ wire'[c][j] = wire[c][j]
      BY <2>2, <3>1, <3>3 DEF OrderInv, WireInOrder
    <3> QED
      BY <1>5, <3>2, <3>3
  <2> QED
    BY <2>1, <2>2 DEF WireInOrder
<1>9. WiresApart'
  <2> SUFFICES \A c, d \in Conn : \A i \in 1..Len(wire'[c]) : \A j \in 1..Len(wire'[d]) :
                  Message(wire'[c][i]) /\ Message(wire'[d][j]) /\ wire'[c][i].n = wire'[d][j].n => c = d
    BY Zenon DEF WiresApart
  <2> TAKE c, d \in Conn
  <2> TAKE i \in 1..Len(wire'[c])
  <2> TAKE j \in 1..Len(wire'[d])
  <2> SUFFICES ASSUME Message(wire'[c][i]), Message(wire'[d][j]), c # d
               PROVE  wire'[c][i].n # wire'[d][j].n
    OBVIOUS
  <2>1. CASE c = x /\ wire'[c][i] = f
    <3>1. j \in 1..Len(wire[d]) /\ wire'[d][j] = wire[d][j]
      BY <1>5, <2>1
    <3>2. wire[d][j].n < f.n /\ wire[d][j].n \in Nat
      BY <1>6, <3>1, OrderTypes
    <3> QED
      BY <1>2, <2>1, <3>1, <3>2
  <2>2. CASE d = x /\ wire'[d][j] = f
    <3>1. i \in 1..Len(wire[c]) /\ wire'[c][i] = wire[c][i]
      BY <1>5, <2>2
    <3>2. wire[c][i].n < f.n /\ wire[c][i].n \in Nat
      BY <1>6, <3>1, OrderTypes
    <3> QED
      BY <1>2, <2>2, <3>1, <3>2
  <2>3. CASE /\ i \in 1..Len(wire[c]) /\ wire'[c][i] = wire[c][i]
             /\ j \in 1..Len(wire[d]) /\ wire'[d][j] = wire[d][j]
    BY <2>3 DEF OrderInv, WiresApart
  <2> QED
    BY <1>5, <2>1, <2>2, <2>3
<1>10. HandledInOrder'
  <2> SUFFICES \A h \in 1..Len(handled') :
                  /\ handled'[h][2] <= sent'
                  /\ \A k \in 1..Len(queue') : handled'[h][2] < queue'[k].n
                  /\ \A d \in Conn : \A j \in 1..Len(wire'[d]) : Message(wire'[d][j]) =>
                        /\ handled'[h][2] # wire'[d][j].n
                        /\ handled'[h][1] = d => handled'[h][2] < wire'[d][j].n
    BY Zenon DEF HandledInOrder
  <2>0. handled' = handled /\ sent' = sent
    OBVIOUS
  <2> SUFFICES ASSUME NEW h \in 1..Len(handled)
               PROVE  /\ handled[h][2] <= sent
                      /\ \A k \in 1..Len(queue') : handled[h][2] < queue'[k].n
                      /\ \A d \in Conn : \A j \in 1..Len(wire'[d]) : Message(wire'[d][j]) =>
                            /\ handled[h][2] # wire'[d][j].n
                            /\ handled[h][1] = d => handled[h][2] < wire'[d][j].n
    BY <2>0, Zenon
  <2>1. handled[h][2] <= sent /\ \A k \in 1..Len(queue') : handled[h][2] < queue'[k].n
    BY <1>3 DEF OrderInv, HandledInOrder
  <2>2. ASSUME NEW d \in Conn, NEW j \in 1..Len(wire'[d]), Message(wire'[d][j])
        PROVE  /\ handled[h][2] # wire'[d][j].n
               /\ handled[h][1] = d => handled[h][2] < wire'[d][j].n
    <3>1. CASE wire'[d][j] = f
      <4>1. handled[h][2] < f.n /\ handled[h][2] \in Nat
        BY <1>6, OrderTypes
      <4>2. handled[h][2] # f.n
        BY <1>2, <4>1
      <4> QED
        BY <3>1, <4>1, <4>2
    <3>2. CASE j \in 1..Len(wire[d]) /\ wire'[d][j] = wire[d][j]
      BY <2>2, <3>2 DEF OrderInv, HandledInOrder
    <3> QED
      BY <1>5, <3>1, <3>2
  <2> QED
    BY <2>1, <2>2
<1>11. DeliveredInOrder'
  BY DEF OrderInv, DeliveredInOrder
<1> QED
  BY <1>7, <1>8, <1>9, <1>10, <1>11 DEF OrderInv

\* The hub's readPump: the oldest message of one wire is handled.
LEMMA ReceiveInOrder ==
    ASSUME TypeOK, TypeOK', OrderInv, UNCHANGED <<sent, queue>>, NEW x \in Conn,
           wire[x] # <<>>, Message(Head(wire[x])), wire' = [wire EXCEPT ![x] = Tail(@)],
           handled' = Append(handled, <<x, Head(wire[x]).n>>)
    PROVE  OrderInv'
<1> DEFINE m == Head(wire[x]).n
<1>1. /\ Len(wire[x]) >= 1 /\ wire'[x] = Tail(wire[x]) /\ Head(wire[x]) = wire[x][1]
      /\ Len(wire'[x]) = Len(wire[x]) - 1
      /\ \A i \in 1..Len(wire'[x]) : wire'[x][i] = wire[x][i + 1]
  <2>1. wire'[x] = Tail(wire[x]) /\ wire[x] \in Seq(Frame)
    BY OrderTypes
  <2>2. /\ Len(wire[x]) >= 1 /\ Head(wire[x]) = wire[x][1] /\ Len(Tail(wire[x])) = Len(wire[x]) - 1
        /\ \A i \in 1..Len(Tail(wire[x])) : Tail(wire[x])[i] = wire[x][i + 1]
    BY <2>1, SeqElements
  <2> QED
    BY <2>1, <2>2
<1>2. 1 \in 1..Len(wire[x]) /\ m = wire[x][1].n /\ m \in Nat /\ Message(wire[x][1])
  BY <1>1, OrderTypes
<1>3. /\ \A c \in Conn \ {x} : wire'[c] = wire[c]
      /\ \A i \in 1..Len(wire'[x]) : i + 1 \in 1..Len(wire[x]) /\ wire'[x][i] = wire[x][i + 1]
  BY <1>1, OrderTypes
<1>4. /\ m <= sent /\ \A k \in 1..Len(queue) : m < queue[k].n
  BY <1>2 DEF OrderInv, WireInOrder
<1>5. /\ Len(handled') = Len(handled) + 1 /\ handled'[Len(handled) + 1] = <<x, m>>
      /\ \A h \in 1..Len(handled) : handled'[h] = handled[h]
  <2>1. <<x, m>> \in Conn \X Nat
    BY <1>2
  <2> QED
    BY <2>1, OrderTypes, SeqElements
<1> HIDE DEF m
<1>6. \A h \in 1..Len(handled') : \/ h \in 1..Len(handled) /\ handled'[h] = handled[h]
                                  \/ h = Len(handled) + 1 /\ handled'[h] = <<x, m>>
  BY <1>5, OrderTypes
\* The number is not handled yet, and above what its connection has handled.
<1>7. \A h \in 1..Len(handled) : handled[h][2] # m /\ (handled[h][1] = x => handled[h][2] < m)
  BY <1>2 DEF OrderInv, HandledInOrder
\* The number is not on a wire any more, and below what its connection still carries.
<1>8. ASSUME NEW d \in Conn, NEW j \in 1..Len(wire'[d]), Message(wire'[d][j])
      PROVE  m # wire'[d][j].n /\ (x = d => m < wire'[d][j].n)
  <2>1. CASE d # x
    BY <1>2, <1>3, <1>8, <2>1 DEF OrderInv, WiresApart
  <2>2. CASE d = x
    <3>1. j + 1 \in 1..Len(wire[x]) /\ wire'[x][j] = wire[x][j + 1] /\ 1 < j + 1
      BY <1>3, <2>2
    <3>2. m < wire[x][j + 1].n
      BY <1>2, <1>8, <2>2, <3>1 DEF OrderInv, WireInOrder
    <3> QED
      BY <1>2, <2>2, <3>1, <3>2, OrderTypes
  <2> QED
    BY <2>1, <2>2
<1>9. ASSUME NEW c \in Conn, NEW i \in 1..Len(wire'[c])
      PROVE  \E o \in {0, 1} : /\ (o = 1 <=> c = x) /\ i + o \in 1..Len(wire[c])
                               /\ wire'[c][i] = wire[c][i + o]
  <2>1. CASE c = x
    BY <1>3, <2>1
  <2>2. CASE c # x
    <3>1. i + 0 = i
      OBVIOUS
    <3> QED
      BY <1>3, <2>2, <3>1
  <2> QED
    BY <2>1, <2>2
<1>10. QueueInOrder'
  BY DEF OrderInv, QueueInOrder
<1>11. WireInOrder'
  <2>1. ASSUME NEW c \in Conn, NEW i \in 1..Len(wire'[c]), Message(wire'[c][i])
        PROVE  wire'[c][i].n <= sent /\ \A k \in 1..Len(queue) : wire'[c][i].n < queue[k].n
    BY <1>9, <2>1 DEF OrderInv, WireInOrder
  <2>2. ASSUME NEW c \in Conn, NEW i \in 1..Len(wire'[c]), NEW j \in 1..Len(wire'[c]),
               Message(wire'[c][i]), Message(wire'[c][j]), i < j
        PROVE  wire'[c][i].n < wire'[c][j].n
    <3>1. CASE c # x
      BY <1>3, <2>2, <3>1 DEF OrderInv, WireInOrder
    <3>2. CASE c = x
      <4>1. i + 1 < j + 1
        BY <2>2
      <4>2. /\ i + 1 \in 1..Len(wire[x]) /\ wire'[x][i] = wire[x][i + 1]
            /\ j + 1 \in 1..Len(wire[x]) /\ wire'[x][j] = wire[x][j + 1]
        BY <1>3, <3>2
      <4>3. wire[x][i + 1].n < wire[x][j + 1].n
        BY <2>2, <3>2, <4>1, <4>2 DEF OrderInv, WireInOrder
      <4> QED
        BY <3>2, <4>2, <4>3
    <3> QED
      BY <3>1, <3>2
  <2> QED
    BY <2>1, <2>2 DEF WireInOrder
<1>12. WiresApart'
  <2> SUFFICES \A c, d \in Conn : \A i \in 1..Len(wire'[c]) : \A j \in 1..Len(wire'[d]) :
                  Message(wire'[c][i]) /\ Message(wire'[d][j]) /\ wire'[c][i].n = wire'[d][j].n => c = d
    BY Zenon DEF WiresApart
  <2> TAKE c, d \in Conn
  <2> TAKE i \in 1..Len(wire'[c])
  <2> TAKE j \in 1..Len(wire'[d])
  <2> HAVE Message(wire'[c][i]) /\ Message(wire'[d][j]) /\ wire'[c][i].n = wire'[d][j].n
  <2>1. PICK o \in {0, 1} : i + o \in 1..Len(wire[c]) /\ wire'[c][i] = wire[c][i + o]
    BY <1>9
  <2>2. PICK p \in {0, 1} : j + p \in 1..Len(wire[d]) /\ wire'[d][j] = wire[d][j + p]
    BY <1>9
  <2> QED
    BY <2>1, <2>2 DEF OrderInv, WiresApart
<1>13. HandledInOrder'
  <2> SUFFICES ASSUME NEW h \in 1..Len(handled')
               PROVE  /\ handled'[h][2] <= sent
                      /\ \A k \in 1..Len(queue) : handled'[h][2] < queue[k].n
                      /\ \A d \in Conn : \A j \in 1..Len(wire'[d]) : Message(wire'[d][j]) =>
                            /\ handled'[h][2] # wire'[d][j].n
                            /\ handled'[h][1] = d => handled'[h][2] < wire'[d][j].n
    BY DEF HandledInOrder
  <2>1. CASE handled'[h] = <<x, m>>
    <3>1. handled'[h][1] = x /\ handled'[h][2] = m
      BY <2>1
    <3>2. \A d \in Conn : \A j \in 1..Len(wire'[d]) : Message(wire'[d][j]) =>
              m # wire'[d][j].n /\ (x = d => m < wire'[d][j].n)
      BY <1>8
    <3> QED
      BY <1>4, <3>1, <3>2
  <2>2. CASE h \in 1..Len(handled) /\ handled'[h] = handled[h]
    <3>1. handled[h][2] <= sent /\ \A k \in 1..Len(queue) : handled[h][2] < queue[k].n
      BY <2>2 DEF OrderInv, HandledInOrder
    <3>2. ASSUME NEW d \in Conn, NEW j \in 1..Len(wire'[d]), Message(wire'[d][j])
          PROVE  /\ handled[h][2] # wire'[d][j].n
                 /\ handled[h][1] = d => handled[h][2] < wire'[d][j].n
      <4>1. PICK o \in {0, 1} : j + o \in 1..Len(wire[d]) /\ wire'[d][j] = wire[d][j + o]
        BY <1>9
      <4> QED
        BY <2>2, <3>2, <4>1 DEF OrderInv, HandledInOrder
    <3> QED
      BY <2>2, <3>1, <3>2
  <2> QED
    BY <1>6, <2>1, <2>2
<1>14. DeliveredInOrder'
  <2> SUFFICES ASSUME NEW i \in 1..Len(handled'), NEW j \in 1..Len(handled'), i < j
               PROVE  /\ handled'[i][2] # handled'[j][2]
                      /\ handled'[i][1] = handled'[j][1] => handled'[i][2] < handled'[j][2]
    BY DEF DeliveredInOrder
  <2>1. i \in 1..Len(handled) /\ handled'[i] = handled[i]
    <3>1. CASE j \in 1..Len(handled)
      BY <1>6, <3>1, OrderTypes
    <3>2. CASE j = Len(handled) + 1
      BY <1>6, <3>2, OrderTypes
    <3> QED
      BY <1>6, <3>1, <3>2
  <2>2. CASE handled'[j] = <<x, m>>
    BY <1>7, <2>1, <2>2
  <2>3. CASE j \in 1..Len(handled) /\ handled'[j] = handled[j]
    BY <2>1, <2>3 DEF OrderInv, DeliveredInOrder
  <2> QED
    BY <1>6, <2>2, <2>3
<1> QED
  BY <1>10, <1>11, <1>12, <1>13, <1>14 DEF OrderInv
LEMMA OrderInit == Init => OrderInv
<1> SUFFICES ASSUME Init PROVE OrderInv
  OBVIOUS
<1>1. Len(queue) = 0 /\ Len(handled) = 0 /\ \A c \in Conn : Len(wire[c]) = 0
  BY DEF Init, LinkInit, AgentInit, HubInit
<1>2. 1..0 = {}
  OBVIOUS
<1> QED
  BY <1>1, <1>2 DEF OrderInv, QueueInOrder, WireInOrder, WiresApart, HandledInOrder,
     DeliveredInOrder

\* The steps that touch neither the queue nor the wires nor what was handled.
LEMMA OrderSame ==
    ASSUME TypeOK, TypeOK', OrderInv, UNCHANGED <<sent, queue, wire, handled>>
    PROVE  OrderInv'
  BY DEF OrderInv, QueueInOrder, WireInOrder, WiresApart, HandledInOrder, DeliveredInOrder

\* One wire changes, without a new message; the queue may lose its head.
LEMMA OneWireShrinks ==
    ASSUME TypeOK, TypeOK', OrderInv, UNCHANGED <<sent, handled>>,
           NEW x \in Conn, NEW o \in {0, 1}, NEW s, wire' = [wire EXCEPT ![x] = s],
           \A i \in 1..Len(s) : Message(s[i]) => i + o \in 1..Len(wire[x]) /\ s[i] = wire[x][i + o],
           queue' = queue \/ (queue # <<>> /\ queue' = Tail(queue))
    PROVE  OrderInv'
<1>1. \E q \in {0, 1} :
         \A i \in 1..Len(queue') : i + q \in 1..Len(queue) /\ queue'[i] = queue[i + q]
  <2>1. CASE queue' = queue
    <3>1. \A i \in 1..Len(queue') : i + 0 = i
      OBVIOUS
    <3>2. \A i \in 1..Len(queue') : i + 0 \in 1..Len(queue) /\ queue'[i] = queue[i + 0]
      BY <2>1, <3>1
    <3> QED
      BY <3>2
  <2>2. CASE queue # <<>> /\ queue' = Tail(queue)
    <3>1. /\ Len(queue) \in Nat /\ Len(queue) >= 1 /\ Len(queue') = Len(queue) - 1
          /\ \A i \in 1..Len(queue') : queue'[i] = queue[i + 1]
      BY <2>2, OrderTypes, SeqElements
    <3>2. \A i \in 1..Len(queue') : i + 1 \in 1..Len(queue) /\ queue'[i] = queue[i + 1]
      BY <3>1
    <3> QED
      BY <3>2
  <2> QED
    BY <2>1, <2>2
<1>2. PICK q \in {0, 1} :
         \A i \in 1..Len(queue') : i + q \in 1..Len(queue) /\ queue'[i] = queue[i + q]
  BY <1>1
<1> DEFINE w == [c \in Conn |-> IF c = x THEN o ELSE 0]
<1>3. w \in [Conn -> {0, 1}]
  OBVIOUS
<1>4. ASSUME NEW c \in Conn, NEW i \in 1..Len(wire'[c]), Message(wire'[c][i])
      PROVE  i + w[c] \in 1..Len(wire[c]) /\ wire'[c][i] = wire[c][i + w[c]]
  <2>1. CASE c = x
    <3>1. wire'[c] = s /\ w[c] = o
      BY <2>1, OrderTypes
    <3> QED
      BY <1>4, <2>1, <3>1
  <2>2. CASE c # x
    <3>1. wire'[c] = wire[c] /\ w[c] = 0 /\ i + 0 = i
      BY <2>2, OrderTypes
    <3> QED
      BY <3>1
  <2> QED
    BY <2>1, <2>2
<1> HIDE DEF w
<1> QED
  BY <1>2, <1>3, <1>4, OrderShrinks

\* Appending a frame that is no message to one wire, or nothing at all.
LEMMA CarryInOrder ==
    ASSUME TypeOK, TypeOK', OrderInv, UNCHANGED <<sent, queue, handled>>,
           NEW f \in Frame, ~Message(f), wire' = wire \/ wire' = Carry(wconn, f)
    PROVE  OrderInv'
<1>1. CASE wire' = wire
  BY <1>1, OrderSame
<1>2. CASE wire' # wire
  <2>1. wire' = [wire EXCEPT ![wconn] = Append(@, f)]
    BY <1>2 DEF Carry
  <2>2. wconn \in Conn
    BY <1>2, <2>1, OrderTypes
  <2>3. wire[wconn] \in Seq(Frame) /\ wire' = [wire EXCEPT ![wconn] = Append(wire[wconn], f)]
    BY <2>1, <2>2, OrderTypes
  <2>4. /\ Len(Append(wire[wconn], f)) = Len(wire[wconn]) + 1 /\ Len(wire[wconn]) \in Nat
        /\ Append(wire[wconn], f)[Len(wire[wconn]) + 1] = f
        /\ \A i \in 1..Len(wire[wconn]) : Append(wire[wconn], f)[i] = wire[wconn][i]
    BY <2>3, SeqElements
  <2>5. ASSUME NEW i \in 1..Len(Append(wire[wconn], f)), Message(Append(wire[wconn], f)[i])
        PROVE  i + 0 \in 1..Len(wire[wconn]) /\ Append(wire[wconn], f)[i] = wire[wconn][i + 0]
    <3>1. i \in 1..Len(wire[wconn]) \/ i = Len(wire[wconn]) + 1
      BY <2>4
    <3>2. i \in 1..Len(wire[wconn]) /\ i + 0 = i
      BY <2>4, <2>5, <3>1
    <3> QED
      BY <2>4, <3>2
  <2> QED
    BY <2>2, <2>3, <2>5, OneWireShrinks
<1> QED
  BY <1>1, <1>2

LEMMA WriteStepInOrder ==
    ASSUME TypeOK, TypeOK', OrderInv, WriteStep, UNCHANGED hubVars
    PROVE  OrderInv'
<1>a. UNCHANGED handled
  BY DEF hubVars
<1>1. CASE WriteStart
  BY <1>1, <1>a, OrderSame DEF WriteStart, linkVars
<1>2. CASE WriteQueued
  <2>1. queue # <<>> /\ queue' = Tail(queue) /\ UNCHANGED sent /\ WriteFrame(Head(queue))
    BY <1>2 DEF WriteQueued
  <2>2. CASE wire' = wire
    <3>1. PICK x : x \in Conn
      BY LinkAssumption DEF Conn
    <3>2. wire' = [wire EXCEPT ![x] = wire[x]]
      BY <2>2, <3>1, OrderTypes
    <3>3. \A i \in 1..Len(wire[x]) : Message(wire[x][i]) =>
             i + 0 \in 1..Len(wire[x]) /\ wire[x][i] = wire[x][i + 0]
      OBVIOUS
    <3> QED
      BY <1>a, <2>1, <3>1, <3>2, <3>3, OneWireShrinks
  <2>3. CASE wire' # wire
    <3>1. wire' = [wire EXCEPT ![wconn] = Append(@, Head(queue))]
      BY <2>1, <2>3 DEF WriteFrame, Carry
    <3>2. wconn \in Conn
      BY <2>3, <3>1, OrderTypes
    <3> QED
      BY <1>a, <2>1, <3>1, <3>2, WriteInOrder
  <2> QED
    BY <2>2, <2>3
<1>3. CASE WriteHeartbeat
  <2>1. UNCHANGED <<sent, queue>> /\ WriteFrame([kind |-> "HEARTBEAT", n |-> dropped])
    BY <1>3 DEF WriteHeartbeat
  <2>2. /\ [kind |-> "HEARTBEAT", n |-> dropped] \in Frame
        /\ ~Message([kind |-> "HEARTBEAT", n |-> dropped])
    BY DEF Frame, Message, TypeOK, AgentTypeOK
  <2>3. wire' = wire \/ wire' = Carry(wconn, [kind |-> "HEARTBEAT", n |-> dropped])
    BY <2>1 DEF WriteFrame
  <2> QED
    BY <1>a, <2>1, <2>2, <2>3, CarryInOrder
<1>4. CASE WriteCancelled
  <2>1. [kind |-> "CLOSE", n |-> 0] \in Frame /\ ~Message([kind |-> "CLOSE", n |-> 0])
    BY DEF Frame, Message
  <2>2. /\ UNCHANGED <<sent, queue>>
        /\ wire' = wire \/ wire' = Carry(wconn, [kind |-> "CLOSE", n |-> 0])
    BY <1>4 DEF WriteCancelled
  <2> QED
    BY <1>a, <2>1, <2>2, CarryInOrder
<1> QED
  BY <1>1, <1>2, <1>3, <1>4 DEF WriteStep

LEMMA AgentStepInOrder ==
    ASSUME TypeOK, TypeOK', OrderInv, AgentStep
    PROVE  OrderInv'
<1>a. UNCHANGED hubVars /\ UNCHANGED handled
  BY DEF AgentStep, hubVars
<1>1. CASE SendMetrics
  BY <1>1, <1>a, EnqueueInOrder DEF SendMetrics, linkVars
<1>2. CASE OnConnect
  BY <1>2, <1>a, EnqueueInOrder DEF OnConnect, linkVars
<1>3. CASE Finish \/ Dial \/ DialOk \/ DialFails \/ WaitBackoff \/ StoreConn \/ RunPumpsReturns
           \/ CloseAfterPumps
  BY <1>3, <1>a, OrderSame DEF Finish, Dial, DialOk, DialFails, WaitBackoff, StoreConn,
     RunPumpsReturns, CloseAfterPumps, linkVars
<1>4. CASE ReadStep
  BY <1>4, <1>a, OrderSame DEF ReadStep, ReadStart, ReadCheck, ReadMessage, ReadFails, linkVars
<1>5. CASE WriteStep
  BY <1>5, <1>a, WriteStepInOrder
<1>6. CASE StopStep
  BY <1>6, <1>a, OrderSame DEF StopStep, Signal, StopBegins, StopCloses, Propagate, linkVars
<1> QED
  BY <1>1, <1>2, <1>3, <1>4, <1>5, <1>6 DEF AgentStep, AgentNext, LoopStep

LEMMA HubStepInOrder ==
    ASSUME TypeOK, TypeOK', OrderInv, HubStep
    PROVE  OrderInv'
<1>a. UNCHANGED <<sent, queue>>
  BY DEF HubStep, agentVars
<1>1. ASSUME NEW c \in Conn, Receive(c) PROVE OrderInv'
  <2>1. /\ wire[c] # <<>> /\ Head(wire[c]).kind # "CLOSE" /\ wire' = [wire EXCEPT ![c] = Tail(@)]
    BY <1>1 DEF Receive
  <2>2. Head(wire[c]) \in Frame /\ wire[c] \in Seq(Frame)
    BY <2>1, OrderTypes, SeqFacts
  <2>3. CASE Head(wire[c]).kind = "HEARTBEAT"
    <3>1. UNCHANGED handled
      BY <1>1, <2>3 DEF Receive
    <3>2. wire' = [wire EXCEPT ![c] = Tail(wire[c])]
      BY <2>1
    <3>3. /\ Len(wire[c]) \in Nat /\ Len(wire[c]) >= 1 /\ Len(Tail(wire[c])) = Len(wire[c]) - 1
          /\ \A i \in 1..Len(Tail(wire[c])) : Tail(wire[c])[i] = wire[c][i + 1]
      BY <2>1, <2>2, SeqElements
    <3>4. \A i \in 1..Len(Tail(wire[c])) : Message(Tail(wire[c])[i]) =>
             i + 1 \in 1..Len(wire[c]) /\ Tail(wire[c])[i] = wire[c][i + 1]
      BY <3>3
    <3> QED
      BY <1>a, <3>1, <3>2, <3>4, OneWireShrinks
  <2>4. CASE Head(wire[c]).kind # "HEARTBEAT"
    <3>1. handled' = Append(handled, <<c, Head(wire[c]).n>>)
      BY <1>1, <2>4 DEF Receive
    <3>2. Message(Head(wire[c]))
      BY <2>1, <2>2, <2>4 DEF Message, Frame
    <3> QED
      BY <1>a, <2>1, <3>1, <3>2, ReceiveInOrder
  <2> QED
    BY <2>3, <2>4
<1>2. ASSUME NEW c \in Conn, Authenticate(c) \/ Upgrade(c) \/ StoreAgent(c) \/ MarkOnline(c)
             \/ SaveSeen(c) \/ PumpExits(c) \/ RemoveAgent(c) \/ MarkOffline(c)
             \/ FallSilent(c, Writing(c))
      PROVE  OrderInv'
  <2>1. UNCHANGED <<wire, handled>>
    BY <1>2 DEF Authenticate, Upgrade, StoreAgent, MarkOnline, SaveSeen, PumpExits, RemoveAgent,
       MarkOffline, FallSilent, linkVars
  <2> QED
    BY <1>a, <2>1, OrderSame
<1>3. CASE CheckerStep \/ HubCrash
  <2>1. UNCHANGED <<wire, handled>>
    BY <1>3 DEF CheckerStep, CheckerFinds, CheckerRemoves, CheckerSaves, HubCrash, linkVars
  <2> QED
    BY <1>a, <2>1, OrderSame
<1> QED
  BY <1>1, <1>2, <1>3 DEF HubStep, ServeStep

\* Whatever is dropped by a full queue, lost with a failed write, a cut path or a
\* crash of the hub, no message passed to Send is handled twice and the messages of
\* one connection are handled in the order of the Send calls, for every number of
\* connections, queue size and wire capacity.  DeliveredInOrder is not inductive:
\* OrderInv follows the numbers from the queue through the wires to the handlers.
THEOREM DeliveredInOrderAlways == Spec => []DeliveredInOrder
<1>1. Init => OrderInv
  BY OrderInit
<1>2. TypeOK /\ TypeOK' /\ OrderInv /\ [Next]_vars => OrderInv'
  <2> SUFFICES ASSUME TypeOK, TypeOK', OrderInv, [Next]_vars PROVE OrderInv'
    OBVIOUS
  <2>1. CASE AgentStep
    BY <2>1, AgentStepInOrder
  <2>2. CASE HubStep
    BY <2>2, HubStepInOrder
  <2>3. CASE NetworkStep
    <3>1. UNCHANGED <<sent, queue, handled>>
      BY <2>3 DEF NetworkStep, agentVars, hubVars
    <3>2. PICK c \in Conn : Cut(c)
      BY <2>3 DEF NetworkStep
    <3>3. PICK k \in 0..Len(wire[c]) : wire' = [wire EXCEPT ![c] = SubSeq(@, 1, k)]
      BY <3>2 DEF Cut
    <3>4. wire' = [wire EXCEPT ![c] = SubSeq(wire[c], 1, k)] /\ wire[c] \in Seq(Frame)
      BY <3>3, OrderTypes
    <3>5. /\ Len(SubSeq(wire[c], 1, k)) = k
          /\ \A i \in 1..k : SubSeq(wire[c], 1, k)[i] = wire[c][i]
      BY <3>4, SeqElements
    <3>6. \A i \in 1..k : i + 0 = i /\ i \in 1..Len(wire[c])
      BY OrderTypes
    <3>7. \A i \in 1..Len(SubSeq(wire[c], 1, k)) : Message(SubSeq(wire[c], 1, k)[i]) =>
             /\ i + 0 \in 1..Len(wire[c])
             /\ SubSeq(wire[c], 1, k)[i] = wire[c][i + 0]
      BY <3>5, <3>6
    <3> QED
      BY <3>1, <3>4, <3>7, OneWireShrinks
  <2>4. CASE UNCHANGED vars
    BY <2>4, OrderSame DEF vars, linkVars, agentVars, hubVars
  <2> QED
    BY <2>1, <2>2, <2>3, <2>4 DEF Next
<1>3. OrderInv => DeliveredInOrder
  BY DEF OrderInv
<1> QED
  BY <1>1, <1>2, <1>3, LinkTypeCorrect, PTL DEF Spec
=============================================================================
