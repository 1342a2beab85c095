-------------------------------- MODULE Link --------------------------------
(***************************************************************************)
(* The WebSocket connections between one agent and the hub, as the two     *)
(* ends see them: the state that AgentTransport (internal/agent/transport) *)
(* and WsHub (internal/hub/ws) share.  TCP, the operating system and the   *)
(* gorilla/websocket library are external; this module states what the two *)
(* ends rely on.  Agents share nothing in the hub but a map keyed by agent *)
(* id, so one agent and its successive connections are modelled.           *)
(***************************************************************************)
EXTENDS Naturals, Sequences, FiniteSets

CONSTANTS
    MaxConns,  \* bound: connections the agent attempts
    WireCap,   \* frames the buffers of one connection hold
    MaxCuts    \* bound: connections that silently stop delivering

ASSUME LinkAssumption ==
    /\ MaxConns \in Nat \ {0}
    /\ WireCap \in Nat \ {0}
    /\ MaxCuts \in Nat

Conn == 1..MaxConns
NoConn == 0
Socket == {"none", "open", "closed"}

\* A frame from the agent: `n' numbers the messages passed to Send and is the
\* dropped-message count in a heartbeat.
Frame == [kind : {"REGISTER", "METRICS", "HEARTBEAT", "CLOSE"}, n : Nat]

VARIABLES
    dials,  \* connection attempts so far; the last one is connection `dials'
    cli,    \* cli[c]: the agent's end
    srv,    \* srv[c]: the hub's end
    cut,    \* connections that deliver nothing more and report nothing (half-open TCP)
    wire    \* wire[c]: frames written by the agent and not yet read by the hub

linkVars == <<dials, cli, srv, cut, wire>>

LinkInit ==
    /\ dials = 0
    /\ cli = [c \in Conn |-> "none"]
    /\ srv = [c \in Conn |-> "none"]
    /\ cut = {}
    /\ wire = [c \in Conn |-> <<>>]

LinkTypeOK ==
    /\ dials \in 0..MaxConns
    /\ cli \in [Conn -> Socket]
    /\ srv \in [Conn -> Socket]
    /\ cut \in SUBSET Conn
    /\ wire \in [Conn -> Seq(Frame)]

-----------------------------------------------------------------------------
\* What a write by the agent does to the wire: bytes for a peer that is gone or
\* unreachable are accepted by the local buffer and vanish.
Carry(c, f) ==
    IF c \in cut \/ srv[c] # "open" THEN wire ELSE [wire EXCEPT ![c] = Append(@, f)]

Congested(c) == c \notin cut /\ srv[c] = "open" /\ Len(wire[c]) >= WireCap

WriteSucceeds(c) == cli[c] = "open" /\ ~Congested(c)

\* A write fails on a socket closed by either end, on a path the kernel gave up
\* on, and by its deadline when the peer does not read.
WriteFails(c) == cli[c] # "open" \/ srv[c] # "open" \/ c \in cut \/ Congested(c)

\* The hub's end learns that the agent closed only after the frames already sent.
PeerClosed(c) == c \notin cut /\ cli[c] = "closed" /\ wire[c] = <<>>

\* The path of a connection goes silent; what was in flight may be lost with it.
Cut(c) ==
    /\ Cardinality(cut) < MaxCuts /\ c <= dials /\ c \notin cut
    /\ cut' = cut \union {c}
    /\ \E k \in 0..Len(wire[c]) : wire' = [wire EXCEPT ![c] = SubSeq(@, 1, k)]
    /\ UNCHANGED <<dials, cli, srv>>
=============================================================================
