----------------------------- MODULE ThreadDumps -----------------------------
(***************************************************************************)
(* Thread dumps on request (internal/hub/threaddump/service.go, the handler *)
(* in internal/hub/api/routes.go, the agent's handleThreadDump and          *)
(* ThreadDump): the hub stores a pending row, sends the command and forgets *)
(* it; the answer finds its row by the request id alone.  The id is the     *)
(* wall clock in milliseconds and the process id, without the agent.        *)
(***************************************************************************)
EXTENDS Naturals, FiniteSets

CONSTANTS
    DumpRequest,    \* requests for a dump
    DumpTarget,     \* DumpTarget[q]: the agent and the process id it is for
    MaxMs,          \* bound: distinct milliseconds
    DumpRegimes     \* what may go wrong: a "save", a "link" that breaks, a hub "restart"

VARIABLES
    ms,             \* the hub's clock
    dump,           \* dump[q]: where the request is: "idle", "checked", "stored", "returned",
                    \* "refused"
    listed,         \* listed[q]: the process in the agent's latest process list
    row,            \* row[q]: the thread_dumps record
    jstack,         \* commands the agents work on
    replies,        \* responses on their way to the hub
    handling,       \* the response the read pump handles, and the record it has found
    dumpHad, dumpMay   \* what went wrong, and what may: chosen once

dumpVars == <<ms, dump, listed, row, jstack, replies, handling, dumpHad, dumpMay>>

ASSUME DumpAssumption == MaxMs \in Nat /\ DOMAIN DumpTarget = DumpRequest

NoDump == [status |-> "none", id |-> <<0, 0>>, from |-> {}]
Quiet == [reply |-> {}, found |-> {}]

DumpInit(regimes) ==
    /\ ms = 0
    /\ dump = [q \in DumpRequest |-> "idle"]
    /\ listed \in [DumpRequest -> {"jvm", "other", "missing", "no list"}]
    /\ row = [q \in DumpRequest |-> NoDump]
    /\ jstack = {} /\ replies = {} /\ handling = Quiet
    /\ dumpHad = {} /\ dumpMay \in regimes

Fails(d) == d \in dumpMay \ dumpHad /\ dumpHad' = dumpHad \union {d} /\ UNCHANGED dumpMay
WentWell == UNCHANGED <<dumpHad, dumpMay>>

DumpTick ==
    /\ ms < MaxMs /\ ms' = ms + 1
    /\ UNCHANGED <<dump, listed, row, jstack, replies, handling, dumpHad, dumpMay>>

\* isDumpablePID, looksLikeJVM: the process is in the latest list, as a JVM.
isDumpablePID(q) == listed[q] = "jvm"

\* handleRequestThreadDump refuses a process id the latest list does not bear out.
handleRequestThreadDump(q) ==
    /\ dump[q] = "idle"
    /\ dump' = [dump EXCEPT ![q] = IF isDumpablePID(q) THEN "checked" ELSE "refused"]
    /\ UNCHANGED <<ms, listed, row, jstack, replies, handling, dumpHad, dumpMay>>

\* RequestDump stores the pending row, under an id made of the clock and the process.
RequestDump(q) ==
    /\ dump[q] = "checked"
    /\ \/ /\ row' = [row EXCEPT ![q] = [status |-> "pending", id |-> <<ms, DumpTarget[q].pid>>, from |-> {}]]
          /\ dump' = [dump EXCEPT ![q] = "stored"] /\ WentWell
       \/ Fails("save") /\ dump' = [dump EXCEPT ![q] = "refused"] /\ UNCHANGED row
    /\ UNCHANGED <<ms, listed, jstack, replies, handling>>

\* RequestDump sends the command; an agent that is not reachable ends the row, unless
\* that save fails too.
SendRequest(q) ==
    /\ dump[q] = "stored"
    /\ \/ jstack' = jstack \union {q} /\ UNCHANGED row /\ WentWell
       \/ row' = [row EXCEPT ![q].status = "error"] /\ UNCHANGED jstack /\ WentWell
       \/ Fails("save") /\ UNCHANGED <<row, jstack>>
    /\ dump' = [dump EXCEPT ![q] = "returned"]
    /\ UNCHANGED <<ms, listed, replies, handling>>

\* ThreadDump on the agent, killed after 60 seconds at the latest: the output of
\* jstack, or an error (no jstack, the process is gone, nothing printed).
Reply(q) ==
    /\ q \in jstack
    /\ jstack' = jstack \ {q}
    /\ \E ok \in BOOLEAN :
         replies' = replies \union {[id |-> row[q].id, from |-> q, ok |-> ok]}
    /\ UNCHANGED <<ms, dump, listed, row, handling, dumpHad, dumpMay>>

\* The agent or its connection goes away with a command or a response.
LoseDump ==
    /\ Fails("link")
    /\ \/ \E q \in jstack : jstack' = jstack \ {q} /\ UNCHANGED replies
       \/ \E m \in replies : replies' = replies \ {m} /\ UNCHANGED jstack
    /\ UNCHANGED <<ms, dump, listed, row, handling>>

\* Mutant: the row is looked up by the process id.
MutantRowsOf(id) == {q \in DumpRequest : row[q].status # "none" /\ row[q].id[2] = id[2]}

RowsOf(id) == {q \in DumpRequest : row[q].status # "none" /\ row[q].id = id}

\* HandleResponse finds the record: of several with the id, any.
FindRow(m) ==
    /\ handling = Quiet /\ m \in replies
    /\ replies' = replies \ {m}
    /\ IF RowsOf(m.id) = {} THEN UNCHANGED handling
       ELSE \E q \in RowsOf(m.id) : handling' = [reply |-> {m}, found |-> {q}]
    /\ UNCHANGED <<ms, dump, listed, row, jstack, dumpHad, dumpMay>>

\* HandleResponse saves it.
SaveRow ==
    /\ handling # Quiet
    /\ \/ \E m \in handling.reply, q \in handling.found :
             /\ row' = [row EXCEPT ![q].status = IF m.ok THEN "success" ELSE "error", ![q].from = IF m.ok THEN {m.from} ELSE @]
             /\ WentWell
       \/ Fails("save") /\ UNCHANGED row
    /\ handling' = Quiet
    /\ UNCHANGED <<ms, dump, listed, jstack, replies>>

\* The hub restarts: a request under way is cut short, connections are lost.
DumpRestart ==
    /\ Fails("restart")
    /\ dump' = [q \in DumpRequest |-> IF dump[q] \in {"checked", "stored"} THEN "returned" ELSE dump[q]]
    /\ handling' = Quiet /\ replies' = {}
    /\ UNCHANGED <<ms, listed, row, jstack>>

DumpStep(q) == handleRequestThreadDump(q) \/ RequestDump(q) \/ SendRequest(q) \/ Reply(q)

DumpNext ==
    \/ DumpTick \/ LoseDump \/ DumpRestart \/ SaveRow
    \/ \E q \in DumpRequest : DumpStep(q)
    \/ \E m \in replies : FindRow(m)

DumpSpec == DumpInit(DumpRegimes) /\ [][DumpNext]_dumpVars

-----------------------------------------------------------------------------
Collides(q) == \E p \in DumpRequest \ {q} : row[p].status # "none" /\ row[p].id = row[q].id

\* A dump is shown under the process it was taken of, on its own host: the answer found
\* its way by the id, and only a request for the same process id in the same
\* millisecond, on any host, can have taken its place.
DumpIsOwn == \A q \in DumpRequest : row[q].status = "success" => row[q].from = {q} \/ Collides(q)
=============================================================================
