----------------------------- MODULE UpdateFlow -----------------------------
(***************************************************************************)
(* One agent's update_status as the hub keeps it: the HTTP handler that    *)
(* requests an update and records its outcome (api/update_routes.go), the  *)
(* read pumps that reduce progress messages and REGISTERs to the row       *)
(* (hub/update/service.go, ws/handler.go handleRegister), and the agent    *)
(* that streams the stages (cmd/agent/main.go handleUpdateCommand).        *)
(*                                                                         *)
(* Everyone saves a copy of the row read earlier; a save writes the fields *)
(* that differ from the copy as read.  A version is named by the request   *)
(* that asks for it.                                                       *)
(***************************************************************************)
EXTENDS Naturals, Sequences

CONSTANTS
    UpdateRequest,
    Base,        \* the version the agent runs at first
    NoTarget,
    MaxConns,    \* bound: connections of the agent, one per start or reconnect
    FlowRegimes      \* sets of the disturbances that may happen together

\* A connection ends and what was sent on it may be lost; the pumps handle a message
\* before the handler it woke, or one that gave up, has saved; a connection is
\* handled before the ones before it; an update is requested before the last settled.
FlowDisturbances == {"loss", "late_save", "overtaking", "overlap"}

ASSUME FlowAssumption ==
    /\ Base \notin UpdateRequest /\ NoTarget \notin UpdateRequest \union {Base} /\ Base # NoTarget
    /\ MaxConns \in Nat \ {0}
    /\ FlowRegimes \subseteq SUBSET FlowDisturbances

Conn == 1..MaxConns
Version == UpdateRequest \union {Base}
Stages == {"started", "downloading", "verifying", "installing", "restarting",
           "restart_required", "failed"}
Terminal == {"", "done", "failed", "restart_required"}
AgentRow == [status : Stages \union {"", "done"}, target : UpdateRequest \union {NoTarget},
        version : Version, err : BOOLEAN]
Message == [kind : {"REGISTER"}, version : Version]
             \union [kind : {"RESPONSE"}, req : UpdateRequest, stage : Stages]

VARIABLES
    flowMay,     \* the disturbances of this behaviour
    agentRow,     \* the agent's record: update_status, _target_version, version, _error
    http,    \* http[r]: where the handler of a request is
    read,    \* read[r]: its copy of the row
    woken,   \* woken[r]: the stage the broker handed to it
    stageOf,     \* stageOf[r]: the last stage the agent sent for it
    runs,    \* the version the agent runs
    conn,    \* the agent's present connection
    up,      \* up[c]: messages on a connection the hub has not handled
    pump,    \* pump[c]: is its first message being handled
    copy     \* copy[c]: the row that handling read

flowVars == <<flowMay, agentRow, http, read, woken, stageOf, runs, conn, up, pump, copy>>
hubSide == <<flowMay, agentRow, http, read, woken, pump, copy>>

Empty == [status |-> "", target |-> NoTarget, version |-> Base, err |-> FALSE]

FlowInit(regimes) ==
    /\ flowMay \in regimes
    /\ agentRow = Empty
    /\ http = [r \in UpdateRequest |-> "idle"]
    /\ read = [r \in UpdateRequest |-> Empty]
    /\ woken = [r \in UpdateRequest |-> "none"]
    /\ stageOf = [r \in UpdateRequest |-> "none"]
    /\ runs = Base /\ conn = 1
    /\ up = [c \in Conn |-> <<>>]
    /\ pump = [c \in Conn |-> FALSE]
    /\ copy = [c \in Conn |-> Empty]

JobEnded == {"none", "failed", "restart_required", "replaced", "killed"}
Settled ==
    /\ \A r \in UpdateRequest : http[r] \in {"idle", "done"} /\ stageOf[r] \in JobEnded
    /\ \A c \in Conn : up[c] = <<>>

\* app.Save of a record read as old and set to new.
SaveRecord(old, new) ==
    agentRow' = [f \in DOMAIN agentRow |-> IF new[f] # old[f] THEN new[f] ELSE agentRow[f]]

-----------------------------------------------------------------------------
\* handleAgentUpdate: the row is read before the command is sent.
ReadAgentRow(r) ==
    /\ http[r] = "idle"
    /\ "overlap" \in flowMay \/ Settled
    /\ read' = [read EXCEPT ![r] = agentRow]
    /\ http' = [http EXCEPT ![r] = "read"]
    /\ UNCHANGED <<flowMay, agentRow, woken, stageOf, runs, conn, up, pump, copy>>

\* dispatchUpdateCommand: the agent is unreachable, or the command is written and
\* reaches it unless the connection dies.
DispatchUpdate(r) ==
    /\ http[r] = "read"
    /\ \/ http' = [http EXCEPT ![r] = "gaveUp"] /\ UNCHANGED stageOf
       \/ /\ http' = [http EXCEPT ![r] = "waiting"]
          /\ stageOf' \in {[stageOf EXCEPT ![r] = "commanded"]} \union (IF "loss" \in flowMay THEN {stageOf} ELSE {})
    /\ UNCHANGED <<flowMay, agentRow, read, woken, runs, conn, up, pump, copy>>

Wake(r) ==
    /\ http[r] = "waiting" /\ woken[r] # "none"
    /\ http' = [http EXCEPT ![r] = IF woken[r] = "failed" THEN "gaveUp" ELSE "acked"]
    /\ woken' = [woken EXCEPT ![r] = "none"]
    /\ UNCHANGED <<flowMay, agentRow, read, stageOf, runs, conn, up, pump, copy>>

Timeout(r) ==
    /\ http[r] = "waiting" /\ woken[r] = "none"
    /\ http' = [http EXCEPT ![r] = "gaveUp"]
    /\ UNCHANGED <<flowMay, agentRow, read, woken, stageOf, runs, conn, up, pump, copy>>

\* What recordUpdateRequest sets.
Requested(old, r, ok) ==
    [old EXCEPT !.target = r, !.status = IF ok THEN "started" ELSE "failed", !.err = ~ok]

recordUpdateRequest(r) ==
    /\ http[r] \in {"acked", "gaveUp"}
    /\ SaveRecord(read[r], Requested(read[r], r, http[r] = "acked"))
    /\ http' = [http EXCEPT ![r] = "done"]
    /\ read' = [read EXCEPT ![r] = Empty]
    /\ UNCHANGED <<flowMay, woken, stageOf, runs, conn, up, pump, copy>>

-----------------------------------------------------------------------------
\* The agent's goroutines put a message on the present connection.
SendToHub(m) == up' = [up EXCEPT ![conn] = Append(@, m)]
SendStage(r, stage) ==
    /\ stageOf' = [stageOf EXCEPT ![r] = stage]
    /\ SendToHub([kind |-> "RESPONSE", req |-> r, stage |-> stage])
    /\ UNCHANGED <<hubSide, runs, conn>>

\* Refused when auto_update_enabled is off.
HandleUpdateCommand(r) ==
    stageOf[r] = "commanded" /\ \E stage \in {"started", "failed"} : SendStage(r, stage)

Progress(r) ==
    \/ stageOf[r] = "started" /\ SendStage(r, "downloading")
    \/ stageOf[r] = "downloading" /\ SendStage(r, "verifying")
    \/ stageOf[r] = "verifying" /\ SendStage(r, "installing")
    \/ stageOf[r] = "installing" /\ \E stage \in {"restarting", "restart_required"} : SendStage(r, stage)

ApplyFails(r) ==
    stageOf[r] \in {"started", "downloading", "verifying", "installing"} /\ SendStage(r, "failed")

\* A connection ends and another one begins with a REGISTER; what the hub has not
\* read of the old one may be lost.
NewConnection(version) ==
    /\ conn < MaxConns /\ conn' = conn + 1
    /\ \E k \in 0..Len(up[conn]) :
          /\ "loss" \in flowMay \/ k = Len(up[conn])
          /\ k < Len(up[conn]) => ~pump[conn] \/ k > 0
          /\ up' = [up EXCEPT ![conn] = SubSeq(@, 1, k),
                              ![conn + 1] = <<[kind |-> "REGISTER", version |-> version]>>]

Reconnect ==
    /\ "loss" \in flowMay
    /\ NewConnection(runs)
    /\ UNCHANGED <<hubSide, stageOf, runs>>

\* reexecOrExit: the new version connects; the other goroutines are gone.
RestartAgent(r) ==
    /\ stageOf[r] = "restarting"
    /\ NewConnection(r)
    /\ runs' = r
    /\ stageOf' = [q \in UpdateRequest |-> IF q = r THEN "replaced"
                                 ELSE IF stageOf[q] \in JobEnded THEN stageOf[q] ELSE "killed"]
    /\ UNCHANGED hubSide

-----------------------------------------------------------------------------
\* Mutant: the update is not completed.
MutantRegistered(old, version) == [old EXCEPT !.version = version]

\* handleRegister: the version is recorded and, if it is the one last asked for,
\* the update is done.
Registered(old, version) ==
    LET new == [old EXCEPT !.version = version] IN
    IF old.target = version /\ old.status # "done"
    THEN [new EXCEPT !.status = "done", !.err = FALSE] ELSE new

\* Mutant: restart_required is not taken for a status.
MutantReportedStages(old, stage) ==
    [old EXCEPT !.status = IF stage = "restart_required" THEN @ ELSE stage,
                !.err = IF stage = "failed" THEN TRUE
                        ELSE IF stage = "restart_required" THEN FALSE ELSE @]

\* Service.HandleResponse: the stage becomes the status; a failure brings its
\* error, restart_required clears one.
Reported(old, stage) ==
    [old EXCEPT !.status = stage,
                !.err = IF stage = "failed" THEN TRUE
                        ELSE IF stage = "restart_required" THEN FALSE ELSE @]

\* A read pump reads the row for the first message of its connection ...
LoadRow(c) ==
    /\ up[c] # <<>> /\ ~pump[c]
    /\ "overtaking" \in flowMay \/ \A d \in Conn : d < c => up[d] = <<>>
    /\ "late_save" \in flowMay \/ \A r \in UpdateRequest : http[r] \notin {"acked", "gaveUp"} /\ woken[r] = "none"
    /\ pump' = [pump EXCEPT ![c] = TRUE]
    /\ copy' = [copy EXCEPT ![c] = agentRow]
    /\ UNCHANGED <<flowMay, agentRow, http, read, woken, stageOf, runs, conn, up>>

\* ... and saves it; a response then goes to the broker, which wakes a waiting
\* handler with the first one.
StoreRow(c) ==
    /\ pump[c]
    /\ LET m == Head(up[c]) IN
       /\ \/ m.kind = "REGISTER" /\ SaveRecord(copy[c], Registered(copy[c], m.version)) /\ UNCHANGED woken
          \/ /\ m.kind = "RESPONSE" /\ SaveRecord(copy[c], Reported(copy[c], m.stage))
             /\ woken' = IF http[m.req] = "waiting" /\ woken[m.req] = "none"
                         THEN [woken EXCEPT ![m.req] = m.stage] ELSE woken
    /\ up' = [up EXCEPT ![c] = Tail(@)]
    /\ pump' = [pump EXCEPT ![c] = FALSE]
    /\ copy' = [copy EXCEPT ![c] = Empty]
    /\ UNCHANGED <<flowMay, http, read, stageOf, runs, conn>>

-----------------------------------------------------------------------------
HandlerStep(r) == DispatchUpdate(r) \/ Wake(r) \/ Timeout(r) \/ recordUpdateRequest(r)
AgentStep(r) == HandleUpdateCommand(r) \/ Progress(r) \/ ApplyFails(r) \/ RestartAgent(r)
FlowPumpStep(c) == LoadRow(c) \/ StoreRow(c)

FlowNext ==
    \/ \E r \in UpdateRequest : ReadAgentRow(r) \/ HandlerStep(r) \/ AgentStep(r)
    \/ \E c \in Conn : FlowPumpStep(c)
    \/ Reconnect

\* Goroutines keep running, every wait of theirs ends in a timeout.
FlowFairness ==
    /\ \A r \in UpdateRequest : WF_flowVars(HandlerStep(r)) /\ WF_flowVars(AgentStep(r))
    /\ \A c \in Conn : WF_flowVars(FlowPumpStep(c))

FlowSpec == FlowInit(FlowRegimes) /\ [][FlowNext]_flowVars /\ FlowFairness

-----------------------------------------------------------------------------
\* README.md:286-289, "the agent streams ... done/failed back to the hub, visible as
\* a live chip": the update the row names and the agent gave up on is shown as failed,
\* with its error, even where a connection is handled before an older one.
FailureIsShown ==
    flowMay \subseteq {"overtaking"} => \A r \in UpdateRequest :
        agentRow.target = r /\ stageOf[r] = "failed" => agentRow.status = "failed" /\ agentRow.err

\* README.md:289-292, "on the next REGISTER after restarting, the hub also
\* reconciles update_status to done if the reported version now matches what was
\* requested": undisturbed, an agent running the version asked for is shown as done,
\* and an error exactly with a failed update (ui/src/types/index.ts:52), also when a
\* second update follows the failure of a first.
UpdateIsReconciled ==
    flowMay = {} => /\ agentRow.target = runs => agentRow.status = "done"
                    /\ agentRow.err <=> agentRow.status = "failed"

\* The row shows the version the agent runs, whatever was lost on the way and however
\* late a handler saves: no save of an older copy brings an earlier version back.
VersionIsCurrent == "overtaking" \notin flowMay => agentRow.version = runs

\* When everything sent has been handled, the row tells what became of the update: its
\* failure, its success and the version the agent runs.
RowTellsOutcome == Settled => FailureIsShown /\ UpdateIsReconciled /\ VersionIsCurrent

\* The chip does not spin for ever: undisturbed, update_status reaches done, failed
\* or restart_required and stays there.
StatusSettles == flowMay = {} => <>[](agentRow.status \in Terminal)
=============================================================================
