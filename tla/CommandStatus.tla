--------------------------- MODULE CommandStatus ---------------------------
(***************************************************************************)
(* The command mailbox of the demo server: what one write of               *)
(* Commands.SubmitRequest leaves in Commands.Status and does to the        *)
(* machine.  observeSubmit runs to its end inside the write, so that every *)
(* entry is terminal when anybody can read the buffer.                     *)
(*                                                                         *)
(* The machine is a count of its changes: module FillingCell says what     *)
(* they are and when a command is refused.                                 *)
(***************************************************************************)
EXTENDS Naturals, Sequences, FiniteSets, SequencesExt

CONSTANTS CommandIds, Capacity, MaxTicks

ASSUME CommandStatusAssumption ==
    Capacity \in Nat \ {0} /\ MaxTicks \in Nat

VARIABLES
    history,            \* the values the buffer has had, the current one last,
                        \* each [revision, entries]
    seenCommandIds,     \* never shrinks, unlike the buffer
    machine,            \* how often the machine has changed
    telemetryRevision,
    executed,           \* history: how often a command id was executed
    ticks               \* bound on the timer

serverVars == <<history, seenCommandIds, machine,
                telemetryRevision, executed, ticks>>

status == Last(history)

\* The catalog has kinds with a payload and kinds without; a request may name a
\* kind that it does not have.
CommandKinds == {"Plain", "Typed", "Unknown"}

\* What a request carries in its payload fields.  A Blank payload passes the
\* client's schema and not the server's validation (a product name of spaces);
\* a Malformed one does not pass the schema.
Payloads == {"Absent", "Valid", "Blank", "Malformed"}

Requests == [id : CommandIds, kind : CommandKinds, payload : Payloads]

CommandStates == {"Observed", "Accepted", "Executing", "Completed", "Rejected",
                  "Failed", "Cancelled", "Superseded"}

\* The codes an entry ends with.  Only "Completed" stands for execution.
RejectionCodes == {"DuplicateCommandId", "UnknownCommandKind", "InvalidPayload",
                   "PayloadKindMismatch", "Unavailable"}
Entries == [sequence : Nat, commandId : CommandIds, state : CommandStates,
            statusCode : RejectionCodes \cup {"Completed"}]

isTerminalCommandState(state) ==
    state \in {"Completed", "Rejected", "Failed", "Cancelled", "Superseded"}

hasActiveCommand == \E i \in DOMAIN status.entries :
                        ~isTerminalCommandState(status.entries[i].state)

InitServer ==
    /\ history = <<[revision |-> 0, entries |-> <<>>]>>
    /\ seenCommandIds = {}
    /\ machine = 0 /\ telemetryRevision = 0
    /\ executed = [id \in CommandIds |-> 0] /\ ticks = 0

\* The buffer after an eviction where one is due: the oldest terminal entry
\* goes, or the oldest of all if none is terminal.
Evicted(entries) ==
    LET terminal == {i \in DOMAIN entries : isTerminalCommandState(entries[i].state)}
    IN  IF Len(entries) < Capacity THEN entries
        ELSE IF terminal = {} THEN Tail(entries)
        ELSE RemoveAt(entries, CHOOSE i \in terminal : \A j \in terminal : i <= j)

\* Defect: only the ids still in the buffer are refused.
VerdictRetained(request, outcome) ==
    IF \E i \in DOMAIN status.entries : status.entries[i].commandId = request.id
    THEN "DuplicateCommandId" ELSE outcome

\* How a request ends, where "outcome" is what the machine makes of a request
\* that reaches it: "Completed", or "Unavailable" if the state of the machine or
\* the handler refuses it.
Verdict(request, outcome) ==
    IF request.id \in seenCommandIds THEN "DuplicateCommandId"
    ELSE IF hasActiveCommand THEN "CommandBusy"
    ELSE IF request.kind = "Unknown" THEN "UnknownCommandKind"
    ELSE IF request.kind = "Typed" /\ request.payload # "Valid" THEN "InvalidPayload"
    ELSE IF request.kind = "Plain" /\ request.payload # "Absent" THEN "PayloadKindMismatch"
    ELSE outcome

\* The revision counts the observed commands, of which the server counts every
\* update; the position in the history is the sequence number.
observeSubmit(request, outcome) ==
    LET verdict == Verdict(request, outcome)
        entry == [sequence |-> Len(history), commandId |-> request.id,
                  state |-> IF verdict = "Completed" THEN "Completed" ELSE "Rejected",
                  statusCode |-> verdict]
        ran == IF verdict = "Completed" THEN 1 ELSE 0
    IN  /\ history' = Append(history,
                [revision |-> status.revision + 1,
                 entries |-> Append(Evicted(status.entries), entry)])
        /\ seenCommandIds' = seenCommandIds \cup {request.id}
        /\ machine' = machine + ran /\ telemetryRevision' = telemetryRevision + ran
        /\ executed' = [executed EXCEPT ![request.id] = @ + ran]
        /\ UNCHANGED ticks

\* Defect: the elapsed time is not worth a new revision.
ServerTickSilent ==
    /\ machine > 0 /\ ticks < MaxTicks
    /\ ticks' = ticks + 1 /\ machine' = machine + 1
    /\ UNCHANGED <<history, seenCommandIds, telemetryRevision, executed>>

\* The timer, while a batch runs, which takes a command to start: the elapsed
\* time is a change of the machine.
ServerTick ==
    /\ machine > 0 /\ ticks < MaxTicks
    /\ ticks' = ticks + 1
    /\ machine' = machine + 1 /\ telemetryRevision' = telemetryRevision + 1
    /\ UNCHANGED <<history, seenCommandIds, executed>>
=============================================================================
