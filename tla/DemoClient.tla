----------------------------- MODULE DemoClient -----------------------------
(***************************************************************************)
(* Clients of the demo machine.  A client layer monitors Commands.Status   *)
(* into a reference and lets one submit at a time write a request; each    *)
(* submit then waits for its command id to turn up in the reference, twice,*)
(* and each wait has its timeout.  One telemetry layer keeps a snapshot of *)
(* the machine, read anew when Telemetry.Revision has grown.               *)
(*                                                                         *)
(* What a layer gets of a monitored variable is any selection of the values*)
(* it has had, and in the end the last one: the sliding queues of module   *)
(* Monitor lose old samples and never the newest.  A stream may also end   *)
(* for good, which the layers swallow.                                     *)
(***************************************************************************)
EXTENDS CommandStatus

CONSTANTS
    Submits,        \* calls of submit, in all layers
    Layers,         \* client layers, each with its reference and its flag
    layerOf,        \* the layer of a submit
    requestOf,      \* what a submit asks for
    MaxFaults       \* bound on failures, interruptions and timeouts

ASSUME DemoClientAssumption ==
    /\ layerOf \in [Submits -> Layers] /\ requestOf \in [Submits -> Requests]
    /\ MaxFaults \in Nat

VARIABLES
    layer,          \* per layer, [statusRef, open, submitInProgress]
    submit,         \* per submit, [pc, found, result]
    wire,           \* per layer, the submits whose write is under way, in order
    telemetry,      \* [reading, snapshot, open, failed]
    failures          \* failures, interruptions and timeouts so far

clientVars == <<layer, submit, wire, telemetry, failures>>
vars == <<serverVars, clientVars>>

None == [none |-> TRUE]

idOf(s) == requestOf[s].id

\* The schemas of the commands let a request pass.
Decodes(s) == requestOf[s].payload # "Malformed"
pc(s) == submit[s].pc
Awaiting == {"observing", "waiting"}

Errors == {"InvalidCommandInput", "CommandSubmissionInProgress", "WriteFailed",
           "CommandObservationTimeout", "CommandTimeout", "Interrupted"}

\* What a read of all snapshot variables, in one request, is made into.
makeSnapshot == [revision |-> telemetryRevision, machine |-> machine]

\* A layer monitors its variable before it reads it for the first time.
InitClients ==
    /\ layer = [c \in Layers |->
          [statusRef |-> status, open |-> TRUE, submitInProgress |-> FALSE]]
    /\ submit = [s \in Submits |->
          [pc |-> "idle", found |-> None, result |-> None]]
    /\ wire = [c \in Layers |-> <<>>]
    /\ telemetry = [reading |-> FALSE, open |-> TRUE, failed |-> FALSE,
                    snapshot |-> makeSnapshot]
    /\ failures = 0

Init == InitServer /\ InitClients

Fault == failures < MaxFaults /\ failures' = failures + 1

-----------------------------------------------------------------------------
(* The status of a command layer.                                          *)

\* Defect: the first terminal entry, whoever's it is.
LookupAny(s, buffer) ==
    IF buffer.entries = <<>> THEN None ELSE Head(buffer.entries)

\* The first entry with the command id of s that satisfies the predicate of the
\* wait s is in.  Every entry is terminal, so that both waits take the same one.
Lookup(s, buffer) ==
    LET found == {i \in DOMAIN buffer.entries : buffer.entries[i].commandId = idOf(s)}
    IN  IF found = {} THEN None
        ELSE buffer.entries[CHOOSE i \in found : \A j \in found : i <= j]

\* A wait that has found nothing looks at every value of the reference.
Awake(c, buffer) ==
    [s \in Submits |->
        IF layerOf[s] = c /\ pc(s) \in Awaiting /\ submit[s].found = None
        THEN [submit[s] EXCEPT !.found = Lookup(s, buffer)] ELSE submit[s]]

DeliverStatus(c, next) ==
    /\ layer[c].open /\ next.revision > layer[c].statusRef.revision
    /\ layer' = [layer EXCEPT ![c].statusRef = next]
    /\ submit' = Awake(c, next)
    /\ UNCHANGED <<serverVars, wire, telemetry, failures>>

\* Effect.catch ends the fiber that updates the reference, and nothing else.
StatusStreamFails(c) ==
    /\ Fault
    /\ layer[c].open
    /\ layer' = [layer EXCEPT ![c].open = FALSE]
    /\ UNCHANGED <<serverVars, submit, wire, telemetry>>

-----------------------------------------------------------------------------
(* One submit.                                                             *)

Ends(s, result) ==
    submit' = [submit EXCEPT ![s].pc = "done", ![s].result = result, ![s].found = None]
Fails(s, error) == Ends(s, [error |-> error])

\* A caller that tries again is another submit with the same command id.
Begin(s) ==
    /\ pc(s) = "idle"
    /\ LET retained == Lookup(s, layer[layerOf[s]].statusRef) # None
           refused == ~Decodes(s) \/ retained IN
       submit' = [submit EXCEPT
          ![s].pc = IF refused THEN "done" ELSE "checked",
          ![s].result = IF refused THEN [error |-> "InvalidCommandInput"] ELSE None]
    /\ UNCHANGED <<serverVars, layer, wire, telemetry, failures>>

Acquire(s) ==
    /\ pc(s) = "checked"
    /\ LET c == layerOf[s] IN
       \/ /\ layer[c].submitInProgress
          /\ Fails(s, "CommandSubmissionInProgress")
          /\ UNCHANGED <<layer, wire>>
       \/ /\ ~layer[c].submitInProgress
          /\ layer' = [layer EXCEPT ![c].submitInProgress = TRUE]
          /\ wire' = [wire EXCEPT ![c] = Append(@, s)]
          /\ submit' = [submit EXCEPT ![s].pc = "writing"]
    /\ UNCHANGED <<serverVars, telemetry, failures>>

\* Writes of one session are served in the order they were sent.
ServeWrite(c) ==
    /\ wire[c] # <<>>
    /\ \E outcome \in {"Completed", "Unavailable"} :
          observeSubmit(requestOf[Head(wire[c])], outcome)
    /\ wire' = [wire EXCEPT ![c] = Tail(@)]
    /\ UNCHANGED <<layer, submit, telemetry, failures>>

Released(s) == [layer EXCEPT ![layerOf[s]].submitInProgress = FALSE]

\* The write has answered: the wait for the entry begins with a look at the
\* reference.
Answered(s) ==
    /\ pc(s) = "writing" /\ s \notin Range(wire[layerOf[s]])
    /\ layer' = Released(s)
    /\ submit' = [submit EXCEPT ![s].pc = "observing",
                                ![s].found = Lookup(s, layer[layerOf[s]].statusRef)]
    /\ UNCHANGED <<serverVars, wire, telemetry, failures>>

\* The write fails before or after the server has seen it.
WriteFails(s) ==
    /\ Fault
    /\ pc(s) = "writing"
    /\ layer' = Released(s)
    /\ LET c == layerOf[s] IN
       \/ UNCHANGED wire
       \/ \E i \in DOMAIN wire[c] :
             wire[c][i] = s /\ wire' = [wire EXCEPT ![c] = RemoveAt(@, i)]
    /\ Fails(s, "WriteFailed")
    /\ UNCHANGED <<serverVars, telemetry>>

\* Defect: an interrupted submit does not give the flag back.
InterruptLocked(s) ==
    /\ Fault
    /\ pc(s) \in {"checked", "writing"} \cup Awaiting
    /\ Fails(s, "Interrupted")
    /\ UNCHANGED <<serverVars, layer, wire, telemetry>>

\* An interrupted write is not taken back.
Interrupt(s) ==
    /\ Fault
    /\ pc(s) \in {"checked", "writing"} \cup Awaiting
    /\ layer' = IF pc(s) = "writing" THEN Released(s) ELSE layer
    /\ Fails(s, "Interrupted")
    /\ UNCHANGED <<serverVars, wire, telemetry>>

\* Defect: the second wait looks at new values of the reference only.
ObservedBlind(s) ==
    /\ pc(s) = "observing" /\ submit[s].found # None
    /\ submit' = [submit EXCEPT ![s].pc = "waiting", ![s].found = None]
    /\ UNCHANGED <<serverVars, layer, wire, telemetry, failures>>

Observed(s) ==
    /\ pc(s) = "observing" /\ submit[s].found # None
    /\ submit' = [submit EXCEPT ![s].pc = "waiting",
                                ![s].found = Lookup(s, layer[layerOf[s]].statusRef)]
    /\ UNCHANGED <<serverVars, layer, wire, telemetry, failures>>

Terminal(s) ==
    /\ pc(s) = "waiting" /\ submit[s].found # None
    /\ Ends(s, submit[s].found)
    /\ UNCHANGED <<serverVars, layer, wire, telemetry, failures>>

\* Either timer may fire at any time, also when the entry is there.
Timeout(s) ==
    /\ Fault
    /\ \/ pc(s) = "observing" /\ Fails(s, "CommandObservationTimeout")
       \/ pc(s) = "waiting" /\ Fails(s, "CommandTimeout")
    /\ UNCHANGED <<serverVars, layer, wire, telemetry>>

-----------------------------------------------------------------------------
(* The telemetry layer.                                                    *)

\* A sample that is no newer than the snapshot is passed over.
TakeRevision(revision) ==
    /\ telemetry.open /\ ~telemetry.reading
    /\ revision > telemetry.snapshot.revision
    /\ telemetry' = [telemetry EXCEPT !.reading = TRUE]
    /\ UNCHANGED <<serverVars, layer, submit, wire, failures>>

\* Defect: the snapshot is filed under the revision after the one it shows.
SnapshotReadAhead ==
    /\ telemetry.reading
    /\ telemetry' = [telemetry EXCEPT
          !.reading = FALSE,
          !.snapshot = [makeSnapshot EXCEPT !.revision = @ + 1]]
    /\ UNCHANGED <<serverVars, layer, submit, wire, failures>>

\* A snapshot older than the last one would be thrown away, and there is none.
SnapshotRead ==
    /\ telemetry.reading /\ telemetryRevision >= telemetry.snapshot.revision
    /\ telemetry' = [telemetry EXCEPT
          !.reading = FALSE, !.snapshot = makeSnapshot]
    /\ UNCHANGED <<serverVars, layer, submit, wire, failures>>

\* A failed read is swallowed; its sample is gone.
SnapshotReadFails ==
    /\ Fault
    /\ telemetry.reading
    /\ telemetry' = [telemetry EXCEPT !.reading = FALSE, !.failed = TRUE]
    /\ UNCHANGED <<serverVars, layer, submit, wire>>

TelemetryStreamFails ==
    /\ Fault
    /\ telemetry.open /\ ~telemetry.reading
    /\ telemetry' = [telemetry EXCEPT !.open = FALSE]
    /\ UNCHANGED <<serverVars, layer, submit, wire>>

-----------------------------------------------------------------------------
(* The specification.                                                      *)

ServerTicks == ServerTick /\ UNCHANGED clientVars

SubmitStep(s) == Acquire(s) \/ Answered(s) \/ Observed(s) \/ Terminal(s)

\* The last value of each variable comes through, unless its stream ends.
Progress ==
    \/ \E c \in Layers : DeliverStatus(c, status) \/ ServeWrite(c)
    \/ \E s \in Submits : SubmitStep(s)
    \/ TakeRevision(telemetryRevision) \/ SnapshotRead

Next ==
    \/ Progress
    \/ \E s \in Submits : Begin(s) \/ WriteFails(s) \/ Interrupt(s) \/ Timeout(s)
    \/ \E c \in Layers, next \in Range(history) : DeliverStatus(c, next)
    \/ \E c \in Layers : StatusStreamFails(c)
    \/ \E revision \in 0..telemetryRevision : TakeRevision(revision)
    \/ SnapshotReadFails \/ TelemetryStreamFails
    \/ ServerTicks

\* Nothing obliges a caller to begin, the timers to fire or the machine to run:
\* what the server has been sent and what has been sampled goes its way.
Spec == Init /\ [][Next]_vars /\ WF_vars(Progress)

-----------------------------------------------------------------------------
(* Properties.                                                             *)

Buffers == {b \in [revision : Nat, entries : Seq(Entries)] : Len(b.entries) <= Capacity}

\* Type invariant.  No entry ever ends in CommandBusy: the server finishes a
\* command before it looks at the next one.
DemoTypeOK ==
    /\ history \in Seq(Buffers) /\ history # <<>>
    /\ seenCommandIds \subseteq CommandIds
    /\ machine \in Nat /\ telemetryRevision \in Nat /\ ticks \in 0..MaxTicks
    /\ executed \in [CommandIds -> Nat]
    /\ layer \in [Layers -> [statusRef : Buffers, open : BOOLEAN,
                             submitInProgress : BOOLEAN]]
    /\ wire \in [Layers -> Seq(Submits)]
    /\ submit \in [Submits ->
          [pc : {"idle", "checked", "writing", "done"} \cup Awaiting,
           found : Entries \cup {None},
           result : Entries \cup [error : Errors] \cup {None}]]
    /\ failures \in 0..MaxFaults
    /\ telemetry \in [reading : BOOLEAN, open : BOOLEAN, failed : BOOLEAN,
                      snapshot : [revision : Nat, machine : Nat]]

\* A command id is executed at most once, however often it is submitted, by
\* whichever clients, with whatever timeouts and retries in between, also after
\* its entry has left the buffer.
ExecutedAtMostOnce == \A i \in CommandIds : executed[i] <= 1

\* What a submit returns is true of its command id: Completed means executed,
\* and any other rejection than that of a duplicate means never executed.
OutcomeIsTrue ==
    \A s \in Submits :
       LET r == submit[s].result IN
       r \in Entries =>
          /\ r.commandId = idOf(s)
          /\ r.state = "Completed" => executed[idOf(s)] = 1
          /\ r.statusCode \in RejectionCodes \ {"DuplicateCommandId"} =>
                executed[idOf(s)] = 0

\* The submit flag of a layer is set exactly while one of its submits is
\* writing, whatever fails or is interrupted: two handshakes never overlap, and
\* the layer never stays locked.
FlagIsHeld ==
    \A c \in Layers :
       LET writers == {s \in Submits : layerOf[s] = c /\ pc(s) = "writing"}
       IN  /\ layer[c].submitInProgress = (writers # {})
           /\ Cardinality(writers) <= 1

\* A submit that is made ends without help of the timers, unless its entry is
\* evicted before the layer has sampled it, or the status stream has ended.
SubmitsSettle ==
    []<>(\A s \in Submits :
            \/ pc(s) \in {"idle", "done"}
            \/ \A i \in DOMAIN status.entries : status.entries[i].commandId # idOf(s)
            \/ ~layer[layerOf[s]].open)

\* A snapshot is what the machine is at the snapshot's revision: two states of
\* the machine never share a revision.
SnapshotIsCoherent ==
    telemetry.snapshot.revision = telemetryRevision => telemetry.snapshot.machine = machine

\* The snapshot keeps up with the machine, unless a read of it failed or the
\* revision stream ended: it is then stale until the next change, or for good.
SnapshotCatchesUp ==
    []<>(\/ telemetry.snapshot.machine = machine
         \/ telemetry.failed \/ ~telemetry.open)

=============================================================================
