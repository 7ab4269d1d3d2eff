------------------------------ MODULE Lifecycle ------------------------------
(***************************************************************************)
(* The nested scopes of packages/client: a client, a session of the client *)
(* and a subscription of the session, levels 1 to 3.  Opening a level      *)
(* makes its event bus, the object of node-opcua and the listeners, and    *)
(* leaves one finalizer for each; closing a level runs the finalizers of   *)
(* it and of the levels within, last in first out.                         *)
(*                                                                         *)
(* Acquiring in Effect.acquireRelease cannot be interrupted: an            *)
(* interruption is noticed when the call has settled, so that the branches *)
(* for an aborted signal never run.  The caller opens at the innermost     *)
(* level and may close any; options that are refused (before anything is   *)
(* made) and what a level is used for meanwhile are left out.              *)
(***************************************************************************)
EXTENDS Naturals, SequencesExt

CONSTANTS
    EVENT_BUFFER_SIZE,
    Watched,    \* the levels whose events somebody reads
    MaxOpens,   \* bound on how often a level is opened
    MaxEvents,  \* bound on the events of the emitters of node-opcua
    MaxFaults   \* bound on the calls that fail

ASSUME LifecycleAssumption ==
    /\ EVENT_BUFFER_SIZE \in Nat \ {0} /\ Watched \subseteq 1..3
    /\ MaxOpens \in Nat /\ MaxEvents \in Nat /\ MaxFaults \in Nat

VARIABLES
    phase,          \* "using", "opening" or "closing"
    built,          \* how many levels are open
    position,       \* the next step of the level that is being opened
    goal,           \* the outermost level that is being closed
    awaiting,       \* the call that has not settled, "none", "open" or "close"
    interrupted,
    finalizers,     \* those that are still to run, [level, undo]
    raw,            \* "none", "created", "open", "closed", or "left" if that failed
    listening,      \* the listeners that are on, [level, listener]
    bus,            \* per level, [state, replay]: the last event, if there was one
    reader,         \* per level, one reader of the events
    opens, emitted, faults

scopeVars == <<phase, built, position, goal, awaiting, interrupted, finalizers>>
bounds == <<opens, emitted, faults>>
vars == <<scopeVars, raw, listening, bus, reader, bounds>>

Levels == 1..3
Events == {"Connected", "Emitted", "Disconnected"}
CLIENT == 1
SESSION == 2

\* The steps of make, makeClientService and makeSubscriptionRuntime.
Steps(l) ==
    IF l = CLIENT THEN <<"bus", "create", "wire", "open">>
    ELSE IF l = SESSION THEN <<"bus", "open", "wire", "caches">>
    ELSE <<"bus", "open", "wire">>

NoReader == [state |-> "none", backlog |-> <<>>, seen |-> {}, missed |-> FALSE]

Init ==
    /\ phase = "using" /\ built = 0 /\ position = 0 /\ goal = 0
    /\ awaiting = "none" /\ interrupted = FALSE /\ finalizers = <<>>
    /\ raw = [l \in Levels |-> "none"]
    /\ listening = {}
    /\ bus = [l \in Levels |-> [state |-> "none", replay |-> <<>>]]
    /\ reader = [l \in Levels |-> NoReader]
    /\ opens = [l \in Levels |-> 0] /\ emitted = 0 /\ faults = 0

-----------------------------------------------------------------------------
(* The event bus, a PubSub of Effect: a reader that waits gets an event at *)
(* once, one that is busy finds it in its buffer, unless that overflows.   *)

Delivered(r, event) ==
    IF r.state = "waiting" THEN {[r EXCEPT !.state = "busy", !.seen = @ \cup {event}]}
    ELSE IF r.state # "busy" THEN {r}
    ELSE IF Len(r.backlog) < EVENT_BUFFER_SIZE THEN {[r EXCEPT !.backlog = Append(@, event)]}
    ELSE {[r EXCEPT !.missed = TRUE],
          [r EXCEPT !.missed = TRUE, !.backlog = Append(Tail(@), event)]}

publishUnsafe(l, event) ==
    IF bus[l].state = "open"
    THEN /\ bus' = [bus EXCEPT ![l].replay = <<event>>]
         /\ \E r \in Delivered(reader[l], event) : reader' = [reader EXCEPT ![l] = r]
    ELSE UNCHANGED <<bus, reader>>

\* Somebody runs the stream of the events; the replay comes first, and who comes
\* after the close may have missed it.
Subscribe(l) ==
    /\ l \in Watched /\ bus[l].state = "open" /\ reader[l].state = "none"
    /\ reader' = [reader EXCEPT ![l].state = "busy", ![l].backlog = bus[l].replay,
                                ![l].missed = raw[l] = "closed"]
    /\ UNCHANGED <<scopeVars, raw, listening, bus, bounds>>

Taken(r) ==
    IF r.backlog = <<>> THEN [r EXCEPT !.state = "waiting"]
    ELSE [r EXCEPT !.backlog = Tail(@), !.seen = @ \cup {Head(r.backlog)}]

TakeEvent(l) ==
    /\ reader[l].state = "busy"
    /\ reader' = [reader EXCEPT ![l] = Taken(reader[l])]
    /\ UNCHANGED <<scopeVars, raw, listening, bus, bounds>>

\* node-opcua emits an event; the caches of a session are not modelled here.
Emit(l) ==
    /\ [level |-> l, listener |-> "events"] \in listening
    /\ emitted < MaxEvents /\ emitted' = emitted + 1
    /\ publishUnsafe(l, "Emitted")
    /\ UNCHANGED <<scopeVars, raw, listening, opens, faults>>

-----------------------------------------------------------------------------
(* Opening a level.                                                        *)

level == built + 1
Register(undo) == finalizers' = Append(finalizers, [level |-> level, undo |-> undo])
AtStep(step) ==
    /\ phase = "opening" /\ ~interrupted /\ awaiting = "none"
    /\ Steps(level)[position] = step

\* The step is done; after the last one the level is open.
Advance ==
    IF position = Len(Steps(level))
    THEN phase' = "using" /\ built' = level /\ position' = 0
    ELSE position' = position + 1 /\ UNCHANGED <<phase, built>>

Open ==
    /\ phase = "using" /\ built < 3 /\ opens[level] < MaxOpens
    /\ opens' = [opens EXCEPT ![level] = @ + 1]
    /\ phase' = "opening" /\ position' = 1
    /\ UNCHANGED <<built, goal, awaiting, interrupted, finalizers, raw, listening, bus,
                   reader, emitted, faults>>

MakeBus ==
    /\ AtStep("bus")
    /\ bus' = [bus EXCEPT ![level] = [state |-> "open", replay |-> <<>>]]
    /\ reader' = [reader EXCEPT ![level] = NoReader]
    /\ raw' = [raw EXCEPT ![level] = "none"]
    /\ Register("shutdown") /\ Advance
    /\ UNCHANGED <<goal, awaiting, interrupted, listening, bounds>>

Create ==
    /\ AtStep("create")
    /\ raw' = [raw EXCEPT ![level] = "created"]
    /\ Advance
    /\ UNCHANGED <<goal, awaiting, interrupted, finalizers, listening, bus, reader, bounds>>

Listen(step, listener) ==
    /\ AtStep(step)
    /\ listening' = listening \cup {[level |-> level, listener |-> listener]}
    /\ Register(listener) /\ Advance
    /\ UNCHANGED <<goal, awaiting, interrupted, raw, bus, reader, bounds>>

wireEmitter == Listen("wire", "events")
WatchRestores == Listen("caches", "caches")

RequestOpen ==
    /\ AtStep("open")
    /\ awaiting' = "open"
    /\ UNCHANGED <<phase, built, position, goal, interrupted, finalizers, raw, listening,
                   bus, reader, bounds>>

\* Defect: the finalizer is only registered if nobody has interrupted meanwhile.
OpenedUnlessInterrupted ==
    /\ awaiting = "open" /\ awaiting' = "none"
    /\ raw' = [raw EXCEPT ![level] = "open"]
    /\ IF level = CLIENT THEN publishUnsafe(CLIENT, "Connected") ELSE UNCHANGED <<bus, reader>>
    /\ IF interrupted THEN UNCHANGED finalizers ELSE Register("close")
    /\ Advance
    /\ UNCHANGED <<goal, interrupted, listening, bounds>>

Opened ==
    /\ awaiting = "open" /\ awaiting' = "none"
    /\ raw' = [raw EXCEPT ![level] = "open"]
    /\ IF level = CLIENT THEN publishUnsafe(CLIENT, "Connected") ELSE UNCHANGED <<bus, reader>>
    /\ Register("close") /\ Advance
    /\ UNCHANGED <<goal, interrupted, listening, bounds>>

\* A level that could not be opened closes with the scope it was opened in.
OpeningFails ==
    /\ phase' = "closing" /\ goal' \in 1..level
    /\ position' = 0 /\ awaiting' = "none" /\ interrupted' = FALSE
    /\ UNCHANGED <<built, finalizers, raw, listening, bus, reader, opens, emitted>>

CreateThrows ==
    /\ AtStep("create")
    /\ faults < MaxFaults /\ faults' = faults + 1
    /\ OpeningFails

OpenFails ==
    /\ awaiting = "open"
    /\ faults < MaxFaults /\ faults' = faults + 1
    /\ OpeningFails

Interrupt ==
    /\ phase = "opening" /\ awaiting = "open" /\ ~interrupted
    /\ interrupted' = TRUE
    /\ UNCHANGED <<phase, built, position, goal, awaiting, finalizers, raw, listening, bus,
                   reader, bounds>>

\* The call has settled: an interrupted caller goes no further, also if its level
\* is the last step away from being open.
Interrupted ==
    /\ interrupted /\ awaiting = "none"
    /\ IF phase = "opening" THEN goal' \in 1..level ELSE goal' \in 1..built
    /\ phase' = "closing" /\ position' = 0 /\ interrupted' = FALSE
    /\ UNCHANGED <<built, awaiting, finalizers, raw, listening, bus, reader, bounds>>

-----------------------------------------------------------------------------
(* Closing the levels from goal on.                                        *)

CloseScope(l) ==
    /\ phase = "using" /\ ~interrupted /\ l <= built
    /\ phase' = "closing" /\ goal' = l
    /\ UNCHANGED <<built, position, awaiting, interrupted, finalizers, raw, listening, bus,
                   reader, bounds>>

nextIndex == Len(finalizers)
next == finalizers[nextIndex]
Unregister == finalizers' = Front(finalizers)
ToRun(undo) ==
    /\ phase = "closing" /\ awaiting = "none" /\ finalizers # <<>>
    /\ next.level >= goal /\ next.undo = undo

Ended(r) ==
    IF r.state \in {"waiting", "busy"}
    THEN [r EXCEPT !.state = "ended", !.missed = @ \/ r.backlog # <<>>, !.backlog = <<>>]
    ELSE r

Shutdown ==
    /\ ToRun("shutdown")
    /\ bus' = [bus EXCEPT ![next.level].state = "shutdown"]
    /\ reader' = [reader EXCEPT ![next.level] = Ended(reader[next.level])]
    /\ Unregister
    /\ UNCHANGED <<phase, built, position, goal, awaiting, interrupted, raw, listening, bounds>>

ListenersOff ==
    /\ (ToRun("events") \/ ToRun("caches"))
    /\ listening' = listening \ {[level |-> next.level, listener |-> next.undo]}
    /\ Unregister
    /\ UNCHANGED <<phase, built, position, goal, awaiting, interrupted, raw, bus, reader, bounds>>

\* disconnect, close(true) or terminate.
RequestClose ==
    /\ ToRun("close")
    /\ awaiting' = "close"
    /\ UNCHANGED <<phase, built, position, goal, interrupted, finalizers, raw, listening,
                   bus, reader, bounds>>

\* Defect: nobody is told of the disconnect.
ClosedQuietly ==
    /\ awaiting = "close" /\ awaiting' = "none"
    /\ raw' = [raw EXCEPT ![next.level] = "closed"]
    /\ Unregister
    /\ UNCHANGED <<phase, built, position, goal, interrupted, listening, bus, reader, bounds>>

Closed ==
    /\ awaiting = "close" /\ awaiting' = "none"
    /\ raw' = [raw EXCEPT ![next.level] = "closed"]
    /\ IF next.level = CLIENT THEN publishUnsafe(CLIENT, "Disconnected")
       ELSE UNCHANGED <<bus, reader>>
    /\ Unregister
    /\ UNCHANGED <<phase, built, position, goal, interrupted, listening, bounds>>

\* Defect: a close that failed is tried again.
CloseFailsAndRetries ==
    /\ awaiting = "close" /\ awaiting' = "none"
    /\ faults < MaxFaults
    /\ raw' = [raw EXCEPT ![next.level] = "left"]
    /\ UNCHANGED <<phase, built, position, goal, interrupted, finalizers, listening, bus,
                   reader, bounds>>

\* Failures to close are ignored.
CloseFails ==
    /\ awaiting = "close" /\ awaiting' = "none"
    /\ faults < MaxFaults /\ faults' = faults + 1
    /\ raw' = [raw EXCEPT ![next.level] = "left"]
    /\ Unregister
    /\ UNCHANGED <<phase, built, position, goal, interrupted, listening, bus, reader, opens,
                   emitted>>

ScopeClosed ==
    /\ phase = "closing" /\ awaiting = "none"
    /\ finalizers # <<>> => next.level < goal
    /\ phase' = "using" /\ built' = goal - 1
    /\ UNCHANGED <<position, goal, awaiting, interrupted, finalizers, raw, listening, bus,
                   reader, bounds>>

-----------------------------------------------------------------------------
Opening == MakeBus \/ Create \/ wireEmitter \/ WatchRestores \/ RequestOpen \/ Opened
Closing == Shutdown \/ ListenersOff \/ RequestClose \/ Closed \/ ScopeClosed

Next ==
    \/ Opening \/ Closing \/ Interrupted
    \/ Open \/ Interrupt \/ CreateThrows \/ OpenFails \/ CloseFails
    \/ \E l \in Levels : CloseScope(l) \/ Subscribe(l) \/ TakeEvent(l) \/ Emit(l)

\* The steps of the code are taken, and the calls of node-opcua settle; nobody has
\* to open or close a level, to interrupt or to read events.
Spec == Init /\ [][Next]_vars /\ WF_vars(Opening \/ Closing \/ Interrupted)

-----------------------------------------------------------------------------
(* Properties.                                                             *)

Undos == [level : Levels, undo : {"shutdown", "events", "caches", "close"}]
Buses == [state : {"none", "open", "shutdown"}, replay : Seq(Events)]
Readers == [state : {"none", "waiting", "busy", "ended"}, backlog : Seq(Events),
            seen : SUBSET Events, missed : BOOLEAN]

\* Type invariant.
LifecycleTypeOK ==
    /\ phase \in {"using", "opening", "closing"} /\ built \in 0..3 /\ goal \in 0..3
    /\ position \in 0..4 /\ awaiting \in {"none", "open", "close"}
    /\ interrupted \in BOOLEAN
    /\ finalizers \in Seq(Undos)
    /\ raw \in [Levels -> {"none", "created", "open", "closed", "left"}]
    /\ listening \subseteq [level : Levels, listener : {"events", "caches"}]
    /\ bus \in [Levels -> Buses] /\ reader \in [Levels -> Readers]
    /\ opens \in [Levels -> 0..MaxOpens]
    /\ emitted \in 0..MaxEvents /\ faults \in 0..MaxFaults

\* The levels nest.  Once a level is closed, or could not be opened, nothing of it
\* stays: no open connection, session or subscription (unless closing it failed), no
\* listener and no event stream.  No session is open on a connection that is closed
\* or about to be, and no subscription on such a session; and no listener publishes
\* into a bus that has been shut down.
ScopesNest ==
    /\ phase = "using" =>
          \A l \in Levels : l > built =>
              /\ raw[l] # "open" /\ bus[l].state # "open"
              /\ \A on \in listening : on.level # l
    /\ \A l \in {2, 3} : raw[l] = "open" =>
          raw[l - 1] = "open" /\ ~(awaiting = "close" /\ next.level = l - 1)
    /\ \A on \in listening : bus[on.level].state = "open"

\* Whoever reads the client's events and keeps up learns of the disconnect before
\* the stream ends, if there was one.
ReadersLearnOfDisconnect ==
    raw[CLIENT] = "closed" /\ reader[CLIENT].state = "ended" /\ ~reader[CLIENT].missed
        => "Disconnected" \in reader[CLIENT].seen

\* Opening a level ends, interrupted or not, and so does closing one, also if a
\* call to close something fails.
ScopesSettle == []<>(phase = "using")
=============================================================================
