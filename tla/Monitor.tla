------------------------------ MODULE Monitor ------------------------------
(***************************************************************************)
(* One call of subscription.monitor (internal/monitoring/runtime.ts), from *)
(* the validation of its items to the close of the scope it runs in.       *)
(*                                                                         *)
(* The actors are the monitor fiber and the chunk fibers it forks, the     *)
(* promises node-opcua settles, the callbacks of the monitored item        *)
(* groups, the reader of the sample stream and the owner of the scope, who *)
(* may interrupt the fiber and closes the scope once the fiber has ended.  *)
(* JavaScript runs to completion, so an action is what runs between two    *)
(* awaits.                                                                 *)
(*                                                                         *)
(* Items are numbered in dictionary order.  A chunk, its request and the   *)
(* group it creates are named by the chunk's first item.                   *)
(***************************************************************************)
EXTENDS EffectQueue, FiniteSets

CONSTANTS
  NumItems,               \* number of monitored items
  Compat,                 \* compatibility key of each item
  MaxItemsPerRequest,     \* options.create
  MaxConcurrentRequests,
  Startups,               \* the options a call may have: subsets of
  Validations,            \*   the modes and policies of MonitorOptions
  Policies,
  InterruptPoints,        \* where the owner may interrupt the fiber
  MaxNotifications        \* bound on the "changed" notifications handled

Items == 1..NumItems

None == 0                 \* no group is being awaited

ASSUME MonitorAssumption ==
  /\ NumItems \in Nat \ {0}
  /\ MaxItemsPerRequest \in Nat \ {0}
  /\ MaxConcurrentRequests \in Nat \ {0}
  /\ Startups \subseteq {"strict", "bestEffort"}
  /\ Validations \subseteq {"none", "access", "strict"}
  /\ Policies \subseteq [tag : {"Sliding", "Dropping"}, capacity : Nat \ {0}]
  /\ InterruptPoints \subseteq {"validating", "creating", "cleaning"}
  /\ MaxNotifications \in Nat

VARIABLES
  options,     \* startup mode, validation mode and buffer policy of the call
  fiber,       \* where the monitor fiber is
  valid,       \* the items that passed validation
  call,        \* per chunk: the fiber that runs createMonitorChunk
  active,      \* items accepted by the server, as the chunks report them
  failed,      \* items rejected by validation or creation
  group,       \* per chunk: the ClientMonitoredItemGroup
  lost,        \* groups the server has ended by itself
  registry,    \* createdGroups
  finalizing,  \* finalizingMonitorGroups
  cleaning,    \* the local array of the strict failure's cleanupMonitor
  closing,     \* the local array of the finalizer's cleanupMonitor
  at,          \* the group whose termination cleanupMonitor awaits
  scope,       \* the scope the monitor was called in
  wired,       \* groups with the three listeners of wireMonitorGroup
  queue,       \* notificationQueue
  sent,        \* "changed" notifications handled so far
  received,    \* what the reader of monitor.samples has taken
  reader,      \* how the sample stream stands
  drops,       \* ClientBufferDropped events
  events       \* the other subscription events, with their group

startupVars == <<options, fiber, valid, call, active, failed>>
groupVars   == <<group, lost, registry, finalizing>>
cleanupVars == <<cleaning, closing, at, scope>>
streamVars  == <<wired, queue, sent, received, reader, drops, events>>
vars        == <<startupVars, groupVars, cleanupVars, streamVars>>

NoQueue == [state |-> "unmade", buffer |-> <<>>]

Ended == {"started", "rejected", "interrupted"}

-----------------------------------------------------------------------------
(* The chunks: items of one compatibility key, in order, split by length.  *)

Rank(i) == Cardinality({j \in valid : Compat[j] = Compat[i] /\ j <= i})

SameChunk(i, j) ==
  /\ Compat[i] = Compat[j]
  /\ (Rank(i) - 1) \div MaxItemsPerRequest = (Rank(j) - 1) \div MaxItemsPerRequest

Chunk(i) == {j \in valid : SameChunk(i, j)}

Leaders == {i \in valid : \A j \in Chunk(i) : i <= j}

\* Requests are started key by key, in order of the first item of the key.
KeyPosition(i) ==
  CHOOSE k \in Items : /\ k \in valid /\ Compat[k] = Compat[i]
                       /\ \A j \in valid : Compat[j] = Compat[i] => k <= j

Before(l, m) ==
  \/ KeyPosition(l) < KeyPosition(m)
  \/ KeyPosition(l) = KeyPosition(m) /\ l < m

Running == {l \in Items : call[l] \in {"inFlight", "resolved", "terminating"}}

-----------------------------------------------------------------------------
Init ==
  /\ options \in [startup : Startups, validation : Validations, policy : Policies]
  /\ fiber = "validating"
  /\ valid = {} /\ active = {} /\ failed = {}
  /\ call = [l \in Items |-> "idle"]
  /\ group = [l \in Items |-> "none"]
  /\ lost = {} /\ registry = {} /\ finalizing = {}
  /\ cleaning = {} /\ closing = {} /\ at = None /\ scope = "open"
  /\ wired = {} /\ queue = NoQueue /\ sent = 0 /\ received = <<>>
  /\ reader = "reading" /\ drops = 0 /\ events = {}

(***************************************************************************)
(* Startup.                                                                *)
(***************************************************************************)

\* validateStartupItems: any item may be rejected unless validation is "none".
\* A strict monitor fails here, before there is a queue or a finalizer.
Validate(bad) ==
  /\ fiber = "validating"
  /\ options.validation = "none" => bad = {}
  /\ valid' = Items \ bad
  /\ failed' = bad
  /\ IF options.startup = "strict" /\ bad # {}
     THEN fiber' = "rejected" /\ UNCHANGED queue
     ELSE fiber' = "creating" /\ queue' = EmptyQueue
  /\ UNCHANGED <<options, call, active, groupVars, cleanupVars,
                 wired, sent, received, reader, drops, events>>

StartRequest(l) ==
  /\ fiber = "creating"
  /\ l \in Leaders /\ call[l] = "idle"
  /\ \A m \in Leaders : Before(m, l) => call[m] # "idle"
  /\ Cardinality(Running) < MaxConcurrentRequests
  /\ call' = [call EXCEPT ![l] = "inFlight"]
  /\ UNCHANGED <<options, fiber, valid, active, failed,
                 groupVars, cleanupVars, streamVars>>

\* Mutant: a failed request is left out of the report.
RequestFailsSilently(l) ==
  /\ call[l] = "inFlight"
  /\ call' = [call EXCEPT ![l] = "done"]
  /\ UNCHANGED <<options, fiber, valid, active, failed,
                 groupVars, cleanupVars, streamVars>>

RequestFails(l) ==
  /\ call[l] = "inFlight"
  /\ call' = [call EXCEPT ![l] = "done"]
  /\ failed' = failed \union Chunk(l)
  /\ UNCHANGED <<options, fiber, valid, active, groupVars, cleanupVars, streamVars>>

\* monitorItemsSuccess before an abort: the abort listener guards the group
\* until the chunk fiber resumes.
RequestSucceeds(l) ==
  /\ call[l] = "inFlight"
  /\ call' = [call EXCEPT ![l] = "resolved"]
  /\ group' = [group EXCEPT ![l] = "live"]
  /\ UNCHANGED <<options, fiber, valid, active, failed,
                 lost, registry, finalizing, cleanupVars, streamVars>>

\* The rest of createMonitorChunk; good are the items with a good status.
Resume(l, good) ==
  /\ call[l] = "resolved"
  /\ good \subseteq Chunk(l)
  /\ registry' = registry \union {l}
  /\ active' = active \union good
  /\ failed' = failed \union (Chunk(l) \ good)
  /\ IF good = {}
     THEN /\ call' = [call EXCEPT ![l] = "terminating"]
          /\ group' = [group EXCEPT ![l] = "terminating"]
     ELSE /\ call' = [call EXCEPT ![l] = "done"]
          /\ UNCHANGED group
  /\ UNCHANGED <<options, fiber, valid, lost, finalizing, cleanupVars, streamVars>>

\* Mutant: the terminated group stays in createdGroups.
ChunkTerminatedKept(l) ==
  /\ call[l] = "terminating" /\ group[l] = "ended"
  /\ call' = [call EXCEPT ![l] = "done"]
  /\ UNCHANGED <<options, fiber, valid, active, failed,
                 groupVars, cleanupVars, streamVars>>

\* The end of terminateCreatedMonitorGroup, which is uninterruptible.
ChunkTerminated(l) ==
  /\ call[l] = "terminating" /\ group[l] = "ended"
  /\ call' = [call EXCEPT ![l] = "done"]
  /\ registry' = registry \ {l}
  /\ UNCHANGED <<options, fiber, valid, active, failed,
                 group, lost, finalizing, cleanupVars, streamVars>>

AllChunksDone == \A l \in Leaders : call[l] = "done"

StrictFailure == options.startup = "strict" /\ failed # {}

\* Mutant: only groups with rejected items are cleaned up.
FailStartupPartly ==
  /\ fiber = "creating" /\ AllChunksDone /\ StrictFailure
  /\ fiber' = "cleaning"
  /\ cleaning' = {l \in registry : Chunk(l) \intersect failed # {}}
  /\ registry' = {}
  /\ UNCHANGED <<options, valid, call, active, failed, group, lost, finalizing,
                 closing, at, scope, streamVars>>

\* Strict startup with failures: cleanupMonitor splices createdGroups away.
FailStartup ==
  /\ fiber = "creating" /\ AllChunksDone /\ StrictFailure
  /\ fiber' = "cleaning"
  /\ cleaning' = registry
  /\ registry' = {}
  /\ UNCHANGED <<options, valid, call, active, failed, group, lost, finalizing,
                 closing, at, scope, streamVars>>

\* Every retained group is wired and the active monitor is returned.
ReturnMonitor ==
  /\ fiber = "creating" /\ AllChunksDone /\ ~StrictFailure
  /\ fiber' = "started"
  /\ wired' = {l \in Leaders : Chunk(l) \intersect active # {}}
  /\ events' = events \union {<<"MonitorItemsCreated", l>> : l \in wired'}
  /\ UNCHANGED <<options, valid, call, active, failed, groupVars, cleanupVars,
                 queue, sent, received, reader, drops>>

(***************************************************************************)
(* Interruption of the monitor fiber.                                      *)
(***************************************************************************)

InterruptValidation ==
  /\ fiber = "validating" /\ "validating" \in InterruptPoints
  /\ fiber' = "interrupted"
  /\ UNCHANGED <<options, valid, call, active, failed,
                 groupVars, cleanupVars, streamVars>>

\* Mutant: no abort listener between the settled promise and the registration.
InterruptCreationUnguarded ==
  /\ fiber = "creating" /\ "creating" \in InterruptPoints
  /\ Running # {}
  /\ fiber' = "interrupting"
  /\ call' = [l \in Items |-> CASE call[l] = "inFlight" -> "aborted"
                                [] call[l] = "resolved" -> "done"
                                [] OTHER -> call[l]]
  /\ UNCHANGED <<options, valid, active, failed, groupVars, cleanupVars, streamVars>>

\* Every chunk fiber is interrupted: the signal of a pending request is
\* aborted, the abort listener of a resolved one terminates its group.
InterruptCreation ==
  /\ fiber = "creating" /\ "creating" \in InterruptPoints
  /\ Running # {}
  /\ fiber' = "interrupting"
  /\ call' = [l \in Items |-> CASE call[l] = "inFlight" -> "aborted"
                                [] call[l] = "resolved" -> "done"
                                [] OTHER -> call[l]]
  /\ group' = [l \in Items |-> IF call[l] = "resolved" THEN "terminating" ELSE group[l]]
  /\ UNCHANGED <<options, valid, active, failed, lost, registry, finalizing,
                 cleanupVars, streamVars>>

\* Mutant: the interruption also waits for chunks that were never started.
InterruptedAll ==
  /\ fiber = "interrupting"
  /\ \A l \in Leaders : call[l] = "done"
  /\ fiber' = "interrupted"
  /\ UNCHANGED <<options, valid, call, active, failed,
                 groupVars, cleanupVars, streamVars>>

\* The fiber ends once its uninterruptible chunks have.
Interrupted ==
  /\ fiber = "interrupting"
  /\ \A l \in Items : call[l] # "terminating"
  /\ fiber' = "interrupted"
  /\ UNCHANGED <<options, valid, call, active, failed,
                 groupVars, cleanupVars, streamVars>>

\* The cleanup of a strict failure runs in the fiber and is interruptible;
\* what is left in its local array is out of reach from then on.
InterruptCleanup ==
  /\ fiber = "cleaning" /\ "cleaning" \in InterruptPoints
  /\ at # None
  /\ fiber' = "interrupted"
  /\ at' = None
  /\ UNCHANGED <<options, valid, call, active, failed, groupVars,
                 cleaning, closing, scope, streamVars>>

\* A request that was aborted settles: its group is terminated on arrival.
LateGroup(l) ==
  /\ call[l] = "aborted"
  /\ call' = [call EXCEPT ![l] = "done"]
  /\ group' = [group EXCEPT ![l] = "terminating"]
  /\ UNCHANGED <<options, fiber, valid, active, failed,
                 lost, registry, finalizing, cleanupVars, streamVars>>

LateFailure(l) ==
  /\ call[l] = "aborted"
  /\ call' = [call EXCEPT ![l] = "done"]
  /\ UNCHANGED <<options, fiber, valid, active, failed,
                 groupVars, cleanupVars, streamVars>>

(***************************************************************************)
(* Cleanup: in the fiber after a strict failure, in the scope's finalizer. *)
(***************************************************************************)

\* terminateMonitorGroup is called for the next group of the local array.
Terminate(l) ==
  /\ at = None
  /\ at' = l
  /\ finalizing' = finalizing \union {l}
  /\ group' = [group EXCEPT ![l] = "terminating"]

CleanNext(l) ==
  /\ fiber = "cleaning" /\ l \in cleaning
  /\ Terminate(l)
  /\ cleaning' = cleaning \ {l}
  /\ UNCHANGED <<startupVars, lost, registry, closing, scope, streamVars>>

CloseNext(l) ==
  /\ scope = "closing" /\ l \in closing
  /\ Terminate(l)
  /\ closing' = closing \ {l}
  /\ UNCHANGED <<startupVars, lost, registry, cleaning, scope, streamVars>>

\* The awaited termination has settled; its failure is ignored.
Awaited ==
  /\ at # None /\ group[at] = "ended"
  /\ at' = None
  /\ UNCHANGED <<startupVars, groupVars, cleaning, closing, scope, streamVars>>

CleanDone ==
  /\ fiber = "cleaning" /\ cleaning = {} /\ at = None
  /\ fiber' = "rejected"
  /\ queue' = Shutdown(queue)
  /\ UNCHANGED <<options, valid, call, active, failed, groupVars, cleanupVars,
                 wired, sent, received, reader, drops, events>>

\* The owner closes the scope.  The finalizer exists once the queue does; it
\* removes the listeners and splices createdGroups away.
CloseScope ==
  /\ fiber \in Ended /\ scope = "open"
  /\ IF queue = NoQueue
     THEN scope' = "closed" /\ UNCHANGED <<wired, closing, registry>>
     ELSE /\ scope' = "closing"
          /\ wired' = {}
          /\ closing' = registry
          /\ registry' = {}
  /\ UNCHANGED <<startupVars, group, lost, finalizing, cleaning, at,
                 queue, sent, received, reader, drops, events>>

ScopeClosed ==
  /\ scope = "closing" /\ closing = {} /\ at = None
  /\ scope' = "closed"
  /\ queue' = Shutdown(queue)
  /\ UNCHANGED <<startupVars, groupVars, cleaning, closing, at,
                 wired, sent, received, reader, drops, events>>

(***************************************************************************)
(* The callbacks of a wired group, and what the server does to a group.    *)
(***************************************************************************)

Exists(l) == group[l] \in {"live", "terminating"}

\* Mutant: only refused offers count as dropped.
LosesOneRefused == ~Accepts(queue, options.policy)

\* offerMonitorNotification: an offer now evicts a notification or is refused.
LosesOne ==
  \/ options.policy.tag = "Sliding" /\ Size(queue) >= options.policy.capacity
  \/ ~Accepts(queue, options.policy)

\* onChanged for an accepted item.
Notify(l) ==
  /\ Exists(l) /\ l \notin lost /\ l \in wired /\ sent < MaxNotifications
  /\ sent' = sent + 1
  /\ drops' = IF LosesOne THEN drops + 1 ELSE drops
  /\ queue' = Offer(queue, options.policy, sent')
  /\ UNCHANGED <<startupVars, groupVars, cleanupVars, wired, received, reader, events>>

Listening(l) == l \in wired /\ l \notin finalizing

\* Mutant: the queue is not failed.
FailRuntimePublished(l, tags) ==
  /\ events' = IF Listening(l)
               THEN events \union {<<t, l>> : t \in tags \union {"InternalError"}}
               ELSE events
  /\ UNCHANGED queue

\* failRuntime, reached from onError and onTerminatedGroup.
FailRuntime(l, tags) ==
  IF Listening(l)
  THEN /\ events' = events \union {<<t, l>> : t \in tags \union {"InternalError"}}
       /\ queue' = Fail(queue)
  ELSE UNCHANGED <<events, queue>>

GroupError(l) ==
  /\ Exists(l) /\ l \in wired
  /\ FailRuntime(l, {})
  /\ UNCHANGED <<startupVars, groupVars, cleanupVars,
                 wired, sent, received, reader, drops>>

\* The server ends the group; before the wiring nobody listens.
GroupTerminated(l) ==
  /\ Exists(l) /\ l \notin lost
  /\ lost' = lost \union {l}
  /\ FailRuntime(l, {"MonitorItemsTerminated"})
  /\ UNCHANGED <<startupVars, group, registry, finalizing, cleanupVars,
                 wired, sent, received, reader, drops>>

\* A terminate() of ours settles; node-opcua emits "terminated" for it too.
TerminateSettles(l) ==
  /\ group[l] = "terminating"
  /\ group' = [group EXCEPT ![l] = "ended"]
  /\ FailRuntime(l, {"MonitorItemsTerminated"})
  /\ UNCHANGED <<startupVars, lost, registry, finalizing, cleanupVars,
                 wired, sent, received, reader, drops>>

(***************************************************************************)
(* The reader of monitor.samples.                                          *)
(***************************************************************************)

Read ==
  /\ fiber = "started" /\ reader = "reading" /\ Size(queue) > 0
  /\ received' = Append(received, Head(queue.buffer))
  /\ queue' = Take(queue)
  /\ UNCHANGED <<startupVars, groupVars, cleanupVars,
                 wired, sent, reader, drops, events>>

StreamEnds ==
  /\ fiber = "started" /\ reader = "reading" /\ IsDone(queue)
  /\ reader' = IF queue.state = "failed" THEN "failed" ELSE "ended"
  /\ UNCHANGED <<startupVars, groupVars, cleanupVars,
                 wired, queue, sent, received, drops, events>>

-----------------------------------------------------------------------------
Startup ==
  \/ \E bad \in SUBSET Items : Validate(bad)
  \/ \E l \in Items : StartRequest(l) \/ ChunkTerminated(l)
  \/ \E l \in Items : \E good \in SUBSET Chunk(l) : Resume(l, good)
  \/ FailStartup \/ ReturnMonitor

Interruption == InterruptValidation \/ InterruptCreation \/ InterruptCleanup

Cleanup ==
  \/ \E l \in Items : CleanNext(l) \/ CloseNext(l)
  \/ Awaited \/ CleanDone \/ ScopeClosed \/ Interrupted

\* A promise of node-opcua settles.
Settles(l) ==
  \/ RequestFails(l) \/ RequestSucceeds(l)
  \/ LateGroup(l) \/ LateFailure(l)
  \/ TerminateSettles(l)

GroupEvent == \E l \in Items : Notify(l) \/ GroupError(l) \/ GroupTerminated(l)

Next ==
  \/ Startup \/ Interruption \/ Cleanup \/ CloseScope
  \/ \E l \in Items : Settles(l)
  \/ GroupEvent \/ Read \/ StreamEnds

Spec == Init /\ [][Next]_vars

(***************************************************************************)
(* Fairness: the runtime keeps running the fibers and the finalizer,       *)
(* node-opcua settles every promise (its transactions time out), and the   *)
(* reader of the stream keeps pulling.  Nothing makes the owner interrupt  *)
(* or close, or the server notify.                                         *)
(***************************************************************************)
Fairness ==
  /\ WF_vars(Startup) /\ WF_vars(Cleanup)
  /\ \A l \in Items : WF_vars(Settles(l))
  /\ WF_vars(Read) /\ WF_vars(StreamEnds)

FairSpec == Spec /\ Fairness
-----------------------------------------------------------------------------
(***************************************************************************)
(* Properties.                                                             *)
(***************************************************************************)

CallStates  == {"idle", "inFlight", "aborted", "resolved", "terminating", "done"}
FiberStates == {"validating", "creating", "cleaning", "interrupting"} \union Ended
EventTags   == {"MonitorItemsCreated", "MonitorItemsTerminated", "InternalError"}

\* Type correctness of the state of a monitor call.
TypeOK ==
  /\ options \in [startup : Startups, validation : Validations, policy : Policies]
  /\ fiber \in FiberStates
  /\ valid \subseteq Items /\ active \subseteq Items /\ failed \subseteq Items
  /\ call \in [Items -> CallStates]
  /\ group \in [Items -> {"none", "live", "terminating", "ended"}]
  /\ lost \subseteq Items /\ registry \subseteq Items /\ finalizing \subseteq Items
  /\ cleaning \subseteq Items /\ closing \subseteq Items
  /\ at \in Items \union {None} /\ scope \in {"open", "closing", "closed"}
  /\ wired \subseteq Items
  /\ queue = NoQueue \/ queue \in QueueOf(1..MaxNotifications)
  /\ sent \in 0..MaxNotifications /\ drops \in 0..sent
  /\ received \in Seq(1..MaxNotifications)
  /\ reader \in {"reading", "failed", "ended"}
  /\ events \subseteq EventTags \X Items

\* Who will terminate group l: the abort listener of its request, the
\* registry (the finalizer reads it), or the array of a running cleanup.
Holders(l) ==
  {h \in {"listener", "registry", "cleaning", "closing"} :
     CASE h = "listener" -> call[l] = "resolved"
       [] h = "registry" -> l \in registry
       [] h = "cleaning" -> l \in cleaning
       [] h = "closing"  -> l \in closing}

\* A group on the server that nobody has asked to end has exactly one holder
\* (createMonitorChunk, cleanupMonitor and the abort listener hand it over
\* without a gap and without sharing it), and a cleanup only ever holds groups
\* that were not terminated before.
OneHolder ==
  \A l \in Items :
    /\ group[l] = "live" => Cardinality(Holders(l)) = 1
    /\ l \in cleaning \union closing => group[l] = "live"

\* README 242: closing or interrupting the scope terminates the created groups.
\* No group is left without a terminate() once the scope has closed.
NoGroupOutlivesScope ==
  scope = "closed" => \A l \in Items : group[l] # "live"

\* The only way to leave a group behind is to interrupt a strict call while its
\* cleanup awaits another group: what leaks was in that cleanup's array.
LeakNeedsInterruptedCleanup ==
  \A l \in Items :
    scope = "closed" /\ group[l] = "live" =>
      /\ options.startup = "strict" /\ failed # {}
      /\ fiber = "interrupted" /\ l \in cleaning

\* monitoring.md 69: a strict call that fails has first terminated, and waited
\* for, every group it created.
RejectedLeavesNothing ==
  fiber = "rejected" => \A l \in Items : group[l] \in {"none", "ended"}

\* The startup report of a monitor accounts for each item exactly once, strict
\* monitors report no failure, and until the scope closes every accepted item
\* is in a group that is held and listened to.
ReportIsTrue ==
  fiber = "started" =>
    /\ active \union failed = Items /\ active \intersect failed = {}
    /\ options.startup = "strict" => failed = {}
    /\ scope = "open" =>
         \A i \in active : \E l \in wired \intersect registry :
           i \in Chunk(l) /\ group[l] = "live"

\* MonitorItemsCreated is only published for groups of a monitor that was
\* returned; a failed strict startup never announces its groups.
OnlyStartedIsAnnounced ==
  events # {} => fiber = "started"

\* monitoring.md 105: each notification is read, buffered or announced by a
\* ClientBufferDropped; none disappears and none is announced twice, until the
\* shutdown discards the buffer.
EveryLossIsAnnounced ==
  scope # "closed" => sent = Len(received) + Size(queue) + drops

\* A sliding buffer (BufferPolicy.latest among them) never loses the newest
\* notification while the queue is open.
NewestIsKept ==
  options.policy.tag = "Sliding" /\ queue.state = "open" /\ sent > 0 =>
    LET samples == received \o queue.buffer
    IN samples # <<>> /\ samples[Len(samples)] = sent

\* A call to monitor ends, whatever requests fail and however it is interrupted.
CallEnds == <>(fiber \in Ended)

\* A runtime failure that was published as InternalError (an "err" or a
\* "terminated" of a group while it is listened to) fails the sample stream, also
\* when the scope closes before the buffered samples were read.
RuntimeFailureReachesReader ==
  (\E l \in Items : <<"InternalError", l>> \in events) ~> reader = "failed"

-----------------------------------------------------------------------------
\* The refinement mapping to MonitorContract.
Contract == INSTANCE MonitorContract WITH
  Groups   <- Items,
  outcome  <- IF fiber \in Ended THEN fiber ELSE "starting",
  held     <- {l \in Items : group[l] = "live"},
  released <- {l \in Items : group[l] \in {"terminating", "ended"}},
  forsaken <- IF fiber = "interrupted" THEN cleaning ELSE {}

\* A monitor call keeps the contract: it forsakes what is left in the array of an
\* interrupted cleanup, and nothing if the cleanup is not interrupted.
KeepsContract == Contract!Spec
=============================================================================
