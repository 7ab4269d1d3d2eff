---------------------------- MODULE MonitorProof ----------------------------
(***************************************************************************)
(* Proofs about Monitor for every number of items, every chunking, every   *)
(* set of options and every bound.                                         *)
(***************************************************************************)
EXTENDS Monitor, FiniteSetTheorems, WellFoundedInduction, TLAPS

(***************************************************************************)
(* The queue.                                                              *)
(***************************************************************************)

\* Offering to a queue yields a queue.
LEMMA OfferType ==
  ASSUME NEW M, NEW q \in QueueOf(M), NEW m \in M,
         NEW policy \in [tag : {"Sliding", "Dropping"}, capacity : Nat \ {0}]
  PROVE  Offer(q, policy, m) \in QueueOf(M)
<1>1. q.state \in QueueStates /\ q.buffer \in Seq(M)
  BY DEF QueueOf
<1>2. ~(Size(q) < policy.capacity) => Tail(q.buffer) \in Seq(M)
  BY <1>1 DEF Size
<1>3. Append(IF Size(q) < policy.capacity THEN q.buffer ELSE Tail(q.buffer), m) \in Seq(M)
  BY <1>1, <1>2
<1> QED BY <1>1, <1>3 DEF Offer, QueueOf, QueueStates

\* So do failing, shutting down and taking; what is taken is a message.
LEMMA QueueTypes ==
  ASSUME NEW M, NEW q \in QueueOf(M)
  PROVE  /\ Fail(q) \in QueueOf(M)
         /\ Shutdown(q) \in QueueOf(M)
         /\ Size(q) > 0 => Take(q) \in QueueOf(M) /\ Head(q.buffer) \in M
<1>1. q.state \in QueueStates /\ q.buffer \in Seq(M)
  BY DEF QueueOf
<1>2. Fail(q) \in QueueOf(M) /\ Shutdown(q) \in QueueOf(M)
  BY <1>1 DEF Fail, Shutdown, QueueOf, QueueStates
<1>3. Size(q) > 0 => Take(q) \in QueueOf(M) /\ Head(q.buffer) \in M
  <2>1. Size(q) > 0 => Tail(q.buffer) \in Seq(M) /\ Head(q.buffer) \in M
    BY <1>1 DEF Size
  <2> QED BY <1>1, <2>1 DEF Take, QueueOf, QueueStates
<1> QED BY <1>2, <1>3

(***************************************************************************)
(* Type correctness.                                                       *)
(***************************************************************************)

\* The queue of a call, which is unmade until validation has passed.
CallQueues == {NoQueue} \union QueueOf(1..MaxNotifications)

\* The operations of the call's queue keep it one of those.
LEMMA CallQueueTypes ==
  ASSUME NEW q \in CallQueues
  PROVE  /\ Fail(q) \in CallQueues /\ Shutdown(q) \in CallQueues
         /\ Size(q) > 0 =>
              Take(q) \in CallQueues /\ Head(q.buffer) \in 1..MaxNotifications
         /\ \A policy \in Policies, m \in 1..MaxNotifications :
              Offer(q, policy, m) \in CallQueues
<1>1. CASE q = NoQueue
  <2>1. q.state = "unmade" /\ q.buffer = <<>>
    BY <1>1 DEF NoQueue
  <2> QED BY <1>1, <2>1 DEF CallQueues, NoQueue, Offer, Accepts, Fail, Shutdown, Size
<1>2. CASE q \in QueueOf(1..MaxNotifications)
  <2>1. ASSUME NEW policy \in Policies, NEW m \in 1..MaxNotifications
        PROVE  Offer(q, policy, m) \in CallQueues
    BY <1>2, OfferType, MonitorAssumption DEF CallQueues
  <2> QED BY <1>2, <2>1, QueueTypes DEF CallQueues
<1> QED BY <1>1, <1>2 DEF CallQueues

\* A chunk is named by one of the items.
LEMMA LeadersAreItems == ASSUME valid \subseteq Items PROVE Leaders \subseteq Items
BY DEF Leaders

\* A chunk holds items of the call.
LEMMA ChunkIsItems == ASSUME valid \subseteq Items, NEW l PROVE Chunk(l) \subseteq Items
BY DEF Chunk

\* Every step keeps the types.
LEMMA TypeStep == TypeOK /\ [Next]_vars => TypeOK'
<1> SUFFICES ASSUME TypeOK, [Next]_vars PROVE TypeOK'
  OBVIOUS
<1>q. queue \in CallQueues
  BY DEF TypeOK, CallQueues
<1> USE DEF TypeOK, startupVars, groupVars, cleanupVars, streamVars, CallStates,
            FiberStates, Ended, None
<1>1. ASSUME NEW bad \in SUBSET Items, Validate(bad) PROVE TypeOK'
  <2>1. EmptyQueue \in QueueOf(1..MaxNotifications)
    BY DEF EmptyQueue, QueueOf, QueueStates
  <2> QED BY <1>1, <2>1 DEF Validate
<1>2. ASSUME NEW l \in Items, StartRequest(l) \/ ChunkTerminated(l) PROVE TypeOK'
  BY <1>2 DEF StartRequest, ChunkTerminated
<1>3. ASSUME NEW l \in Items, NEW good \in SUBSET Chunk(l), Resume(l, good) PROVE TypeOK'
  BY <1>3, ChunkIsItems DEF Resume
<1>4. CASE FailStartup
  BY <1>4 DEF FailStartup
<1>5. CASE ReturnMonitor
  <2>1. wired' \subseteq Items
    BY <1>5, LeadersAreItems DEF ReturnMonitor
  <2>2. events' \subseteq EventTags \X Items
    BY <1>5, <2>1 DEF ReturnMonitor, EventTags
  <2> QED BY <1>5, <2>1, <2>2 DEF ReturnMonitor
<1>6. CASE InterruptValidation \/ InterruptCreation \/ InterruptCleanup \/ Interrupted
  BY <1>6 DEF InterruptValidation, InterruptCreation, InterruptCleanup, Interrupted
<1>7. ASSUME NEW l \in Items, CleanNext(l) \/ CloseNext(l) PROVE TypeOK'
  BY <1>7 DEF CleanNext, CloseNext, Terminate
<1>8. CASE Awaited
  BY <1>8 DEF Awaited
<1>9. CASE CleanDone \/ ScopeClosed
  BY <1>9, <1>q, CallQueueTypes DEF CleanDone, ScopeClosed, CallQueues
<1>10. CASE CloseScope
  BY <1>10 DEF CloseScope
<1>11. ASSUME NEW l \in Items, Settles(l) PROVE TypeOK'
  <2>1. CASE RequestFails(l)
    BY <2>1, ChunkIsItems DEF RequestFails
  <2>2. CASE RequestSucceeds(l) \/ LateGroup(l) \/ LateFailure(l)
    BY <2>2 DEF RequestSucceeds, LateGroup, LateFailure
  <2>3. CASE TerminateSettles(l)
    BY <2>3, <1>q, CallQueueTypes DEF TerminateSettles, FailRuntime, EventTags, CallQueues
  <2> QED BY <1>11, <2>1, <2>2, <2>3 DEF Settles
<1>12. ASSUME NEW l \in Items, Notify(l) \/ GroupError(l) \/ GroupTerminated(l) PROVE TypeOK'
  <2>1. CASE Notify(l)
    <3>1. sent' \in 1..MaxNotifications /\ sent' = sent + 1
      BY <2>1, MonitorAssumption DEF Notify
    <3>2. queue' \in CallQueues
      BY <2>1, <3>1, <1>q, CallQueueTypes DEF Notify
    <3>3. drops' \in 0..sent'
      BY <2>1, <3>1, MonitorAssumption DEF Notify
    <3> QED BY <2>1, <3>1, <3>2, <3>3 DEF Notify, CallQueues
  <2>2. CASE GroupError(l) \/ GroupTerminated(l)
    BY <2>2, <1>q, CallQueueTypes DEF GroupError, GroupTerminated, FailRuntime, EventTags, CallQueues
  <2> QED BY <1>12, <2>1, <2>2
<1>13. CASE Read
  BY <1>13, <1>q, CallQueueTypes DEF Read, CallQueues
<1>14. CASE StreamEnds
  BY <1>14 DEF StreamEnds
<1>15. CASE UNCHANGED vars
  BY <1>15 DEF vars, QueueOf
<1> QED
  BY <1>1, <1>2, <1>3, <1>4, <1>5, <1>6, <1>7, <1>8, <1>9, <1>10, <1>11, <1>12,
     <1>13, <1>14, <1>15
  DEF Next, Startup, Interruption, Cleanup, GroupEvent

\* Every reachable state of a monitor call is well typed.
THEOREM TypeCorrect == Spec => []TypeOK
<1>1. Init => TypeOK
  BY MonitorAssumption DEF Init, TypeOK, CallStates, FiberStates, EventTags, None
<1> QED BY <1>1, TypeStep, PTL DEF Spec

(***************************************************************************)
(* Who holds a group.  OneHolder and the invariants after it do not follow *)
(* from themselves: they need where the fiber is when a chunk is in a      *)
(* certain state, and what the arrays and the scope say of each other.     *)
(***************************************************************************)

\* What the state of a chunk says of its group.
ChunkInv ==
  \A l \in Items :
    /\ call[l] # "idle" => l \in Leaders
    /\ call[l] \in {"idle", "inFlight", "aborted"} => group[l] = "none"
    /\ call[l] = "resolved" => group[l] = "live"
    /\ call[l] = "terminating" => group[l] \in {"terminating", "ended"}

\* Where a live group is held, and that no group is held twice.
HolderInv ==
  \A l \in Items :
    /\ group[l] = "live" =>
         call[l] = "resolved" \/ l \in registry \union cleaning \union closing
    /\ l \in registry =>
         \/ group[l] = "live" /\ call[l] = "done"
         \/ call[l] = "terminating"
    /\ l \in cleaning \union closing => group[l] = "live" /\ call[l] = "done"

\* What the place of the fiber says of chunks, arrays and scope.
FiberInv ==
  /\ fiber \notin Ended => scope = "open"
  /\ fiber = "validating" => queue = NoQueue /\ \A l \in Items : call[l] = "idle"
  /\ fiber \in {"creating", "interrupting"} => queue # NoQueue
  /\ fiber \notin {"creating", "interrupting"} =>
       \A l \in Items : call[l] # "terminating"
  /\ fiber # "creating" => \A l \in Items : call[l] \notin {"inFlight", "resolved"}
  /\ fiber \in {"validating", "creating"} =>
       \A l \in Items : call[l] = "done" => group[l] # "terminating"
  /\ fiber \notin {"interrupting", "interrupted"} =>
       \A l \in Items : call[l] # "aborted"
  /\ fiber \in {"cleaning", "rejected"} =>
       \A l \in Items : group[l] = "terminating" => at = l
  /\ fiber = "rejected" => cleaning = {} /\ registry = {} /\ closing = {} /\ at = None
  /\ fiber = "cleaning" => StrictFailure /\ registry = {} /\ queue # NoQueue
  /\ fiber \in {"validating", "creating", "interrupting"} => at = None

\* The arrays of createdGroups are handed from one owner to the next.
ArrayInv ==
  /\ cleaning # {} =>
       /\ \/ fiber = "cleaning"
          \/ fiber = "interrupted" /\ "cleaning" \in InterruptPoints
       /\ StrictFailure /\ registry = {} /\ closing = {}
  /\ scope = "open" => closing = {}
  /\ scope # "open" => registry = {}
  /\ scope = "closed" => closing = {}
  /\ queue = NoQueue => registry = {} /\ \A l \in Items : call[l] = "idle"

GroupInv == ChunkInv /\ HolderInv /\ FiberInv /\ ArrayInv

\* No operation makes the call's queue or takes it away.
LEMMA QueueStaysMade ==
  ASSUME NEW q \in CallQueues
  PROVE  /\ Fail(q) = NoQueue <=> q = NoQueue
         /\ Shutdown(q) = NoQueue <=> q = NoQueue
         /\ Size(q) > 0 => (Take(q) = NoQueue <=> q = NoQueue)
         /\ \A policy \in Policies, m \in 1..MaxNotifications :
              Offer(q, policy, m) = NoQueue <=> q = NoQueue
<1>1. CASE q = NoQueue
  BY <1>1 DEF NoQueue, Offer, Accepts, Fail, Shutdown, Size
<1>2. CASE q \in QueueOf(1..MaxNotifications)
  <2>1. \A r \in QueueOf(1..MaxNotifications) : r # NoQueue
    BY DEF QueueOf, QueueStates, NoQueue
  <2>2. ASSUME NEW policy \in Policies, NEW m \in 1..MaxNotifications
        PROVE  Offer(q, policy, m) \in QueueOf(1..MaxNotifications)
    BY <1>2, OfferType, MonitorAssumption
  <2> QED BY <1>2, <2>1, <2>2, QueueTypes
<1> QED BY <1>1, <1>2 DEF CallQueues

\* The chunks depend on the valid items only.
LEMMA SameChunks ==
  ASSUME UNCHANGED valid
  PROVE  Leaders' = Leaders /\ \A l : Chunk(l)' = Chunk(l)
BY DEF Leaders, Chunk, SameChunk, Rank

\* The invariant about groups holds before validation.
LEMMA GroupInit == Init => GroupInv
BY DEF Init, GroupInv, ChunkInv, HolderInv, FiberInv, ArrayInv, Ended, None, NoQueue

\* Startup keeps track of every group.
LEMMA StartupStep == TypeOK /\ GroupInv /\ Startup => GroupInv'
<1> SUFFICES ASSUME TypeOK, GroupInv, Startup PROVE GroupInv'
  OBVIOUS
<1> USE DEF TypeOK, GroupInv, ChunkInv, HolderInv, FiberInv, ArrayInv, StrictFailure,
            startupVars, groupVars, cleanupVars, streamVars, Ended, None
<1>1. ASSUME NEW bad \in SUBSET Items, Validate(bad) PROVE GroupInv'
  <2>1. EmptyQueue # NoQueue
    BY DEF EmptyQueue, NoQueue
  <2> QED BY <1>1, <2>1 DEF Validate
<1>2. ASSUME NEW l \in Items, StartRequest(l) PROVE GroupInv'
  BY <1>2, SameChunks DEF StartRequest
<1>3. ASSUME NEW l \in Items, ChunkTerminated(l) PROVE GroupInv'
  BY <1>3, SameChunks DEF ChunkTerminated
<1>4. ASSUME NEW l \in Items, NEW good \in SUBSET Chunk(l), Resume(l, good) PROVE GroupInv'
  <2>1. CASE good = {}
    BY <1>4, <2>1, SameChunks DEF Resume
  <2>2. CASE good # {}
    BY <1>4, <2>2, SameChunks DEF Resume
  <2> QED BY <2>1, <2>2
<1>5. CASE FailStartup
  BY <1>5, SameChunks DEF FailStartup, AllChunksDone
<1>6. CASE ReturnMonitor
  BY <1>6, SameChunks DEF ReturnMonitor, AllChunksDone
<1> QED BY <1>1, <1>2, <1>3, <1>4, <1>5, <1>6 DEF Startup

\* So do interruption, the two cleanups and the close of the scope.
LEMMA CleanupStep ==
  TypeOK /\ GroupInv /\ (Interruption \/ Cleanup \/ CloseScope) => GroupInv'
<1> SUFFICES ASSUME TypeOK, GroupInv, Interruption \/ Cleanup \/ CloseScope
             PROVE  GroupInv'
  OBVIOUS
<1>q. queue \in CallQueues
  BY DEF TypeOK, CallQueues
<1> USE DEF TypeOK, GroupInv, ChunkInv, HolderInv, FiberInv, ArrayInv, StrictFailure,
            startupVars, groupVars, cleanupVars, streamVars, Ended, None
<1>1. CASE InterruptValidation
  BY <1>1, SameChunks DEF InterruptValidation
<1>2. CASE InterruptCreation
  BY <1>2, SameChunks DEF InterruptCreation
<1>3. CASE InterruptCleanup
  BY <1>3, SameChunks DEF InterruptCleanup
<1>4. ASSUME NEW l \in Items, CleanNext(l) PROVE GroupInv'
  <2>1. /\ fiber = "cleaning" /\ l \in cleaning /\ at = None
        /\ cleaning' = cleaning \ {l} /\ at' = l
        /\ group' = [group EXCEPT ![l] = "terminating"]
        /\ UNCHANGED <<startupVars, lost, registry, closing, scope, streamVars>>
    BY <1>4 DEF CleanNext, Terminate
  <2>2. \A k \in Items : group[k] # "terminating" /\ k \notin registry \union closing
    BY <2>1 DEF Items
  <2>3. ChunkInv' /\ HolderInv'
    BY <2>1, <2>2, SameChunks
  <2>4. FiberInv' /\ ArrayInv'
    BY <2>1, <2>2, SameChunks
  <2> QED BY <2>3, <2>4
<1>5. ASSUME NEW l \in Items, CloseNext(l) PROVE GroupInv'
  BY <1>5, SameChunks DEF CloseNext, Terminate
<1>6. CASE Awaited
  BY <1>6, SameChunks DEF Awaited
<1>7. CASE CleanDone \/ ScopeClosed
  BY <1>7, <1>q, SameChunks, QueueStaysMade DEF CleanDone, ScopeClosed
<1>8. CASE Interrupted
  BY <1>8, SameChunks DEF Interrupted
<1>9. CASE CloseScope
  BY <1>9, SameChunks DEF CloseScope
<1> QED BY <1>1, <1>2, <1>3, <1>4, <1>5, <1>6, <1>7, <1>8, <1>9 DEF Interruption, Cleanup

\* So do the promises of node-opcua, the group callbacks and the reader.
LEMMA EnvironmentStep ==
  TypeOK /\ GroupInv
  /\ ((\E l \in Items : Settles(l)) \/ GroupEvent \/ Read \/ StreamEnds)
  => GroupInv'
<1> SUFFICES ASSUME TypeOK, GroupInv,
                    (\E l \in Items : Settles(l)) \/ GroupEvent \/ Read \/ StreamEnds
             PROVE  GroupInv'
  OBVIOUS
<1>q. queue \in CallQueues
  BY DEF TypeOK, CallQueues
<1> USE DEF TypeOK, GroupInv, ChunkInv, HolderInv, FiberInv, ArrayInv, StrictFailure,
            startupVars, groupVars, cleanupVars, streamVars, Ended, None
<1>1. ASSUME NEW l \in Items, RequestFails(l) \/ RequestSucceeds(l) PROVE GroupInv'
  BY <1>1, SameChunks DEF RequestFails, RequestSucceeds
<1>2. ASSUME NEW l \in Items, LateGroup(l) \/ LateFailure(l) PROVE GroupInv'
  BY <1>2, SameChunks DEF LateGroup, LateFailure
<1>3. ASSUME NEW l \in Items, TerminateSettles(l) PROVE GroupInv'
  <2>1. queue' = NoQueue <=> queue = NoQueue
    BY <1>3, <1>q, QueueStaysMade DEF TerminateSettles, FailRuntime
  <2> QED BY <1>3, <2>1, SameChunks DEF TerminateSettles
<1>4. ASSUME NEW l \in Items, Notify(l) PROVE GroupInv'
  <2>1. sent' \in 1..MaxNotifications
    BY <1>4, MonitorAssumption DEF Notify
  <2>2. queue' = NoQueue <=> queue = NoQueue
    BY <1>4, <1>q, <2>1, QueueStaysMade DEF Notify
  <2> QED BY <1>4, <2>2, SameChunks DEF Notify
<1>5. ASSUME NEW l \in Items, GroupError(l) \/ GroupTerminated(l) PROVE GroupInv'
  <2>1. queue' = NoQueue <=> queue = NoQueue
    BY <1>5, <1>q, QueueStaysMade DEF GroupError, GroupTerminated, FailRuntime
  <2> QED BY <1>5, <2>1, SameChunks DEF GroupError, GroupTerminated
<1>6. CASE Read
  <2>1. queue' = NoQueue <=> queue = NoQueue
    BY <1>6, <1>q, QueueStaysMade DEF Read
  <2> QED BY <1>6, <2>1, SameChunks DEF Read
<1>7. CASE StreamEnds
  BY <1>7, SameChunks DEF StreamEnds
<1> QED BY <1>1, <1>2, <1>3, <1>4, <1>5, <1>6, <1>7 DEF Settles, GroupEvent

\* The type invariant and the invariant about groups hold in every reachable state.
LEMMA GroupInvariant == Spec => [](TypeOK /\ GroupInv)
<1>1. TypeOK /\ GroupInv /\ [Next]_vars => GroupInv'
  <2>1. TypeOK /\ GroupInv /\ UNCHANGED vars => GroupInv'
    BY SameChunks DEF GroupInv, ChunkInv, HolderInv, FiberInv, ArrayInv, StrictFailure,
                      vars, startupVars, groupVars, cleanupVars, streamVars
  <2> QED BY <2>1, StartupStep, CleanupStep, EnvironmentStep DEF Next
<1> QED BY <1>1, GroupInit, TypeCorrect, PTL DEF Spec

(***************************************************************************)
(* What follows from the invariant.                                        *)
(***************************************************************************)

\* Every live group has exactly one party that will terminate it, and a cleanup
\* holds no group that was terminated before.
THEOREM GroupsHaveOneHolder == Spec => []OneHolder
<1>1. TypeOK /\ GroupInv => OneHolder
  <2> SUFFICES ASSUME TypeOK, GroupInv, NEW l \in Items
               PROVE  /\ group[l] = "live" => Cardinality(Holders(l)) = 1
                      /\ l \in cleaning \union closing => group[l] = "live"
    BY DEF OneHolder
  <2>1. l \in cleaning \union closing => group[l] = "live"
    BY DEF GroupInv, HolderInv
  <2>2. ASSUME group[l] = "live" PROVE \E h : Holders(l) = {h}
    <3>1. CASE call[l] = "resolved"
      BY <3>1 DEF GroupInv, HolderInv, Holders
    <3>2. CASE l \in registry
      BY <2>2, <3>2 DEF GroupInv, HolderInv, ChunkInv, ArrayInv, Holders
    <3>3. CASE l \in cleaning
      BY <2>2, <3>3 DEF GroupInv, HolderInv, ArrayInv, Holders
    <3>4. CASE l \in closing
      BY <2>2, <3>4 DEF GroupInv, HolderInv, ArrayInv, Holders
    <3> QED BY <2>2, <3>1, <3>2, <3>3, <3>4 DEF GroupInv, HolderInv
  <2> QED BY <2>1, <2>2, FS_Singleton
<1> QED BY <1>1, GroupInvariant, PTL

\* A group outlives the scope only when a strict call was interrupted while its
\* cleanup awaited another group, and then it was in that cleanup's array.
THEOREM LeaksAreInterruptedCleanups == Spec => []LeakNeedsInterruptedCleanup
<1>1. GroupInv => LeakNeedsInterruptedCleanup
  BY DEF GroupInv, HolderInv, FiberInv, ArrayInv, StrictFailure, Ended,
         LeakNeedsInterruptedCleanup
<1> QED BY <1>1, GroupInvariant, PTL

\* Calls that are not interrupted there leave no group behind.
THEOREM NothingOutlivesScope ==
  ASSUME "cleaning" \notin InterruptPoints
  PROVE  Spec => []NoGroupOutlivesScope
<1>1. GroupInv => NoGroupOutlivesScope
  BY DEF GroupInv, HolderInv, FiberInv, ArrayInv, Ended, NoGroupOutlivesScope
<1> QED BY <1>1, GroupInvariant, PTL

\* A strict call that fails has terminated every group it created.
THEOREM RejectionLeavesNothing == Spec => []RejectedLeavesNothing
<1>1. TypeOK /\ GroupInv => RejectedLeavesNothing
  BY DEF TypeOK, GroupInv, HolderInv, FiberInv, Ended, None, Items, RejectedLeavesNothing
<1> QED BY <1>1, GroupInvariant, PTL

(***************************************************************************)
(* Refinement: the groups of a call behave as MonitorContract promises.    *)
(***************************************************************************)

\* A startup step rejects, returns, releases or leaves the contract alone.
LEMMA StartupRefines ==
  TypeOK /\ GroupInv /\ Startup => [Contract!Next]_Contract!contractVars
<1> SUFFICES ASSUME TypeOK, GroupInv, Startup
             PROVE  [Contract!Next]_Contract!contractVars
  OBVIOUS
<1> USE DEF TypeOK, Ended, Contract!contractVars
<1>1. ASSUME NEW bad \in SUBSET Items, Validate(bad)
      PROVE  [Contract!Next]_Contract!contractVars
  <2>1. \A l \in Items : group[l] = "none"
    BY <1>1 DEF Validate, GroupInv, FiberInv, ChunkInv
  <2> QED BY <1>1, <2>1 DEF Validate, groupVars, cleanupVars,
             Contract!Next, Contract!Decide, Contract!Reject
<1>2. ASSUME NEW l \in Items, StartRequest(l) \/ ChunkTerminated(l)
      PROVE  [Contract!Next]_Contract!contractVars
  BY <1>2 DEF StartRequest, ChunkTerminated, groupVars, cleanupVars
<1>3. ASSUME NEW l \in Items, NEW good \in SUBSET Chunk(l), Resume(l, good)
      PROVE  [Contract!Next]_Contract!contractVars
  <2>1. fiber = "creating" /\ group[l] = "live"
    BY <1>3 DEF Resume, GroupInv, FiberInv, ChunkInv
  <2>2. CASE good = {}
    <3>1. group' = [group EXCEPT ![l] = "terminating"] /\ fiber' = fiber /\ scope' = scope
      BY <1>3, <2>2 DEF Resume, cleanupVars
    <3>2. Contract!Release(l)
      BY <2>1, <3>1 DEF Contract!Release
    <3> QED BY <3>2 DEF Contract!Next
  <2>3. CASE good # {}
    BY <1>3, <2>3 DEF Resume, cleanupVars
  <2> QED BY <2>2, <2>3
<1>4. CASE FailStartup
  BY <1>4 DEF FailStartup
<1>5. CASE ReturnMonitor
  BY <1>5 DEF ReturnMonitor, groupVars, cleanupVars,
              Contract!Next, Contract!Decide, Contract!Return
<1> QED BY <1>1, <1>2, <1>3, <1>4, <1>5 DEF Startup

\* Interruption and cleanup release what is held before they decide or close; only
\* the array of an interrupted cleanup is forsaken.
LEMMA CleanupRefines ==
  ASSUME TypeOK, GroupInv, Interruption \/ Cleanup \/ CloseScope
  PROVE  [Contract!Next]_Contract!contractVars
<1> USE DEF TypeOK, Ended, None, Contract!contractVars
<1>1. CASE InterruptValidation \/ Interrupted
  <2>1. cleaning = {} /\ cleaning' = {} /\ {} \in SUBSET Items
    BY <1>1 DEF InterruptValidation, Interrupted, cleanupVars, GroupInv, ArrayInv
  <2>2. Contract!Interrupt({})
    BY <1>1, <2>1 DEF InterruptValidation, Interrupted, groupVars, cleanupVars,
                      Contract!Interrupt
  <2> QED BY <2>1, <2>2 DEF Contract!Next
<1>2. CASE InterruptCreation
  <2>1. PICK S \in SUBSET Items : S = {l \in Items : call[l] = "resolved"}
    OBVIOUS
  <2>2. \A l \in S : group[l] = "live"
    BY <2>1 DEF GroupInv, ChunkInv
  <2>3. Contract!GiveUp(S)
    BY <1>2, <2>1, <2>2 DEF InterruptCreation, cleanupVars, Contract!GiveUp
  <2> QED BY <2>3 DEF Contract!Next
<1>3. CASE InterruptCleanup
  <2>1. cleaning \in SUBSET Items /\ \A l \in cleaning : group[l] = "live"
    BY DEF GroupInv, HolderInv
  <2>2. Contract!Interrupt(cleaning)
    BY <1>3, <2>1 DEF InterruptCleanup, groupVars, cleanupVars, Contract!Interrupt
  <2> QED BY <2>1, <2>2 DEF Contract!Next
<1>4. ASSUME NEW l \in Items, CleanNext(l) \/ CloseNext(l)
      PROVE  [Contract!Next]_Contract!contractVars
  <2>1. group[l] = "live"
    BY <1>4 DEF CleanNext, CloseNext, GroupInv, HolderInv
  <2>2. Contract!Release(l)
    BY <1>4, <2>1 DEF CleanNext, CloseNext, Terminate, startupVars, Contract!Release
  <2> QED BY <2>2 DEF Contract!Next
<1>5. CASE Awaited
  BY <1>5 DEF Awaited, startupVars, groupVars
<1>6. CASE CleanDone
  <2>1. \A l \in Items : group[l] # "live"
    BY <1>6 DEF CleanDone, GroupInv, HolderInv, FiberInv, ArrayInv
  <2> QED BY <1>6, <2>1 DEF CleanDone, groupVars, cleanupVars,
             Contract!Next, Contract!Decide, Contract!Reject
<1>7. CASE ScopeClosed
  <2>1. {l \in Items : group[l] = "live"} = IF fiber = "interrupted" THEN cleaning ELSE {}
    BY <1>7 DEF ScopeClosed, GroupInv, HolderInv, FiberInv, ArrayInv
  <2>2. fiber \in Ended
    BY <1>7 DEF ScopeClosed, GroupInv, FiberInv
  <2>3. Contract!Close
    BY <1>7, <2>1, <2>2 DEF ScopeClosed, startupVars, groupVars, Contract!Close
  <2> QED BY <2>3 DEF Contract!Next
<1>8. CASE CloseScope
  <2>1. CASE queue = NoQueue
    <3>1. \A l \in Items : group[l] # "live"
      BY <2>1 DEF GroupInv, ArrayInv, ChunkInv
    <3>2. cleaning = {}
      BY <3>1 DEF GroupInv, HolderInv
    <3>3. Contract!Close
      BY <1>8, <2>1, <3>1, <3>2 DEF CloseScope, startupVars, Contract!Close
    <3> QED BY <3>3 DEF Contract!Next
  <2>2. CASE queue # NoQueue
    BY <1>8, <2>2 DEF CloseScope, startupVars, Contract!Next, Contract!BeginClose
  <2> QED BY <2>1, <2>2
<1> QED BY <1>1, <1>2, <1>3, <1>4, <1>5, <1>6, <1>7, <1>8 DEF Interruption, Cleanup

\* Groups are acquired when their request succeeds in time and discarded when
\* it succeeds late; callbacks and the reader do not touch what is held.
LEMMA EnvironmentRefines ==
  ASSUME TypeOK, GroupInv,
         (\E l \in Items : Settles(l)) \/ GroupEvent \/ Read \/ StreamEnds
  PROVE  [Contract!Next]_Contract!contractVars
<1> USE DEF TypeOK, Ended, Contract!contractVars
<1>1. ASSUME NEW l \in Items, RequestFails(l) \/ LateFailure(l)
      PROVE  [Contract!Next]_Contract!contractVars
  BY <1>1 DEF RequestFails, LateFailure, groupVars, cleanupVars
<1>2. ASSUME NEW l \in Items, RequestSucceeds(l)
      PROVE  [Contract!Next]_Contract!contractVars
  <2>1. group[l] = "none" /\ fiber = "creating"
    BY <1>2 DEF RequestSucceeds, GroupInv, ChunkInv, FiberInv
  <2>2. Contract!Acquire(l)
    BY <1>2, <2>1 DEF RequestSucceeds, cleanupVars, Contract!Acquire
  <2> QED BY <2>2 DEF Contract!Next
<1>3. ASSUME NEW l \in Items, LateGroup(l)
      PROVE  [Contract!Next]_Contract!contractVars
  <2>1. group[l] = "none" /\ fiber \in {"interrupting", "interrupted"}
    BY <1>3 DEF LateGroup, GroupInv, ChunkInv, FiberInv
  <2>2. Contract!Discard(l)
    BY <1>3, <2>1 DEF LateGroup, cleanupVars, Contract!Discard
  <2> QED BY <2>2 DEF Contract!Next
<1>4. ASSUME NEW l \in Items, TerminateSettles(l)
      PROVE  [Contract!Next]_Contract!contractVars
  BY <1>4 DEF TerminateSettles, startupVars, cleanupVars
<1>5. CASE GroupEvent \/ Read \/ StreamEnds
  BY <1>5 DEF GroupEvent, Notify, GroupError, GroupTerminated, Read, StreamEnds,
              startupVars, groupVars, cleanupVars
<1> QED BY <1>1, <1>2, <1>3, <1>4, <1>5 DEF Settles

\* A monitor call implements the contract wherever it may be interrupted; only the
\* interruption of a strict failure's cleanup forsakes groups.
THEOREM MonitorKeepsContract == Spec => KeepsContract
<1>1. Init => Contract!Init
  BY DEF Init, Contract!Init, Ended
<1>2. TypeOK /\ GroupInv /\ [Next]_vars => [Contract!Next]_Contract!contractVars
  <2>1. UNCHANGED vars => UNCHANGED Contract!contractVars
    BY DEF vars, startupVars, groupVars, cleanupVars, Contract!contractVars
  <2> QED BY <2>1, StartupRefines, CleanupRefines, EnvironmentRefines DEF Next
<1> QED BY <1>1, <1>2, GroupInvariant, PTL DEF Spec, KeepsContract, Contract!Spec

(***************************************************************************)
(* The buffer: nothing is lost without a ClientBufferDropped.              *)
(***************************************************************************)

\* Before the monitor is returned nothing is wired, sent or announced, so the
\* shutdown of a rejected call has nothing to discard.
SilentInv ==
  fiber # "started" =>
    /\ wired = {} /\ sent = 0 /\ drops = 0 /\ events = {}
    /\ received = <<>> /\ queue.buffer = <<>>

BufferInv == SilentInv /\ EveryLossIsAnnounced

\* What failing and shutting down the call's queue do to its buffer.
LEMMA CallQueueBuffer ==
  ASSUME NEW q \in CallQueues
  PROVE  /\ q.buffer \in Seq(1..MaxNotifications)
         /\ Fail(q).buffer = q.buffer
         /\ Shutdown(q).buffer = <<>>
<1>1. q.buffer \in Seq(1..MaxNotifications)
  <2>1. q = NoQueue => q.buffer = <<>>
    BY DEF NoQueue
  <2>2. q \in QueueOf(1..MaxNotifications) => q.buffer \in Seq(1..MaxNotifications)
    BY DEF QueueOf
  <2>3. <<>> \in Seq(1..MaxNotifications)
    OBVIOUS
  <2> QED BY <2>1, <2>2, <2>3 DEF CallQueues
<1>2. Fail(q).buffer = q.buffer
  BY DEF Fail
<1>3. Shutdown(q).buffer = <<>>
  BY DEF Shutdown
<1> QED BY <1>1, <1>2, <1>3

\* An offered notification is buffered, evicts one or is refused.
LEMMA OfferCounts ==
  ASSUME NEW q \in CallQueues, NEW policy \in Policies, NEW m \in 1..MaxNotifications
  PROVE  Size(Offer(q, policy, m)) =
           IF \/ policy.tag = "Sliding" /\ Size(q) >= policy.capacity
              \/ ~Accepts(q, policy)
           THEN Size(q) ELSE Size(q) + 1
<1>1. q.buffer \in Seq(1..MaxNotifications)
  BY CallQueueBuffer
<1>2. policy.capacity \in Nat \ {0} /\ policy.tag \in {"Sliding", "Dropping"}
  BY MonitorAssumption
<1>3. CASE ~Accepts(q, policy)
  BY <1>3 DEF Offer
<1>4. CASE Accepts(q, policy) /\ Size(q) < policy.capacity
  <2>1. Len(Append(q.buffer, m)) = Len(q.buffer) + 1
    BY <1>1
  <2>2. Offer(q, policy, m).buffer = Append(q.buffer, m)
    BY <1>4 DEF Offer
  <2> QED BY <1>1, <1>2, <1>4, <2>1, <2>2 DEF Size
<1>5. CASE Accepts(q, policy) /\ ~(Size(q) < policy.capacity)
  <2>1. q.buffer # <<>>
    BY <1>1, <1>2, <1>5 DEF Size
  <2>2. Len(Append(Tail(q.buffer), m)) = Len(q.buffer)
    BY <1>1, <2>1
  <2>3. Offer(q, policy, m).buffer = Append(Tail(q.buffer), m)
    BY <1>5 DEF Offer
  <2>4. policy.tag = "Sliding"
    BY <1>2, <1>5 DEF Accepts
  <2> QED BY <1>1, <1>2, <1>5, <2>2, <2>3, <2>4 DEF Size
<1> QED BY <1>3, <1>4, <1>5

\* Every step keeps the count of notifications.
LEMMA BufferStep ==
  TypeOK /\ GroupInv /\ BufferInv /\ [Next]_vars => BufferInv'
<1> SUFFICES ASSUME TypeOK, GroupInv, BufferInv, [Next]_vars PROVE BufferInv'
  OBVIOUS
<1>q. queue \in CallQueues
  BY DEF TypeOK, CallQueues
<1>b. queue.buffer \in Seq(1..MaxNotifications) /\ Size(queue) \in Nat
  BY <1>q, CallQueueBuffer DEF Size
<1> USE DEF BufferInv, SilentInv, EveryLossIsAnnounced,
            startupVars, groupVars, cleanupVars, streamVars, Ended
<1>1. ASSUME NEW bad \in SUBSET Items, Validate(bad) PROVE BufferInv'
  BY <1>1 DEF Validate, EmptyQueue, Size
<1>2. ASSUME NEW l \in Items,
             StartRequest(l) \/ ChunkTerminated(l) \/ CleanNext(l) \/ CloseNext(l)
             \/ RequestFails(l) \/ RequestSucceeds(l) \/ LateGroup(l) \/ LateFailure(l)
      PROVE  BufferInv'
  BY <1>2 DEF StartRequest, ChunkTerminated, CleanNext, CloseNext, RequestFails,
              RequestSucceeds, LateGroup, LateFailure
<1>3. ASSUME NEW l \in Items, NEW good \in SUBSET Chunk(l), Resume(l, good) PROVE BufferInv'
  BY <1>3 DEF Resume
<1>4. CASE FailStartup \/ ReturnMonitor \/ Awaited
  BY <1>4 DEF FailStartup, ReturnMonitor, Awaited
<1>5. CASE Interruption \/ Interrupted
  BY <1>5 DEF Interruption, InterruptValidation, InterruptCreation, InterruptCleanup,
              Interrupted
<1>6. CASE CleanDone
  <2>1. Shutdown(queue).buffer = <<>> /\ scope' = scope
    BY <1>6, <1>q, CallQueueBuffer DEF CleanDone
  <2> QED BY <1>6, <2>1 DEF CleanDone, Size
<1>7. CASE ScopeClosed
  <2>1. Shutdown(queue).buffer = <<>>
    BY <1>q, CallQueueBuffer
  <2> QED BY <1>7, <2>1 DEF ScopeClosed
<1>8. CASE CloseScope
  BY <1>8 DEF CloseScope, GroupInv, FiberInv
<1>9. ASSUME NEW l \in Items, Notify(l) PROVE BufferInv'
  <2>1. sent' = sent + 1 /\ sent' \in 1..MaxNotifications /\ fiber = "started"
    BY <1>9, MonitorAssumption DEF Notify, TypeOK
  <2>2. options.policy \in Policies
    BY DEF TypeOK
  <2>3. drops' + Size(queue') = drops + Size(queue) + 1
    BY <1>9, <1>q, <1>b, <2>1, <2>2, OfferCounts DEF Notify, LosesOne, TypeOK
  <2>4. Len(received) \in Nat /\ drops' \in Int /\ drops \in Int /\ Size(queue') \in Int
    BY <1>9, <1>q, <1>b, <2>1, <2>2, OfferCounts DEF Notify, LosesOne, TypeOK
  <2>5. UNCHANGED <<received, events, fiber, scope>>
    BY <1>9 DEF Notify, startupVars, cleanupVars
  <2>6. Size(queue) \in Int /\ sent \in Int
    BY <1>b, MonitorAssumption DEF TypeOK
  <2>7. scope # "closed" => sent + 1 = Len(received) + Size(queue') + drops'
    <3>1. scope # "closed" => sent = Len(received) + Size(queue) + drops
      BY DEF BufferInv
    <3>2. PICK before, after, len, d, e, s :
             /\ before = Size(queue) /\ after = Size(queue') /\ len = Len(received)
             /\ d = drops /\ e = drops' /\ s = sent
      OBVIOUS
    <3>3. SUFFICES ASSUME scope # "closed" PROVE s + 1 = len + after + e
      BY <3>2
    <3>4. /\ len \in Int /\ before \in Int /\ after \in Int
          /\ d \in Int /\ e \in Int /\ s \in Int
          /\ e + after = d + before + 1
      BY <2>3, <2>4, <2>6, <3>2
    <3>5. s = len + before + d
      BY <3>1, <3>2, <3>3
    <3> QED BY ONLY <3>4, <3>5
  <2>8. EveryLossIsAnnounced'
    BY <2>1, <2>5, <2>7
  <2> QED BY <2>1, <2>5, <2>8
<1>10. ASSUME NEW l \in Items, GroupError(l) \/ GroupTerminated(l) \/ TerminateSettles(l)
       PROVE  BufferInv'
  <2>1. queue'.buffer = queue.buffer
    BY <1>10, <1>q, CallQueueBuffer DEF GroupError, GroupTerminated, TerminateSettles,
                                        FailRuntime
  <2>2. fiber # "started" => events' = events
    BY <1>10 DEF GroupError, GroupTerminated, TerminateSettles, FailRuntime, Listening
  <2> QED BY <1>10, <2>1, <2>2 DEF GroupError, GroupTerminated, TerminateSettles, Size
<1>11. CASE Read
  <2>1. queue.buffer # <<>> /\ queue'.buffer = Tail(queue.buffer)
    BY <1>11, <1>b DEF Read, Take, Size
  <2>2. Size(queue') = Size(queue) - 1
    BY <1>b, <2>1 DEF Size
  <2>3. Len(received') = Len(received) + 1
    BY <1>11 DEF Read, TypeOK
  <2> QED BY <1>11, <1>b, <2>2, <2>3 DEF Read, TypeOK
<1>12. CASE StreamEnds
  BY <1>12 DEF StreamEnds
<1>13. CASE UNCHANGED vars
  BY <1>13 DEF vars, Size
<1> QED
  BY <1>1, <1>2, <1>3, <1>4, <1>5, <1>6, <1>7, <1>8, <1>9, <1>10, <1>11, <1>12, <1>13
  DEF Next, Startup, Cleanup, Settles, GroupEvent

\* The count of notifications holds in every reachable state.
LEMMA BufferInvariant == Spec => []BufferInv
<1>1. Init => BufferInv
  BY DEF Init, BufferInv, SilentInv, EveryLossIsAnnounced, NoQueue, Size
<1> QED BY <1>1, BufferStep, GroupInvariant, PTL DEF Spec

\* Until the shutdown every notification is read, buffered or announced as
\* dropped, for every policy, capacity and number of notifications.
THEOREM LossesAreAnnounced == Spec => []EveryLossIsAnnounced
BY BufferInvariant, PTL DEF BufferInv

\* A call that is not returned never announces a group.
THEOREM OnlyStartedAnnounces == Spec => []OnlyStartedIsAnnounced
<1>1. BufferInv => OnlyStartedIsAnnounced
  BY DEF BufferInv, SilentInv, OnlyStartedIsAnnounced
<1> QED BY <1>1, BufferInvariant, PTL
(***************************************************************************)
(* The newest notification.  What has been read followed by what is        *)
(* buffered ends with it: an offer appends it, reading moves a message     *)
(* from one part to the other, and what discards the buffer closes it.     *)
(***************************************************************************)

\* Taking the first of the buffered messages keeps the samples.
LEMMA TakeKeepsSamples ==
  ASSUME NEW M, NEW s \in Seq(M), NEW b \in Seq(M), b # <<>>
  PROVE  Append(s, Head(b)) \o Tail(b) = s \o b
<1>1. Len(b) \in Nat \ {0} /\ Len(s) \in Nat
  OBVIOUS
<1>2. Head(b) \in M /\ Tail(b) \in Seq(M) /\ Len(Tail(b)) = Len(b) - 1
  OBVIOUS
<1> DEFINE t == Append(s, Head(b)) \o Tail(b)
           u == s \o b
<1>3. t \in Seq(M) /\ u \in Seq(M) /\ Len(t) = Len(s) + Len(b) /\ Len(u) = Len(s) + Len(b)
  BY <1>1, <1>2
<1>4. ASSUME NEW i \in 1..Len(u) PROVE t[i] = u[i]
  BY <1>1, <1>2, <1>3
<1> HIDE DEF t, u
<1>5. t = u
  BY <1>3, <1>4
<1> QED BY <1>5 DEF t, u

\* An offer to an open sliding queue puts the message at the end of the buffer.
LEMMA OfferIsLast ==
  ASSUME NEW M, NEW s \in Seq(M), NEW q \in QueueOf(M), NEW m \in M,
         NEW policy \in [tag : {"Sliding", "Dropping"}, capacity : Nat \ {0}],
         policy.tag = "Sliding", q.state = "open"
  PROVE  /\ s \o Offer(q, policy, m).buffer # <<>>
         /\ (s \o Offer(q, policy, m).buffer)[Len(s \o Offer(q, policy, m).buffer)] = m
<1>1. PICK b \in Seq(M) : Offer(q, policy, m).buffer = Append(b, m)
  <2>1. q.buffer \in Seq(M) /\ (Tail(q.buffer) \in Seq(M) \/ q.buffer = <<>>)
    BY DEF QueueOf
  <2>2. <<>> \in Seq(M)
    OBVIOUS
  <2>3. ~(Size(q) < policy.capacity) => q.buffer # <<>>
    BY DEF Size
  <2> QED BY <2>1, <2>2, <2>3 DEF Offer, Accepts
<1>2. Len(s \o Append(b, m)) = Len(s) + Len(b) + 1
  OBVIOUS
<1>3. (s \o Append(b, m))[Len(s) + Len(b) + 1] = m
  OBVIOUS
<1> QED BY <1>1, <1>2, <1>3

\* Every step keeps the newest notification among the samples.
LEMMA NewestStep ==
  TypeOK /\ GroupInv /\ BufferInv /\ NewestIsKept /\ [Next]_vars => NewestIsKept'
<1> SUFFICES ASSUME TypeOK, GroupInv, BufferInv, NewestIsKept, [Next]_vars
             PROVE  NewestIsKept'
  OBVIOUS
<1>q. queue \in CallQueues
  BY DEF TypeOK, CallQueues
<1> USE DEF startupVars, groupVars, cleanupVars, streamVars, Ended
<1>1. ASSUME NEW bad \in SUBSET Items, Validate(bad) PROVE NewestIsKept'
  BY <1>1 DEF Validate, NewestIsKept, BufferInv, SilentInv, TypeOK
<1>2. CASE UNCHANGED <<options, queue, sent, received>>
  BY <1>2 DEF NewestIsKept
<1>3. CASE CleanDone \/ ScopeClosed
  <2>1. queue' = Shutdown(queue)
    BY <1>3 DEF CleanDone, ScopeClosed
  <2>2. queue'.state # "open"
    BY <2>1 DEF Shutdown
  <2> QED BY <2>2 DEF NewestIsKept
<1>4. ASSUME NEW l \in Items, Notify(l) PROVE NewestIsKept'
  <2>1. sent' \in 1..MaxNotifications
    BY <1>4, MonitorAssumption DEF Notify, TypeOK
  <2>2. options' = options /\ received' = received /\ queue' = Offer(queue, options.policy, sent')
    BY <1>4 DEF Notify
  <2>3. options.policy \in [tag : {"Sliding", "Dropping"}, capacity : Nat \ {0}]
    BY MonitorAssumption DEF TypeOK
  <2>4. CASE options.policy.tag = "Sliding" /\ queue.state = "open"
    <3>1. queue \in QueueOf(1..MaxNotifications)
      BY <1>q, <2>4 DEF CallQueues, NoQueue
    <3>2. received \in Seq(1..MaxNotifications)
      BY DEF TypeOK
    <3>3. /\ received \o queue'.buffer # <<>>
          /\ (received \o queue'.buffer)[Len(received \o queue'.buffer)] = sent'
      <4>1. PICK M : M = 1..MaxNotifications
        OBVIOUS
      <4>2. /\ received \in Seq(M) /\ queue \in QueueOf(M) /\ sent' \in M
        BY <2>1, <3>1, <3>2, <4>1
      <4> QED BY ONLY <2>2, <2>3, <2>4, <4>2, OfferIsLast
    <3> QED BY <2>2, <3>3 DEF NewestIsKept
  <2>5. CASE queue.state # "open"
    BY <2>2, <2>5 DEF NewestIsKept, Offer, Accepts
  <2> QED BY <2>2, <2>4, <2>5 DEF NewestIsKept
<1>5. ASSUME NEW l \in Items, GroupError(l) \/ GroupTerminated(l) \/ TerminateSettles(l)
      PROVE  NewestIsKept'
  <2>1. queue' = queue \/ queue' = Fail(queue)
    BY <1>5 DEF GroupError, GroupTerminated, TerminateSettles, FailRuntime
  <2>2. Fail(queue).state # "open"
    BY DEF Fail
  <2> QED BY <1>5, <2>1, <2>2 DEF GroupError, GroupTerminated, TerminateSettles, NewestIsKept
<1>6. CASE Read
  <2>1. queue.buffer \in Seq(1..MaxNotifications) /\ queue.buffer # <<>>
    BY <1>6, <1>q, CallQueueBuffer DEF Read, Size
  <2>2. received' \o queue'.buffer = received \o queue.buffer
    <3>1. received \in Seq(1..MaxNotifications)
      BY DEF TypeOK
    <3>2. received' = Append(received, Head(queue.buffer)) /\ queue'.buffer = Tail(queue.buffer)
      BY <1>6 DEF Read, Take
    <3> QED BY <2>1, <3>1, <3>2, TakeKeepsSamples
  <2>3. queue'.state = "open" => queue.state = "open"
    BY <1>6 DEF Read, Take
  <2> QED BY <1>6, <2>2, <2>3 DEF Read, NewestIsKept
<1>7. CASE \/ \E l \in Items : \/ StartRequest(l) \/ ChunkTerminated(l)
                               \/ \E good \in SUBSET Chunk(l) : Resume(l, good)
           \/ FailStartup \/ ReturnMonitor
  BY <1>2, <1>7 DEF StartRequest, ChunkTerminated, Resume, FailStartup, ReturnMonitor
<1>8. CASE Interruption \/ Interrupted \/ Awaited \/ CloseScope
  BY <1>2, <1>8 DEF Interruption, InterruptValidation, InterruptCreation,
                    InterruptCleanup, Interrupted, Awaited, CloseScope
<1>9. CASE \E l \in Items : \/ CleanNext(l) \/ CloseNext(l)
                            \/ RequestFails(l) \/ RequestSucceeds(l)
                            \/ LateGroup(l) \/ LateFailure(l)
  BY <1>2, <1>9 DEF CleanNext, CloseNext, RequestFails, RequestSucceeds, LateGroup,
                    LateFailure
<1>10. CASE StreamEnds \/ UNCHANGED vars
  BY <1>2, <1>10 DEF StreamEnds, vars
<1> QED
  BY <1>1, <1>3, <1>4, <1>5, <1>6, <1>7, <1>8, <1>9, <1>10
  DEF Next, Startup, Cleanup, Settles, GroupEvent

\* While the queue of a sliding policy is open, the newest notification has been
\* read last or is the last that is buffered, whatever the capacity.
THEOREM NewestNotificationIsKept == Spec => []NewestIsKept
<1>1. Init => NewestIsKept
  BY DEF Init, NewestIsKept
<1> QED BY <1>1, NewestStep, GroupInvariant, BufferInvariant, PTL DEF Spec

(***************************************************************************)
(* The startup report.  A chunk that is done has accounted for each of its *)
(* items, one that is not for none; that every item is in a chunk, and in  *)
(* one only, makes the report complete when all of them are done.          *)
(***************************************************************************)

\* A set of naturals has a least element.
LEMMA LeastNat ==
  ASSUME NEW T, T \subseteq Nat, T # {}
  PROVE  \E n \in T : \A m \in T : n <= m
<1> DEFINE Below == {0..n : n \in T}
<1>1. Below \subseteq FiniteSubsetsOf(Nat) /\ Below # {}
  <2>1. ASSUME NEW n \in T
        PROVE  0..n \in FiniteSubsetsOf(Nat)
    <3>1. IsFiniteSet(0..n) /\ 0..n \subseteq Nat
      BY FS_Interval
    <3> QED
      BY <3>1 DEF FiniteSubsetsOf
  <2> QED
    BY <2>1
<1>2. PICK x \in Below : \A y \in Below : ~ (<<y, x>> \in StrictSubsetOrdering(Nat))
  BY <1>1, WFMin, FS_StrictSubsetOrderingWellFounded
<1>3. PICK n \in T : x = 0..n
  BY <1>2
<1>4. ASSUME NEW m \in T, m < n
      PROVE  FALSE
  <2>1. 0..m \in Below /\ 0..m \subseteq 0..n /\ 0..m # 0..n /\ 0..m \subseteq Nat /\ 0..n \subseteq Nat
    BY <1>4
  <2> QED
    BY <2>1, <1>2, <1>3 DEF StrictSubsetOrdering
<1> QED
  BY <1>4

\* No item is in two chunks.
LEMMA ChunksAreDisjoint ==
  ASSUME valid \subseteq Items, NEW l \in Leaders, NEW m \in Leaders, l # m
  PROVE  Chunk(l) \intersect Chunk(m) = {}
<1> SUFFICES ASSUME NEW i \in Chunk(l), i \in Chunk(m) PROVE FALSE
  OBVIOUS
<1>1. SameChunk(l, i) /\ SameChunk(m, i) /\ l \in valid /\ m \in valid
  BY DEF Chunk, Leaders
<1>2. m \in Chunk(l) /\ l \in Chunk(m)
  BY <1>1 DEF Chunk, SameChunk
<1>3. l <= m /\ m <= l /\ l \in Nat /\ m \in Nat
  BY <1>1, <1>2, MonitorAssumption DEF Leaders, Items
<1> QED BY <1>3

\* Every valid item is in a chunk.
LEMMA ChunksCover ==
  ASSUME valid \subseteq Items, NEW i \in valid
  PROVE  \E l \in Leaders : i \in Chunk(l)
<1>1. i \in Chunk(i) /\ Chunk(i) \subseteq Nat
  <2>1. SameChunk(i, i)
    BY DEF SameChunk
  <2>2. Chunk(i) \subseteq valid /\ i \in Chunk(i)
    BY <2>1 DEF Chunk
  <2>3. Items \subseteq Nat
    BY MonitorAssumption DEF Items
  <2> QED BY <2>2, <2>3
<1>2. PICK l \in Chunk(i) : \A j \in Chunk(i) : l <= j
  BY <1>1, LeastNat
<1>3. l \in valid /\ SameChunk(i, l)
  BY DEF Chunk
<1>4. Chunk(l) = Chunk(i)
  BY <1>3 DEF Chunk, SameChunk
<1> QED BY <1>1, <1>2, <1>3, <1>4 DEF Leaders

\* Which items the chunks have accounted for, and where their groups are.
ReportInv ==
  /\ fiber = "validating" => active = {} /\ failed = {}
  /\ fiber \in {"creating", "started"} =>
       /\ active \subseteq valid /\ Items \ valid \subseteq failed
       /\ active \intersect failed = {}
       /\ \A l \in Leaders :
            /\ call[l] \in {"terminating", "done"} => Chunk(l) \subseteq active \union failed
            /\ call[l] \in {"idle", "inFlight", "resolved"} =>
                 Chunk(l) \intersect (active \union failed) = {}
            /\ call[l] = "terminating" => Chunk(l) \intersect active = {}
            /\ call[l] = "done" /\ Chunk(l) \intersect active # {} /\ scope = "open" =>
                 l \in registry /\ group[l] = "live"
  /\ fiber = "started" =>
       /\ AllChunksDone /\ ~StrictFailure
       /\ scope = "open" => wired = {l \in Leaders : Chunk(l) \intersect active # {}}

\* Every step keeps the account of the items.
LEMMA ReportStep ==
  TypeOK /\ GroupInv /\ ReportInv /\ [Next]_vars => ReportInv'
<1> SUFFICES ASSUME TypeOK, GroupInv, ReportInv, [Next]_vars PROVE ReportInv'
  OBVIOUS
<1> USE DEF ReportInv, AllChunksDone, StrictFailure,
            startupVars, groupVars, cleanupVars, streamVars, Ended
<1>i. valid \subseteq Items /\ Leaders \subseteq Items /\ \A l \in Items : Chunk(l) \subseteq valid
  BY LeadersAreItems DEF TypeOK, Chunk
<1>1. ASSUME NEW bad \in SUBSET Items, Validate(bad) PROVE ReportInv'
  <2>1. Leaders' \subseteq Items /\ \A l \in Items : Chunk(l)' \subseteq valid'
    BY <1>1 DEF Validate, Leaders, Chunk
  <2>2. active = {} /\ \A l \in Items : call[l] = "idle"
    BY <1>1 DEF Validate, GroupInv, FiberInv
  <2> HIDE DEF StrictFailure
  <2> QED BY <1>1, <2>1, <2>2 DEF Validate
<1>2. CASE UNCHANGED <<fiber, options, valid, call, active, failed, group, registry, scope, wired>>
  BY <1>2, SameChunks
<1>3. ASSUME NEW l \in Items, StartRequest(l) \/ ChunkTerminated(l) PROVE ReportInv'
  BY <1>3, <1>i, SameChunks DEF StartRequest, ChunkTerminated, GroupInv, FiberInv, TypeOK
<1>4. ASSUME NEW l \in Items, NEW good \in SUBSET Chunk(l), Resume(l, good) PROVE ReportInv'
  <2>1. fiber = "creating" /\ l \in Leaders /\ group[l] = "live"
    BY <1>4 DEF Resume, GroupInv, FiberInv, ChunkInv
  <2>2. \A m \in Leaders : m # l => Chunk(m) \intersect Chunk(l) = {}
    BY <1>i, <2>1, ChunksAreDisjoint
  <2> QED BY <1>4, <1>i, <2>1, <2>2, SameChunks DEF Resume, TypeOK
<1>5. CASE FailStartup \/ ReturnMonitor
  BY <1>5, SameChunks DEF FailStartup, ReturnMonitor
<1>6. CASE Interruption \/ Interrupted \/ CleanDone
  BY <1>6, SameChunks DEF Interruption, InterruptValidation, InterruptCreation, InterruptCleanup,
              Interrupted, CleanDone
<1>7. ASSUME NEW l \in Items, CleanNext(l) \/ CloseNext(l) PROVE ReportInv'
  BY <1>7, SameChunks DEF CleanNext, CloseNext, Terminate, GroupInv, FiberInv
<1>8. CASE CloseScope \/ ScopeClosed
  BY <1>8, SameChunks DEF CloseScope, ScopeClosed
<1>9. ASSUME NEW l \in Items, RequestFails(l) PROVE ReportInv'
  <2>1. fiber = "creating" /\ l \in Leaders
    BY <1>9 DEF RequestFails, GroupInv, FiberInv, ChunkInv
  <2>2. \A m \in Leaders : m # l => Chunk(m) \intersect Chunk(l) = {}
    BY <1>i, <2>1, ChunksAreDisjoint
  <2> QED BY <1>9, <1>i, <2>1, <2>2, SameChunks DEF RequestFails, TypeOK
<1>10. ASSUME NEW l \in Items, RequestSucceeds(l) \/ LateGroup(l) \/ LateFailure(l)
       PROVE  ReportInv'
  BY <1>10, <1>i, SameChunks DEF RequestSucceeds, LateGroup, LateFailure, TypeOK,
                                 GroupInv, FiberInv
<1>11. ASSUME NEW l \in Items, TerminateSettles(l) PROVE ReportInv'
  BY <1>11, <1>i, SameChunks DEF TerminateSettles, TypeOK
<1>12. CASE GroupEvent \/ Read \/ StreamEnds \/ Awaited \/ UNCHANGED vars
  BY <1>2, <1>12 DEF GroupEvent, Notify, GroupError, GroupTerminated, Read, StreamEnds,
                     Awaited, vars
<1> QED
  BY <1>1, <1>3, <1>4, <1>5, <1>6, <1>7, <1>8, <1>9, <1>10, <1>11, <1>12
  DEF Next, Startup, Cleanup, Settles

\* The account of the items holds in every reachable state.
LEMMA ReportInvariant == Spec => []ReportInv
<1>1. Init => ReportInv
  BY DEF Init, ReportInv
<1> QED BY <1>1, ReportStep, GroupInvariant, PTL DEF Spec

\* The report of a started monitor accounts for each item once, strict monitors
\* report no failure, and every accepted item is in a group that is held and
\* listened to until the scope closes, however the items are chunked.
THEOREM StartupReportIsTrue == Spec => []ReportIsTrue
<1>1. TypeOK /\ ReportInv => ReportIsTrue
  <2> SUFFICES ASSUME TypeOK, ReportInv, fiber = "started" PROVE ReportIsTrue
    BY DEF ReportIsTrue
  <2>1. valid \subseteq Items /\ failed \subseteq Items /\ AllChunksDone
    BY DEF TypeOK, ReportInv
  <2>2. \A i \in valid : \E l \in Leaders : i \in Chunk(l)
    BY <2>1, ChunksCover
  <2>3. valid \subseteq active \union failed
    BY <2>1, <2>2 DEF ReportInv, AllChunksDone
  <2>4. active \union failed = Items /\ active \intersect failed = {}
    BY <2>1, <2>3 DEF ReportInv
  <2>5. ASSUME scope = "open", NEW i \in active
        PROVE  \E l \in wired \intersect registry : i \in Chunk(l) /\ group[l] = "live"
    <3>1. PICK l \in Leaders : i \in Chunk(l)
      BY <2>2 DEF ReportInv
    <3>2. l \in wired /\ l \in registry /\ group[l] = "live"
      BY <2>1, <2>5, <3>1 DEF ReportInv, AllChunksDone
    <3> QED BY <3>1, <3>2
  <2>6. options.startup = "strict" => failed = {}
    BY DEF ReportInv, StrictFailure
  <2> QED BY <2>4, <2>5, <2>6 DEF ReportIsTrue
<1> QED BY <1>1, ReportInvariant, GroupInvariant, PTL

=============================================================================
