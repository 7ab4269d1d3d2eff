---------------------------- MODULE RegistryProof ----------------------------
(***************************************************************************)
(* Theorems about BrowsePages, and the SessionRegistry it extends, for any *)
(* number of tabs, handlers, browse requests and nodes: which sessions and *)
(* continuation points can get lost.                                       *)
(***************************************************************************)
EXTENDS BrowsePages, FiniteSetTheorems, TLAPS

-----------------------------------------------------------------------------
(* The inductive invariant.                                                *)

Steps == {"idle", "waiting", "opening", "leaving", "forwarding", "over"} \union InClose \union InCleanup
RequestSteps == {"idle", "over"} \union InRequest

\* Types.
PagesTypeOK ==
  /\ tab \in [Clients -> {"here", "left", "forgotten"}]
  /\ disconnects \in Seq(Clients)
  /\ entry \in [Clients -> Handlers \union {NoHandler}]
  /\ session \in [Handlers -> {"none", "open", "closing", "closed"}]
  /\ lock \in Handlers \union {NoHandler}
  /\ kind \in [Handlers -> {"none", "connect", "disconnect"}]
  /\ client \in [Actors -> Clients \union {NoClient}]
  /\ pc \in [Actors -> Steps]
  /\ found \in [Actors -> Handlers \union {NoHandler}]
  /\ doomed \subseteq Handlers /\ disturbed \subseteq Handlers
  /\ continuations \in [Handlers -> SUBSET Requests]
  /\ releasing \in [Actors -> SUBSET Requests]
  /\ live \subseteq Requests /\ abandoned \subseteq Requests
  /\ request \in [Requests -> [pc : RequestSteps, tab : Clients \union {NoClient},
                               session : Handlers \union {NoHandler}, node : Nodes,
                               hands : SUBSET Requests]]

\* Where a handler holds the permit, and where a Connect may yet open a session.
UnderLock == InClose \union {"opening", "leaving"}
Opening(h) == kind[h] = "connect" /\ pc[h] \in InProgress

\* Who is where: an actor that is busy works for a tab, only a Connect cleans up,
\* and the cleaner works for tabs that have gone.
ActorInv ==
  /\ \A a \in Actors : pc[a] # "idle" => client[a] \in Clients
  /\ \A h \in Handlers : /\ pc[h] # "forwarding"
                         /\ pc[h] \in InCleanup => kind[h] = "connect"
  /\ pc[Cleaner] \in {"idle", "forwarding"} \union InCleanup
  /\ pc[Cleaner] # "idle" => tab[client[Cleaner]] # "here"
  /\ \A i \in 1..Len(disconnects) : tab[disconnects[i]] # "here"

\* The permit makes its holder the only one to close and open: what it closes is
\* what its tab has, and nothing is registered when it opens.
LockInv ==
  \A h \in Handlers :
    /\ pc[h] \in UnderLock => lock = h
    /\ pc[h] = "opening" => kind[h] = "connect" /\ entry[client[h]] = NoHandler
    /\ pc[h] \in InClose => entry[client[h]] \in {found[h], NoHandler}

\* A registered session was opened by a Connect of that tab which is over, and a
\* session somebody waits for is closing.
SessionInv ==
  /\ \A h \in Handlers : pc[h] \in {"idle", "waiting", "leaving"} \union InClose => session[h] = "none"
  /\ \A h \in Handlers : pc[h] = "opening" /\ session[h] # "none" => h \in doomed
  /\ \A c \in Clients : entry[c] # NoHandler =>
        client[entry[c]] = c /\ pc[entry[c]] = "over" /\ session[entry[c]] # "none"
  /\ \A a \in Actors : pc[a] \in InClose \union InCleanup =>
        /\ found[a] \in Handlers /\ session[found[a]] # "none"
        /\ pc[a] \in {"closing", "cleanClosing"} => session[found[a]] # "open"

\* The Connects that may lose their session are marked before they do: those that
\* were interrupted, whose tab has left, or that a cleanup runs beside.  A cleanup
\* finds the session it closes, nothing, or that of such a Connect.
DisturbedInv ==
  /\ doomed \subseteq disturbed
  /\ \A h \in Handlers : Opening(h) /\ tab[client[h]] # "here" => h \in disturbed
  /\ \A a \in Actors : pc[a] \in InCleanup =>
       /\ \A h \in Handlers : Opening(h) /\ client[h] = client[a] => h \in disturbed
       /\ entry[client[a]] \in {found[a], NoHandler} \union disturbed

\* An open session that is not marked is registered, and its tab was not cleaned up.
Reachable(h) ==
  /\ entry[client[h]] = h /\ tab[client[h]] # "forgotten"
  /\ ~(pc[Cleaner] = "forwarding" /\ client[Cleaner] = client[h])

LostInv == \A h \in Handlers : session[h] = "open" => h \in disturbed \/ Reachable(h)

RegistryInv == ActorInv /\ LockInv /\ SessionInv /\ DisturbedInv /\ LostInv

\* A continuation point is in an entry, with somebody who closes one, or with a request.
Held(p) == \/ \E h \in Handlers : p \in continuations[h]
           \/ \E a \in Actors : p \in releasing[a]
           \/ \E r \in Requests : p \in hands(r)

\* Points are held only by those who are at a step that uses them, a request that is
\* storing holds its own, and a point is there once its request has got the page.
HandInv ==
  /\ \A a \in Actors : releasing[a] # {} => pc[a] \in {"releasing", "cleanReleasing"}
  /\ \A i \in Handlers : continuations[i] # {} => session[i] # "none"
  /\ \A r \in Requests :
       /\ hands(r) # {} => request[r].pc \in InRequest
       /\ request[r].pc = "describing" => hands(r) \subseteq {r}
       /\ request[r].pc # "idle" => /\ request[r].tab \in Clients
                                    /\ request[r].session \in Handlers
                                    /\ client[request[r].session] = request[r].tab
                                    /\ session[request[r].session] # "none"
  /\ \A p \in Requests : Held(p) \/ p \in live => request[p].pc \in {"describing", "over"}

\* No point is held twice.
UniqueInv ==
  /\ \A i, j \in Handlers : i # j => continuations[i] \intersect continuations[j] = {}
  /\ \A a, b \in Actors : a # b => releasing[a] \intersect releasing[b] = {}
  /\ \A q, r \in Requests : q # r => hands(q) \intersect hands(r) = {}
  /\ \A i \in Handlers, a \in Actors : continuations[i] \intersect releasing[a] = {}
  /\ \A i \in Handlers, r \in Requests : continuations[i] \intersect hands(r) = {}
  /\ \A a \in Actors, r \in Requests : releasing[a] \intersect hands(r) = {}

\* Every point of the server is held or given up, and an entry has points of its own
\* tab only: of its own session, or of one that is closing or was disturbed.
KeptInv ==
  /\ \A p \in live : Held(p) \/ p \in abandoned
  /\ \A i \in Handlers : \A p \in continuations[i] :
       /\ client[i] = request[p].tab
       /\ session[request[p].session] = "open" =>
            i = request[p].session \/ request[p].session \in disturbed

PagesInv == PagesTypeOK /\ RegistryInv /\ HandInv /\ UniqueInv /\ KeptInv

-----------------------------------------------------------------------------
(* Types.                                                                  *)

\* closeExisting, and its end, keep the types.
LEMMA CloseFoundTypes ==
  ASSUME PagesTypeOK, NEW a \in Actors, NEW c \in Clients, NEW h \in Handlers,
         NEW closing \in Steps, NEW then \in Steps,
         CloseFound(a, c, h, closing, then)
  PROVE  /\ entry' \in [Clients -> Handlers \union {NoHandler}]
         /\ session' \in [Handlers -> {"none", "open", "closing", "closed"}]
         /\ pc' \in [Actors -> Steps]
         /\ found' \in [Actors -> Handlers \union {NoHandler}]
<1>1. /\ entry \in [Clients -> Handlers \union {NoHandler}]
      /\ session \in [Handlers -> {"none", "open", "closing", "closed"}]
      /\ pc \in [Actors -> Steps]
      /\ found \in [Actors -> Handlers \union {NoHandler}]
  BY DEF PagesTypeOK
<1>2. CASE session[h] = "open"
  <2>1. /\ session' = [session EXCEPT ![h] = "closing"]
        /\ pc' = [pc EXCEPT ![a] = closing]
        /\ found' = [found EXCEPT ![a] = h]
        /\ entry' = entry
    BY <1>2 DEF CloseFound
  <2> QED
    BY <1>1, <2>1
<1>3. CASE session[h] # "open"
  <2>1. /\ pc' = [pc EXCEPT ![a] = then]
        /\ found' = [found EXCEPT ![a] = NoHandler]
        /\ entry' = [entry EXCEPT ![c] = NoHandler]
        /\ session' = session
    BY <1>3 DEF CloseFound
  <2> QED
    BY <1>1, <2>1
<1> QED
  BY <1>2, <1>3

LEMMA CloseExistingTypes ==
  ASSUME PagesTypeOK, NEW a \in Actors, NEW c \in Clients, NEW release \in Steps,
         NEW closing \in Steps, NEW then \in Steps,
         CloseExisting(a, c, release, closing, then)
  PROVE  /\ entry' \in [Clients -> Handlers \union {NoHandler}]
         /\ session' \in [Handlers -> {"none", "open", "closing", "closed"}]
         /\ pc' \in [Actors -> Steps]
         /\ found' \in [Actors -> Handlers \union {NoHandler}]
         /\ continuations' \in [Handlers -> SUBSET Requests]
         /\ releasing' \in [Actors -> SUBSET Requests]
<1>1. CASE entry[c] = NoHandler
  BY <1>1 DEF CloseExisting, PagesTypeOK
<1>2. CASE entry[c] # NoHandler /\ continuations[entry[c]] = {}
  <2>1. CloseFound(a, c, entry[c], closing, then) /\ entry[c] \in Handlers
    BY <1>2 DEF CloseExisting, PagesTypeOK
  <2> QED
    BY <1>2, <2>1, CloseFoundTypes DEF CloseExisting, PagesTypeOK
<1>3. CASE entry[c] # NoHandler /\ continuations[entry[c]] # {}
  BY <1>3 DEF CloseExisting, PagesTypeOK
<1> QED
  BY <1>1, <1>2, <1>3

LEMMA EntryReleasedTypes ==
  ASSUME PagesTypeOK, NEW a \in Actors, EntryReleased(a)
  PROVE  /\ continuations' \in [Handlers -> SUBSET Requests]
         /\ releasing' \in [Actors -> SUBSET Requests]
         /\ live' \subseteq Requests /\ abandoned' \subseteq Requests
BY DEF EntryReleased, PagesTypeOK

\* Where handlers and cleanups go is one of the steps.
LEMMA StepsAreSteps ==
  /\ InClose \subseteq Steps /\ InCleanup \subseteq Steps
  /\ \A h : AfterClose(h) \in Steps /\ CleanupFinished(h) \in Steps
BY DEF Steps, InClose, InCleanup, AfterClose, CleanupFinished

LEMMA AbandonTypes ==
  ASSUME PagesTypeOK, UNCHANGED request, NEW h \in Handlers, client[h] \in Clients, Abandon(h)
  PROVE  PagesTypeOK'
<1>1. CASE kind[h] = "connect"
  <2>1. CloseExisting(h, client[h], "cleanReleasing", "cleanClosing", "over")
    BY <1>1 DEF Abandon
  <2>2. /\ entry' \in [Clients -> Handlers \union {NoHandler}]
        /\ session' \in [Handlers -> {"none", "open", "closing", "closed"}]
        /\ pc' \in [Actors -> Steps]
        /\ found' \in [Actors -> Handlers \union {NoHandler}]
        /\ continuations' \in [Handlers -> SUBSET Requests]
        /\ releasing' \in [Actors -> SUBSET Requests]
    BY <2>1, CloseExistingTypes DEF Steps, InCleanup, Actors
  <2>3. lock' \in Handlers \union {NoHandler} /\ doomed' \subseteq Handlers
    BY DEF Abandon, PagesTypeOK
  <2>4. disturbed' \subseteq Handlers
    BY <1>1 DEF Abandon, PagesTypeOK, Connects
  <2>5. abandoned' \subseteq Requests
    BY DEF Abandon, PagesTypeOK, Actors
  <2> QED
    BY <2>2, <2>3, <2>4, <2>5 DEF Abandon, PagesTypeOK
<1>2. CASE kind[h] # "connect"
  BY <1>2 DEF Abandon, PagesTypeOK, Actors, Steps
<1> QED
  BY <1>1, <1>2

\* Those in progress work for a tab.
LEMMA InProgressHasClient ==
  ASSUME PagesTypeOK, ActorInv, NEW h \in Handlers, pc[h] \in InProgress
  PROVE  client[h] \in Clients
BY DEF ActorInv, InProgress, InClose, Actors

LEMMA InterruptTypes ==
  ASSUME PagesTypeOK, ActorInv, UNCHANGED request, NEW h \in Handlers,
         pc[h] \in InProgress, Interrupt(h)
  PROVE  PagesTypeOK'
<1>1. CASE pc[h] = "opening"
  BY <1>1 DEF Interrupt, PagesTypeOK, points
<1>2. CASE pc[h] # "opening"
  BY <1>2, InProgressHasClient, AbandonTypes DEF Interrupt
<1> QED
  BY <1>1, <1>2

\* The registry keeps the types.
LEMMA RegistryKeepsTypes ==
  ASSUME PagesTypeOK, ActorInv, SessionInv, Next, UNCHANGED request
  PROVE  PagesTypeOK'
<1>1. ASSUME NEW h \in Handlers, NEW c \in Clients, NEW k \in {"connect", "disconnect"},
             Begin(h, c, k)
      PROVE  PagesTypeOK'
  <2>1. pc' \in [Actors -> Steps] /\ client' \in [Actors -> Clients \union {NoClient}]
    BY <1>1 DEF Begin, PagesTypeOK, Steps, Actors
  <2>2. kind' \in [Handlers -> {"none", "connect", "disconnect"}] /\ disturbed' \subseteq Handlers
    BY <1>1 DEF Begin, PagesTypeOK
  <2> QED
    BY <1>1, <2>1, <2>2 DEF Begin, PagesTypeOK, points
<1>2. ASSUME NEW h \in Handlers, Acquire(h)
      PROVE  PagesTypeOK'
  <2>1. client[h] \in Clients
    BY <1>2, InProgressHasClient DEF Acquire, InProgress
  <2>2. /\ entry' \in [Clients -> Handlers \union {NoHandler}]
        /\ session' \in [Handlers -> {"none", "open", "closing", "closed"}]
        /\ pc' \in [Actors -> Steps]
        /\ found' \in [Actors -> Handlers \union {NoHandler}]
        /\ continuations' \in [Handlers -> SUBSET Requests]
        /\ releasing' \in [Actors -> SUBSET Requests]
    BY <1>2, <2>1, StepsAreSteps, CloseExistingTypes DEF Acquire, InClose, Actors
  <2> QED
    BY <1>2, <2>2 DEF Acquire, PagesTypeOK
<1>3. ASSUME NEW a \in Actors, (a \in Handlers /\ ReleasedUnderLock(a)) \/ CleanupReleased(a)
      PROVE  PagesTypeOK'
  <2>1. client[a] \in Clients /\ found[a] \in Handlers
    BY <1>3 DEF ReleasedUnderLock, CleanupReleased, ActorInv, SessionInv, InClose, InCleanup
  <2>2. /\ entry' \in [Clients -> Handlers \union {NoHandler}]
        /\ session' \in [Handlers -> {"none", "open", "closing", "closed"}]
        /\ pc' \in [Actors -> Steps]
        /\ found' \in [Actors -> Handlers \union {NoHandler}]
    BY <1>3, <2>1, StepsAreSteps, CloseFoundTypes
    DEF ReleasedUnderLock, CleanupReleased, InClose, InCleanup
  <2>3. EntryReleased(a) /\ UNCHANGED <<tab, disconnects, lock, kind, client, doomed, disturbed>>
    BY <1>3 DEF ReleasedUnderLock, CleanupReleased
  <2> QED
    BY <2>2, <2>3, EntryReleasedTypes DEF PagesTypeOK
<1>4. ASSUME NEW a \in Actors, (a \in Handlers /\ ClosedUnderLock(a)) \/ CleanupClosed(a)
      PROVE  PagesTypeOK'
  <2>1. client[a] \in Clients
    BY <1>4 DEF ClosedUnderLock, CleanupClosed, ActorInv
  <2>2. /\ entry' = [entry EXCEPT ![client[a]] = NoHandler]
        /\ found' = [found EXCEPT ![a] = NoHandler]
        /\ \E s \in Steps : pc' = [pc EXCEPT ![a] = s]
        /\ UNCHANGED <<tab, disconnects, session, lock, kind, client, doomed, disturbed, points>>
    BY <1>4, StepsAreSteps DEF ClosedUnderLock, CleanupClosed
  <2> QED
    BY <2>1, <2>2 DEF PagesTypeOK, points
<1>5. ASSUME NEW h \in Handlers, Opened(h) \/ OpenFails(h) \/ Leave(h)
      PROVE  PagesTypeOK'
  <2>1. /\ pc' = [pc EXCEPT ![h] = "over"] /\ "over" \in Steps
        /\ \E c : entry' \in {entry, [entry EXCEPT ![c] = h]}
        /\ session' \in {session, [session EXCEPT ![h] = "open"]}
        /\ lock' = NoHandler
        /\ UNCHANGED <<tab, disconnects, kind, client, found, doomed, disturbed, points>>
    BY <1>5 DEF Opened, OpenFails, Leave, Steps
  <2> QED
    BY <2>1 DEF PagesTypeOK, points, Actors
<1>6. ASSUME NEW h \in Handlers, OpenedInVain(h) \/ InterruptForgotten(h) \/ Cancel(h)
      PROVE  PagesTypeOK'
  <2>1. pc[h] \in InProgress
    BY <1>6 DEF OpenedInVain, InterruptForgotten, Cancel, InProgress
  <2>2. Interrupt(h) \/ Abandon(h) \/ \E s \in {"open", "closed"} :
          /\ session' = [session EXCEPT ![h] = s]
          /\ UNCHANGED <<tab, disconnects, entry, lock, kind, client, pc, found, doomed,
                         disturbed, points>>
    BY <1>6 DEF OpenedInVain, InterruptForgotten, Cancel
  <2> QED
    BY <2>1, <2>2, InterruptTypes, AbandonTypes, InProgressHasClient DEF PagesTypeOK, points
<1>7. ASSUME NEW h \in Handlers, SessionCloses(h)
      PROVE  PagesTypeOK'
  BY <1>7 DEF SessionCloses, PagesTypeOK, points
<1>8. ASSUME NEW c \in Clients, GoAway(c)
      PROVE  PagesTypeOK'
  BY <1>8 DEF GoAway, PagesTypeOK, points, Connects
<1>9. CASE TakeDisconnect
  <2>1. Head(disconnects) \in Clients /\ Tail(disconnects) \in Seq(Clients)
    BY <1>9 DEF TakeDisconnect, PagesTypeOK
  <2>2. /\ entry' \in [Clients -> Handlers \union {NoHandler}]
        /\ session' \in [Handlers -> {"none", "open", "closing", "closed"}]
        /\ pc' \in [Actors -> Steps]
        /\ found' \in [Actors -> Handlers \union {NoHandler}]
        /\ continuations' \in [Handlers -> SUBSET Requests]
        /\ releasing' \in [Actors -> SUBSET Requests]
    BY <1>9, <2>1, CloseExistingTypes DEF TakeDisconnect, Steps, InCleanup, Actors
  <2> QED
    BY <1>9, <2>1, <2>2 DEF TakeDisconnect, PagesTypeOK
<1>10. CASE Forward
  <2>1. Cleaner \in Actors /\ client[Cleaner] \in Clients
    BY <1>10 DEF Forward, ActorInv, Actors
  <2> QED
    BY <1>10, <2>1 DEF Forward, PagesTypeOK, points, Steps
<1> QED
  BY <1>1, <1>2, <1>3, <1>4, <1>5, <1>6, <1>7, <1>8, <1>9, <1>10
  DEF Next, Step, CleanupStep, Actors

-----------------------------------------------------------------------------
(* What closeExisting does to a tab's entry, for whoever calls it.         *)

\* It is through: whatever is registered for the tab is deleted.
Removes(a, c, then) ==
  /\ entry' = [entry EXCEPT ![c] = NoHandler]
  /\ session' = session
  /\ pc' = [pc EXCEPT ![a] = then]
  /\ found' = [found EXCEPT ![a] = NoHandler]

\* It has begun to close session g, or to release the points of its entry.
Waits(a, g, closing) ==
  /\ session[g] = "open" /\ session' = [session EXCEPT ![g] = "closing"]
  /\ pc' = [pc EXCEPT ![a] = closing]
  /\ found' = [found EXCEPT ![a] = g]
  /\ entry' = entry

Takes(a, g, release) ==
  /\ pc' = [pc EXCEPT ![a] = release]
  /\ found' = [found EXCEPT ![a] = g]
  /\ UNCHANGED <<entry, session>>

\* closeExisting waits for the session that it found, or removes the entry.
LEMMA CloseFoundCases ==
  ASSUME NEW a, NEW c, NEW h, NEW closing, NEW then, CloseFound(a, c, h, closing, then)
  PROVE  \/ session[h] # "open" /\ Removes(a, c, then)
         \/ Waits(a, h, closing)
BY DEF CloseFound, Removes, Waits

LEMMA CloseExistingCases ==
  ASSUME PagesTypeOK, NEW a, NEW c \in Clients, NEW release, NEW closing, NEW then,
         CloseExisting(a, c, release, closing, then)
  PROVE  \/ /\ entry[c] = NoHandler \/ session[entry[c]] # "open"
            /\ Removes(a, c, then)
         \/ /\ entry[c] \in Handlers
            /\ Waits(a, entry[c], closing) \/ Takes(a, entry[c], release)
<1>1. CASE entry[c] = NoHandler
  <2>1. entry = [entry EXCEPT ![c] = NoHandler]
    BY <1>1 DEF PagesTypeOK
  <2> QED
    BY <1>1, <2>1 DEF CloseExisting, Removes
<1>2. CASE entry[c] # NoHandler /\ continuations[entry[c]] = {}
  BY <1>2, CloseFoundCases DEF CloseExisting, PagesTypeOK
<1>3. CASE entry[c] # NoHandler /\ continuations[entry[c]] # {}
  BY <1>3 DEF CloseExisting, PagesTypeOK, Takes
<1> QED
  BY <1>1, <1>2, <1>3

\* A step of handler h through closeExisting under the lock.
LockedStep(h) ==
  /\ pc[h] \in {"waiting"} \union InClose
  /\ lock \in {NoHandler, h} /\ lock' = h
  /\ UNCHANGED <<tab, disconnects, kind, client, doomed, disturbed>>
  /\ \/ /\ entry[client[h]] = NoHandler \/ session[entry[client[h]]] # "open"
        /\ Removes(h, client[h], AfterClose(h))
     \/ \E g \in Handlers :
          /\ entry[client[h]] \in {g, NoHandler} /\ session[g] # "none"
          /\ Waits(h, g, "closing") \/ Takes(h, g, "releasing")

\* Connect and Disconnect close what their tab has only while they hold the permit.
LEMMA LockedSteps ==
  ASSUME PagesTypeOK, RegistryInv, NEW h \in Handlers,
         Acquire(h) \/ ReleasedUnderLock(h) \/ ClosedUnderLock(h)
  PROVE  LockedStep(h)
<1> DEFINE c == client[h]
<1> USE DEF RegistryInv
<1>1. c \in Clients /\ h \in Actors
  BY DEF ActorInv, Acquire, ReleasedUnderLock, ClosedUnderLock, Actors
<1>2. CASE Acquire(h)
  <2>1. CloseExisting(h, c, "releasing", "closing", AfterClose(h))
    BY <1>2 DEF Acquire
  <2>2. PICK g \in Handlers \union {NoHandler} : g = entry[c]
    BY <1>1 DEF PagesTypeOK
  <2>3. g # NoHandler => session[g] # "none"
    BY <1>1, <2>2 DEF SessionInv
  <2> HIDE DEF c
  <2>4. \/ (g = NoHandler \/ session[g] # "open") /\ Removes(h, c, AfterClose(h))
        \/ g \in Handlers /\ (Waits(h, g, "closing") \/ Takes(h, g, "releasing"))
    BY <1>1, <2>1, <2>2, CloseExistingCases
  <2>5. \/ (entry[c] = NoHandler \/ session[entry[c]] # "open") /\ Removes(h, c, AfterClose(h))
        \/ \E i \in Handlers : /\ entry[c] \in {i, NoHandler} /\ session[i] # "none"
                               /\ Waits(h, i, "closing") \/ Takes(h, i, "releasing")
    BY <2>2, <2>3, <2>4, RegistryAssumption
  <2> QED
    BY <1>2, <2>5 DEF Acquire, LockedStep, c
<1>3. CASE ReleasedUnderLock(h)
  BY <1>1, <1>3, CloseFoundCases
  DEF ReleasedUnderLock, LockedStep, SessionInv, LockInv, InClose, UnderLock
<1>4. CASE ClosedUnderLock(h)
  <2>1. Removes(h, client[h], AfterClose(h))
    BY <1>4 DEF ClosedUnderLock, Removes
  <2> QED
    BY <1>1, <1>4, <2>1 DEF ClosedUnderLock, LockedStep, LockInv, InClose, UnderLock
<1> QED
  BY <1>2, <1>3, <1>4

\* A step of an unlocked cleanup for tab c, by the cleaner or by a Connect that
\* was interrupted.
CleanupStepFor(a, c) ==
  /\ \/ a = Cleaner /\ pc[a] \in {"idle"} \union InCleanup /\ tab[c] # "here"
     \/ a \in Handlers /\ pc[a] \in InProgress \union InCleanup /\ kind[a] = "connect"
  /\ lock' = lock \/ (lock = a /\ lock' = NoHandler)
  /\ UNCHANGED <<tab, kind>>
  /\ client' = [client EXCEPT ![a] = c]
  /\ \A i \in 1..Len(disconnects') : tab[disconnects'[i]] # "here"
  /\ doomed' \subseteq doomed /\ doomed \subseteq doomed' \union {a}
  /\ disturbed \subseteq disturbed'
  /\ \A k \in Handlers : Opening(k) /\ client[k] = c => k \in disturbed'
  /\ \/ /\ \/ entry[c] \in {NoHandler} \union disturbed'
           \/ session[entry[c]] # "open"
        /\ Removes(a, c, CleanupFinished(a))
     \/ \E g \in Handlers :
          /\ entry[c] \in {g, NoHandler} \union disturbed' /\ session[g] # "none"
          /\ Waits(a, g, "cleanClosing") \/ Takes(a, g, "cleanReleasing")

\* The cleaner begins, an interrupted Connect begins, and both go on.
LEMMA DisconnectIsCleanup ==
  ASSUME PagesTypeOK, RegistryInv, TakeDisconnect
  PROVE  Head(disconnects) \in Clients /\ CleanupStepFor(Cleaner, Head(disconnects))
<1> DEFINE c == Head(disconnects)
<1> USE DEF RegistryInv
<1>1. /\ c \in Clients /\ c = disconnects[1] /\ tab[c] # "here"
      /\ \A i \in 1..Len(Tail(disconnects)) : tab[Tail(disconnects)[i]] # "here"
  BY DEF TakeDisconnect, PagesTypeOK, ActorInv
<1>2. \A k \in Handlers : Opening(k) /\ client[k] = c => k \in disturbed
  BY <1>1 DEF DisturbedInv
<1>3. \/ /\ entry[c] = NoHandler \/ session[entry[c]] # "open"
         /\ Removes(Cleaner, c, CleanupFinished(Cleaner))
      \/ /\ entry[c] \in Handlers /\ session[entry[c]] # "none"
         /\ Waits(Cleaner, entry[c], "cleanClosing") \/ Takes(Cleaner, entry[c], "cleanReleasing")
  <2>1. CloseExisting(Cleaner, c, "cleanReleasing", "cleanClosing", "forwarding")
    BY DEF TakeDisconnect
  <2>2. \/ /\ entry[c] = NoHandler \/ session[entry[c]] # "open"
           /\ Removes(Cleaner, c, "forwarding")
        \/ /\ entry[c] \in Handlers
           /\ Waits(Cleaner, entry[c], "cleanClosing") \/ Takes(Cleaner, entry[c], "cleanReleasing")
    BY <1>1, <2>1, CloseExistingCases
  <2>3. entry[c] # NoHandler => session[entry[c]] # "none"
    BY <1>1 DEF SessionInv
  <2> QED
    BY <1>1, <2>2, <2>3, RegistryAssumption DEF CleanupFinished, PagesTypeOK
<1> HIDE DEF c
<1> QED
  BY <1>1, <1>2, <1>3 DEF TakeDisconnect, CleanupStepFor, c

LEMMA AbandonedConnectIsCleanup ==
  ASSUME PagesTypeOK, RegistryInv, NEW h \in Handlers, pc[h] \in InProgress,
         kind[h] = "connect", Abandon(h)
  PROVE  CleanupStepFor(h, client[h])
<1> DEFINE c == client[h]
<1> USE DEF RegistryInv
<1>1. c \in Clients /\ h \in Actors /\ h # Cleaner
  BY InProgressHasClient, RegistryAssumption DEF Actors
<1>2. /\ CloseExisting(h, c, "cleanReleasing", "cleanClosing", "over")
      /\ disturbed' = disturbed \union Connects(c)
      /\ lock' = IF lock = h THEN NoHandler ELSE lock
      /\ doomed' = doomed \ {h}
      /\ UNCHANGED <<tab, disconnects, kind, client>>
  BY DEF Abandon
<1>3. PICK g \in Handlers \union {NoHandler} : g = entry[c]
  BY <1>1 DEF PagesTypeOK
<1>4. g # NoHandler => session[g] # "none"
  BY <1>1, <1>3 DEF SessionInv
<1>5. \A k \in Handlers : Opening(k) /\ client[k] = c => k \in disturbed'
  BY <1>2 DEF Opening, Connects
<1>6. \A i \in 1..Len(disconnects') : tab[disconnects'[i]] # "here"
  BY <1>2 DEF ActorInv
<1>7. client' = [client EXCEPT ![h] = c]
  BY <1>2 DEF PagesTypeOK
<1> HIDE DEF c
<1>8. \/ (g = NoHandler \/ session[g] # "open") /\ Removes(h, c, CleanupFinished(h))
      \/ g \in Handlers /\ (Waits(h, g, "cleanClosing") \/ Takes(h, g, "cleanReleasing"))
  BY <1>1, <1>2, <1>3, CloseExistingCases DEF CleanupFinished
<1>9. \/ /\ \/ entry[c] \in {NoHandler} \union disturbed'
            \/ session[entry[c]] # "open"
         /\ Removes(h, c, CleanupFinished(h))
      \/ \E i \in Handlers :
           /\ entry[c] \in {i, NoHandler} \union disturbed' /\ session[i] # "none"
           /\ Waits(h, i, "cleanClosing") \/ Takes(h, i, "cleanReleasing")
  BY <1>3, <1>4, <1>8, RegistryAssumption
<1>10. /\ disturbed \subseteq disturbed' /\ doomed' \subseteq doomed
       /\ doomed \subseteq doomed' \union {h} /\ UNCHANGED <<tab, kind>>
       /\ lock' = lock \/ (lock = h /\ lock' = NoHandler)
  BY <1>2
<1> QED
  BY <1>1, <1>5, <1>6, <1>7, <1>9, <1>10 DEF CleanupStepFor, c

LEMMA CleanupGoesOn ==
  ASSUME PagesTypeOK, RegistryInv, NEW a \in Actors, CleanupReleased(a) \/ CleanupClosed(a)
  PROVE  client[a] \in Clients /\ CleanupStepFor(a, client[a])
<1> USE DEF RegistryInv
<1>1. /\ pc[a] \in InCleanup /\ client[a] \in Clients
      /\ found[a] \in Handlers /\ session[found[a]] # "none"
      /\ entry[client[a]] \in {found[a], NoHandler} \union disturbed
      /\ \A k \in Handlers : Opening(k) /\ client[k] = client[a] => k \in disturbed
      /\ UNCHANGED <<tab, disconnects, lock, kind, client, doomed, disturbed>>
  BY DEF CleanupReleased, CleanupClosed, ActorInv, SessionInv, DisturbedInv, InCleanup
<1>2. a \in Handlers \/ a = Cleaner
  BY DEF Actors
<1>3. a \in Handlers => kind[a] = "connect"
  BY <1>1 DEF ActorInv
<1>4. a = Cleaner => tab[client[a]] # "here"
  BY <1>1 DEF ActorInv, InCleanup
<1>5. client' = [client EXCEPT ![a] = client[a]]
  BY <1>1 DEF PagesTypeOK
<1>6. \/ session[found[a]] # "open" /\ Removes(a, client[a], CleanupFinished(a))
      \/ Waits(a, found[a], "cleanClosing")
  <2>1. CASE CleanupReleased(a)
    BY <2>1, CloseFoundCases DEF CleanupReleased
  <2>2. CASE CleanupClosed(a)
    BY <2>2 DEF CleanupClosed, Removes
  <2> QED
    BY <2>1, <2>2
<1>7. \A i \in 1..Len(disconnects') : tab[disconnects'[i]] # "here"
  BY <1>1 DEF ActorInv
<1> QED
  BY <1>1, <1>2, <1>3, <1>4, <1>5, <1>6, <1>7 DEF CleanupStepFor

-----------------------------------------------------------------------------
(* Sessions: RegistryInv is inductive.                                     *)

\* A step under the lock removes a session only after it has closed.
LEMMA LockedStepKeepsInv ==
  ASSUME PagesTypeOK, RegistryInv, NEW h \in Handlers, LockedStep(h)
  PROVE  RegistryInv'
<1> USE DEF RegistryInv, PagesTypeOK
<1> DEFINE c == client[h]
<1>1. /\ c \in Clients /\ h \in Actors /\ h # Cleaner /\ Handlers \subseteq Actors
      /\ UNCHANGED <<tab, disconnects, kind, client, doomed, disturbed>> /\ lock' = h
  BY RegistryAssumption DEF LockedStep, ActorInv, Actors, InClose
<1>2. PICK s \in {"opening", "leaving", "closing", "releasing"} :
        /\ pc' = [pc EXCEPT ![h] = s]
        /\ s = "opening" => kind[h] = "connect" /\ entry'[c] = NoHandler
  BY <1>1 DEF LockedStep, Removes, Waits, Takes, AfterClose
<1>3. /\ entry' = entry \/ entry' = [entry EXCEPT ![c] = NoHandler]
      /\ session' = session \/ \E g \in Handlers : /\ session[g] = "open"
                                                  /\ session' = [session EXCEPT ![g] = "closing"]
  BY DEF LockedStep, Removes, Waits, Takes
<1> DEFINE Found ==
      /\ \A a \in Actors \ {h} : found'[a] = found[a] /\ pc'[a] = pc[a]
      /\ s \in InClose => /\ found'[h] \in Handlers /\ session'[found'[h]] # "none"
                          /\ entry'[c] \in {found'[h], NoHandler}
                          /\ s = "closing" => session'[found'[h]] # "open"
<1>4. Found
  <2>1. CASE Removes(h, c, AfterClose(h))
    BY <1>1, <1>2, <2>1 DEF Removes, AfterClose, InClose
  <2>2. ASSUME NEW g \in Handlers, entry[c] \in {g, NoHandler}, session[g] # "none",
               Waits(h, g, "closing") \/ Takes(h, g, "releasing")
        PROVE  Found
    <3>1. /\ \A a \in Actors \ {h} : found'[a] = found[a] /\ pc'[a] = pc[a]
          /\ found'[h] = g /\ entry' = entry
      BY <1>1, <2>2 DEF Waits, Takes
    <3>2. session'[g] # "none" /\ (pc'[h] = "closing" => session'[g] # "open")
      BY <1>1, <2>2 DEF Waits, Takes
    <3> QED
      BY <1>1, <1>2, <2>2, <3>1, <3>2
  <2> QED
    BY <2>1, <2>2 DEF LockedStep
<1>5. \A k \in Handlers \ {h} : pc[k] \notin UnderLock
  BY <1>1, RegistryAssumption DEF LockInv, LockedStep
<1>6. session[h] = "none" /\ pc[h] \notin {"over", "opening"} \union InCleanup
      /\ pc[h] \in InProgress
  BY DEF LockedStep, SessionInv, InClose, InCleanup, InProgress
<1>7. ActorInv'
  BY <1>1, <1>2, <1>4, RegistryAssumption DEF ActorInv, InCleanup, Actors
<1>8. LockInv'
  BY <1>1, <1>2, <1>4, <1>5 DEF LockInv, UnderLock, InClose
<1>9. SessionInv'
  BY <1>1, <1>2, <1>3, <1>4, <1>6 DEF SessionInv, InClose, InCleanup
<1>10. DisturbedInv'
  <2>1. \A k \in Handlers : Opening(k)' => Opening(k)
    BY <1>1, <1>2, <1>6 DEF Opening
  <2>2. \A a \in Actors : pc'[a] \in InCleanup => pc[a] \in InCleanup /\ found'[a] = found[a]
    BY <1>1, <1>2, <1>4 DEF InCleanup
  <2>3. \A d \in Clients : entry'[d] \in {entry[d], NoHandler}
    BY <1>1, <1>3
  <2> QED
    BY <1>1, <2>1, <2>2, <2>3 DEF DisturbedInv, ActorInv, InCleanup
<1>11. LostInv'
  <2> SUFFICES ASSUME NEW k \in Handlers, session'[k] = "open", k \notin disturbed
               PROVE  Reachable(k)'
    BY <1>1 DEF LostInv
  <2>1. session[k] = "open" /\ Reachable(k)
    BY <1>1, <1>3 DEF LostInv
  <2>2. entry'[client[k]] = entry[client[k]]
    <3>1. client[k] \in Clients
      BY <1>1, <2>1 DEF SessionInv, ActorInv
    <3>2. CASE Removes(h, c, AfterClose(h)) /\ (entry[c] = NoHandler \/ session[entry[c]] # "open")
      BY <1>1, <2>1, <3>1, <3>2, RegistryAssumption DEF Removes, Reachable
    <3>3. CASE entry' = entry
      BY <1>1, <3>3
    <3> QED
      BY <3>2, <3>3 DEF LockedStep, Waits, Takes
  <2>3. pc'[Cleaner] = pc[Cleaner]
    BY <1>1, <1>2 DEF Actors
  <2> QED
    BY <1>1, <2>1, <2>2, <2>3 DEF Reachable
<1> QED
  BY <1>7, <1>8, <1>9, <1>10, <1>11

\* A cleanup removes a session that it closed, or one that was disturbed.
LEMMA CleanupStepKeepsInv ==
  ASSUME PagesTypeOK, RegistryInv, NEW a \in Actors, NEW c \in Clients, CleanupStepFor(a, c),
         a \in Handlers => client[a] = c
  PROVE  RegistryInv'
<1> USE DEF RegistryInv, PagesTypeOK
<1>1. /\ UNCHANGED <<tab, kind>> /\ client' = [client EXCEPT ![a] = c]
      /\ doomed' \subseteq doomed /\ doomed \subseteq doomed' \union {a}
      /\ disturbed \subseteq disturbed'
      /\ Handlers \subseteq Actors /\ Cleaner \notin Handlers /\ NoHandler \notin Handlers
      /\ \A k \in Handlers : client'[k] = client[k]
  BY RegistryAssumption DEF CleanupStepFor, Actors
<1>2. PICK s \in {"over", "forwarding", "cleanClosing", "cleanReleasing"} :
        /\ pc' = [pc EXCEPT ![a] = s]
        /\ s = "over" => a # Cleaner
        /\ s = "forwarding" => a = Cleaner /\ entry' = [entry EXCEPT ![c] = NoHandler]
                               /\ session' = session
  BY <1>1 DEF CleanupStepFor, Removes, Waits, Takes, CleanupFinished
<1>3. /\ entry' = entry \/ entry' = [entry EXCEPT ![c] = NoHandler]
      /\ session' = session \/ \E g \in Handlers : /\ session[g] = "open"
                                                  /\ session' = [session EXCEPT ![g] = "closing"]
  BY DEF CleanupStepFor, Removes, Waits, Takes
<1> DEFINE Found ==
      /\ \A b \in Actors \ {a} : found'[b] = found[b] /\ pc'[b] = pc[b]
      /\ s \in InCleanup => /\ found'[a] \in Handlers /\ session'[found'[a]] # "none"
                            /\ entry'[c] \in {found'[a], NoHandler} \union disturbed'
                            /\ s = "cleanClosing" => session'[found'[a]] # "open"
<1>4. Found
  <2>1. CASE Removes(a, c, CleanupFinished(a))
    BY <1>1, <1>2, <2>1 DEF Removes, CleanupFinished, InCleanup
  <2>2. ASSUME NEW g \in Handlers, entry[c] \in {g, NoHandler} \union disturbed',
               session[g] # "none", Waits(a, g, "cleanClosing") \/ Takes(a, g, "cleanReleasing")
        PROVE  Found
    <3>1. /\ \A b \in Actors \ {a} : found'[b] = found[b] /\ pc'[b] = pc[b]
          /\ found'[a] = g /\ entry' = entry
      BY <1>1, <2>2 DEF Waits, Takes
    <3>2. session'[g] # "none" /\ (pc'[a] = "cleanClosing" => session'[g] # "open")
      BY <1>1, <2>2 DEF Waits, Takes
    <3> QED
      BY <1>1, <1>2, <2>2, <3>1, <3>2
  <2> QED
    BY <2>1, <2>2 DEF CleanupStepFor
<1>5. /\ pc[a] # "over" /\ pc'[a] \notin InProgress \union UnderLock \union {"idle"}
      /\ \A k \in Handlers : Opening(k)' => Opening(k)
  BY <1>1, <1>2, RegistryAssumption
  DEF CleanupStepFor, InProgress, InCleanup, InClose, UnderLock, Opening
<1>6. \A d \in Clients : entry'[d] \in {entry[d], NoHandler}
  BY <1>1, <1>3
<1>7. ActorInv'
  BY <1>1, <1>2, <1>4 DEF ActorInv, CleanupStepFor, InCleanup, Actors
<1>8. LockInv'
  <2>1. \A k \in Handlers : pc'[k] \in UnderLock =>
          /\ pc'[k] = pc[k] /\ found'[k] = found[k] /\ client[k] \in Clients /\ lock' = lock
    BY <1>1, <1>4, <1>5 DEF LockInv, ActorInv, UnderLock, InClose, CleanupStepFor
  <2> QED
    BY <1>1, <1>6, <2>1 DEF LockInv, UnderLock
<1>9. SessionInv'
  BY <1>1, <1>2, <1>3, <1>4, <1>5 DEF SessionInv, InClose, InCleanup
<1>10. DisturbedInv'
  <2>1. doomed' \subseteq disturbed'
    BY <1>1 DEF DisturbedInv
  <2>2. \A k \in Handlers : Opening(k)' /\ tab'[client'[k]] # "here" => k \in disturbed'
    BY <1>1, <1>5 DEF DisturbedInv
  <2>3. ASSUME NEW b \in Actors, pc'[b] \in InCleanup
        PROVE  /\ \A k \in Handlers : Opening(k)' /\ client'[k] = client'[b] => k \in disturbed'
               /\ entry'[client'[b]] \in {found'[b], NoHandler} \union disturbed'
    <3>1. CASE b = a
      <4>1. client'[b] = c
        BY <1>1, <3>1
      <4>2. \A k \in Handlers : Opening(k) /\ client[k] = c => k \in disturbed'
        BY DEF CleanupStepFor
      <4>3. entry'[c] \in {found'[b], NoHandler} \union disturbed'
        BY <1>2, <1>4, <2>3, <3>1
      <4> QED
        BY <1>1, <1>5, <4>1, <4>2, <4>3
    <3>2. CASE b # a
      <4>1. /\ pc[b] \in InCleanup /\ found'[b] = found[b]
            /\ client'[b] = client[b] /\ client[b] \in Clients
        BY <1>1, <1>4, <2>3, <3>2 DEF ActorInv, InCleanup
      <4> QED
        BY <1>1, <1>5, <1>6, <4>1 DEF DisturbedInv
    <3> QED
      BY <3>1, <3>2
  <2> QED
    BY <2>1, <2>2, <2>3 DEF DisturbedInv
<1>11. LostInv'
  <2> SUFFICES ASSUME NEW k \in Handlers, session'[k] = "open", k \notin disturbed'
               PROVE  Reachable(k)'
    BY DEF LostInv
  <2>1. session[k] = "open" /\ Reachable(k) /\ client[k] \in Clients
    BY <1>1, <1>3 DEF LostInv, SessionInv, ActorInv
  <2>2. entry'[client[k]] = k
    <3>1. CASE Removes(a, c, CleanupFinished(a)) /\
               (entry[c] \in {NoHandler} \union disturbed' \/ session[entry[c]] # "open")
      BY <1>1, <2>1, <3>1 DEF Removes, Reachable
    <3>2. CASE entry' = entry
      BY <2>1, <3>2 DEF Reachable
    <3> QED
      BY <3>1, <3>2 DEF CleanupStepFor, Waits, Takes
  <2>3. ~(pc'[Cleaner] = "forwarding" /\ client'[Cleaner] = client'[k])
    <3>1. CASE a = Cleaner
      BY <1>1, <1>2, <2>1, <2>2, <3>1
    <3>2. CASE a # Cleaner
      BY <1>1, <1>2, <2>1, <3>2 DEF Reachable, Actors
    <3> QED
      BY <3>1, <3>2
  <2> QED
    BY <1>1, <2>1, <2>2, <2>3 DEF Reachable
<1> QED
  BY <1>7, <1>8, <1>9, <1>10, <1>11

\* A Connect that begins beside a cleanup of its tab is marked.
LEMMA BeginKeepsInv ==
  ASSUME PagesTypeOK, RegistryInv, NEW h \in Handlers, NEW c \in Clients,
         NEW k \in {"connect", "disconnect"}, Begin(h, c, k)
  PROVE  RegistryInv'
<1> USE DEF RegistryInv, PagesTypeOK
<1>1. /\ UNCHANGED <<tab, disconnects, entry, session, lock, found, doomed>>
      /\ kind' = [kind EXCEPT ![h] = k] /\ client' = [client EXCEPT ![h] = c]
      /\ pc' = [pc EXCEPT ![h] = "waiting"] /\ pc[h] = "idle" /\ tab[c] = "here"
      /\ disturbed \subseteq disturbed'
      /\ k = "connect" /\ (\E a \in Actors : client[a] = c /\ pc[a] \in InCleanup) =>
           h \in disturbed'
      /\ h \in Actors /\ h # Cleaner /\ Handlers \subseteq Actors
  BY RegistryAssumption DEF Begin, Actors
<1>2. \A i \in Handlers : session[i] # "none" => i # h /\ client[i] \in Clients
  BY <1>1 DEF SessionInv, ActorInv
<1>3. ActorInv'
  BY <1>1 DEF ActorInv, InCleanup
<1>4. LockInv'
  BY <1>1 DEF LockInv, UnderLock, InClose
<1>5. SessionInv'
  BY <1>1, <1>2 DEF SessionInv, InClose, InCleanup
<1>6. DisturbedInv'
  <2>1. \A i \in Handlers : Opening(i)' /\ tab'[client'[i]] # "here" => i \in disturbed'
    BY <1>1 DEF DisturbedInv, Opening
  <2>2. ASSUME NEW a \in Actors, pc'[a] \in InCleanup
        PROVE  /\ \A i \in Handlers : Opening(i)' /\ client'[i] = client'[a] => i \in disturbed'
               /\ entry'[client'[a]] \in {found'[a], NoHandler} \union disturbed'
    <3>1. a # h /\ pc[a] \in InCleanup /\ client'[a] = client[a]
      BY <1>1, <2>2 DEF InCleanup
    <3> QED
      BY <1>1, <3>1 DEF DisturbedInv, Opening
  <2> QED
    BY <1>1, <2>1, <2>2 DEF DisturbedInv
<1>7. LostInv'
  <2>1. client'[Cleaner] = client[Cleaner] /\ pc'[Cleaner] = pc[Cleaner]
    BY <1>1 DEF Actors
  <2> QED
    BY <1>1, <1>2, <2>1 DEF LostInv, Reachable
<1> QED
  BY <1>3, <1>4, <1>5, <1>6, <1>7

\* The new session is the only one of its tab that is registered, and was
\* disturbed if its tab is no longer here or is being cleaned up.
LEMMA OpenedKeepsInv ==
  ASSUME PagesTypeOK, RegistryInv, NEW h \in Handlers, Opened(h)
  PROVE  RegistryInv'
<1> USE DEF RegistryInv, PagesTypeOK
<1> DEFINE c == client[h]
<1>1. /\ UNCHANGED <<tab, disconnects, kind, client, found, doomed, disturbed>>
      /\ session' = [session EXCEPT ![h] = "open"] /\ entry' = [entry EXCEPT ![c] = h]
      /\ lock' = NoHandler /\ pc' = [pc EXCEPT ![h] = "over"]
      /\ pc[h] = "opening" /\ session[h] = "none" /\ entry[c] = NoHandler /\ lock = h
      /\ h \in Actors /\ h # Cleaner /\ Handlers \subseteq Actors /\ c \in Clients /\ h # NoHandler
      /\ Opening(h)
  BY RegistryAssumption
  DEF Opened, Actors, LockInv, UnderLock, ActorInv, Opening, InProgress
<1>2. \A i \in Handlers \ {h} : pc[i] \notin UnderLock
  BY <1>1 DEF LockInv
<1>3. ActorInv'
  BY <1>1 DEF ActorInv, InCleanup
<1>4. LockInv'
  BY <1>1, <1>2 DEF LockInv, UnderLock, InClose
<1>5. SessionInv'
  BY <1>1 DEF SessionInv, InClose, InCleanup
<1>6. DisturbedInv'
  <2>1. \A i \in Handlers : Opening(i)' => Opening(i)
    BY <1>1 DEF Opening, InProgress, InClose
  <2>2. ASSUME NEW a \in Actors, pc'[a] \in InCleanup
        PROVE  entry'[client'[a]] \in {found'[a], NoHandler} \union disturbed'
    <3>1. pc[a] \in InCleanup /\ client[a] \in Clients
      BY <1>1, <2>2 DEF InCleanup, ActorInv
    <3> QED
      BY <1>1, <3>1 DEF DisturbedInv
  <2> QED
    BY <1>1, <2>1, <2>2 DEF DisturbedInv, InCleanup
<1>7. LostInv'
  <2> SUFFICES ASSUME NEW k \in Handlers, session'[k] = "open", k \notin disturbed'
               PROVE  Reachable(k)'
    BY DEF LostInv
  <2>1. CASE k = h
    <3>1. tab[c] = "here"
      BY <1>1, <2>1 DEF DisturbedInv
    <3>2. ~(pc[Cleaner] = "forwarding" /\ client[Cleaner] = c)
      BY <3>1 DEF ActorInv
    <3> QED
      BY <1>1, <2>1, <3>1, <3>2 DEF Reachable, Actors
  <2>2. CASE k # h
    <3>1. Reachable(k) /\ client[k] \in Clients
      BY <1>1, <2>2 DEF LostInv, SessionInv, ActorInv
    <3> QED
      BY <1>1, <2>2, <3>1, RegistryAssumption DEF Reachable, Actors
  <2> QED
    BY <2>1, <2>2
<1> QED
  BY <1>3, <1>4, <1>5, <1>6, <1>7

\* A handler that leaves without a session.
LEMMA LeavingKeepsInv ==
  ASSUME PagesTypeOK, RegistryInv, NEW h \in Handlers,
         \/ OpenFails(h) \/ Leave(h)
         \/ Abandon(h) /\ kind[h] # "connect" /\ pc[h] \in InProgress
  PROVE  RegistryInv'
<1> USE DEF RegistryInv, PagesTypeOK
<1>1. /\ UNCHANGED <<tab, disconnects, entry, session, kind, client, found, disturbed>>
      /\ doomed' \subseteq doomed /\ doomed \subseteq doomed' \union {h}
      /\ lock' = NoHandler \/ lock' = lock
      /\ lock = h \/ lock' = lock
      /\ pc' = [pc EXCEPT ![h] = "over"]
      /\ pc[h] \in {"opening", "leaving"} \union InProgress
      /\ h \in Actors /\ h # Cleaner /\ Handlers \subseteq Actors
  BY RegistryAssumption DEF OpenFails, Leave, Abandon, Actors, LockInv, UnderLock
<1>2. pc[h] \notin {"idle", "over"} \union InCleanup
  BY <1>1 DEF InProgress, InClose, InCleanup
<1>3. ActorInv'
  BY <1>1, <1>2 DEF ActorInv, InCleanup
<1>4. LockInv'
  BY <1>1, RegistryAssumption DEF LockInv, UnderLock, InClose
<1>5. SessionInv'
  BY <1>1, <1>2 DEF SessionInv, InClose, InCleanup
<1>6. DisturbedInv'
  BY <1>1, <1>2 DEF DisturbedInv, InCleanup, Opening, InProgress, InClose
<1>7. LostInv'
  BY <1>1 DEF LostInv, Reachable, Actors
<1> QED
  BY <1>3, <1>4, <1>5, <1>6, <1>7

\* An interruption while the session opens, and what comes of that session.
LEMMA DoomedKeepsInv ==
  ASSUME PagesTypeOK, RegistryInv, NEW h \in Handlers, pc[h] = "opening",
         \/ Interrupt(h)
         \/ OpenedInVain(h) /\ session[h] = "none"
  PROVE  RegistryInv'
<1> USE DEF RegistryInv, PagesTypeOK
<1>1. /\ UNCHANGED <<tab, disconnects, entry, lock, kind, client, pc, found>>
      /\ doomed \subseteq doomed' /\ disturbed \subseteq disturbed'
      /\ doomed' \ doomed \subseteq disturbed'
      /\ session' = session \/ /\ h \in doomed /\ session[h] = "none"
                               /\ \E s \in {"open", "closed"} : session' = [session EXCEPT ![h] = s]
  BY DEF Interrupt, OpenedInVain
<1>2. ActorInv' /\ LockInv'
  BY <1>1 DEF ActorInv, LockInv
<1>3. SessionInv'
  BY <1>1 DEF SessionInv, InClose, InCleanup
<1>4. DisturbedInv'
  BY <1>1 DEF DisturbedInv, Opening
<1>5. LostInv'
  BY <1>1 DEF LostInv, Reachable, DisturbedInv
<1> QED
  BY <1>2, <1>3, <1>4, <1>5

\* The finalizers of a session have run, a tab goes, and that is passed on.
LEMMA EnvironmentKeepsInv ==
  ASSUME PagesTypeOK, RegistryInv,
         (\E h \in Handlers : SessionCloses(h)) \/ (\E c \in Clients : GoAway(c)) \/ Forward
  PROVE  RegistryInv'
<1> USE DEF RegistryInv, PagesTypeOK
<1>1. ASSUME NEW h \in Handlers, SessionCloses(h)
      PROVE  RegistryInv'
  <2>1. /\ UNCHANGED <<tab, disconnects, entry, lock, kind, client, pc, found, doomed, disturbed>>
        /\ session[h] = "closing" /\ session' = [session EXCEPT ![h] = "closed"]
    BY <1>1 DEF SessionCloses
  <2>2. ActorInv' /\ LockInv' /\ DisturbedInv'
    BY <2>1 DEF ActorInv, LockInv, DisturbedInv, Opening
  <2>3. SessionInv'
    BY <2>1 DEF SessionInv
  <2>4. LostInv'
    BY <2>1 DEF LostInv, Reachable
  <2> QED
    BY <2>2, <2>3, <2>4
<1>2. ASSUME NEW c \in Clients, GoAway(c)
      PROVE  RegistryInv'
  <2>1. /\ UNCHANGED <<entry, session, lock, kind, client, pc, found, doomed>>
        /\ tab[c] = "here" /\ tab' = [tab EXCEPT ![c] = "left"]
        /\ disconnects' = Append(disconnects, c)
        /\ disturbed' = disturbed \union Connects(c)
    BY <1>2 DEF GoAway
  <2>2. \A i \in 1..Len(disconnects') : tab'[disconnects'[i]] # "here"
    BY <2>1 DEF ActorInv
  <2>3. ActorInv'
    BY <2>1, <2>2 DEF ActorInv
  <2>4. LockInv' /\ SessionInv'
    BY <2>1 DEF LockInv, SessionInv
  <2>5. DisturbedInv'
    BY <2>1 DEF DisturbedInv, Opening, Connects
  <2>6. LostInv'
    BY <2>1 DEF LostInv, Reachable
  <2> QED
    BY <2>3, <2>4, <2>5, <2>6
<1>3. CASE Forward
  <2>1. /\ UNCHANGED <<disconnects, entry, session, lock, kind, client, found, doomed, disturbed>>
        /\ pc[Cleaner] = "forwarding" /\ tab' = [tab EXCEPT ![client[Cleaner]] = "forgotten"]
        /\ pc' = [pc EXCEPT ![Cleaner] = "idle"]
        /\ Cleaner \in Actors /\ Cleaner \notin Handlers /\ Handlers \subseteq Actors
        /\ client[Cleaner] \in Clients
    BY <1>3, RegistryAssumption DEF Forward, Actors, ActorInv
  <2>2. ActorInv'
    BY <2>1 DEF ActorInv, InCleanup
  <2>3. LockInv' /\ SessionInv'
    BY <2>1 DEF LockInv, SessionInv, UnderLock, InClose, InCleanup
  <2>4. DisturbedInv'
    <3>1. tab[client[Cleaner]] # "here"
      BY <2>1 DEF ActorInv
    <3> QED
      BY <2>1, <3>1 DEF DisturbedInv, Opening, InCleanup
  <2>5. LostInv'
    BY <2>1 DEF LostInv, Reachable
  <2> QED
    BY <2>2, <2>3, <2>4, <2>5
<1> QED
  BY <1>1, <1>2, <1>3

\* Registry steps keep RegistryInv, whoever takes them.
LEMMA RegistryKeepsInv ==
  ASSUME PagesTypeOK, RegistryInv, Next
  PROVE  RegistryInv'
<1>1. ASSUME NEW h \in Handlers, Interrupt(h) \/ Abandon(h), pc[h] \in InProgress,
             pc[h] = "opening" \/ Abandon(h)
      PROVE  RegistryInv'
  <2>1. CASE Abandon(h) /\ kind[h] = "connect"
    <3>1. CleanupStepFor(h, client[h]) /\ client[h] \in Clients /\ h \in Actors
      BY <1>1, <2>1, AbandonedConnectIsCleanup, InProgressHasClient DEF RegistryInv, Actors
    <3> QED
      BY <3>1, CleanupStepKeepsInv
  <2>2. CASE Abandon(h) /\ kind[h] # "connect"
    BY <1>1, <2>2, LeavingKeepsInv
  <2>3. CASE Interrupt(h) /\ pc[h] = "opening"
    BY <2>3, DoomedKeepsInv
  <2> QED
    BY <1>1, <2>1, <2>2, <2>3
<1>2. ASSUME NEW h \in Handlers, NEW c \in Clients, NEW k \in {"connect", "disconnect"},
             Begin(h, c, k)
      PROVE  RegistryInv'
  BY <1>2, BeginKeepsInv
<1>3. ASSUME NEW h \in Handlers, Acquire(h) \/ ReleasedUnderLock(h) \/ ClosedUnderLock(h)
      PROVE  RegistryInv'
  BY <1>3, LockedSteps, LockedStepKeepsInv
<1>4. ASSUME NEW h \in Handlers, Opened(h)
      PROVE  RegistryInv'
  BY <1>4, OpenedKeepsInv
<1>5. ASSUME NEW h \in Handlers, OpenFails(h) \/ Leave(h)
      PROVE  RegistryInv'
  BY <1>5, LeavingKeepsInv
<1>6. ASSUME NEW h \in Handlers, OpenedInVain(h)
      PROVE  RegistryInv'
  <2>1. pc[h] = "opening" /\ pc[h] \in InProgress
    BY <1>6 DEF OpenedInVain, InProgress
  <2>2. CASE session[h] = "none"
    BY <1>6, <2>1, <2>2, DoomedKeepsInv
  <2>3. CASE session[h] # "none"
    BY <1>6, <1>1, <2>1, <2>3 DEF OpenedInVain
  <2> QED
    BY <2>2, <2>3
<1>7. ASSUME NEW h \in Handlers, InterruptForgotten(h) \/ Cancel(h)
      PROVE  RegistryInv'
  <2>1. pc[h] \in InProgress /\ Interrupt(h)
    BY <1>7 DEF InterruptForgotten, Cancel
  <2>2. pc[h] = "opening" \/ Abandon(h)
    BY <2>1 DEF Interrupt
  <2> QED
    BY <1>1, <2>1, <2>2
<1>8. ASSUME NEW a \in Actors, CleanupReleased(a) \/ CleanupClosed(a)
      PROVE  RegistryInv'
  <2>1. client[a] \in Clients /\ CleanupStepFor(a, client[a])
    BY <1>8, CleanupGoesOn
  <2> QED
    BY <2>1, CleanupStepKeepsInv
<1>9. CASE TakeDisconnect
  <2>1. Head(disconnects) \in Clients /\ CleanupStepFor(Cleaner, Head(disconnects))
    BY <1>9, DisconnectIsCleanup
  <2>2. Cleaner \in Actors /\ Cleaner \notin Handlers
    BY RegistryAssumption DEF Actors
  <2> QED
    BY <2>1, <2>2, CleanupStepKeepsInv
<1>10. CASE (\E h \in Handlers : SessionCloses(h)) \/ (\E c \in Clients : GoAway(c)) \/ Forward
  BY <1>10, EnvironmentKeepsInv
<1> QED
  BY <1>2, <1>3, <1>4, <1>5, <1>6, <1>7, <1>8, <1>9, <1>10 DEF Next, Step, CleanupStep

-----------------------------------------------------------------------------
(* Continuation points: what the steps of the registry do to them.         *)

\* Actor a takes the points of entry g, or gives up those it was releasing, and
\* the others keep theirs.
PointsMove(a) ==
  /\ releasing' \in [Actors -> SUBSET Requests]
  /\ \A b \in Actors \ {a} : releasing'[b] = releasing[b] /\ pc'[b] = pc[b]
  /\ releasing'[a] # {} => pc'[a] \in {"releasing", "cleanReleasing"}
  /\ \/ continuations' = continuations /\ releasing'[a] = {}
     \/ \E g \in Handlers : /\ continuations' = [continuations EXCEPT ![g] = {}]
                            /\ releasing'[a] = continuations[g]
  /\ live' \subseteq live /\ abandoned \subseteq abandoned'
  /\ releasing[a] \intersect live' \subseteq abandoned'
  /\ live' = live \/ releasing'[a] = {}

\* closeExisting takes the points of the entry it found, the end of the releases
\* drops them, and an interruption gives up what it was releasing.
LEMMA CloseExistingMoves ==
  ASSUME PagesTypeOK, NEW a \in Actors, NEW c \in Clients, NEW release \in {"releasing", "cleanReleasing"},
         NEW closing, NEW then, CloseExisting(a, c, release, closing, then),
         releasing[a] \subseteq abandoned', abandoned \subseteq abandoned', live' = live
  PROVE  PointsMove(a)
<1> USE DEF PagesTypeOK
<1>1. CASE entry[c] = NoHandler
  BY <1>1 DEF CloseExisting, PointsMove
<1>2. CASE entry[c] # NoHandler /\ continuations[entry[c]] = {}
  BY <1>2 DEF CloseExisting, CloseFound, PointsMove
<1>3. CASE entry[c] # NoHandler /\ continuations[entry[c]] # {}
  <2>1. /\ entry[c] \in Handlers 
        /\ pc' = [pc EXCEPT ![a] = release]
        /\ releasing' = [releasing EXCEPT ![a] = continuations[entry[c]]]
        /\ continuations' = [continuations EXCEPT ![entry[c]] = {}]
    BY <1>3 DEF CloseExisting
  <2>2. PICK g \in Handlers : g = entry[c]
    BY <2>1
  <2>3. /\ releasing' \in [Actors -> SUBSET Requests]
        /\ \A b \in Actors \ {a} : releasing'[b] = releasing[b] /\ pc'[b] = pc[b]
        /\ pc'[a] = release /\ releasing'[a] = continuations[g]
        /\ continuations' = [continuations EXCEPT ![g] = {}]
    BY <2>1, <2>2
  <2> QED
    BY <2>3 DEF PointsMove
<1> QED
  BY <1>1, <1>2, <1>3

LEMMA EntryReleasedMoves ==
  ASSUME PagesTypeOK, NEW a \in Actors, EntryReleased(a), NEW s, pc' = [pc EXCEPT ![a] = s]
  PROVE  PointsMove(a)
BY DEF EntryReleased, PointsMove, PagesTypeOK

LEMMA AbandonMoves ==
  ASSUME PagesTypeOK, ActorInv, NEW h \in Handlers, pc[h] \in InProgress, Abandon(h)
  PROVE  PointsMove(h)
<1>1. /\ client[h] \in Clients /\ h \in Actors /\ live' = live
      /\ abandoned' = abandoned \union releasing[h]
  BY InProgressHasClient DEF Abandon, Actors
<1>2. CASE kind[h] = "connect"
  <2>1. CloseExisting(h, client[h], "cleanReleasing", "cleanClosing", "over")
    BY <1>2 DEF Abandon
  <2> QED
    BY <1>1, <2>1, CloseExistingMoves
<1>3. CASE kind[h] # "connect"
  BY <1>1, <1>3 DEF Abandon, PointsMove, PagesTypeOK
<1> QED
  BY <1>2, <1>3

\* Every step of the registry moves the points of at most one actor.
PointsStep ==
  \/ UNCHANGED points /\ \A a \in Actors : releasing[a] # {} => pc'[a] = pc[a]
  \/ \E a \in Actors : PointsMove(a)

\* What the steps of the registry do to the points.
LEMMA RegistryMovesPoints ==
  ASSUME PagesTypeOK, RegistryInv, HandInv, Next
  PROVE  PointsStep
<1> USE DEF RegistryInv
<1>1. ASSUME NEW a \in Actors, UNCHANGED points, pc[a] \notin {"releasing", "cleanReleasing"},
             NEW s, pc' = [pc EXCEPT ![a] = s]
      PROVE  PointsStep
  BY <1>1 DEF PointsStep, HandInv, PagesTypeOK
<1>2. ASSUME NEW h \in Handlers, NEW c \in Clients, NEW k \in {"connect", "disconnect"},
             Begin(h, c, k)
      PROVE  PointsStep
  BY <1>1, <1>2 DEF Begin, Actors
<1>3. ASSUME NEW h \in Handlers, Acquire(h)
      PROVE  PointsStep
  <2>1. /\ client[h] \in Clients /\ releasing[h] = {} /\ h \in Actors
        /\ CloseExisting(h, client[h], "releasing", "closing", AfterClose(h))
        /\ UNCHANGED <<live, abandoned>>
    BY <1>3, InProgressHasClient DEF Acquire, InProgress, HandInv, Actors
  <2>2. PointsMove(h)
    BY <2>1, CloseExistingMoves
  <2> QED
    BY <2>1, <2>2 DEF PointsStep
<1>4. ASSUME NEW a \in Actors, (a \in Handlers /\ ReleasedUnderLock(a)) \/ CleanupReleased(a)
      PROVE  PointsStep
  <2>1. EntryReleased(a) /\ \E s : pc' = [pc EXCEPT ![a] = s]
    BY <1>4 DEF ReleasedUnderLock, CleanupReleased, CloseFound
  <2> QED
    BY <2>1, EntryReleasedMoves DEF PointsStep
<1>5. ASSUME NEW a \in Actors, (a \in Handlers /\ ClosedUnderLock(a)) \/ CleanupClosed(a)
      PROVE  PointsStep
  BY <1>1, <1>5 DEF ClosedUnderLock, CleanupClosed
<1>6. ASSUME NEW h \in Handlers, Opened(h) \/ OpenFails(h) \/ Leave(h)
      PROVE  PointsStep
  BY <1>1, <1>6 DEF Opened, OpenFails, Leave, Actors
<1>7. ASSUME NEW h \in Handlers, OpenedInVain(h) \/ InterruptForgotten(h) \/ Cancel(h)
      PROVE  PointsStep
  <2>1. pc[h] \in InProgress
    BY <1>7 DEF OpenedInVain, InterruptForgotten, Cancel, InProgress
  <2>2. Abandon(h) \/ UNCHANGED <<points, pc>>
    BY <1>7 DEF OpenedInVain, InterruptForgotten, Cancel, Interrupt
  <2> QED
    BY <2>1, <2>2, AbandonMoves DEF PointsStep, Actors
<1>8. CASE (\E h \in Handlers : SessionCloses(h)) \/ (\E c \in Clients : GoAway(c))
  BY <1>8 DEF SessionCloses, GoAway, PointsStep
<1>9. CASE TakeDisconnect
  <2>1. /\ disconnects # <<>> /\ pc[Cleaner] = "idle"
        /\ CloseExisting(Cleaner, Head(disconnects), "cleanReleasing", "cleanClosing", "forwarding")
        /\ UNCHANGED <<live, abandoned>>
    BY <1>9 DEF TakeDisconnect
  <2>a. Head(disconnects) \in Clients
    BY <2>1 DEF PagesTypeOK
  <2>b. Cleaner \in Actors /\ releasing[Cleaner] = {}
    BY <2>1 DEF HandInv, Actors
  <2>2. PointsMove(Cleaner)
    BY <2>1, <2>a, <2>b, CloseExistingMoves
  <2> QED
    BY <2>b, <2>2 DEF PointsStep
<1>10. CASE Forward
  BY <1>1, <1>10 DEF Forward, Actors
<1> QED
  BY <1>2, <1>3, <1>4, <1>5, <1>6, <1>7, <1>8, <1>9, <1>10
  DEF Next, Step, CleanupStep, Actors

\* A session that there is stays that of its tab, does not open again, and is
\* not forgotten to have been disturbed.
SessionsStay ==
  /\ \A s \in Handlers : session[s] # "none" =>
       /\ session'[s] # "none" /\ client'[s] = client[s]
       /\ session'[s] = "open" => session[s] = "open"
  /\ disturbed \subseteq disturbed'

\* Every step of the registry is of that kind.
LEMMA RegistryKeepsSessions ==
  ASSUME PagesTypeOK, RegistryInv, Next
  PROVE  SessionsStay
<1> USE DEF RegistryInv
<1>1. ASSUME NEW g \in Handlers, NEW s,
             session' = session \/ (session' = [session EXCEPT ![g] = s] /\
                                     (session[g] = "none" \/ s \in {"closing", "closed"}) /\ s # "none"),
             \A k \in Handlers : session[k] # "none" => client'[k] = client[k],
             disturbed \subseteq disturbed'
      PROVE  SessionsStay
  BY <1>1 DEF SessionsStay, PagesTypeOK
<1>2. ASSUME NEW h \in Handlers, LockedStep(h)
      PROVE  SessionsStay
  BY <1>1, <1>2 DEF LockedStep, Removes, Waits, Takes
<1>3. ASSUME NEW a \in Actors, NEW c \in Clients, CleanupStepFor(a, c), a \in Handlers => client[a] = c
      PROVE  SessionsStay
  <2>1. \A k \in Handlers : client'[k] = client[k]
    BY <1>3, RegistryAssumption DEF CleanupStepFor, PagesTypeOK, Actors
  <2>2. session' = session \/ \E g \in Handlers : session' = [session EXCEPT ![g] = "closing"]
    BY <1>3 DEF CleanupStepFor, Removes, Waits, Takes
  <2>3. disturbed \subseteq disturbed'
    BY <1>3 DEF CleanupStepFor
  <2>4. CASE session' = session
    BY <2>1, <2>3, <2>4 DEF SessionsStay
  <2> QED
    BY <1>1, <2>1, <2>2, <2>3, <2>4
<1>4. ASSUME NEW h \in Handlers, pc[h] \in InProgress, Abandon(h)
      PROVE  SessionsStay
  <2>1. CASE kind[h] = "connect"
    BY <1>3, <1>4, <2>1, AbandonedConnectIsCleanup, InProgressHasClient DEF Actors
  <2>2. CASE kind[h] # "connect"
    BY <1>1, <1>4, <2>2 DEF Abandon
  <2> QED
    BY <2>1, <2>2
<1>5. ASSUME NEW h \in Handlers, NEW c \in Clients, NEW k \in {"connect", "disconnect"},
             Begin(h, c, k)
      PROVE  SessionsStay
  <2>1. session[h] = "none" /\ UNCHANGED session /\ client' = [client EXCEPT ![h] = c]
        /\ disturbed \subseteq disturbed'
    BY <1>5 DEF Begin, SessionInv
  <2> QED
    BY <1>1, <2>1 DEF PagesTypeOK
<1>6. ASSUME NEW h \in Handlers, Acquire(h) \/ ReleasedUnderLock(h) \/ ClosedUnderLock(h)
      PROVE  SessionsStay
  BY <1>2, <1>6, LockedSteps
<1>7. ASSUME NEW h \in Handlers, Opened(h) \/ OpenFails(h) \/ Leave(h) \/ SessionCloses(h)
      PROVE  SessionsStay
  BY <1>1, <1>7 DEF Opened, OpenFails, Leave, SessionCloses
<1>8. ASSUME NEW h \in Handlers, OpenedInVain(h) \/ InterruptForgotten(h) \/ Cancel(h)
      PROVE  SessionsStay
  <2>1. pc[h] \in InProgress
    BY <1>8 DEF OpenedInVain, InterruptForgotten, Cancel, InProgress
  <2>2. \/ Abandon(h)
        \/ UNCHANGED <<session, client>> /\ disturbed \subseteq disturbed'
        \/ /\ session[h] = "none" /\ UNCHANGED <<client, disturbed>>
           /\ \E s \in {"open", "closed"} : session' = [session EXCEPT ![h] = s]
    BY <1>8 DEF OpenedInVain, InterruptForgotten, Cancel, Interrupt
  <2> QED
    BY <1>1, <1>4, <2>1, <2>2
<1>9. ASSUME NEW a \in Actors, CleanupReleased(a) \/ CleanupClosed(a)
      PROVE  SessionsStay
  BY <1>3, <1>9, CleanupGoesOn
<1>10. ASSUME TakeDisconnect
       PROVE  SessionsStay
  <2>1. Cleaner \in Actors /\ Cleaner \notin Handlers
    BY RegistryAssumption DEF Actors
  <2> QED
    BY <1>3, <1>10, <2>1, DisconnectIsCleanup
<1>11. CASE (\E c \in Clients : GoAway(c)) \/ Forward
  BY <1>11 DEF GoAway, Forward, SessionsStay
<1> QED
  BY <1>5, <1>6, <1>7, <1>8, <1>9, <1>10, <1>11 DEF Next, Step, CleanupStep

\* So the registry keeps the invariants of the points.
LEMMA RegistryKeepsPoints ==
  ASSUME PagesTypeOK, HandInv, UniqueInv, KeptInv, PointsStep, SessionsStay, UNCHANGED request,
         PagesTypeOK'
  PROVE  HandInv' /\ UniqueInv' /\ KeptInv'
<1> USE DEF PagesTypeOK
<1>1. \A r \in Requests : hands(r)' = hands(r)
  BY DEF hands
<1>2. live' \subseteq live /\ abandoned \subseteq abandoned'
  BY DEF PointsStep, PointsMove, points
<1>3. \A i \in Handlers : continuations'[i] \subseteq continuations[i]
  <2>1. CASE continuations' = continuations
    BY <2>1
  <2>2. ASSUME NEW g \in Handlers, continuations' = [continuations EXCEPT ![g] = {}]
        PROVE  \A i \in Handlers : continuations'[i] \subseteq continuations[i]
    <3>1. \A i \in Handlers : continuations'[i] = IF i = g THEN {} ELSE continuations[i]
      BY <2>2
    <3> QED
      BY <3>1
  <2> QED
    BY <2>1, <2>2 DEF PointsStep, PointsMove, points
<1>4. \A a \in Actors : \A p \in releasing'[a] :
        p \in releasing[a] \/ \E i \in Handlers : p \in continuations[i] /\ p \notin continuations'[i]
  <2>1. ASSUME NEW a \in Actors, PointsMove(a), NEW p \in releasing'[a]
        PROVE  \E i \in Handlers : p \in continuations[i] /\ p \notin continuations'[i]
    <3>1. PICK g \in Handlers : /\ continuations' = [continuations EXCEPT ![g] = {}]
                                /\ releasing'[a] = continuations[g]
      BY <2>1 DEF PointsMove
    <3>2. p \in continuations[g] /\ p \notin continuations'[g]
      BY <2>1, <3>1
    <3> QED
      BY <3>2
  <2> QED
    BY <2>1 DEF PointsStep, PointsMove, points
<1>5. \A p : Held(p)' => Held(p)
  BY <1>1, <1>3, <1>4 DEF Held
<1>6. \A a \in Actors : releasing'[a] # {} => pc'[a] \in {"releasing", "cleanReleasing"}
  BY DEF PointsStep, PointsMove, points, HandInv
<1>7. HandInv'
  <2>1. \A i \in Handlers : continuations'[i] # {} => session'[i] # "none"
    BY <1>3 DEF HandInv, SessionsStay
  <2>2. \A r \in Requests :
          /\ hands(r)' # {} => request'[r].pc \in InRequest
          /\ request'[r].pc = "describing" => hands(r)' \subseteq {r}
          /\ request'[r].pc # "idle" => /\ request'[r].tab \in Clients
                                        /\ request'[r].session \in Handlers
                                        /\ client'[request'[r].session] = request'[r].tab
                                        /\ session'[request'[r].session] # "none"
    BY <1>1 DEF HandInv, SessionsStay
  <2>3. \A p \in Requests : Held(p)' \/ p \in live' => request'[p].pc \in {"describing", "over"}
    BY <1>2, <1>5 DEF HandInv
  <2> QED
    BY <1>6, <2>1, <2>2, <2>3 DEF HandInv
<1>8. UniqueInv'
  <2>1. CASE UNCHANGED points
    BY <1>1, <2>1 DEF UniqueInv, points
  <2>2. ASSUME NEW a \in Actors, PointsMove(a)
        PROVE  UniqueInv'
    <3>1. CASE continuations' = continuations /\ releasing'[a] = {}
      <4>1. \A b \in Actors : releasing'[b] = IF b = a THEN {} ELSE releasing[b]
        BY <2>2, <3>1 DEF PointsMove
      <4>2. /\ \A i \in Handlers, b \in Actors : continuations'[i] \intersect releasing'[b] = {}
            /\ \A b \in Actors, r \in Requests : releasing'[b] \intersect hands(r)' = {}
        <5> HIDE DEF PagesTypeOK
        <5>1. \A i \in Handlers, b \in Actors : continuations[i] \intersect releasing[b] = {}
          BY DEF UniqueInv
        <5>2. \A b \in Actors, r \in Requests : releasing[b] \intersect hands(r) = {}
          BY DEF UniqueInv
        <5> QED
          BY <1>1, <3>1, <4>1, <5>1, <5>2
      <4>3. \A b, d \in Actors : b # d => releasing'[b] \intersect releasing'[d] = {}
        BY <4>1 DEF UniqueInv
      <4> QED
        BY <1>1, <3>1, <4>2, <4>3 DEF UniqueInv
    <3>2. ASSUME NEW g \in Handlers, continuations' = [continuations EXCEPT ![g] = {}],
                 releasing'[a] = continuations[g]
          PROVE  UniqueInv'
      <4>1. /\ \A i \in Handlers : continuations'[i] = IF i = g THEN {} ELSE continuations[i]
            /\ \A b \in Actors : releasing'[b] = IF b = a THEN continuations[g] ELSE releasing[b]
        BY <2>2, <3>2 DEF PointsMove
      <4> QED
        <5>1. \A i, j \in Handlers : i # j => continuations'[i] \intersect continuations'[j] = {}
          BY <4>1 DEF UniqueInv
        <5>2. \A b, d \in Actors : b # d => releasing'[b] \intersect releasing'[d] = {}
          BY <4>1 DEF UniqueInv
        <5>3. \A i \in Handlers, b \in Actors : continuations'[i] \intersect releasing'[b] = {}
          BY <4>1 DEF UniqueInv
        <5>4. /\ \A i \in Handlers, r \in Requests : continuations'[i] \intersect hands(r)' = {}
              /\ \A b \in Actors, r \in Requests : releasing'[b] \intersect hands(r)' = {}
          <6> HIDE DEF PagesTypeOK
          <6>1. \A b \in Actors, r \in Requests : releasing[b] \intersect hands(r) = {}
            BY DEF UniqueInv
          <6>2. \A i \in Handlers, r \in Requests : continuations[i] \intersect hands(r) = {}
            BY DEF UniqueInv
          <6> QED
            BY <1>1, <4>1, <6>1, <6>2
        <5>5. \A q, r \in Requests : q # r => hands(q)' \intersect hands(r)' = {}
          BY <1>1 DEF UniqueInv
        <5> QED
          BY <5>1, <5>2, <5>3, <5>4, <5>5 DEF UniqueInv
    <3> QED
      BY <2>2, <3>1, <3>2 DEF PointsMove
  <2> QED
    BY <2>1, <2>2 DEF PointsStep
<1>9. KeptInv'
  <2>1. ASSUME NEW p \in live', p \notin abandoned'
        PROVE  Held(p)'
    <3>1. p \in live /\ Held(p)
      BY <1>2, <2>1 DEF KeptInv
    <3>2. ASSUME NEW i \in Handlers, p \in continuations[i]
          PROVE  p \in continuations'[i] \/ \E a \in Actors : p \in releasing'[a]
      BY <3>2 DEF PointsStep, PointsMove, points
    <3>3. ASSUME NEW a \in Actors, p \in releasing[a]
          PROVE  p \in releasing'[a]
      BY <2>1, <3>3 DEF PointsStep, PointsMove, points
    <3> QED
      BY <1>1, <3>1, <3>2, <3>3 DEF Held
  <2>2. ASSUME NEW i \in Handlers, NEW p \in continuations'[i]
        PROVE  /\ client'[i] = request'[p].tab
               /\ session'[request'[p].session] = "open" =>
                    i = request'[p].session \/ request'[p].session \in disturbed'
    <3>1. p \in continuations[i] /\ p \in Requests
      BY <1>3, <2>2
    <3>2. session[i] # "none" /\ request[p].pc \in {"describing", "over"}
      BY <3>1 DEF HandInv, Held
    <3>3. request[p].session \in Handlers /\ session[request[p].session] # "none"
      BY <3>1, <3>2 DEF HandInv
    <3> QED
      BY <3>1, <3>2, <3>3 DEF KeptInv, SessionsStay
  <2> QED
    BY <2>1, <2>2 DEF KeptInv
<1> QED
  BY <1>7, <1>8, <1>9

-----------------------------------------------------------------------------
(* Continuation points: what the browse requests do to them.               *)

\* Request r of tab c goes on with points of the entry that the tab has.
StartsWith(r, c, taken) ==
  /\ request[r].pc = "idle" /\ c \in Clients /\ entry[c] \in Handlers
  /\ taken \subseteq continuations[entry[c]]
  /\ continuations' = [continuations EXCEPT ![entry[c]] = @ \ taken]
  /\ \E step \in InRequest \ {"describing"} : \E node \in Nodes :
       request' = [request EXCEPT ![r] = [pc |-> step, tab |-> c, session |-> entry[c],
                                          node |-> node, hands |-> taken]]
  /\ UNCHANGED <<registryVars, live, abandoned>>

\* The points of r become used, given up, or one new point.
GoesOn(r, step, keeps) ==
  /\ request[r].pc \in InRequest
  /\ UNCHANGED <<registryVars, continuations>>
  /\ step \in InRequest \union {"over"} /\ keeps \subseteq Requests
  /\ request' = [request EXCEPT ![r].pc = step, ![r].hands = keeps]
  /\ request[r].pc = "describing" => step = "over"
  /\ step = "over" => keeps = {}
  /\ step = "describing" => keeps \subseteq {r}
  /\ keeps \subseteq hands(r) \/ (keeps = {r} /\ request[r].pc = "browsing")
  /\ r \in keeps \/ r \in live' \ live => step \in {"describing", "over"}
  /\ live' \subseteq live \/ (request[r].pc = "browsing" /\ live' \subseteq live \union {r})
  /\ (live' \ live) \subseteq keeps \union abandoned'
  /\ (hands(r) \ keeps) \intersect live' \subseteq abandoned'
  /\ abandoned \subseteq abandoned' /\ abandoned' \subseteq Requests

\* The browse requests take these two kinds of steps, and PageStored.
LEMMA RequestsStart ==
  ASSUME PagesTypeOK, RegistryInv, NEW r \in Requests, NEW c \in Clients,
         \/ \E n \in Nodes : Browse(r, c, n)
         \/ \E p \in Requests : BrowseContinuation(r, c, p) \/ ReleaseBrowseContinuation(r, c, p)
  PROVE  \E taken : StartsWith(r, c, taken)
<1> USE DEF PagesTypeOK
<1>1. ASSUME NEW step \in {"browsing", "releasing", "releasingOld"}, NEW node \in Nodes, NEW taken,
             Starts(r, c, step, node, taken), Taken(c, taken)
      PROVE  StartsWith(r, c, taken)
  BY <1>1 DEF Starts, Taken, StartsWith, InRequest
<1>2. ASSUME NEW n \in Nodes, Browse(r, c, n)
      PROVE  \E taken : StartsWith(r, c, taken)
  <2>1. PICK old : /\ Starts(r, c, IF old = {} THEN "browsing" ELSE "releasingOld", n, old)
                   /\ Taken(c, old)
    BY <1>2 DEF Browse
  <2> QED
    BY <1>1, <2>1
<1>3. ASSUME NEW p \in Requests, BrowseContinuation(r, c, p) \/ ReleaseBrowseContinuation(r, c, p)
      PROVE  \E taken : StartsWith(r, c, taken)
  BY <1>1, <1>3 DEF BrowseContinuation, ReleaseBrowseContinuation
<1> QED
  BY <1>2, <1>3

LEMMA RequestsGoOn ==
  ASSUME PagesTypeOK, RegistryInv, HandInv, NEW r \in Requests,
         \/ ReleaseAnswered(r) \/ PageAnswered(r) \/ BrowseFails(r) \/ MetadataFails(r)
         \/ InterruptRequest(r)
  PROVE  \E step, keeps : GoesOn(r, step, keeps)
<1> USE DEF PagesTypeOK
<1>1. hands(r) \subseteq Requests
  BY DEF hands
<1>2. CASE ReleaseAnswered(r)
  <2>1. PICK p \in hands(r) :
          /\ \/ live' = live \ {p} /\ UNCHANGED abandoned
             \/ abandoned' = abandoned \union {p} /\ UNCHANGED live
          /\ request' = [request EXCEPT
               ![r].hands = hands(r) \ {p},
               ![r].pc = IF hands(r) # {p} THEN request[r].pc
                         ELSE IF request[r].pc = "releasingOld" THEN "browsing" ELSE "over"]
    BY <1>2 DEF ReleaseAnswered, hands
  <2> DEFINE step == IF hands(r) # {p} THEN request[r].pc
                     ELSE IF request[r].pc = "releasingOld" THEN "browsing" ELSE "over"
             keeps == hands(r) \ {p}
  <2>2. /\ step \in {"releasing", "releasingOld", "browsing", "over"}
        /\ step = "over" => keeps = {}
        /\ request' = [request EXCEPT ![r].pc = step, ![r].hands = keeps]
        /\ request[r].pc \in {"releasing", "releasingOld"}
        /\ UNCHANGED <<registryVars, continuations>>
    <3>1. request[r].pc \in {"releasing", "releasingOld"} /\ UNCHANGED <<registryVars, continuations>>
      BY <1>2 DEF ReleaseAnswered
    <3>2. step = "over" => keeps = {}
      BY <3>1
    <3> QED
      BY <2>1, <3>1, <3>2
  <2>3. r \notin hands(r)
    BY <2>2 DEF HandInv, Held
  <2>4. keeps \in SUBSET Requests /\ keeps \subseteq hands(r) /\ hands(r) \ keeps = {p}
    BY <1>1, <2>1
  <2>5. /\ live' \subseteq live /\ abandoned \subseteq abandoned' /\ abandoned' \subseteq Requests
        /\ {p} \intersect live' \subseteq abandoned'
    BY <1>1, <2>1
  <2> HIDE DEF step, keeps
  <2>6. r \notin keeps /\ r \notin live' \ live
    BY <2>3, <2>4, <2>5
  <2>7. GoesOn(r, step, keeps)
    BY <2>2, <2>4, <2>5, <2>6 DEF GoesOn, InRequest
  <2> QED
    BY <2>7
<1>3. CASE PageAnswered(r)
  <2>1. PICK new \in {{}, {r}} :
          /\ live' = (live \ hands(r)) \union new
          /\ request' = [request EXCEPT ![r].pc = "describing", ![r].hands = new]
    BY <1>3 DEF PageAnswered
  <2>2. r \notin hands(r)
    BY <1>3 DEF PageAnswered, HandInv, Held
  <2>3. new \in SUBSET Requests
    BY <2>1
  <2>4. request[r].pc = "browsing" /\ UNCHANGED <<registryVars, continuations, abandoned>>
    BY <1>3 DEF PageAnswered
  <2>5. (hands(r) \ new) \intersect live' = {} /\ live' \ live \subseteq new
        /\ live' \subseteq live \union {r}
    BY <2>1
  <2>6. GoesOn(r, "describing", new)
    BY <2>1, <2>3, <2>4, <2>5 DEF GoesOn, InRequest
  <2> QED
    BY <2>6
<1>4. CASE BrowseFails(r) \/ MetadataFails(r) \/ InterruptRequest(r)
  <2>1. /\ request[r].pc \in InRequest
        /\ request' = [request EXCEPT ![r].pc = "over", ![r].hands = {}]
        /\ UNCHANGED <<registryVars, continuations>>
    BY <1>4 DEF BrowseFails, MetadataFails, InterruptRequest, Over, InRequest
  <2>2. \/ live' = live /\ abandoned' = abandoned \union hands(r)
        \/ /\ request[r].pc = "browsing" /\ live' = (live \ hands(r)) \union {r}
           /\ abandoned' = abandoned \union hands(r) \union {r}
    BY <1>4 DEF BrowseFails, MetadataFails, InterruptRequest
  <2>3. /\ abandoned \subseteq abandoned' /\ abandoned' \subseteq Requests
        /\ (hands(r) \ {}) \intersect live' \subseteq abandoned'
        /\ (live' \ live) \subseteq {} \union abandoned'
        /\ live' \subseteq live \/ (request[r].pc = "browsing" /\ live' \subseteq live \union {r})
    BY <1>1, <2>2
  <2>4. GoesOn(r, "over", {})
    BY <2>1, <2>3 DEF GoesOn
  <2> QED
    BY <2>4
<1> QED
  BY <1>2, <1>3, <1>4

\* Requests that go on keep their type.
LEMMA UpdateTypes ==
  ASSUME PagesTypeOK, NEW r \in Requests, NEW step \in RequestSteps, NEW keeps \in SUBSET Requests,
         request' = [request EXCEPT ![r].pc = step, ![r].hands = keeps]
  PROVE  request' \in [Requests -> [pc : RequestSteps, tab : Clients \union {NoClient},
                                   session : Handlers \union {NoHandler}, node : Nodes,
                                   hands : SUBSET Requests]]
<1> DEFINE Record == [pc : RequestSteps, tab : Clients \union {NoClient},
                      session : Handlers \union {NoHandler}, node : Nodes, hands : SUBSET Requests]
<1>1. request \in [Requests -> Record]
  BY DEF PagesTypeOK
<1>2. ASSUME NEW f \in [Requests -> Record]
      PROVE  [f EXCEPT ![r].pc = step] \in [Requests -> Record]
  OBVIOUS
<1>3. ASSUME NEW f \in [Requests -> Record]
      PROVE  [f EXCEPT ![r].hands = keeps] \in [Requests -> Record]
  OBVIOUS
<1> HIDE DEF Record
<1> DEFINE f == [request EXCEPT ![r].pc = step]
<1>4. f \in [Requests -> Record]
  BY <1>1, <1>2
<1>5. [f EXCEPT ![r].hands = keeps] \in [Requests -> Record]
  <2> HIDE DEF f
  <2> QED
    BY <1>3, <1>4
<1>6. request' = [f EXCEPT ![r].hands = keeps]
  OBVIOUS
<1> QED
  BY <1>5, <1>6 DEF Record

\* A request that starts takes points out of an entry.
LEMMA StartKeepsInv ==
  ASSUME PagesInv, NEW r \in Requests, NEW c, NEW taken, StartsWith(r, c, taken)
  PROVE  PagesInv'
<1>1. PICK i \in Handlers : i = entry[c]
  BY DEF StartsWith
<1>2. /\ request[r].pc = "idle" /\ c \in Clients /\ taken \subseteq continuations[i]
      /\ continuations' = [continuations EXCEPT ![i] = @ \ taken]
      /\ UNCHANGED <<registryVars, live, abandoned>>
  BY <1>1 DEF StartsWith
<1>3. PICK step \in InRequest \ {"describing"}, node \in Nodes :
        request' = [request EXCEPT ![r] = [pc |-> step, tab |-> c, session |-> i,
                                           node |-> node, hands |-> taken]]
  BY <1>1 DEF StartsWith
<1>4. /\ \A q \in Requests : request'[q] = IF q = r
            THEN [pc |-> step, tab |-> c, session |-> i, node |-> node, hands |-> taken]
            ELSE request[q]
      /\ \A k \in Handlers : continuations'[k] = IF k = i THEN continuations[k] \ taken
                                                 ELSE continuations[k]
  BY <1>2, <1>3 DEF PagesInv, PagesTypeOK
<1>5. /\ \A q \in Requests : hands(q)' = IF q = r THEN taken ELSE hands(q)
      /\ request'[r].pc = step /\ request'[r].tab = c /\ request'[r].session = i
      /\ \A q \in Requests : q # r => request'[q] = request[q]
  BY <1>4 DEF hands
<1>6. hands(r) = {} /\ ~Held(r) /\ r \notin live
  BY <1>2 DEF PagesInv, HandInv, InRequest
<1>7. client[i] = c /\ session[i] # "none"
  BY <1>1, <1>2, RegistryAssumption DEF PagesInv, RegistryInv, SessionInv
<1>8. PagesTypeOK'
  <2>1. taken \subseteq Requests
    BY <1>2 DEF PagesInv, PagesTypeOK
  <2>2. continuations' \in [Handlers -> SUBSET Requests]
    BY <1>2 DEF PagesInv, PagesTypeOK
  <2>3. request' \in [Requests -> [pc : RequestSteps, tab : Clients \union {NoClient},
                                   session : Handlers \union {NoHandler}, node : Nodes,
                                   hands : SUBSET Requests]]
    BY <1>2, <1>3, <2>1 DEF PagesInv, PagesTypeOK, RequestSteps
  <2> QED
    BY <1>2, <2>2, <2>3 DEF PagesInv, PagesTypeOK, registryVars
<1>9. RegistryInv'
  BY <1>2 DEF PagesInv, registryVars, RegistryInv, ActorInv, LockInv, SessionInv, DisturbedInv,
              LostInv, Reachable, Opening
<1>10. \A p : Held(p)' => Held(p)
  BY <1>2, <1>4, <1>5 DEF Held, registryVars
<1>11. \A p : Held(p) => Held(p)'
  <2>1. ASSUME NEW p, NEW k \in Handlers, p \in continuations[k]
        PROVE  Held(p)'
    BY <1>4, <1>5, <2>1 DEF Held
  <2>2. ASSUME NEW p, NEW q \in Requests, p \in hands(q)
        PROVE  Held(p)'
    BY <1>5, <1>6, <2>2 DEF Held
  <2> QED
    BY <1>2, <2>1, <2>2 DEF Held, registryVars
<1>12. HandInv'
  BY <1>2, <1>3, <1>4, <1>5, <1>6, <1>7, <1>10 DEF PagesInv, HandInv, registryVars
<1>13. UniqueInv'
  <2> USE DEF PagesInv
  <2>1. \A j, k \in Handlers : j # k => continuations'[j] \intersect continuations'[k] = {}
    BY <1>4 DEF UniqueInv
  <2>2. \A p, q \in Requests : p # q => hands(p)' \intersect hands(q)' = {}
    BY <1>2, <1>5 DEF UniqueInv
  <2>3. \A k \in Handlers, a \in Actors : continuations'[k] \intersect releasing'[a] = {}
    BY <1>2, <1>4 DEF UniqueInv, registryVars
  <2>4. \A k \in Handlers, q \in Requests : continuations'[k] \intersect hands(q)' = {}
    <3>1. \A k \in Handlers : continuations'[k] \intersect taken = {}
      BY <1>2, <1>4 DEF UniqueInv
    <3>2. \A k \in Handlers, q \in Requests : continuations[k] \intersect hands(q) = {}
      BY DEF UniqueInv
    <3>3. \A k \in Handlers : continuations'[k] \subseteq continuations[k]
      BY <1>4
    <3> QED
      BY <1>5, <3>1, <3>2, <3>3
  <2>5. \A a \in Actors, q \in Requests : releasing'[a] \intersect hands(q)' = {}
    <3>1. \A a \in Actors : releasing[a] \intersect taken = {}
      BY <1>2 DEF UniqueInv
    <3>2. \A a \in Actors, q \in Requests : releasing[a] \intersect hands(q) = {}
      BY DEF UniqueInv
    <3> QED
      BY <1>2, <1>5, <3>1, <3>2 DEF registryVars
  <2> QED
    BY <1>2, <2>1, <2>2, <2>3, <2>4, <2>5 DEF UniqueInv, registryVars
<1>14. KeptInv'
  <2>1. \A p \in live' : Held(p)' \/ p \in abandoned'
    BY <1>2, <1>11 DEF PagesInv, KeptInv
  <2>2. ASSUME NEW k \in Handlers, NEW p \in continuations'[k]
        PROVE  p \in continuations[k] /\ p \in Requests /\ p # r
    <3>1. p \in continuations[k]
      BY <1>4, <2>2
    <3> QED
      BY <1>6, <3>1 DEF PagesInv, PagesTypeOK, Held
  <2> QED
    BY <1>2, <1>5, <2>1, <2>2 DEF PagesInv, KeptInv, registryVars
<1> QED
  BY <1>8, <1>9, <1>12, <1>13, <1>14 DEF PagesInv

\* A request that goes on uses points up, gives them up, or gets one.
LEMMA GoingOnKeepsInv ==
  ASSUME PagesInv, NEW r \in Requests, NEW step, NEW keeps, GoesOn(r, step, keeps)
  PROVE  PagesInv'
<1>1. /\ UNCHANGED <<registryVars, continuations>>
      /\ step \in InRequest \union {"over"} /\ keeps \subseteq Requests
      /\ \A q \in Requests : /\ request'[q].tab = request[q].tab
                             /\ request'[q].session = request[q].session
                             /\ request'[q].pc = IF q = r THEN step ELSE request[q].pc
                             /\ hands(q)' = IF q = r THEN keeps ELSE hands(q)
      /\ request[r].pc \in InRequest
  BY DEF GoesOn, hands, PagesInv, PagesTypeOK
<1>2. keeps \subseteq hands(r) \/ (keeps = {r} /\ ~Held(r))
  BY DEF GoesOn, PagesInv, HandInv
<1>3. PagesTypeOK'
  <2>1. request' \in [Requests -> [pc : RequestSteps, tab : Clients \union {NoClient},
                                   session : Handlers \union {NoHandler}, node : Nodes,
                                   hands : SUBSET Requests]]
    <3>1. step \in RequestSteps
      BY <1>1 DEF RequestSteps
    <3>2. request' = [request EXCEPT ![r].pc = step, ![r].hands = keeps]
      BY DEF GoesOn
    <3> QED
      BY <1>1, <3>1, <3>2, UpdateTypes DEF PagesInv
  <2>2. live' \subseteq Requests /\ abandoned' \subseteq Requests
    BY DEF GoesOn, PagesInv, PagesTypeOK
  <2> QED
    BY <1>1, <2>1, <2>2 DEF PagesInv, PagesTypeOK, registryVars
<1>4. RegistryInv'
  BY <1>1 DEF PagesInv, registryVars, RegistryInv, ActorInv, LockInv, SessionInv, DisturbedInv,
              LostInv, Reachable, Opening
<1>5. \A p : Held(p)' => Held(p) \/ (p = r /\ r \in keeps)
  BY <1>1, <1>2 DEF Held, registryVars
<1>6. \A p : Held(p) => Held(p)' \/ p \in hands(r) \ keeps
  BY <1>1 DEF Held, registryVars
<1>7. HandInv'
  <2>1. \A p \in Requests : Held(p)' \/ p \in live' => request'[p].pc \in {"describing", "over"}
    <3>1. ASSUME NEW p \in Requests, Held(p) \/ p \in live
          PROVE  request'[p].pc \in {"describing", "over"}
      <4>1. request[p].pc \in {"describing", "over"}
        BY <3>1 DEF PagesInv, HandInv
      <4>2. p = r => step = "over"
        BY <1>1, <4>1 DEF GoesOn, InRequest
      <4> QED
        BY <1>1, <4>1, <4>2
    <3>2. ASSUME r \in keeps \/ r \in live' \ live
          PROVE  request'[r].pc \in {"describing", "over"}
      BY <1>1, <3>2 DEF GoesOn
    <3>3. live' \subseteq live \union {r}
      BY DEF GoesOn
    <3> QED
      BY <1>5, <3>1, <3>2, <3>3
  <2>2. \A q \in Requests :
          /\ hands(q)' # {} => request'[q].pc \in InRequest
          /\ request'[q].pc = "describing" => hands(q)' \subseteq {q}
    <3>1. /\ keeps # {} => step \in InRequest
          /\ step = "describing" => keeps \subseteq {r}
      BY DEF GoesOn
    <3> QED
      BY <1>1, <3>1 DEF PagesInv, HandInv
  <2> QED
    BY <1>1, <2>1, <2>2 DEF PagesInv, HandInv, registryVars, InRequest
<1>8. UniqueInv'
  <2>1. \A q \in Requests \ {r} : keeps \intersect hands(q) = {}
    BY <1>2 DEF PagesInv, UniqueInv, Held
  <2>2. /\ \A k \in Handlers : continuations[k] \intersect keeps = {}
        /\ \A a \in Actors : releasing[a] \intersect keeps = {}
    BY <1>2 DEF PagesInv, UniqueInv, Held
  <2>3. \A p, q \in Requests : p # q => hands(p)' \intersect hands(q)' = {}
    BY <1>1, <2>1 DEF PagesInv, UniqueInv
  <2>4. \A k \in Handlers, q \in Requests : continuations'[k] \intersect hands(q)' = {}
    BY <1>1, <2>2 DEF PagesInv, UniqueInv
  <2>5. \A a \in Actors, q \in Requests : releasing'[a] \intersect hands(q)' = {}
    BY <1>1, <2>2 DEF PagesInv, UniqueInv, registryVars
  <2> QED
    BY <1>1, <2>3, <2>4, <2>5 DEF PagesInv, UniqueInv, registryVars
<1>9. KeptInv'
  <2>1. \A p \in live' : Held(p)' \/ p \in abandoned'
    <3>1. ASSUME NEW p \in live', p \in live
          PROVE  Held(p)' \/ p \in abandoned'
      BY <1>6, <3>1 DEF PagesInv, KeptInv, GoesOn
    <3>2. ASSUME NEW p \in live', p \notin live
          PROVE  Held(p)' \/ p \in abandoned'
      BY <1>1, <3>2 DEF GoesOn, Held
    <3> QED
      BY <3>1, <3>2
  <2>2. \A i \in Handlers : continuations[i] \subseteq Requests
    BY DEF PagesInv, PagesTypeOK
  <2> QED
    BY <1>1, <2>1, <2>2 DEF PagesInv, KeptInv, registryVars
<1> QED
  BY <1>3, <1>4, <1>7, <1>8, <1>9 DEF PagesInv

\* A page that was described puts its point into the entry that its tab has now:
\* that of the session it came from, unless a cleanup disturbed that session.
LEMMA StoringKeepsInv ==
  ASSUME PagesInv, NEW r \in Requests, PageStored(r), entry[request[r].tab] # NoHandler
  PROVE  PagesInv'
<1> DEFINE c == request[r].tab
<1>1. /\ request[r].pc = "describing" /\ c \in Clients /\ request[r].session \in Handlers
      /\ client[request[r].session] = c /\ hands(r) \subseteq {r}
  BY DEF PageStored, PagesInv, HandInv
<1>2. PICK i \in Handlers : i = entry[c]
  BY <1>1 DEF PagesInv, PagesTypeOK
<1>3. /\ client[i] = c /\ session[i] # "none"
  BY <1>1, <1>2, RegistryAssumption DEF PagesInv, RegistryInv, SessionInv
<1>4. session[request[r].session] = "open" =>
        i = request[r].session \/ request[r].session \in disturbed
  BY <1>1, <1>2 DEF PagesInv, RegistryInv, LostInv, Reachable
<1> HIDE DEF c
<1>5. /\ UNCHANGED <<registryVars, live, abandoned>>
      /\ \A k \in Handlers : continuations'[k] = IF k = i THEN continuations[k] \union hands(r)
                                                 ELSE continuations[k]
      /\ \A q \in Requests : /\ request'[q].tab = request[q].tab
                             /\ request'[q].session = request[q].session
                             /\ request'[q].pc = IF q = r THEN "over" ELSE request[q].pc
                             /\ hands(q)' = IF q = r THEN {} ELSE hands(q)
  BY <1>2 DEF PageStored, Over, hands, PagesInv, PagesTypeOK, c
<1>6. PagesTypeOK'
  <2>1. hands(r) \subseteq Requests
    BY DEF PagesInv, PagesTypeOK, hands
  <2>2. request' \in [Requests -> [pc : RequestSteps, tab : Clients \union {NoClient},
                                   session : Handlers \union {NoHandler}, node : Nodes,
                                   hands : SUBSET Requests]]
    <3>1. request' = [request EXCEPT ![r].pc = "over", ![r].hands = {}]
      BY DEF PageStored, Over
    <3>2. "over" \in RequestSteps
      BY DEF RequestSteps
    <3>3. PagesTypeOK /\ {} \in SUBSET Requests
      BY DEF PagesInv
    <3> QED
      BY <3>1, <3>2, <3>3, UpdateTypes
  <2>3. continuations' \in [Handlers -> SUBSET Requests]
    BY <1>2, <2>1 DEF PageStored, PagesInv, PagesTypeOK, c
  <2> QED
    BY <1>5, <2>2, <2>3 DEF PagesInv, PagesTypeOK, registryVars
<1>7. RegistryInv'
  BY <1>5 DEF PagesInv, registryVars, RegistryInv, ActorInv, LockInv, SessionInv, DisturbedInv,
              LostInv, Reachable, Opening
<1>8. \A p : Held(p)' <=> Held(p)
  <2>1. ASSUME NEW p
        PROVE  Held(p)' => Held(p)
    BY <1>5, <2>1 DEF Held, registryVars
  <2>2. ASSUME NEW p, NEW k \in Handlers, p \in continuations[k]
        PROVE  p \in continuations'[k]
    BY <1>5, <2>2
  <2>3. ASSUME NEW p \in hands(r)
        PROVE  p \in continuations'[i]
    BY <1>5, <2>3
  <2>4. ASSUME NEW p
        PROVE  Held(p) => Held(p)'
    BY <1>5, <2>2, <2>3 DEF Held, registryVars
  <2> QED
    BY <2>1, <2>4
<1>9. HandInv'
  BY <1>1, <1>3, <1>5, <1>8 DEF PagesInv, HandInv, registryVars
<1>10. UniqueInv'
  <2> USE DEF PagesInv
  <2>1. \A j, k \in Handlers : j # k => continuations'[j] \intersect continuations'[k] = {}
    BY <1>5 DEF UniqueInv
  <2>2. \A p, q \in Requests : p # q => hands(p)' \intersect hands(q)' = {}
    BY <1>5 DEF UniqueInv
  <2>3. \A k \in Handlers, a \in Actors : continuations'[k] \intersect releasing'[a] = {}
    BY <1>5 DEF UniqueInv, registryVars
  <2>4. \A k \in Handlers, q \in Requests : continuations'[k] \intersect hands(q)' = {}
    <3>1. \A k \in Handlers, q \in Requests : continuations[k] \intersect hands(q) = {}
      BY DEF UniqueInv
    <3>2. \A q \in Requests \ {r} : hands(r) \intersect hands(q) = {}
      BY DEF UniqueInv
    <3>3. \A k \in Handlers : continuations'[k] \subseteq continuations[k] \union hands(r)
      BY <1>5
    <3> QED
      BY <1>5, <3>1, <3>2, <3>3
  <2>5. \A a \in Actors, q \in Requests : releasing'[a] \intersect hands(q)' = {}
    BY <1>5 DEF UniqueInv, registryVars
  <2> QED
    BY <1>5, <2>1, <2>2, <2>3, <2>4, <2>5 DEF UniqueInv, registryVars
<1>11. KeptInv'
  <2>1. \A p \in live' : Held(p)' \/ p \in abandoned'
    BY <1>5, <1>8 DEF PagesInv, KeptInv
  <2>2. ASSUME NEW k \in Handlers, NEW p \in continuations'[k], p \in continuations[k]
        PROVE  /\ client'[k] = request'[p].tab
               /\ session'[request'[p].session] = "open" =>
                    k = request'[p].session \/ request'[p].session \in disturbed'
    <3>1. p \in Requests
      BY <2>2 DEF PagesInv, PagesTypeOK
    <3> QED
      BY <1>5, <2>2, <3>1 DEF PagesInv, KeptInv, registryVars
  <2>3. ASSUME NEW k \in Handlers, NEW p \in continuations'[k], p \notin continuations[k]
        PROVE  /\ client'[k] = request'[p].tab
               /\ session'[request'[p].session] = "open" =>
                    k = request'[p].session \/ request'[p].session \in disturbed'
    <3>1. k = i /\ p = r
      BY <1>1, <1>5, <2>3
    <3> QED
      BY <1>3, <1>4, <1>5, <3>1 DEF registryVars, c
  <2> QED
    BY <2>1, <2>2, <2>3 DEF KeptInv
<1> QED
  BY <1>6, <1>7, <1>9, <1>10, <1>11 DEF PagesInv

-----------------------------------------------------------------------------
(* Theorems.                                                               *)

LEMMA PagesInitInv ==
  ASSUME PagesInit
  PROVE  PagesInv
<1>1. PagesTypeOK
  <2>1. (CHOOSE n \in Nodes : TRUE) \in Nodes
    BY PagesAssumption
  <2>2. request \in [Requests -> [pc : RequestSteps, tab : Clients \union {NoClient},
                                  session : Handlers \union {NoHandler}, node : Nodes,
                                  hands : SUBSET Requests]]
    BY <2>1 DEF PagesInit, RequestSteps
  <2> QED
    BY <2>2 DEF PagesInit, Init, PagesTypeOK, Steps
<1>2. RegistryInv
  <2>1. Cleaner \in Actors /\ Handlers \subseteq Actors
    BY DEF Actors
  <2> QED
    BY <2>1 DEF PagesInit, Init, RegistryInv, ActorInv, LockInv, SessionInv, DisturbedInv, LostInv,
                Opening, InProgress, InClose, InCleanup, UnderLock
<1>3. HandInv /\ UniqueInv /\ KeptInv
  BY DEF PagesInit, Init, HandInv, UniqueInv, KeptInv, Held, hands
<1> QED
  BY <1>1, <1>2, <1>3 DEF PagesInv

\* PagesInv is inductive.
LEMMA PagesStepKeepsInv ==
  ASSUME PagesInv, [PagesNext]_pagesVars
  PROVE  PagesInv'
<1>1. CASE Next /\ UNCHANGED request
  <2>1. PagesTypeOK'
    BY <1>1, RegistryKeepsTypes DEF PagesInv, RegistryInv
  <2>2. RegistryInv'
    BY <1>1, RegistryKeepsInv DEF PagesInv
  <2>3. PointsStep /\ SessionsStay
    BY <1>1, RegistryMovesPoints, RegistryKeepsSessions DEF PagesInv
  <2> QED
    BY <1>1, <2>1, <2>2, <2>3, RegistryKeepsPoints DEF PagesInv
<1>2. ASSUME NEW r \in Requests, NEW c \in Clients,
             \/ \E n \in Nodes : Browse(r, c, n)
             \/ \E p \in Requests : BrowseContinuation(r, c, p) \/ ReleaseBrowseContinuation(r, c, p)
      PROVE  PagesInv'
  BY <1>2, RequestsStart, StartKeepsInv DEF PagesInv
<1>3. ASSUME NEW r \in Requests,
             \/ ReleaseAnswered(r) \/ PageAnswered(r) \/ BrowseFails(r) \/ MetadataFails(r)
             \/ InterruptRequest(r)
      PROVE  PagesInv'
  BY <1>3, RequestsGoOn, GoingOnKeepsInv DEF PagesInv
<1>4. ASSUME NEW r \in Requests, PageStored(r)
      PROVE  PagesInv'
  <2>1. CASE entry[request[r].tab] = NoHandler
    <3>1. GoesOn(r, "over", {})
      BY <1>4, <2>1 DEF PageStored, Over, GoesOn, InRequest, PagesInv, PagesTypeOK, hands
    <3> QED
      BY <3>1, GoingOnKeepsInv
  <2> QED
    BY <1>4, <2>1, StoringKeepsInv
<1>5. CASE UNCHANGED pagesVars
  BY <1>5 DEF pagesVars, vars, points, PagesInv, PagesTypeOK, RegistryInv, ActorInv, LockInv,
              SessionInv, DisturbedInv, LostInv, Reachable, Opening, HandInv, UniqueInv, KeptInv,
              Held, hands
<1> QED
  BY <1>1, <1>2, <1>3, <1>4, <1>5 DEF PagesNext, RequestStep

\* PagesInv holds in every state, under the registry and the browse requests together.
THEOREM PagesInvariant == PagesSpec => []PagesInv
<1>1. PagesInit => PagesInv
  BY PagesInitInv
<1>2. PagesInv /\ [PagesNext]_pagesVars => PagesInv'
  BY PagesStepKeepsInv
<1> QED
  BY <1>1, <1>2, PTL DEF PagesSpec

\* Types: every variable keeps to what its comment says.
THEOREM PagesTypes == PagesSpec => []PagesTypeOK
<1>1. PagesInv => PagesTypeOK
  BY DEF PagesInv
<1> QED
  BY <1>1, PagesInvariant, PTL

\* A session that is open and can no longer be closed was opened by a Connect that
\* overlapped an unlocked cleanup of its tab, or was itself interrupted, however
\* many tabs connect, disconnect, cancel and leave (session-registry.ts, handlers.ts).
THEOREM OnlyDisturbedSessionsAreLost == PagesSpec => []LostSessionsWereDisturbed
<1>1. PagesInv => LostSessionsWereDisturbed
  BY DEF PagesInv, RegistryInv, LostInv, Reachable, LostSessionsWereDisturbed
<1> QED
  BY <1>1, PagesInvariant, PTL

\* The continuation points of a tab are never in two hands, and none of an open
\* session is lost but by an interruption, a failure, or with its session.
THEOREM PointsAreHeldOnce == PagesSpec => []PointsHaveOneHolder
<1>1. ASSUME PagesInv, NEW p \in live
      PROVE  /\ Cardinality(Holders(p)) <= 1
             /\ session[request[p].session] = "open" /\ Holders(p) = {} =>
                  p \in abandoned \/ request[p].session \in disturbed
  <2>1. \A x, y \in Holders(p) : x = y
    BY <1>1 DEF Holders, PagesInv, UniqueInv
  <2>2. Cardinality(Holders(p)) <= 1
    <3>1. CASE Holders(p) = {}
      BY <3>1, FS_EmptySet
    <3>2. CASE Holders(p) # {}
      <4>1. PICK x : Holders(p) = {x}
        BY <2>1, <3>2
      <4> QED
        BY <4>1, FS_Singleton
    <3> QED
      BY <3>1, <3>2
  <2>3. ASSUME session[request[p].session] = "open", Holders(p) = {}, p \notin abandoned
        PROVE  request[p].session \in disturbed
    <3>1. Held(p) /\ p \in Requests
      BY <1>1, <2>3 DEF PagesInv, KeptInv, PagesTypeOK
    <3>2. PICK i \in Handlers : p \in continuations[i] /\ entry[client[i]] # i
      <4>1. ASSUME NEW a \in Actors, p \in releasing[a]
            PROVE  FALSE
        BY <2>3, <4>1 DEF Holders
      <4>2. ASSUME NEW r \in Requests, p \in hands(r)
            PROVE  FALSE
        BY <2>3, <4>2 DEF Holders
      <4>3. ASSUME NEW i \in Handlers, p \in continuations[i], entry[client[i]] = i
            PROVE  FALSE
        BY <2>3, <4>3 DEF Holders
      <4> QED
        BY <3>1, <4>1, <4>2, <4>3 DEF Held
    <3>3. request[p].session \in Handlers
      BY <1>1, <3>1 DEF PagesInv, HandInv
    <3> QED
      BY <1>1, <2>3, <3>2, <3>3 DEF PagesInv, KeptInv, RegistryInv, LostInv, Reachable
  <2> QED
    BY <2>2, <2>3
<1>2. PagesInv => PointsHaveOneHolder
  BY <1>1 DEF PointsHaveOneHolder
<1> QED
  BY <1>2, PagesInvariant, PTL

=============================================================================
