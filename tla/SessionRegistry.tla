-------------------------- MODULE SessionRegistry --------------------------
(***************************************************************************)
(* The web example's registry of OPC UA sessions, one per browser tab      *)
(* (examples/browse/web/src/server/session-registry.ts), and the RPC       *)
(* handlers and the cleanup of departed tabs that use it (handlers.ts).    *)
(*                                                                         *)
(* Connect and Disconnect run under a lock.  The cleanup of a tab that has *)
(* gone, and of a Connect that was interrupted, does not take it.          *)
(*                                                                         *)
(* A session is named by the Connect handler that opens it.  Opening is    *)
(* not interruptible: an interruption waits until it has settled.  The     *)
(* browse requests that fill an entry with continuations are in module     *)
(* BrowsePages.                                                            *)
(***************************************************************************)
EXTENDS Integers, Sequences, FiniteSets

CONSTANTS
  Clients,      \* browser tabs
  Handlers,     \* RPC handlers: Connect or Disconnect, one call each
  TabsCancel    \* may a tab cancel an RPC?

NoHandler == "NoHandler"
NoClient  == "NoClient"
Cleaner   == "Cleaner"    \* the fiber of withClientCleanup

Actors == Handlers \union {Cleaner}

ASSUME RegistryAssumption ==
  /\ TabsCancel \in BOOLEAN
  /\ Cleaner \notin Handlers /\ NoHandler \notin Handlers /\ NoClient \notin Clients

VARIABLES
  tab,         \* is the tab here, has it left, was that passed on to the RPC server?
  disconnects, \* tabs that have left and were not cleaned up yet
  entry,       \* sessions: the session registered for a tab
  session,     \* what has become of a session
  lock,        \* who holds the permit
  kind,        \* of a handler
  client,      \* whom a handler, or the cleaner, works for
  pc,          \* where a handler, or the cleaner, is
  found,       \* the session that its closeExisting is closing
  doomed,      \* handlers to be interrupted once their session has opened
  disturbed,   \* Connects that overlapped an unlocked cleanup of their tab (history)
  continuations, \* the continuation points in the entry of a session
  releasing,   \* the points an actor has taken from an entry and is releasing
  live,        \* the points that the servers keep
  abandoned    \* the points given up by an interruption or a failure (history)

points == <<continuations, releasing, live, abandoned>>
vars == <<tab, disconnects, entry, session, lock, kind, client, pc, found, doomed,
          disturbed, points>>

Init ==
  /\ tab = [c \in Clients |-> "here"]
  /\ disconnects = <<>>
  /\ entry = [c \in Clients |-> NoHandler]
  /\ session = [h \in Handlers |-> "none"]
  /\ lock = NoHandler
  /\ kind = [h \in Handlers |-> "none"]
  /\ client = [a \in Actors |-> NoClient]
  /\ pc = [a \in Actors |-> "idle"]
  /\ found = [a \in Actors |-> NoHandler]
  /\ doomed = {} /\ disturbed = {}
  /\ continuations = [h \in Handlers |-> {}]
  /\ releasing = [a \in Actors |-> {}]
  /\ live = {} /\ abandoned = {}

\* closeExisting is reached under the lock, or by a cleanup.
InClose    == {"releasing", "closing"}
InCleanup  == {"cleanReleasing", "cleanClosing"}
InProgress == {"waiting", "opening"} \union InClose

Connects(c) == {h \in Handlers : kind[h] = "connect" /\ client[h] = c /\ pc[h] \in InProgress}

-----------------------------------------------------------------------------
(* closeExisting, by actor a for tab c: look the entry up, release its     *)
(* continuations, close it, delete what is then registered for the tab.    *)

\* Scope.close: only the first call runs the finalizers, and waits for them.
\* then is what the actor goes on to.
CloseFound(a, c, h, closing, then) ==
  IF session[h] = "open"
  THEN /\ session' = [session EXCEPT ![h] = "closing"]
       /\ pc' = [pc EXCEPT ![a] = closing]
       /\ found' = [found EXCEPT ![a] = h]
       /\ UNCHANGED entry
  ELSE /\ pc' = [pc EXCEPT ![a] = then]
       /\ found' = [found EXCEPT ![a] = NoHandler]
       /\ entry' = [entry EXCEPT ![c] = NoHandler]
       /\ UNCHANGED session

\* The lookup; the continuations of the entry are taken from it and released one
\* after the other, which is awaited.
CloseExisting(a, c, release, closing, then) ==
  LET h == entry[c]
  IN IF h = NoHandler
     THEN /\ pc' = [pc EXCEPT ![a] = then]
          /\ found' = [found EXCEPT ![a] = NoHandler]
          /\ releasing' = [releasing EXCEPT ![a] = {}]
          /\ UNCHANGED <<entry, session, continuations>>
     ELSE IF continuations[h] = {}
     THEN /\ CloseFound(a, c, h, closing, then)
          /\ releasing' = [releasing EXCEPT ![a] = {}]
          /\ UNCHANGED continuations
     ELSE /\ pc' = [pc EXCEPT ![a] = release]
          /\ found' = [found EXCEPT ![a] = h]
          /\ releasing' = [releasing EXCEPT ![a] = continuations[h]]
          /\ continuations' = [continuations EXCEPT ![h] = {}]
          /\ UNCHANGED <<entry, session>>

\* The releases have been answered; failures are ignored.
EntryReleased(a) ==
  /\ releasing' = [releasing EXCEPT ![a] = {}]
  /\ \E failed \in SUBSET releasing[a] :
        live' = live \ (releasing[a] \ failed) /\ abandoned' = abandoned \union failed
  /\ UNCHANGED continuations

\* What follows closeExisting under the lock.
AfterClose(h) == IF kind[h] = "connect" THEN "opening" ELSE "leaving"

Begin(h, c, k) ==
  /\ tab[c] = "here" /\ pc[h] = "idle"
  /\ h = CHOOSE i \in Handlers : pc[i] = "idle"    \* handlers differ in name only
  /\ kind' = [kind EXCEPT ![h] = k]
  /\ client' = [client EXCEPT ![h] = c]
  /\ pc' = [pc EXCEPT ![h] = "waiting"]
  /\ disturbed' = IF k = "connect" /\ \E a \in Actors : client[a] = c /\ pc[a] \in InCleanup
                  THEN disturbed \union {h} ELSE disturbed
  /\ UNCHANGED <<tab, disconnects, entry, session, lock, found, doomed, points>>

\* Mutant: connect and disconnect do not take the lock.
AcquireUnlocked(h) ==
  /\ pc[h] = "waiting"
  /\ CloseExisting(h, client[h], "releasing", "closing", AfterClose(h))
  /\ UNCHANGED <<tab, disconnects, lock, kind, client, doomed, disturbed, live, abandoned>>

\* The handler gets the permit and begins with closeExisting.
Acquire(h) ==
  /\ pc[h] = "waiting" /\ lock = NoHandler
  /\ lock' = h
  /\ CloseExisting(h, client[h], "releasing", "closing", AfterClose(h))
  /\ UNCHANGED <<tab, disconnects, kind, client, doomed, disturbed, live, abandoned>>

\* The continuations of the found session are released: it is closed now.
ReleasedUnderLock(h) ==
  /\ pc[h] = "releasing"
  /\ CloseFound(h, client[h], found[h], "closing", AfterClose(h))
  /\ EntryReleased(h)
  /\ UNCHANGED <<tab, disconnects, lock, kind, client, doomed, disturbed>>

\* The closed session is deleted from the registry.
ClosedUnderLock(h) ==
  /\ pc[h] = "closing" /\ session[found[h]] = "closed"
  /\ entry' = [entry EXCEPT ![client[h]] = NoHandler]
  /\ found' = [found EXCEPT ![h] = NoHandler]
  /\ pc' = [pc EXCEPT ![h] = AfterClose(h)]
  /\ UNCHANGED <<tab, disconnects, session, lock, kind, client, doomed, disturbed, points>>

\* The end of a cleanup: it deletes whatever the tab has now.
CleanupFinished(a) == IF a = Cleaner THEN "forwarding" ELSE "over"

\* An interrupted handler gives the lock back; Connect then cleans up.
Abandon(h) ==
  /\ lock' = IF lock = h THEN NoHandler ELSE lock
  /\ doomed' = doomed \ {h}
  /\ abandoned' = abandoned \union releasing[h]
  /\ IF kind[h] = "connect"
     THEN /\ disturbed' = disturbed \union Connects(client[h])
          /\ CloseExisting(h, client[h], "cleanReleasing", "cleanClosing", "over")
     ELSE /\ pc' = [pc EXCEPT ![h] = "over"]
          /\ releasing' = [releasing EXCEPT ![h] = {}]
          /\ UNCHANGED <<entry, session, found, disturbed, continuations>>
  /\ UNCHANGED <<tab, disconnects, kind, client, live>>

\* factory.connect succeeds.
Opened(h) ==
  /\ pc[h] = "opening" /\ session[h] = "none" /\ h \notin doomed
  /\ session' = [session EXCEPT ![h] = "open"]
  /\ entry' = [entry EXCEPT ![client[h]] = h]
  /\ lock' = NoHandler
  /\ pc' = [pc EXCEPT ![h] = "over"]
  /\ UNCHANGED <<tab, disconnects, kind, client, found, doomed, disturbed, points>>

OpenFails(h) ==
  /\ pc[h] = "opening" /\ session[h] = "none" /\ h \notin doomed
  /\ lock' = NoHandler
  /\ pc' = [pc EXCEPT ![h] = "over"]
  /\ UNCHANGED <<tab, disconnects, entry, session, kind, client, found, doomed, disturbed, points>>

\* factory.connect settles for a handler that was interrupted meanwhile: the
\* handle is dropped, and with it the only reference to its close.
OpenedInVain(h) ==
  /\ pc[h] = "opening" /\ h \in doomed
  /\ IF session[h] = "none"
     THEN /\ \E s \in {"open", "closed"} : session' = [session EXCEPT ![h] = s]
          /\ UNCHANGED <<tab, disconnects, entry, lock, kind, client, pc, found, doomed, disturbed, points>>
     ELSE Abandon(h)

\* disconnect has nothing more to do.
Leave(h) ==
  /\ pc[h] = "leaving"
  /\ lock' = NoHandler
  /\ pc' = [pc EXCEPT ![h] = "over"]
  /\ UNCHANGED <<tab, disconnects, entry, session, kind, client, found, doomed, disturbed, points>>

\* The finalizers of a session's scope have run.
SessionCloses(h) ==
  /\ session[h] = "closing"
  /\ session' = [session EXCEPT ![h] = "closed"]
  /\ UNCHANGED <<tab, disconnects, entry, lock, kind, client, pc, found, doomed, disturbed, points>>

-----------------------------------------------------------------------------
(* Interruption, and tabs that go away.                                    *)

\* A handler that is opening is interrupted later, others at once.
Interrupt(h) ==
  IF pc[h] = "opening"
  THEN /\ doomed' = doomed \union {h}
       /\ disturbed' = disturbed \union {h}
       /\ UNCHANGED <<tab, disconnects, entry, session, lock, kind, client, pc, found, points>>
  ELSE Abandon(h)

Cancel(h) ==
  /\ TabsCancel /\ h \notin doomed
  /\ pc[h] \in InProgress /\ tab[client[h]] = "here"
  /\ Interrupt(h)

GoAway(c) ==
  /\ tab[c] = "here"
  /\ tab' = [tab EXCEPT ![c] = "left"]
  /\ disconnects' = Append(disconnects, c)
  /\ disturbed' = disturbed \union Connects(c)
  /\ UNCHANGED <<entry, session, lock, kind, client, pc, found, doomed, points>>

\* Mutant: a departure is passed on only when there was a session to close.
TakeDisconnectSelective ==
  /\ pc[Cleaner] = "idle" /\ disconnects # <<>>
  /\ disconnects' = Tail(disconnects)
  /\ client' = [client EXCEPT ![Cleaner] = Head(disconnects)]
  /\ CloseExisting(Cleaner, Head(disconnects), "cleanReleasing", "cleanClosing", "idle")
  /\ UNCHANGED <<tab, lock, kind, doomed, disturbed, live, abandoned>>

\* withClientCleanup takes the next tab and cleans it up.
TakeDisconnect ==
  /\ pc[Cleaner] = "idle" /\ disconnects # <<>>
  /\ disconnects' = Tail(disconnects)
  /\ client' = [client EXCEPT ![Cleaner] = Head(disconnects)]
  /\ CloseExisting(Cleaner, Head(disconnects), "cleanReleasing", "cleanClosing", "forwarding")
  /\ UNCHANGED <<tab, lock, kind, doomed, disturbed, live, abandoned>>

CleanupReleased(a) ==
  /\ pc[a] = "cleanReleasing"
  /\ CloseFound(a, client[a], found[a], "cleanClosing", CleanupFinished(a))
  /\ EntryReleased(a)
  /\ UNCHANGED <<tab, disconnects, lock, kind, client, doomed, disturbed>>

CleanupClosed(a) ==
  /\ pc[a] = "cleanClosing" /\ session[found[a]] = "closed"
  /\ entry' = [entry EXCEPT ![client[a]] = NoHandler]
  /\ found' = [found EXCEPT ![a] = NoHandler]
  /\ pc' = [pc EXCEPT ![a] = CleanupFinished(a)]
  /\ UNCHANGED <<tab, disconnects, session, lock, kind, client, doomed, disturbed, points>>

\* The RPC server learns of the departure and interrupts the tab's handlers.
Forward ==
  /\ pc[Cleaner] = "forwarding"
  /\ tab' = [tab EXCEPT ![client[Cleaner]] = "forgotten"]
  /\ pc' = [pc EXCEPT ![Cleaner] = "idle"]
  /\ UNCHANGED <<disconnects, entry, session, lock, kind, client, found, doomed, disturbed, points>>

InterruptForgotten(h) ==
  /\ pc[h] \in InProgress /\ h \notin doomed
  /\ tab[client[h]] = "forgotten"
  /\ Interrupt(h)

-----------------------------------------------------------------------------
Step(h) ==
  \/ Acquire(h) \/ ReleasedUnderLock(h) \/ ClosedUnderLock(h)
  \/ Opened(h) \/ OpenFails(h) \/ OpenedInVain(h) \/ Leave(h)
  \/ InterruptForgotten(h)

CleanupStep(a) == CleanupReleased(a) \/ CleanupClosed(a)

Next ==
  \/ \E h \in Handlers : \E c \in Clients : \E k \in {"connect", "disconnect"} : Begin(h, c, k)
  \/ \E h \in Handlers : Step(h) \/ Cancel(h) \/ SessionCloses(h)
  \/ \E a \in Actors : CleanupStep(a)
  \/ \E c \in Clients : GoAway(c)
  \/ TakeDisconnect \/ Forward

\* The runtime runs the handlers and the cleaner, the permit goes to waiting
\* handlers, and node-opcua settles every promise.  Every handler makes finitely
\* many steps, so that some step is always taken is all that this amounts to.
Progress ==
  \/ \E h \in Handlers : Step(h) \/ SessionCloses(h)
  \/ \E a \in Actors : CleanupStep(a)
  \/ TakeDisconnect \/ Forward

-----------------------------------------------------------------------------
(***************************************************************************)
(* Properties.                                                             *)
(***************************************************************************)

\* A session that is open and can no longer be closed, because it is not registered
\* or because its tab has gone and been cleaned up, was opened by a Connect that
\* overlapped an unlocked cleanup of its tab, or was itself interrupted.
LostSessionsWereDisturbed ==
  \A h \in Handlers :
    session[h] = "open" /\ (entry[client[h]] # h \/ tab[client[h]] = "forgotten")
      => h \in disturbed

\* Every tab that leaves is cleaned up and forgotten, after whatever other tab
\* the cleaner is busy with.
LeaversAreForgotten == \A c \in Clients : tab[c] = "left" ~> tab[c] = "forgotten"
=============================================================================
