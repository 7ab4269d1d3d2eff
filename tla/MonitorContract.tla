-------------------------- MODULE MonitorContract --------------------------
(***************************************************************************)
(* What a call of subscription.monitor promises about the monitored item   *)
(* groups it creates on the server, without saying how: a group is held    *)
(* from its creation until somebody asks the server to end it; a call that *)
(* is rejected holds nothing; a monitor that was returned holds its groups *)
(* until its scope closes; a closed scope holds nothing but what an        *)
(* interruption of the call has forsaken.                                  *)
(***************************************************************************)
CONSTANT Groups

VARIABLES
  outcome,   \* of the call
  held,      \* groups on the server that nobody has asked to end
  released,  \* groups that were asked to end
  forsaken,  \* groups that nobody will ask to end
  scope

contractVars == <<outcome, held, released, forsaken, scope>>

Init ==
  /\ outcome = "starting"
  /\ held = {} /\ released = {} /\ forsaken = {}
  /\ scope = "open"

\* The server creates a group for a call that still wants it.
Acquire(g) ==
  /\ outcome = "starting"
  /\ g \notin held \union released
  /\ held' = held \union {g}
  /\ UNCHANGED <<outcome, released, forsaken, scope>>

\* Startup gives a group up, or the closing scope does.
Release(g) ==
  /\ outcome = "starting" \/ scope = "closing"
  /\ g \in held
  /\ held' = held \ {g}
  /\ released' = released \union {g}
  /\ UNCHANGED <<outcome, forsaken, scope>>

\* An interruption gives up the groups whose delivery it raced with.
GiveUp(S) ==
  /\ outcome = "starting"
  /\ S \subseteq held
  /\ held' = held \ S
  /\ released' = released \union S
  /\ UNCHANGED <<outcome, forsaken, scope>>

\* A group that arrives after the interruption is never held.
Discard(g) ==
  /\ outcome \in {"starting", "interrupted"}
  /\ g \notin held \union released
  /\ released' = released \union {g}
  /\ UNCHANGED <<outcome, held, forsaken, scope>>

Return    == outcome = "starting" /\ outcome' = "started"
Reject    == outcome = "starting" /\ held = {} /\ outcome' = "rejected"
Decide    == (Return \/ Reject) /\ UNCHANGED <<held, released, forsaken, scope>>

\* Only the interruption of a call forsakes groups, and it does so at once.
Interrupt(S) ==
  /\ outcome = "starting" /\ outcome' = "interrupted"
  /\ S \subseteq held /\ forsaken' = S
  /\ UNCHANGED <<held, released, scope>>

BeginClose ==
  /\ outcome # "starting" /\ scope = "open"
  /\ scope' = "closing"
  /\ UNCHANGED <<outcome, held, released, forsaken>>

Close ==
  /\ outcome # "starting" /\ scope # "closed" /\ held = forsaken
  /\ scope' = "closed"
  /\ UNCHANGED <<outcome, held, released, forsaken>>

Next ==
  \/ \E g \in Groups : Acquire(g) \/ Release(g) \/ Discard(g)
  \/ \E S \in SUBSET Groups : GiveUp(S) \/ Interrupt(S)
  \/ Decide \/ BeginClose \/ Close

Spec == Init /\ [][Next]_contractVars
=============================================================================
