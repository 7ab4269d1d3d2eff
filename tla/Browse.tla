------------------------------- MODULE Browse -------------------------------
(***************************************************************************)
(* browse, browseNext, releaseBrowseContinuation and browseChildren of one *)
(* session (internal/session/service.ts, internal/browse/operations.ts).   *)
(*                                                                         *)
(* node-opcua takes the page size of a browse from a mutable field of the  *)
(* session.  browseWithMaxReferences sets the field, browses, and puts the *)
(* previous value back when the promise settles; a one-permit semaphore    *)
(* keeps callers apart.  A caller that is interrupted gives its permit     *)
(* back at once, but its promise goes on and settles later.                *)
(*                                                                         *)
(* Every caller lists the children of a node of its own, 1..NumChildren    *)
(* in the server's order, in pages.                                        *)
(***************************************************************************)
EXTENDS Integers, Sequences

CONSTANTS
  Callers,
  Limit,         \* maxReferencesPerNode of each caller, 0 is unlimited
  Original,      \* requestedMaxReferencesPerNode of the session
  NumChildren

NoCaller == "NoCaller"

ASSUME BrowseAssumption ==
  /\ Limit \in [Callers -> Nat]
  /\ Original \in Nat /\ NumChildren \in Nat
  /\ NoCaller \notin Callers

VARIABLES
  field,     \* session.requestedMaxReferencesPerNode
  permit,    \* who holds the permit of browseSemaphore
  stage,     \* where a caller is
  mode,      \* "all" follows the continuations, "page" returns the first page
  refs,      \* the references a caller has collected
  promise,   \* the promise of browseWithMaxReferences
  point,     \* the continuation point the server keeps for a caller
  asking     \* the browseNext of the caller that is in flight, if any

vars == <<field, permit, stage, mode, refs, promise, point, asking>>

NoPromise == [pending |-> FALSE, previous |-> 0, size |-> 0]

\* from is the next child to send; 0 if there is no continuation point.
NoPoint == [from |-> 0, size |-> 0]

Init ==
  /\ field = Original /\ permit = NoCaller
  /\ stage = [c \in Callers |-> "idle"]
  /\ mode \in [Callers -> {"all", "page"}]
  /\ refs = [c \in Callers |-> <<>>]
  /\ promise = [c \in Callers |-> NoPromise]
  /\ point = [c \in Callers |-> NoPoint]
  /\ asking = [c \in Callers |-> "none"]

-----------------------------------------------------------------------------
(* The server: pages of at most size children, a continuation point if     *)
(* there are more.                                                         *)

PageEnd(from, size) ==
  IF size = 0 \/ from + size - 1 >= NumChildren THEN NumChildren ELSE from + size - 1

Page(from, size) == [i \in 1..(PageEnd(from, size) - from + 1) |-> from + i - 1]

PointAfter(from, size) ==
  IF PageEnd(from, size) = NumChildren THEN NoPoint
  ELSE [from |-> PageEnd(from, size) + 1, size |-> size]

-----------------------------------------------------------------------------
\* A valid input queues for the permit.
Begin(c) ==
  /\ stage[c] = "idle"
  /\ stage' = [stage EXCEPT ![c] = "queued"]
  /\ UNCHANGED <<field, permit, mode, refs, promise, point, asking>>

\* Mutant: the field is only set where it still has its original value.
IssueShared(c) ==
  /\ stage[c] = "queued" /\ permit = NoCaller
  /\ permit' = c
  /\ stage' = [stage EXCEPT ![c] = "browsing"]
  /\ field' = IF field = Original THEN Limit[c] ELSE field
  /\ promise' = [promise EXCEPT ![c] = [pending |-> TRUE, previous |-> field, size |-> field']]
  /\ UNCHANGED <<mode, refs, point, asking>>

\* With the permit: save the field, set it, and call session.browse, which
\* reads it before it returns its promise.
Issue(c) ==
  /\ stage[c] = "queued" /\ permit = NoCaller
  /\ permit' = c
  /\ stage' = [stage EXCEPT ![c] = "browsing"]
  /\ field' = Limit[c]
  /\ promise' = [promise EXCEPT ![c] = [pending |-> TRUE, previous |-> field, size |-> field']]
  /\ UNCHANGED <<mode, refs, point, asking>>

\* What the caller does with a good page that leaves the server at p: browse
\* and mode "page" return it with its continuation.
Continue(c, p) ==
  IF p = NoPoint THEN /\ stage' = [stage EXCEPT ![c] = "done"]
                      /\ UNCHANGED asking
  ELSE IF mode[c] = "all" THEN /\ stage' = [stage EXCEPT ![c] = "paging"]
                               /\ asking' = [asking EXCEPT ![c] = "next"]
  ELSE /\ stage' = [stage EXCEPT ![c] = "paged"]
       /\ UNCHANGED asking

\* A good answer: the finally block restores the field; unless it was
\* interrupted the caller resumes without the permit.
Settled(c) ==
  /\ promise[c].pending
  /\ promise' = [promise EXCEPT ![c] = NoPromise]
  /\ field' = promise[c].previous
  /\ point' = [point EXCEPT ![c] = PointAfter(1, promise[c].size)]
  /\ IF stage[c] = "browsing"
     THEN /\ permit' = NoCaller
          /\ refs' = [refs EXCEPT ![c] = Page(1, promise[c].size)]
          /\ Continue(c, point'[c])
     ELSE UNCHANGED <<permit, stage, refs, asking>>
  /\ UNCHANGED mode

\* Mutant: the restore is not in a finally block.
RefusedSkipsFinally(c) ==
  /\ promise[c].pending
  /\ promise' = [promise EXCEPT ![c] = NoPromise]
  /\ permit' = IF stage[c] = "browsing" THEN NoCaller ELSE permit
  /\ stage' = [stage EXCEPT ![c] = IF @ = "browsing" THEN "failed" ELSE @]
  /\ UNCHANGED <<field, mode, refs, point, asking>>

\* The browse fails or has a bad status.
Refused(c) ==
  /\ promise[c].pending
  /\ promise' = [promise EXCEPT ![c] = NoPromise]
  /\ field' = promise[c].previous
  /\ permit' = IF stage[c] = "browsing" THEN NoCaller ELSE permit
  /\ stage' = [stage EXCEPT ![c] = IF @ = "browsing" THEN "failed" ELSE @]
  /\ UNCHANGED <<mode, refs, point, asking>>

\* The owner of a continuation asks for the next page, or releases it.
AskNext(c) ==
  /\ stage[c] = "paged"
  /\ stage' = [stage EXCEPT ![c] = "paging"]
  /\ asking' = [asking EXCEPT ![c] = "next"]
  /\ UNCHANGED <<field, permit, mode, refs, promise, point>>

Release(c) ==
  /\ stage[c] = "paged"
  /\ stage' = [stage EXCEPT ![c] = "releasing"]
  /\ asking' = [asking EXCEPT ![c] = "release"]
  /\ UNCHANGED <<field, permit, mode, refs, promise, point>>

\* Mutant: the first continuation is used again and again.
NextAnsweredAgain(c) ==
  /\ asking[c] = "next"
  /\ point' = [point EXCEPT ![c] = PointAfter(@.from, @.size)]
  /\ IF stage[c] = "paging"
     THEN LET from == IF refs[c] = <<>> THEN 1 ELSE Limit[c] + 1
          IN /\ refs' = [refs EXCEPT ![c] = @ \o Page(from, Limit[c])]
             /\ IF point'[c] # NoPoint /\ mode[c] = "all"
                THEN UNCHANGED <<stage, asking>>
                ELSE /\ stage' = [stage EXCEPT ![c] = IF point'[c] = NoPoint THEN "done" ELSE "paged"]
                     /\ asking' = [asking EXCEPT ![c] = "none"]
     ELSE UNCHANGED <<stage, refs>> /\ asking' = [asking EXCEPT ![c] = "none"]
  /\ UNCHANGED <<field, permit, mode, promise>>

\* browseNext answers, to a caller that may have gone.
NextAnswered(c) ==
  /\ asking[c] = "next"
  /\ point' = [point EXCEPT ![c] = PointAfter(@.from, @.size)]
  /\ IF stage[c] = "paging"
     THEN /\ refs' = [refs EXCEPT ![c] = @ \o Page(point[c].from, point[c].size)]
          /\ IF point'[c] # NoPoint /\ mode[c] = "all"
             THEN UNCHANGED <<stage, asking>>
             ELSE /\ stage' = [stage EXCEPT ![c] = IF point'[c] = NoPoint THEN "done" ELSE "paged"]
                  /\ asking' = [asking EXCEPT ![c] = "none"]
     ELSE UNCHANGED <<stage, refs>> /\ asking' = [asking EXCEPT ![c] = "none"]
  /\ UNCHANGED <<field, permit, mode, promise>>

\* browseNext fails; the server may or may not still have the point.
NextRefused(c) ==
  /\ asking[c] = "next"
  /\ asking' = [asking EXCEPT ![c] = "none"]
  /\ stage' = [stage EXCEPT ![c] = IF @ = "paging" THEN "failed" ELSE @]
  /\ \E p \in {NoPoint, point[c]} : point' = [point EXCEPT ![c] = p]
  /\ UNCHANGED <<field, permit, mode, refs, promise>>

Released(c) ==
  /\ asking[c] = "release"
  /\ asking' = [asking EXCEPT ![c] = "none"]
  /\ \E end \in {"done", "failed"} :
       /\ stage' = [stage EXCEPT ![c] = IF @ = "releasing" THEN end ELSE @]
       /\ point' = [point EXCEPT ![c] = IF end = "done" THEN NoPoint ELSE @]
  /\ UNCHANGED <<field, permit, mode, refs, promise>>

\* Mutant: an interrupted caller keeps its permit.
InterruptKeepsPermit(c) ==
  /\ stage[c] \in {"queued", "browsing", "paging", "releasing"}
  /\ stage' = [stage EXCEPT ![c] = "interrupted"]
  /\ UNCHANGED <<field, permit, mode, refs, promise, point, asking>>

\* An interrupted caller is gone at once; its promise is not.
Interrupt(c) ==
  /\ stage[c] \in {"queued", "browsing", "paging", "releasing"}
  /\ stage' = [stage EXCEPT ![c] = "interrupted"]
  /\ permit' = IF permit = c THEN NoCaller ELSE permit
  /\ UNCHANGED <<field, mode, refs, promise, point, asking>>

-----------------------------------------------------------------------------
Answers(c) ==
  \/ Settled(c) \/ Refused(c)
  \/ NextAnswered(c) \/ NextRefused(c) \/ Released(c)

Owner(c) == Begin(c) \/ AskNext(c) \/ Release(c) \/ Interrupt(c)

Next == \E c \in Callers : Owner(c) \/ Issue(c) \/ Answers(c)

Spec == Init /\ [][Next]_vars

\* node-opcua settles every promise; a free permit goes to some waiter.
FairSpec ==
  /\ Spec
  /\ WF_vars(\E c \in Callers : Issue(c))
  /\ \A c \in Callers : WF_vars(Answers(c))

-----------------------------------------------------------------------------
(***************************************************************************)
(* Properties.                                                             *)
(***************************************************************************)

Quiet == \A c \in Callers : ~promise[c].pending

\* What the semaphore and the finally block do achieve: in whatever order
\* browses end, are refused or page on, only a caller that was interrupted can
\* have left the field changed.
OnlyInterruptionLosesField ==
  Quiet /\ field # Original => \E c \in Callers : stage[c] = "interrupted"

\* Each browse is sent with the page size its caller asked for, also when it
\* overlaps the unfinished promise of an interrupted caller.
OwnPageSize ==
  \A c \in Callers :
    /\ promise[c].pending => promise[c].size = Limit[c]
    /\ point[c] # NoPoint => point[c].size = Limit[c]

\* What a caller has collected is a gapless prefix of the children, and a
\* caller that has gone through all pages has each child once.
PagesAddUp ==
  \A c \in Callers :
    /\ \A i \in DOMAIN refs[c] : refs[c][i] = i
    /\ stage[c] = "done" /\ mode[c] = "all" => Len(refs[c]) = NumChildren

\* A browse that waits for the permit gets its turn, whoever before it failed
\* or was interrupted.
EveryBrowseEnds ==
  \A c \in Callers : stage[c] = "queued" ~> stage[c] \in {"done", "paged", "failed", "interrupted"}
=============================================================================
