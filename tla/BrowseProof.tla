---------------------------- MODULE BrowseProof ----------------------------
(***************************************************************************)
(* Theorems about Browse: for any number of callers, any page sizes and    *)
(* any number of children, each browse is sent with its own page size, and *)
(* the field of the session is only lost to an interruption.               *)
(***************************************************************************)
EXTENDS Browse, TLAPS

Stages == {"idle", "queued", "browsing", "paging", "paged", "releasing",
           "done", "failed", "interrupted"}

\* What the steps need to know of the variables.
Typed ==
  /\ stage \in [Callers -> Stages]
  /\ promise \in [Callers -> [pending : BOOLEAN, previous : Nat, size : Nat]]
  /\ point \in [Callers -> [from : Int, size : Nat]]

\* The permit is with the caller that awaits its promise, and only an
\* interrupted caller has left a promise behind.
PermitInv ==
  \A c \in Callers :
    /\ permit = c <=> stage[c] = "browsing"
    /\ promise[c].pending => stage[c] \in {"browsing", "interrupted"}

NoneInterrupted == \A c \in Callers : stage[c] # "interrupted"

\* Without an interruption the promise in flight, if any, saved the original.
FieldInv ==
  NoneInterrupted =>
    /\ \A c \in Callers : promise[c].pending => promise[c].previous = Original
    /\ Quiet => field = Original

FieldTyped == field \in Nat

IInv == Typed /\ FieldTyped /\ PermitInv /\ FieldInv /\ OwnPageSize

-----------------------------------------------------------------------------
\* The continuation point after a page, if there is one, keeps the page size,
\* and a point that is absent has no successor.
LEMMA PointAfterKeepsSize ==
  ASSUME NEW from \in Int, NEW size \in Nat
  PROVE  /\ PointAfter(from, size) \in [from : Int, size : Nat]
         /\ PointAfter(from, size) # NoPoint => PointAfter(from, size).size = size
BY BrowseAssumption DEF PointAfter, PageEnd, NoPoint

LEMMA NothingAfterNoPoint == PointAfter(NoPoint.from, NoPoint.size) = NoPoint
BY BrowseAssumption DEF PointAfter, PageEnd, NoPoint

\* Where a step of Continue leads.
LEMMA ContinueLeads ==
  ASSUME Typed, NEW c \in Callers, NEW p, Continue(c, p)
  PROVE  \E s \in {"done", "paging", "paged"} : stage' = [stage EXCEPT ![c] = s]
BY DEF Continue

\* Before anything happens nobody browses and the field is the original.
LEMMA InitIInv == Init => IInv
BY BrowseAssumption
DEF Init, IInv, Typed, FieldTyped, PermitInv, FieldInv, NoneInterrupted, OwnPageSize, Quiet,
    NoPromise, NoPoint, Stages

\* Two promises are never in flight unless a caller was interrupted.
LEMMA FreePermitMeansQuiet ==
  ASSUME IInv, NoneInterrupted, permit = NoCaller
  PROVE  Quiet
BY BrowseAssumption DEF IInv, PermitInv, NoneInterrupted, Quiet

\* Issue saves the field it finds, under the permit.
LEMMA IssueKeepsIInv ==
  ASSUME IInv, NEW c \in Callers, Issue(c)
  PROVE  IInv'
<1> USE DEF IInv
<1>1. /\ stage[c] = "queued" /\ permit = NoCaller /\ permit' = c
      /\ stage' = [stage EXCEPT ![c] = "browsing"]
      /\ field' = Limit[c]
      /\ promise' = [promise EXCEPT ![c] = [pending |-> TRUE, previous |-> field, size |-> Limit[c]]]
      /\ point' = point
  BY DEF Issue
<1>2. Typed' /\ FieldTyped'
  BY <1>1, BrowseAssumption DEF Typed, FieldTyped, Stages
<1>3. PermitInv'
  BY <1>1, BrowseAssumption DEF Typed, PermitInv
<1>4. OwnPageSize'
  BY <1>1 DEF Typed, OwnPageSize
<1>5. FieldInv'
  <2> SUFFICES ASSUME NoneInterrupted'
               PROVE  /\ \A d \in Callers : promise'[d].pending => promise'[d].previous = Original
                      /\ Quiet' => field' = Original
    BY DEF FieldInv
  <2>1. NoneInterrupted
    BY <1>1 DEF NoneInterrupted, Typed
  <2>2. Quiet /\ field = Original
    BY <1>1, <2>1, FreePermitMeansQuiet DEF FieldInv
  <2>3. ~Quiet'
    BY <1>1 DEF Quiet, Typed
  <2> QED
    BY <1>1, <2>2, <2>3 DEF Typed, Quiet
<1> QED
  BY <1>2, <1>3, <1>4, <1>5

\* A promise settles, well or badly: the field gets what that promise saved.
LEMMA SettlingKeepsIInv ==
  ASSUME IInv, NEW c \in Callers, Settled(c) \/ Refused(c)
  PROVE  IInv'
<1> USE DEF IInv
<1>1. /\ promise[c].pending
      /\ promise' = [promise EXCEPT ![c] = NoPromise]
      /\ field' = promise[c].previous
      /\ IF stage[c] = "browsing"
         THEN /\ permit' = NoCaller
              /\ \E s \in {"done", "paging", "paged", "failed"} : stage' = [stage EXCEPT ![c] = s]
         ELSE permit' = permit /\ stage' = stage
  <2>1. CASE Settled(c)
    BY <2>1, ContinueLeads DEF Settled, Typed
  <2>2. CASE Refused(c)
    BY <2>2 DEF Refused, Typed
  <2> QED
    BY <2>1, <2>2
<1>2. /\ point' \in [Callers -> [from : Int, size : Nat]]
      /\ \A d \in Callers : point'[d] # NoPoint => point'[d].size = Limit[d]
  <2>1. CASE Settled(c)
    <3>1. promise[c].size \in Nat /\ promise[c].size = Limit[c]
      BY <1>1 DEF Typed, OwnPageSize
    <3>2. point' = [point EXCEPT ![c] = PointAfter(1, promise[c].size)]
      BY <2>1 DEF Settled
    <3>3. /\ PointAfter(1, promise[c].size) \in [from : Int, size : Nat]
          /\ PointAfter(1, promise[c].size) # NoPoint =>
               PointAfter(1, promise[c].size).size = Limit[c]
      BY <3>1, PointAfterKeepsSize, 1 \in Int
    <3> QED
      BY <3>2, <3>3 DEF Typed, OwnPageSize
  <2>2. CASE Refused(c)
    BY <2>2 DEF Refused, Typed, OwnPageSize
  <2> QED
    BY <2>1, <2>2
<1>3. Typed' /\ FieldTyped'
  BY <1>1, <1>2 DEF Typed, FieldTyped, NoPromise, Stages
<1>4. PermitInv'
  BY <1>1, BrowseAssumption DEF Typed, PermitInv, NoPromise
<1>5. OwnPageSize'
  BY <1>1, <1>2 DEF Typed, OwnPageSize, NoPromise
<1>6. FieldInv'
  <2> SUFFICES ASSUME NoneInterrupted'
               PROVE  /\ \A d \in Callers : promise'[d].pending => promise'[d].previous = Original
                      /\ Quiet' => field' = Original
    BY DEF FieldInv
  <2>1. NoneInterrupted
    BY <1>1 DEF NoneInterrupted, Typed, PermitInv
  <2> QED
    BY <1>1, <2>1 DEF FieldInv, Typed, NoPromise
<1> QED
  BY <1>3, <1>4, <1>5, <1>6

\* What pages on, ends or is interrupted leaves promises and the field alone.
LEMMA OtherStepsKeepIInv ==
  ASSUME IInv, NEW c \in Callers,
         \/ Begin(c) \/ AskNext(c) \/ Release(c) \/ Interrupt(c)
         \/ NextAnswered(c) \/ NextRefused(c) \/ Released(c)
  PROVE  IInv'
<1> USE DEF IInv
<1>1. field' = field /\ promise' = promise
  BY DEF Begin, AskNext, Release, Interrupt, NextAnswered, NextRefused, Released
<1>2. \/ /\ permit' = permit
         /\ stage[c] # "browsing"
         /\ \E s \in Stages \ {"browsing", "interrupted"} : stage' = [stage EXCEPT ![c] = s]
         /\ stage[c] # "interrupted"
      \/ permit' = permit /\ stage' = stage
      \/ Interrupt(c)
  <2>1. CASE Begin(c) \/ AskNext(c) \/ Release(c)
    BY <2>1 DEF Begin, AskNext, Release, Stages
  <2>2. CASE NextAnswered(c)
    BY <2>2 DEF NextAnswered, Stages
  <2>3. CASE NextRefused(c)
    BY <2>3 DEF NextRefused, Stages, Typed
  <2>4. CASE Released(c)
    BY <2>4 DEF Released, Stages, Typed
  <2> QED
    BY <2>1, <2>2, <2>3, <2>4
<1>3. /\ point' \in [Callers -> [from : Int, size : Nat]]
      /\ \A d \in Callers : point'[d] # NoPoint => point'[d].size = Limit[d]
  <2>1. CASE NextAnswered(c)
    <3>1. /\ point' = [point EXCEPT ![c] = PointAfter(point[c].from, point[c].size)]
          /\ point[c].from \in Int /\ point[c].size \in Nat
      BY <2>1 DEF NextAnswered, Typed
    <3> QED
      BY <3>1, PointAfterKeepsSize, NothingAfterNoPoint DEF Typed, OwnPageSize
  <2>2. CASE NextRefused(c) \/ Released(c)
    <3>1. PICK p \in {NoPoint, point[c]} : point' = [point EXCEPT ![c] = p]
      <4>1. CASE NextRefused(c)
        BY <4>1 DEF NextRefused
      <4>2. CASE Released(c)
        BY <4>2 DEF Released
      <4> QED
        BY <2>2, <4>1, <4>2
    <3>2. NoPoint \in [from : Int, size : Nat]
      BY DEF NoPoint
    <3>3. p \in [from : Int, size : Nat] /\ (p # NoPoint => p.size = Limit[c])
      BY <3>1, <3>2 DEF Typed, OwnPageSize
    <3>4. /\ point'[c] = p
          /\ \A d \in Callers \ {c} : point'[d] = point[d]
          /\ point' \in [Callers -> [from : Int, size : Nat]]
      BY <3>1, <3>3 DEF Typed
    <3> QED
      BY <3>3, <3>4 DEF OwnPageSize
  <2>3. CASE Begin(c) \/ AskNext(c) \/ Release(c) \/ Interrupt(c)
    BY <2>3 DEF Begin, AskNext, Release, Interrupt, Typed, OwnPageSize
  <2> QED
    BY <2>1, <2>2, <2>3
<1>4. Typed' /\ FieldTyped' /\ OwnPageSize'
  BY <1>1, <1>2, <1>3 DEF Typed, FieldTyped, OwnPageSize, Stages, Interrupt
<1>5. PermitInv'
  BY <1>1, <1>2, BrowseAssumption DEF Typed, PermitInv, Interrupt
<1>6. FieldInv'
  <2> SUFFICES ASSUME NoneInterrupted'
               PROVE  NoneInterrupted
    BY <1>1 DEF FieldInv, Quiet
  <2> QED
    BY <1>2 DEF NoneInterrupted, Typed, Interrupt
<1> QED
  BY <1>4, <1>5, <1>6

\* IInv is inductive.
LEMMA StepKeepsIInv == IInv /\ [Next]_vars => IInv'
<1> SUFFICES ASSUME IInv, [Next]_vars
             PROVE  IInv'
  OBVIOUS
<1>1. CASE UNCHANGED vars
  BY <1>1
  DEF vars, IInv, Typed, FieldTyped, PermitInv, FieldInv, NoneInterrupted, OwnPageSize, Quiet
<1>2. CASE Next
  BY <1>2, IssueKeepsIInv, SettlingKeepsIInv, OtherStepsKeepIInv DEF Next, Owner, Answers
<1> QED
  BY <1>1, <1>2

\* Each browse is sent with the page size of its caller, and so are the pages
\* that follow, whatever promises of interrupted callers it overlaps.
THEOREM BrowseOwnPageSize == Spec => []OwnPageSize
<1>1. IInv => OwnPageSize
  BY DEF IInv
<1> QED
  BY InitIInv, StepKeepsIInv, <1>1, PTL DEF Spec

\* browseWithMaxReferences and its semaphore restore the page size of the
\* session unless a caller was interrupted.
THEOREM BrowseRestoresField == Spec => []OnlyInterruptionLosesField
<1>1. IInv => OnlyInterruptionLosesField
  BY DEF IInv, FieldInv, NoneInterrupted, OnlyInterruptionLosesField
<1> QED
  BY InitIInv, StepKeepsIInv, <1>1, PTL DEF Spec
(***************************************************************************)
(* The pages add up: what a caller has collected counts the children from  *)
(* the first on, and its continuation point goes on where that ends.       *)
(***************************************************************************)

Counts(r) == \A i \in DOMAIN r : r[i] = i

PagesTyped ==
  /\ mode \in [Callers -> {"all", "page"}]
  /\ refs \in [Callers -> Seq(Int)]
  /\ asking \in [Callers -> {"none", "next", "release"}]

\* Which answer a caller may be waiting for, and that only those who want a
\* single page own a continuation.
Asks(c) ==
  /\ asking[c] = "next" => stage[c] \in {"paging", "interrupted"}
  /\ asking[c] = "release" => stage[c] \in {"releasing", "interrupted"}
  /\ stage[c] \in {"paged", "releasing"} => mode[c] = "page"

\* What the caller has collected ends where its continuation point goes on.
Collects(c) ==
  /\ Counts(refs[c])
  /\ stage[c] \in {"paging", "paged"} =>
       point[c].from = Len(refs[c]) + 1 /\ point[c].from \in 1..NumChildren
  /\ stage[c] = "done" /\ mode[c] = "all" => Len(refs[c]) = NumChildren

PagingInv == PagesTyped /\ \A c \in Callers : Asks(c) /\ Collects(c)

\* A page holds the children from its first to its last.
LEMMA PageHolds ==
  ASSUME NEW from \in 1..(NumChildren + 1), NEW size \in Nat
  PROVE  /\ PageEnd(from, size) \in (from - 1)..NumChildren
         /\ Page(from, size) \in Seq(Int)
         /\ Len(Page(from, size)) = PageEnd(from, size) - from + 1
         /\ \A i \in 1..Len(Page(from, size)) : Page(from, size)[i] = from + i - 1
<1>1. PageEnd(from, size) \in (from - 1)..NumChildren
  BY BrowseAssumption DEF PageEnd
<1> DEFINE n == PageEnd(from, size) - from + 1
<1>2. n \in Nat
  BY <1>1
<1>3. Page(from, size) = [i \in 1..n |-> from + i - 1]
  BY DEF Page
<1> HIDE DEF n
<1>4. Page(from, size) \in Seq(Int) /\ Len(Page(from, size)) = n
  BY <1>2, <1>3
<1> QED
  BY <1>1, <1>3, <1>4 DEF n

\* After a page the server is through, or goes on with the next child.
LEMMA PointGoesOn ==
  ASSUME NEW from \in 1..(NumChildren + 1), NEW size \in Nat
  PROVE  \/ PointAfter(from, size) = NoPoint /\ PageEnd(from, size) = NumChildren
         \/ /\ PointAfter(from, size) # NoPoint
            /\ PointAfter(from, size).from = PageEnd(from, size) + 1
            /\ PointAfter(from, size).from \in 1..NumChildren
BY BrowseAssumption DEF PointAfter, PageEnd, NoPoint

\* A sequence that counts goes on counting.
LEMMA GoesOnCounting ==
  ASSUME NEW r \in Seq(Int), NEW p \in Seq(Int), Counts(r),
         \A i \in 1..Len(p) : p[i] = Len(r) + i
  PROVE  /\ r \o p \in Seq(Int) /\ Len(r \o p) = Len(r) + Len(p)
         /\ Counts(r \o p)
<1>1. r \o p \in Seq(Int) /\ Len(r \o p) = Len(r) + Len(p)
  OBVIOUS
<1>2. ASSUME NEW i \in 1..Len(r \o p) PROVE (r \o p)[i] = i
  <2>1. CASE i <= Len(r)
    BY <1>1, <2>1 DEF Counts
  <2>2. CASE i > Len(r)
    <3>1. (r \o p)[i] = p[i - Len(r)] /\ i - Len(r) \in 1..Len(p)
      BY <1>1, <2>2
    <3> QED BY <3>1
  <2> QED BY <2>1, <2>2
<1> QED
  BY <1>1, <1>2 DEF Counts

\* The next page continues what counts up to it.
LEMMA NextPageCounts ==
  ASSUME NEW r \in Seq(Int), Counts(r), NEW size \in Nat, NEW from \in 1..(NumChildren + 1),
         from = Len(r) + 1
  PROVE  /\ r \o Page(from, size) \in Seq(Int)
         /\ Counts(r \o Page(from, size))
         /\ Len(r \o Page(from, size)) = PageEnd(from, size)
         /\ PageEnd(from, size) \in Int
<1>1. /\ Page(from, size) \in Seq(Int) /\ PageEnd(from, size) \in Int
      /\ Len(Page(from, size)) = PageEnd(from, size) - from + 1
      /\ \A i \in 1..Len(Page(from, size)) : Page(from, size)[i] = from + i - 1
  <2>1. PageEnd(from, size) \in (from - 1)..NumChildren
    BY PageHolds
  <2>2. Page(from, size) \in Seq(Int)
    BY PageHolds
  <2>3. Len(Page(from, size)) = PageEnd(from, size) - from + 1
    BY PageHolds
  <2>4. \A i \in 1..Len(Page(from, size)) : Page(from, size)[i] = from + i - 1
    BY PageHolds
  <2> QED
    BY <2>1, <2>2, <2>3, <2>4, BrowseAssumption
<1>2. from \in Int /\ \A i \in 1..Len(Page(from, size)) : Page(from, size)[i] = Len(r) + i
  BY <1>1
<1>3. PICK p : p = Page(from, size)
  OBVIOUS
<1>4. r \o p \in Seq(Int) /\ Len(r \o p) = Len(r) + Len(p) /\ Counts(r \o p)
  <2>1. p \in Seq(Int) /\ \A i \in 1..Len(p) : p[i] = Len(r) + i
    BY <1>1, <1>2, <1>3
  <2> QED
    BY <2>1, GoesOnCounting
<1>5. Len(r) + Len(p) = PageEnd(from, size)
  <2>1. Len(p) = PageEnd(from, size) - from + 1
    BY <1>1, <1>3
  <2>2. Len(r) \in Int /\ PageEnd(from, size) \in Int
    BY <1>1
  <2> QED
    BY ONLY <2>1, <2>2, from = Len(r) + 1
<1> QED
  BY <1>1, <1>3, <1>4, <1>5

\* A step of one caller keeps the invariant if it does for that caller.
LEMMA OneCallerPages ==
  ASSUME PagingInv, PagesTyped', NEW c \in Callers, mode' = mode,
         \A d \in Callers \ {c} : /\ stage'[d] = stage[d] /\ refs'[d] = refs[d]
                                  /\ point'[d] = point[d] /\ asking'[d] = asking[d],
         Asks(c)', Collects(c)'
  PROVE  PagingInv'
<1>1. ASSUME NEW d \in Callers \ {c} PROVE Asks(d)' /\ Collects(d)'
  BY <1>1 DEF PagingInv, Asks, Collects
<1> QED
  BY <1>1 DEF PagingInv

\* The first page, and what the caller does after it.
LEMMA SettledKeepsPages ==
  ASSUME Typed, PermitInv, PagingInv, NEW c \in Callers, Settled(c)
  PROVE  PagingInv'
<1> DEFINE size == promise[c].size
<1>1. size \in Nat /\ 1 \in 1..(NumChildren + 1) /\ point \in [Callers -> [from : Int, size : Nat]]
  BY BrowseAssumption DEF Typed
<1>2. /\ Page(1, size) \in Seq(Int) /\ Counts(Page(1, size))
      /\ Len(Page(1, size)) = PageEnd(1, size) /\ PageEnd(1, size) \in Int
  <2>1. <<>> \in Seq(Int) /\ Counts(<<>>) /\ 1 = Len(<<>>) + 1
    BY DEF Counts
  <2>2. /\ <<>> \o Page(1, size) \in Seq(Int)
        /\ Counts(<<>> \o Page(1, size))
        /\ Len(<<>> \o Page(1, size)) = PageEnd(1, size)
        /\ PageEnd(1, size) \in Int
    BY <1>1, <2>1, NextPageCounts
  <2>3. <<>> \o Page(1, size) = Page(1, size)
    BY <1>1, PageHolds
  <2> QED
    BY <2>2, <2>3
<1>3. /\ mode' = mode /\ point' = [point EXCEPT ![c] = PointAfter(1, size)]
      /\ stage[c] \in {"browsing", "interrupted"}
  BY DEF Settled, PermitInv
<1>4. CASE stage[c] = "interrupted"
  <2>1. stage' = stage /\ refs' = refs /\ asking' = asking
    BY <1>4 DEF Settled
  <2> QED
    BY <1>1, <1>3, <1>4, <2>1, OneCallerPages DEF PagingInv, PagesTyped, Asks, Collects
<1>5. CASE stage[c] = "browsing"
  <2>1. /\ refs' = [refs EXCEPT ![c] = Page(1, size)]
        /\ point'[c] = PointAfter(1, size)
        /\ Continue(c, PointAfter(1, size))
    BY <1>1, <1>3, <1>5 DEF Settled
  <2>2. asking[c] = "none"
    BY <1>5 DEF PagingInv, PagesTyped, Asks
  <2>3. \/ stage'[c] = "done" /\ PointAfter(1, size) = NoPoint /\ asking'[c] = "none"
        \/ stage'[c] = "paging" /\ PointAfter(1, size) # NoPoint /\ asking'[c] = "next"
        \/ /\ stage'[c] = "paged" /\ PointAfter(1, size) # NoPoint /\ asking'[c] = "none"
           /\ mode[c] = "page"
    BY <2>1, <2>2 DEF Continue, Typed, PagingInv, PagesTyped
  <2>4. \A d \in Callers \ {c} : stage'[d] = stage[d] /\ asking'[d] = asking[d]
    BY <2>1 DEF Continue, Typed, PagingInv, PagesTyped
  <2>5. PagesTyped'
    BY <1>2, <1>3, <2>1 DEF Continue, PagingInv, PagesTyped
  <2>6. Asks(c)'
    BY <1>3, <2>3 DEF Asks
  <2>7. refs'[c] = Page(1, size)
    BY <2>1 DEF PagingInv, PagesTyped
  <2>8. Collects(c)'
    BY <1>1, <1>2, <1>3, <2>1, <2>3, <2>7, PointGoesOn DEF Collects
  <2> QED
    BY <1>1, <1>3, <2>1, <2>4, <2>5, <2>6, <2>8, OneCallerPages DEF PagingInv, PagesTyped
<1> QED
  BY <1>3, <1>4, <1>5

\* The pages after it.
LEMMA NextAnsweredKeepsPages ==
  ASSUME Typed, PagingInv, NEW c \in Callers, NextAnswered(c)
  PROVE  PagingInv'
<1> DEFINE from == point[c].from
           size == point[c].size
<1>1. /\ mode' = mode /\ point' = [point EXCEPT ![c] = PointAfter(from, size)]
      /\ asking[c] = "next" /\ stage[c] \in {"paging", "interrupted"}
  BY DEF NextAnswered, PagingInv, Asks
<1>2. size \in Nat /\ point \in [Callers -> [from : Int, size : Nat]] /\ refs[c] \in Seq(Int)
  BY DEF Typed, PagingInv, PagesTyped
<1>3. CASE stage[c] = "interrupted"
  <2>1. stage' = stage /\ refs' = refs /\ asking' = [asking EXCEPT ![c] = "none"]
    BY <1>3 DEF NextAnswered
  <2> QED
    BY <1>1, <1>2, <1>3, <2>1, OneCallerPages DEF PagingInv, PagesTyped, Asks, Collects
<1>4. CASE stage[c] = "paging"
  <2>1. from = Len(refs[c]) + 1 /\ from \in 1..NumChildren /\ Counts(refs[c])
    BY <1>4 DEF PagingInv, Collects
  <2> DEFINE s == refs[c] \o Page(from, size)
  <2>a. from \in 1..(NumChildren + 1)
    BY <2>1, BrowseAssumption
  <2>2. /\ s \in Seq(Int) /\ Counts(s) /\ Len(s) = PageEnd(from, size)
        /\ PageEnd(from, size) \in Int
    BY <1>2, <2>1, <2>a, NextPageCounts
  <2>3. refs' = [refs EXCEPT ![c] = s] /\ point'[c] = PointAfter(from, size)
    BY <1>1, <1>2, <1>4 DEF NextAnswered
  <2> HIDE DEF s
  <2>4. \/ stage'[c] = "done" /\ PointAfter(from, size) = NoPoint /\ asking'[c] = "none"
        \/ stage'[c] = "paging" /\ PointAfter(from, size) # NoPoint /\ asking'[c] = "next"
        \/ /\ stage'[c] = "paged" /\ PointAfter(from, size) # NoPoint /\ asking'[c] = "none"
           /\ mode[c] = "page"
    BY <1>1, <1>4, <2>3 DEF NextAnswered, Typed, PagingInv, PagesTyped
  <2>5. \A d \in Callers \ {c} : stage'[d] = stage[d] /\ asking'[d] = asking[d]
    BY <1>4 DEF NextAnswered, Typed, PagingInv, PagesTyped
  <2>6. PagesTyped'
    BY <1>1, <1>4, <2>2, <2>3 DEF NextAnswered, PagingInv, PagesTyped
  <2>7. Asks(c)'
    BY <1>1, <2>4 DEF Asks
  <2>8. refs'[c] = s
    BY <2>3 DEF PagingInv, PagesTyped
  <2>9. Collects(c)'
    BY <1>1, <1>2, <2>a, <2>2, <2>3, <2>4, <2>8, PointGoesOn DEF Collects
  <2> QED
    BY <1>1, <1>2, <2>3, <2>5, <2>6, <2>7, <2>9, OneCallerPages DEF PagingInv, PagesTyped
<1> QED
  BY <1>1, <1>3, <1>4

\* The steps that bring no page.
LEMMA OtherStepsKeepPages ==
  ASSUME Typed, PermitInv, PagingInv, NEW c \in Callers,
         \/ Begin(c) \/ Issue(c) \/ Refused(c) \/ AskNext(c) \/ Release(c)
         \/ NextRefused(c) \/ Released(c) \/ Interrupt(c)
  PROVE  PagingInv'
<1> USE DEF Typed, PagesTyped
<1>1. mode' = mode /\ refs' = refs /\ PagesTyped'
  BY DEF PagingInv, Begin, Issue, Refused, AskNext, Release, NextRefused, Released, Interrupt
<1>2. \A d \in Callers \ {c} : /\ stage'[d] = stage[d] /\ point'[d] = point[d]
                               /\ asking'[d] = asking[d]
  BY DEF PagingInv, Begin, Issue, Refused, AskNext, Release, NextRefused, Released, Interrupt
<1>3. Asks(c)' /\ Collects(c)'
  <2>1. CASE Begin(c) \/ Issue(c) \/ AskNext(c) \/ Release(c) \/ Interrupt(c)
    BY <2>1, <1>1 DEF PagingInv, Asks, Collects, Begin, Issue, AskNext, Release, Interrupt
  <2>2. CASE Refused(c)
    BY <2>2, <1>1 DEF PagingInv, Asks, Collects, Refused, PermitInv
  <2>3. CASE NextRefused(c)
    BY <2>3, <1>1 DEF PagingInv, Asks, Collects, NextRefused
  <2>4. CASE Released(c)
    BY <2>4, <1>1 DEF PagingInv, Asks, Collects, Released
  <2> QED
    BY <2>1, <2>2, <2>3, <2>4
<1> QED
  BY <1>1, <1>2, <1>3, OneCallerPages

\* A caller's references are a gapless prefix of the children, in order and
\* without a repetition, and all of them once it has gone through every page:
\* for any page sizes, any number of children and any overlap of callers.
THEOREM BrowsePagesAddUp == Spec => []PagesAddUp
<1>1. Init => PagingInv
  BY DEF Init, PagingInv, PagesTyped, Asks, Collects, Counts
<1>2. IInv /\ PagingInv /\ [Next]_vars => PagingInv'
  <2> SUFFICES ASSUME IInv, PagingInv, [Next]_vars PROVE PagingInv'
    OBVIOUS
  <2>1. CASE UNCHANGED vars
    BY <2>1 DEF vars, PagingInv, PagesTyped, Asks, Collects
  <2>2. CASE Next
    BY <2>2, SettledKeepsPages, NextAnsweredKeepsPages, OtherStepsKeepPages
    DEF IInv, Next, Owner, Answers
  <2> QED
    BY <2>1, <2>2
<1>3. PagingInv => PagesAddUp
  BY DEF PagingInv, Collects, Counts, PagesAddUp
<1> QED
  BY <1>1, <1>2, <1>3, InitIInv, StepKeepsIInv, PTL DEF Spec

=============================================================================
