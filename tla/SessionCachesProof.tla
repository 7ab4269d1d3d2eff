------------------------- MODULE SessionCachesProof -------------------------
(***************************************************************************)
(* Theorems about SessionCaches for any number of operations, any targets, *)
(* any hierarchy of data types and any number of restores.                 *)
(***************************************************************************)
EXTENDS SessionCaches, FiniteSetTheorems, WellFoundedInduction, TLAPS

MemoStates == {"unstarted", "running", "ready", "failed", "interrupted"}

\* The memo of a generation leaves "unstarted" with its only extraction, and
\* never goes back.
MemoInv ==
  /\ restores \in Ages
  /\ memo \in [Ages -> MemoStates]
  /\ extractions \in [Ages -> Nat]
  /\ \A g \in Ages : /\ extractions[g] <= 1
                     /\ memo[g] = "unstarted" => extractions[g] = 0

\* What a step may do to the memos: nothing, start the one of the present
\* generation, or give a running one its exit.
MemoStep ==
  \/ UNCHANGED <<memo, extractions>>
  \/ /\ memo[restores] = "unstarted"
     /\ memo' = [memo EXCEPT ![restores] = "running"]
     /\ extractions' = [extractions EXCEPT ![restores] = @ + 1]
  \/ /\ memo' \in [Ages -> MemoStates]
     /\ \A g \in Ages : memo[g] # "unstarted" <=> memo'[g] # "unstarted"
     /\ UNCHANGED extractions

LEMMA EnsureIsMemoStep ==
  ASSUME NEW r, NEW q, Ensure(r, q)
  PROVE  MemoStep
BY DEF Ensure, MemoStep, memoVars

LEMMA CheckedIsMemoStep ==
  ASSUME NEW r, NEW q, Checked(r, q)
  PROVE  MemoStep
BY EnsureIsMemoStep DEF Checked, MemoStep, memoVars

LEMMA ResolvingIsMemoStep ==
  ASSUME NEW r, NEW q, NEW i, NEW tc, ResolveTypes(r, q, i, tc)
  PROVE  MemoStep
<1>1. PICK q2 : Checked(r, q2) \/ UNCHANGED memoVars
  BY DEF ResolveTypes
<1> QED
  BY <1>1, CheckedIsMemoStep DEF MemoStep, memoVars

\* Every step is one of these, and only a restore moves the generation on.
LEMMA NextIsMemoStep ==
  ASSUME MemoInv, Next
  PROVE  MemoStep /\ restores' \in Ages
<1>1. ASSUME NEW r \in Requests, NEW t \in Targets, Begin(r, t)
      PROVE  MemoStep /\ restores' \in Ages
  BY <1>1, CheckedIsMemoStep DEF Begin, MemoStep, MemoInv, memoVars
<1>2. ASSUME NEW r \in Requests, ReadAnswered(r)
      PROVE  MemoStep /\ restores' \in Ages
  <2>1. PICK q : ResolveTypes(r, q, 1, typeCache) \/ UNCHANGED memoVars
    BY <1>2 DEF ReadAnswered
  <2>2. restores' \in Ages
    BY <1>2 DEF ReadAnswered, MemoInv
  <2> QED
    BY <2>1, <2>2, ResolvingIsMemoStep DEF MemoStep, memoVars
<1>3. ASSUME NEW r \in Requests, WalkAnswered(r)
      PROVE  MemoStep /\ restores' \in Ages
  <2>1. PICK q, i : ResolveTypes(r, q, i, typeCache') \/ UNCHANGED memoVars
    BY <1>3 DEF WalkAnswered
  <2>2. restores' \in Ages
    BY <1>3 DEF WalkAnswered, MemoInv
  <2> QED
    BY <2>1, <2>2, ResolvingIsMemoStep DEF MemoStep, memoVars
<1>4. ASSUME NEW r \in Requests, DiscoveryFails(r) \/ Served(r)
      PROVE  MemoStep /\ restores' \in Ages
  BY <1>4 DEF DiscoveryFails, Served, MemoStep, MemoInv, memoVars
<1>5. ASSUME NEW r \in Requests, Resumed(r)
      PROVE  MemoStep /\ restores' \in Ages
  BY <1>5, CheckedIsMemoStep DEF Resumed, MemoStep, MemoInv, memoVars
<1>6. ASSUME NEW r \in Requests, Interrupt(r)
      PROVE  MemoStep /\ restores' \in Ages
  BY <1>6 DEF Interrupt, MemoStep, MemoStates, MemoInv
<1>7. ASSUME NEW g \in Ages, Extracted(g)
      PROVE  MemoStep /\ restores' \in Ages
  BY <1>7 DEF Extracted, MemoStep, MemoStates, MemoInv
<1>8. CASE SessionRestored
  BY <1>8, CachesAssumption DEF SessionRestored, MemoStep, MemoInv, memoVars, Ages
<1> QED
  BY <1>1, <1>2, <1>3, <1>4, <1>5, <1>6, <1>7, <1>8 DEF Next, Answers

\* MemoInv is inductive.
LEMMA MemoInvIsInductive ==
  /\ Init => MemoInv
  /\ MemoInv /\ [Next]_vars => MemoInv'
<1>1. Init => MemoInv
  BY CachesAssumption DEF Init, MemoInv, MemoStates, Ages
<1>2. MemoInv /\ MemoStep /\ restores' \in Ages => MemoInv'
  BY DEF MemoInv, MemoStep, MemoStates
<1>3. MemoInv /\ UNCHANGED vars => MemoInv'
  BY DEF MemoInv, vars, memoVars
<1> QED
  BY <1>1, <1>2, <1>3, NextIsMemoStep

\* The data types of a cache generation are extracted at most once, however
\* many operations need the structure runtime, and however they end.
THEOREM ExtractedOncePerGeneration == Spec => []OneExtractionPerGeneration
<1>1. MemoInv => OneExtractionPerGeneration
  BY DEF MemoInv, OneExtractionPerGeneration
<1> QED
  BY MemoInvIsInductive, <1>1, PTL DEF Spec
-----------------------------------------------------------------------------
(* How old the metadata is that an operation uses.                         *)

Fiber == [ pc : Stages, target : Targets \union {NoTarget}, began : Ages, reads : Nat,
           arg : Nat, type : Types \union {NoType}, seen : SUBSET Types, age : Ages,
           walk : Ages, left : Nat, waits : Ages ]

\* Types; a discovery has a target, and resolves one of its data types.
CachesTypeOK ==
  /\ restores \in Ages
  /\ cache \in [Targets -> Ages \union {Absent}]
  /\ typeCache \in [Types -> Ages \union {Absent}]
  /\ req \in [Requests -> Fiber]
  /\ memo \in [Ages -> MemoStates]
  /\ \A r \in Requests :
       /\ req[r].pc \in {"reading", "walking"} => req[r].target \in Targets
       /\ req[r].pc = "reading" => req[r].reads > 0
       /\ req[r].pc = "walking" => req[r].arg \in 1..Len(TypesOf[req[r].target])

\* The ages of fiber q, if no restore overtook a discovery: all its answers so
\* far are from after the last restore, or those it has got from the one in
\* which it began.
AgesOf(q) ==
  /\ q.pc = "reading" => q.began = restores /\ q.age \in {MaxRestores, restores}
  /\ q.pc = "walking" => q.began = restores /\ q.age = restores /\ q.walk \in {MaxRestores, restores}
  /\ q.pc \in {"waiting", "sending"} => q.age = q.began

\* What is cached is as current.
AgesInv ==
  ~overlapped =>
    /\ \A t \in Targets : cache[t] \in {Absent, restores}
    /\ \A d \in Types : typeCache[d] \in {Absent, restores}
    /\ \A r \in Requests : AgesOf(req[r])

\* A set of naturals has a least element.
LEMMA LeastNat ==
  ASSUME NEW T, T \subseteq Nat, T # {}
  PROVE  \E n \in T : \A m \in T : n <= m
<1> DEFINE Below == {0..n : n \in T}
<1>1. Below \subseteq FiniteSubsetsOf(Nat) /\ Below # {}
  <2>1. ASSUME NEW n \in T
        PROVE  0..n \in FiniteSubsetsOf(Nat)
    <3>1. IsFiniteSet(0..n) /\ 0..n \subseteq Nat
      BY FS_Interval
    <3> QED
      BY <3>1 DEF FiniteSubsetsOf
  <2> QED
    BY <2>1
<1>2. PICK x \in Below : \A y \in Below : ~ (<<y, x>> \in StrictSubsetOrdering(Nat))
  BY <1>1, WFMin, FS_StrictSubsetOrderingWellFounded
<1>3. PICK n \in T : x = 0..n
  BY <1>2
<1>4. ASSUME NEW m \in T, m < n
      PROVE  FALSE
  <2>1. 0..m \in Below /\ 0..m \subseteq 0..n /\ 0..m # 0..n /\ 0..m \subseteq Nat /\ 0..n \subseteq Nat
    BY <1>4
  <2> QED
    BY <2>1, <1>2, <1>3 DEF StrictSubsetOrdering
<1> QED
  BY <1>4

\* What resolving the types of fiber q comes to: all are cached and its metadata
\* is complete, or it begins to walk from one of them.
CompletedWith(r, q, age) ==
  /\ cache' = [cache EXCEPT ![q.target] = age]
  /\ Checked(r, Found(q.target, q.began, age))

WalksFrom(r, q, arg, age) ==
  /\ req' = [req EXCEPT ![r] = [q EXCEPT !.pc   = "walking", !.age  = age, !.arg = arg,
                                        !.type = TypesOf[q.target][arg],
                                        !.seen = {TypesOf[q.target][arg]},
                                        !.walk = MaxRestores]]
  /\ UNCHANGED <<cache, memoVars>>

\* The age of metadata of which no part is older than the last restore.
CurrentAge(q, tc, age) ==
  q.age = restores /\ (\A d \in Types : tc[d] \in {Absent, restores}) => age = restores

\* The next type to resolve is the first one that is not cached, and metadata
\* that is put together from several answers is as old as the oldest.
LEMMA Resolving ==
  ASSUME CachesTypeOK, NEW r \in Requests, NEW q \in Fiber, q.target \in Targets,
         NEW i \in 1..(Len(TypesOf[q.target]) + 1), NEW tc \in [Types -> Ages \union {Absent}],
         ResolveTypes(r, q, i, tc)
  PROVE  \E age \in Ages :
           /\ CurrentAge(q, tc, age)
           /\ CompletedWith(r, q, age) \/ \E arg \in 1..Len(TypesOf[q.target]) : WalksFrom(r, q, arg, age)
<1> DEFINE t    == q.target
           U    == Uncached(t, i, tc)
           n    == NextUncached(t, i, tc)
           last == IF U = {} THEN Len(TypesOf[t]) ELSE n - 1
           ages == {q.age} \union {tc[TypesOf[t][k]] : k \in i..last}
           age  == CHOOSE a \in ages : \A b \in ages : a <= b
<1>1. TypesOf[t] \in Seq(Types) /\ Len(TypesOf[t]) \in Nat
  BY CachesAssumption
<1>2. /\ U \subseteq i..Len(TypesOf[t]) /\ U \subseteq Nat
      /\ \A k \in i..Len(TypesOf[t]) : k \notin U => tc[TypesOf[t][k]] # Absent
  BY <1>1 DEF Uncached
<1>3. U # {} => n \in U /\ \A m \in U : n <= m
  BY <1>2, LeastNat DEF NextUncached
<1>4. last <= Len(TypesOf[t]) /\ last \in Int /\ \A k \in i..last : k \in i..Len(TypesOf[t]) /\ k \notin U
  BY <1>1, <1>2, <1>3
<1>5. ages \subseteq Ages /\ \A k \in i..last : tc[TypesOf[t][k]] \in Ages
  BY <1>1, <1>2, <1>4 DEF Fiber
<1>6. age \in ages /\ age \in Ages
  <2>1. ages \subseteq Nat /\ ages # {}
    <3>1. Ages \subseteq Nat
      BY CachesAssumption DEF Ages
    <3>2. q.age \in ages
      OBVIOUS
    <3> HIDE DEF ages
    <3> QED
      BY <1>5, <3>1, <3>2
  <2> HIDE DEF ages
  <2> QED
    BY <1>5, <2>1, LeastNat
<1>7. CurrentAge(q, tc, age)
  <2>1. ASSUME q.age = restores, \A d \in Types : tc[d] \in {Absent, restores}, NEW k \in i..last
        PROVE  tc[TypesOf[t][k]] = restores
    <3>1. TypesOf[t][k] \in Types /\ tc[TypesOf[t][k]] # Absent
      BY <1>1, <1>2, <1>4
    <3> QED
      BY <2>1, <3>1
  <2>2. q.age = restores /\ (\A d \in Types : tc[d] \in {Absent, restores}) => ages \subseteq {restores}
    BY <2>1
  <2> HIDE DEF age, ages
  <2> QED
    BY <1>6, <2>2 DEF CurrentAge
<1>8. CASE U = {}
  <2>1. CompletedWith(r, q, age)
    BY <1>8 DEF ResolveTypes, CompletedWith
  <2> HIDE DEF age
  <2> QED
    BY <1>6, <1>7, <2>1
<1>9. CASE U # {}
  <2>1. last + 1 \in 1..Len(TypesOf[t])
    BY <1>2, <1>3, <1>9
  <2>2. WalksFrom(r, q, last + 1, age)
    BY <1>9 DEF ResolveTypes, WalksFrom
  <2> HIDE DEF age, last
  <2> QED
    BY <1>6, <1>7, <2>1, <2>2
<1> QED
  BY <1>8, <1>9

LEMMA IdleIsFiber == Idle \in Fiber
<1>1. 0 \in Ages
  BY CachesAssumption DEF Ages
<1> QED
  BY <1>1 DEF Idle, Fiber, Stages

\* An operation that has its metadata keeps its age, until it ends.
LEMMA FoundIsFiber ==
  ASSUME CachesTypeOK, NEW t \in Targets, NEW began \in Ages, NEW age \in Ages
  PROVE  /\ Found(t, began, age) \in Fiber
         /\ Found(t, began, age).age = age /\ Found(t, began, age).began = began
<1> DEFINE q == [Idle EXCEPT !.target = t, !.began = began, !.age = age, !.left = Ensures[t]]
<1>1. Ensures[t] \in Nat
  BY CachesAssumption
<1>2. Idle \in Fiber => q \in Fiber /\ q.age = age /\ q.began = began
  <2> HIDE DEF Idle
  <2> QED
    BY <1>1 DEF Fiber
<1> QED
  BY <1>2, IdleIsFiber DEF Found

LEMMA EndedIsFiber ==
  ASSUME NEW pc \in Stages
  PROVE  Ended(pc) \in Fiber /\ Ended(pc).pc = pc
BY IdleIsFiber DEF Ended, Fiber

\* r becomes fiber q, and the caches stay as they are unless cache' says otherwise.
Becomes(r, q) == q \in Fiber /\ req' = [req EXCEPT ![r] = q]

LEMMA Checking ==
  ASSUME CachesTypeOK, NEW r \in Requests, NEW q \in Fiber, Checked(r, q)
  PROVE  /\ memo' \in [Ages -> MemoStates]
         /\ \E f : /\ Becomes(r, f) /\ f.pc \notin {"reading", "walking"}
                   /\ f.pc \in {"waiting", "sending"} => f.age = q.age /\ f.began = q.began
<1>1. ASSUME NEW pc \in {"failed", "interrupted"}, req' = [req EXCEPT ![r] = Ended(pc)]
      PROVE  \E f : /\ Becomes(r, f) /\ f.pc \notin {"reading", "walking"}
                    /\ f.pc \in {"waiting", "sending"} => f.age = q.age /\ f.began = q.began
  <2>1. Becomes(r, Ended(pc)) /\ Ended(pc).pc = pc
    BY <1>1, EndedIsFiber DEF Becomes, Stages
  <2> QED
    BY <2>1
<1>2. CASE req' = [req EXCEPT ![r] = Ended("failed")] /\ UNCHANGED memoVars
  BY <1>1, <1>2 DEF CachesTypeOK, memoVars
<1>3. CASE q.left > 0 /\ memo[restores] \in {"failed", "interrupted"} /\
           req' = [req EXCEPT ![r] = Ended(memo[restores])] /\ UNCHANGED memoVars
  BY <1>1, <1>3 DEF CachesTypeOK, memoVars
<1>4. CASE req' = [req EXCEPT ![r] = [q EXCEPT !.pc = "sending", !.left = 0]] /\ UNCHANGED memoVars
  <2> DEFINE f == [q EXCEPT !.pc = "sending", !.left = 0]
  <2>1. f \in Fiber /\ f.pc = "sending" /\ f.age = q.age /\ f.began = q.began
    BY DEF Fiber, Stages
  <2> HIDE DEF f
  <2>2. Becomes(r, f)
    BY <1>4, <2>1 DEF Becomes, f
  <2> QED
    BY <1>4, <2>1, <2>2 DEF CachesTypeOK, memoVars
<1>5. CASE /\ q.left > 0
           /\ req' = [req EXCEPT ![r] = [q EXCEPT !.pc = "waiting", !.left = @ - 1, !.waits = restores]]
           /\ memo' = memo \/ memo' = [memo EXCEPT ![restores] = "running"]
  <2> DEFINE f == [q EXCEPT !.pc = "waiting", !.left = q.left - 1, !.waits = restores]
  <2>1. f \in Fiber /\ f.pc = "waiting" /\ f.age = q.age /\ f.began = q.began
    <3>1. q.left - 1 \in Nat /\ restores \in Ages
      BY <1>5 DEF CachesTypeOK, Fiber
    <3> QED
      BY <3>1 DEF Fiber, Stages
  <2>2. req' = [req EXCEPT ![r] = f]
    BY <1>5
  <2> HIDE DEF f
  <2>3. Becomes(r, f)
    BY <2>1, <2>2 DEF Becomes
  <2>4. memo' \in [Ages -> MemoStates]
    BY <1>5 DEF CachesTypeOK, MemoStates
  <2> QED
    BY <2>1, <2>3, <2>4
<1> QED
  BY <1>2, <1>3, <1>4, <1>5 DEF Checked, Ensure, memoVars

\* What becomes of an operation that resolves its types: it walks, ends, or has
\* its metadata, which is then cached.
ResolvedTo(q, f, age) ==
  /\ f.pc # "reading"
  /\ f.pc = "walking" => /\ f.target \in Targets /\ f.arg \in 1..Len(TypesOf[f.target])
                         /\ f.age = age /\ f.began = q.began /\ f.walk = MaxRestores
  /\ f.pc \in {"waiting", "sending"} => f.age = age /\ f.began = q.began
  /\ cache' = cache \/ cache' = [cache EXCEPT ![q.target] = age]

LEMMA Resolved ==
  ASSUME CachesTypeOK, NEW r \in Requests, NEW q \in Fiber, q.target \in Targets,
         NEW i \in 1..(Len(TypesOf[q.target]) + 1), NEW tc \in [Types -> Ages \union {Absent}],
         ResolveTypes(r, q, i, tc)
  PROVE  /\ memo' \in [Ages -> MemoStates]
         /\ \E f : \E age \in Ages : Becomes(r, f) /\ ResolvedTo(q, f, age) /\ CurrentAge(q, tc, age)
<1>1. q.target \in Targets /\ q.began \in Ages
  BY DEF Fiber
<1>2. ASSUME NEW age \in Ages, CompletedWith(r, q, age)
      PROVE  memo' \in [Ages -> MemoStates] /\ \E f : Becomes(r, f) /\ ResolvedTo(q, f, age)
  <2>1. PICK q2 \in Fiber : q2 = Found(q.target, q.began, age) /\ q2.age = age /\ q2.began = q.began
    BY <1>1, FoundIsFiber
  <2>2. Checked(r, q2) /\ cache' = [cache EXCEPT ![q.target] = age]
    BY <1>2, <2>1 DEF CompletedWith
  <2> QED
    BY <2>1, <2>2, Checking DEF ResolvedTo
<1>3. ASSUME NEW age \in Ages, NEW arg \in 1..Len(TypesOf[q.target]), WalksFrom(r, q, arg, age)
      PROVE  memo' \in [Ages -> MemoStates] /\ \E f : Becomes(r, f) /\ ResolvedTo(q, f, age)
  <2> DEFINE f == [q EXCEPT !.pc   = "walking", !.age  = age, !.arg = arg,
                            !.type = TypesOf[q.target][arg],
                            !.seen = {TypesOf[q.target][arg]},
                            !.walk = MaxRestores]
  <2>1. arg \in Nat /\ TypesOf[q.target][arg] \in Types /\ MaxRestores \in Ages
    BY CachesAssumption DEF Ages
  <2>2. /\ f \in Fiber /\ f.pc = "walking" /\ f.target = q.target /\ f.arg = arg
        /\ f.age = age /\ f.began = q.began /\ f.walk = MaxRestores
    BY <2>1 DEF Fiber, Stages
  <2>3. req' = [req EXCEPT ![r] = f] /\ UNCHANGED <<cache, memoVars>>
    BY <1>3 DEF WalksFrom
  <2> HIDE DEF f
  <2>4. Becomes(r, f) /\ ResolvedTo(q, f, age)
    BY <2>2, <2>3 DEF Becomes, ResolvedTo
  <2> QED
    BY <2>3, <2>4 DEF CachesTypeOK, memoVars
<1> QED
  BY <1>2, <1>3, Resolving
\* Caches as the invariant wants them.
CachesAre(c, tc) ==
  /\ c \in [Targets -> Ages \union {Absent}] /\ tc \in [Types -> Ages \union {Absent}]
  /\ ~overlapped => /\ \A t \in Targets : c[t] \in {Absent, restores}
                    /\ \A d \in Types : tc[d] \in {Absent, restores}

\* A fiber as the invariant wants it.
FiberIs(f) ==
  /\ f.pc \in {"reading", "walking"} => f.target \in Targets
  /\ f.pc = "reading" => f.reads > 0
  /\ f.pc = "walking" => f.arg \in 1..Len(TypesOf[f.target])
  /\ ~overlapped => AgesOf(f)

\* A step of one fiber.
LEMMA FiberStep ==
  ASSUME CachesTypeOK, AgesInv, NEW r \in Requests, NEW f, Becomes(r, f), FiberIs(f),
         CachesAre(cache', typeCache'), memo' \in [Ages -> MemoStates],
         UNCHANGED <<restores, overlapped>>
  PROVE  CachesTypeOK' /\ AgesInv'
<1>1. /\ req' \in [Requests -> Fiber] /\ req'[r] = f
      /\ \A s \in Requests : s # r => req'[s] = req[s]
  BY DEF Becomes, CachesTypeOK
<1>2. CachesTypeOK'
  BY <1>1 DEF CachesTypeOK, CachesAre, FiberIs
<1>3. ASSUME ~overlapped, NEW s \in Requests
      PROVE  AgesOf(req[s])'
  BY <1>1, <1>3 DEF AgesInv, AgesOf, FiberIs
<1> QED
  BY <1>2, <1>3 DEF AgesInv, CachesAre

LEMMA CachesStay ==
  ASSUME CachesTypeOK, AgesInv
  PROVE  CachesAre(cache, typeCache)
BY DEF CachesTypeOK, AgesInv, CachesAre

\* An operation ends, for whatever reason.
LEMMA EndingKeepsInv ==
  ASSUME CachesTypeOK, AgesInv, NEW r \in Requests, NEW pc \in {"done", "failed", "interrupted"},
         req' = [req EXCEPT ![r] = Ended(pc)], memo' \in [Ages -> MemoStates],
         UNCHANGED <<restores, overlapped, cacheVars>>
  PROVE  CachesTypeOK' /\ AgesInv'
<1>1. Becomes(r, Ended(pc)) /\ Ended(pc).pc = pc
  BY EndedIsFiber DEF Becomes, Stages
<1>2. FiberIs(Ended(pc))
  BY <1>1 DEF FiberIs, AgesOf
<1> QED
  BY <1>1, <1>2, CachesStay, FiberStep DEF cacheVars

\* An operation that has its metadata goes on.
LEMMA CheckingKeepsInv ==
  ASSUME CachesTypeOK, AgesInv, NEW r \in Requests, NEW q \in Fiber, ~overlapped => q.age = q.began,
         Checked(r, q), UNCHANGED <<restores, overlapped, cacheVars>>
  PROVE  CachesTypeOK' /\ AgesInv'
<1>1. PICK f : /\ Becomes(r, f) /\ f.pc \notin {"reading", "walking"}
               /\ f.pc \in {"waiting", "sending"} => f.age = q.age /\ f.began = q.began
  BY Checking
<1>2. FiberIs(f)
  BY <1>1 DEF FiberIs, AgesOf
<1>3. memo' \in [Ages -> MemoStates]
  BY Checking
<1> QED
  BY <1>1, <1>2, <1>3, CachesStay, FiberStep DEF cacheVars

\* An operation resolves its data types.
LEMMA ResolvingKeepsInv ==
  ASSUME CachesTypeOK, AgesInv, NEW r \in Requests, NEW q \in Fiber, q.target \in Targets,
         NEW i \in 1..(Len(TypesOf[q.target]) + 1), ResolveTypes(r, q, i, typeCache'),
         CachesAre(cache, typeCache'), ~overlapped => q.age = restores /\ q.began = restores,
         UNCHANGED <<restores, overlapped>>
  PROVE  CachesTypeOK' /\ AgesInv'
<1>1. PICK tc \in [Types -> Ages \union {Absent}] : tc = typeCache'
  BY DEF CachesAre
<1>2. ResolveTypes(r, q, i, tc)
  BY <1>1
<1>3. PICK age \in Ages : \E g : Becomes(r, g) /\ ResolvedTo(q, g, age) /\ CurrentAge(q, tc, age)
  BY <1>2, Resolved
<1>4. PICK f : Becomes(r, f) /\ ResolvedTo(q, f, age) /\ CurrentAge(q, tc, age)
  BY <1>3
<1>5. memo' \in [Ages -> MemoStates]
  BY <1>2, Resolved
<1>6. ~overlapped => age = restores
  BY <1>1, <1>4 DEF CachesAre, CurrentAge
<1>7. FiberIs(f)
  BY <1>4, <1>6 DEF ResolvedTo, FiberIs, AgesOf
<1>8. CachesAre(cache', typeCache')
  BY <1>4, <1>6 DEF ResolvedTo, CachesAre
<1> QED
  BY <1>4, <1>5, <1>7, <1>8, FiberStep

\* The older of two ages.
LEMMA OlderAge ==
  ASSUME CachesTypeOK, NEW a \in Ages
  PROVE  /\ Older(a, restores) \in Ages
         /\ a \in {MaxRestores, restores} => Older(a, restores) = restores
BY CachesAssumption DEF Older, Ages, CachesTypeOK

\* No answer that is older than the last restore gets into a cache or an
\* operation, unless the restore overtook a discovery.
LEMMA AgesInvIsInductive ==
  ASSUME CachesTypeOK, AgesInv, [Next]_vars
  PROVE  CachesTypeOK' /\ AgesInv'
<1>1. ASSUME NEW r \in Requests, NEW t \in Targets, Begin(r, t)
      PROVE  CachesTypeOK' /\ AgesInv'
  <2>1. UNCHANGED <<restores, overlapped, cacheVars>>
    BY <1>1 DEF Begin
  <2>2. CASE cache[t] # Absent
    <3>1. cache[t] \in Ages /\ restores \in Ages
      BY <2>2 DEF CachesTypeOK
    <3>2. PICK q \in Fiber : q = Found(t, restores, cache[t]) /\ q.age = cache[t] /\ q.began = restores
      BY <3>1, FoundIsFiber
    <3>3. Checked(r, q)
      BY <1>1, <2>2, <3>2 DEF Begin
    <3>4. ~overlapped => q.age = q.began
      BY <2>2, <3>2 DEF AgesInv
    <3> QED
      BY <2>1, <3>3, <3>4, CheckingKeepsInv
  <2>3. CASE cache[t] = Absent
    <3> DEFINE f == [Idle EXCEPT !.pc = "reading", !.target = t, !.began = restores,
                                 !.reads = Reads[t], !.age = MaxRestores]
    <3>1. Reads[t] \in Nat /\ Reads[t] > 0 /\ MaxRestores \in Ages /\ restores \in Ages
      BY CachesAssumption DEF Ages, CachesTypeOK
    <3>2. Idle \in Fiber => f \in Fiber /\ f.pc = "reading" /\ f.target = t /\ f.began = restores
                            /\ f.reads = Reads[t] /\ f.age = MaxRestores
      <4> HIDE DEF Idle
      <4> QED
        BY <3>1 DEF Fiber, Stages
    <3>3. req' = [req EXCEPT ![r] = f] /\ UNCHANGED memoVars
      BY <1>1, <2>3 DEF Begin
    <3> HIDE DEF f
    <3>4. Becomes(r, f) /\ FiberIs(f)
      BY <3>1, <3>2, <3>3, IdleIsFiber DEF Becomes, FiberIs, AgesOf
    <3> QED
      BY <2>1, <3>3, <3>4, CachesStay, FiberStep DEF cacheVars, memoVars, CachesTypeOK
  <2> QED
    BY <2>2, <2>3
<1>2. ASSUME NEW r \in Requests, ReadAnswered(r)
      PROVE  CachesTypeOK' /\ AgesInv'
  <2> DEFINE q == [req[r] EXCEPT !.reads = req[r].reads - 1, !.age = Older(req[r].age, restores)]
  <2>1. /\ req[r] \in Fiber /\ req[r].pc = "reading" /\ req[r].target \in Targets /\ req[r].reads > 0
        /\ UNCHANGED <<restores, overlapped, typeCache>>
    BY <1>2 DEF ReadAnswered, CachesTypeOK
  <2>2. /\ Older(req[r].age, restores) \in Ages
        /\ ~overlapped => req[r].began = restores /\ Older(req[r].age, restores) = restores
    BY <2>1, OlderAge DEF Fiber, AgesInv, AgesOf
  <2>3. /\ q \in Fiber /\ q.pc = "reading" /\ q.target = req[r].target /\ q.began = req[r].began
        /\ q.age = Older(req[r].age, restores) /\ q.reads = req[r].reads - 1
    <3>1. req[r].reads - 1 \in Nat
      BY <2>1 DEF Fiber
    <3> QED
      BY <2>1, <2>2, <3>1 DEF Fiber
  <2>4. IF q.reads > 0
        THEN req' = [req EXCEPT ![r] = q] /\ UNCHANGED <<cache, memoVars>>
        ELSE ResolveTypes(r, q, 1, typeCache)
    BY <1>2 DEF ReadAnswered
  <2> HIDE DEF q
  <2>5. CASE q.reads > 0
    <3>1. Becomes(r, q) /\ FiberIs(q)
      BY <2>1, <2>2, <2>3, <2>4, <2>5 DEF Becomes, FiberIs, AgesOf
    <3> QED
      BY <2>1, <2>4, <2>5, <3>1, CachesStay, FiberStep DEF cacheVars, memoVars, CachesTypeOK
  <2>6. CASE ~(q.reads > 0)
    <3>1. ResolveTypes(r, q, 1, typeCache') /\ CachesAre(cache, typeCache')
      BY <2>1, <2>4, <2>6, CachesStay
    <3>2. 1 \in 1..(Len(TypesOf[q.target]) + 1)
      BY <2>1, <2>3, CachesAssumption
    <3> QED
      BY <2>1, <2>2, <2>3, <3>1, <3>2, ResolvingKeepsInv
  <2> QED
    BY <2>5, <2>6
<1>3. ASSUME NEW r \in Requests, WalkAnswered(r)
      PROVE  CachesTypeOK' /\ AgesInv'
  <2> DEFINE q  == [req[r] EXCEPT !.walk = Older(req[r].walk, restores)]
             up == superType[q.type]
             t  == req[r].target
  <2>1. /\ req[r] \in Fiber /\ req[r].pc = "walking" /\ t \in Targets
        /\ req[r].arg \in 1..Len(TypesOf[t])
        /\ UNCHANGED <<restores, overlapped>>
    BY <1>3 DEF WalkAnswered, CachesTypeOK
  <2>2. /\ Older(req[r].walk, restores) \in Ages
        /\ ~overlapped => req[r].began = restores /\ req[r].age = restores
                          /\ Older(req[r].walk, restores) = restores
    BY <2>1, OlderAge DEF Fiber, AgesInv, AgesOf
  <2>3. /\ q \in Fiber /\ q.pc = "walking" /\ q.target = t /\ q.began = req[r].began
        /\ q.age = req[r].age /\ q.walk = Older(req[r].walk, restores) /\ q.arg = req[r].arg
    BY <2>1, <2>2 DEF Fiber
  <2>4. \/ /\ typeCache' = [typeCache EXCEPT ![TypesOf[q.target][q.arg]] = q.walk]
           /\ ResolveTypes(r, [q EXCEPT !.age = Older(q.age, q.walk)], q.arg + 1, typeCache')
        \/ /\ up \in Types \ q.seen
           /\ req' = [req EXCEPT ![r] = [q EXCEPT !.type = up, !.seen = q.seen \union {up}]]
           /\ UNCHANGED <<cacheVars, memoVars>>
        \/ /\ req' = [req EXCEPT ![r] = Ended("failed")]
           /\ UNCHANGED <<cacheVars, memoVars>>
    BY <1>3 DEF WalkAnswered
  <2> HIDE DEF q, up
  <2>5. CASE /\ typeCache' = [typeCache EXCEPT ![TypesOf[q.target][q.arg]] = q.walk]
             /\ ResolveTypes(r, [q EXCEPT !.age = Older(q.age, q.walk)], q.arg + 1, typeCache')
    <3> DEFINE p == [q EXCEPT !.age = Older(q.age, q.walk)]
    <3>1. /\ Older(q.age, q.walk) \in Ages
          /\ ~overlapped => Older(q.age, q.walk) = restores
      BY <2>1, <2>2, <2>3 DEF Older, Fiber
    <3>2. /\ p \in Fiber /\ p.target = t /\ p.began = req[r].began
          /\ p.age = Older(q.age, q.walk)
      BY <2>3, <3>1 DEF Fiber
    <3>3. ResolveTypes(r, p, q.arg + 1, typeCache')
      BY <2>5
    <3> HIDE DEF p
    <3>4. CachesAre(cache, typeCache')
      <4>1. TypesOf[q.target][q.arg] \in Types /\ q.walk \in Ages
        BY <2>1, <2>2, <2>3, CachesAssumption
      <4>2. typeCache' \in [Types -> Ages \union {Absent}]
        BY <2>5, <4>1 DEF CachesTypeOK
      <4>3. ASSUME ~overlapped, NEW d \in Types
            PROVE  typeCache'[d] \in {Absent, restores}
        BY <2>2, <2>3, <2>5, <4>3 DEF AgesInv, CachesTypeOK
      <4> QED
        BY <4>2, <4>3, CachesStay DEF CachesAre
    <3>5. q.arg + 1 \in 1..(Len(TypesOf[p.target]) + 1)
      BY <2>1, <2>3, <3>2, CachesAssumption
    <3> QED
      BY <2>1, <2>2, <3>1, <3>2, <3>3, <3>4, <3>5, ResolvingKeepsInv
  <2>6. CASE /\ up \in Types \ q.seen
             /\ req' = [req EXCEPT ![r] = [q EXCEPT !.type = up, !.seen = q.seen \union {up}]]
             /\ UNCHANGED <<cacheVars, memoVars>>
    <3> DEFINE f == [q EXCEPT !.type = up, !.seen = q.seen \union {up}]
    <3>1. /\ f \in Fiber /\ f.pc = "walking" /\ f.target = t /\ f.began = q.began
          /\ f.age = q.age /\ f.walk = q.walk /\ f.arg = q.arg
      BY <2>3, <2>6 DEF Fiber
    <3> HIDE DEF f
    <3>2. Becomes(r, f) /\ FiberIs(f)
      BY <2>1, <2>2, <2>3, <2>6, <3>1 DEF Becomes, FiberIs, AgesOf, f
    <3> QED
      BY <2>1, <2>6, <3>2, CachesStay, FiberStep DEF cacheVars, memoVars, CachesTypeOK
  <2>7. CASE /\ req' = [req EXCEPT ![r] = Ended("failed")]
             /\ UNCHANGED <<cacheVars, memoVars>>
    BY <2>1, <2>7, EndingKeepsInv DEF memoVars, CachesTypeOK
  <2> QED
    BY <2>4, <2>5, <2>6, <2>7
<1>4. ASSUME NEW r \in Requests, DiscoveryFails(r) \/ Served(r)
      PROVE  CachesTypeOK' /\ AgesInv'
  <2>1. PICK pc \in {"done", "failed", "interrupted"} : req' = [req EXCEPT ![r] = Ended(pc)]
    BY <1>4 DEF DiscoveryFails, Served
  <2> QED
    BY <1>4, <2>1, EndingKeepsInv DEF DiscoveryFails, Served, memoVars, CachesTypeOK
<1>5. ASSUME NEW r \in Requests, Resumed(r)
      PROVE  CachesTypeOK' /\ AgesInv'
  <2>1. /\ req[r] \in Fiber /\ req[r].pc = "waiting" /\ memo[req[r].waits] \in MemoStates
        /\ memo[req[r].waits] \notin {"unstarted", "running"}
        /\ UNCHANGED <<restores, overlapped, cacheVars>>
    BY <1>5 DEF Resumed, CachesTypeOK, Fiber
  <2>2. CASE memo[req[r].waits] = "ready"
    <3>1. Checked(r, req[r])
      BY <1>5, <2>2 DEF Resumed
    <3>2. ~overlapped => req[r].age = req[r].began
      BY <2>1 DEF AgesInv, AgesOf
    <3> QED
      BY <2>1, <3>1, <3>2, CheckingKeepsInv
  <2>3. CASE memo[req[r].waits] # "ready"
    <3>1. PICK pc \in {"done", "failed", "interrupted"} : pc = memo[req[r].waits]
      BY <2>1, <2>3 DEF MemoStates
    <3>2. req' = [req EXCEPT ![r] = Ended(pc)] /\ UNCHANGED memoVars
      BY <1>5, <2>3, <3>1 DEF Resumed
    <3> QED
      BY <2>1, <3>2, EndingKeepsInv DEF memoVars, CachesTypeOK
  <2> QED
    BY <2>2, <2>3
<1>6. ASSUME NEW r \in Requests, Interrupt(r)
      PROVE  CachesTypeOK' /\ AgesInv'
  <2>1. memo' \in [Ages -> MemoStates]
    BY <1>6 DEF Interrupt, CachesTypeOK, MemoStates
  <2> QED
    BY <1>6, <2>1, EndingKeepsInv DEF Interrupt
<1>7. ASSUME NEW g \in Ages, Extracted(g)
      PROVE  CachesTypeOK' /\ AgesInv'
  <2>1. memo' \in [Ages -> MemoStates]
    BY <1>7 DEF Extracted, CachesTypeOK, MemoStates
  <2> QED
    BY <1>7, <2>1 DEF Extracted, CachesTypeOK, AgesInv, AgesOf, cacheVars
<1>8. CASE SessionRestored
  <2>1. restores' \in Ages
    BY <1>8, CachesAssumption DEF SessionRestored, CachesTypeOK, Ages
  <2>2. CachesTypeOK'
    BY <1>8, <2>1 DEF SessionRestored, CachesTypeOK, memoVars
  <2>3. ~overlapped' => \A r \in Requests : req[r].pc \notin {"reading", "walking"} /\ ~overlapped
    BY <1>8 DEF SessionRestored, Discovering
  <2> QED
    BY <1>8, <2>2, <2>3 DEF SessionRestored, AgesInv, AgesOf
<1>9. CASE UNCHANGED vars
  BY <1>9 DEF vars, cacheVars, memoVars, CachesTypeOK, AgesInv, AgesOf
<1> QED
  BY <1>1, <1>2, <1>3, <1>4, <1>5, <1>6, <1>7, <1>8, <1>9 DEF Next, Answers

\* Types, and the ages of everything that is cached or in flight (AgesInv).
THEOREM CachesTypes == Spec => [](CachesTypeOK /\ AgesInv)
<1>1. Init => CachesTypeOK /\ AgesInv
  <2>1. Init => CachesTypeOK
    BY IdleIsFiber, CachesAssumption DEF Init, CachesTypeOK, MemoStates, Ages, Idle
  <2> QED
    BY <2>1 DEF Init, AgesInv, AgesOf, Idle
<1> QED
  BY <1>1, AgesInvIsInductive, PTL DEF Spec

\* As long as no discovery was under way at a restore, every cache holds only
\* what was answered after the last restore, and every operation uses metadata
\* that is not older than the operation (service.ts invalidate, rawVariableMetadata).
THEOREM CachesAreCurrent == Spec => []CurrentUnlessOverlapped
<1>1. AgesInv => CurrentUnlessOverlapped
  BY DEF AgesInv, AgesOf, CurrentUnlessOverlapped, HasMetadata
<1> QED
  BY <1>1, CachesTypes, PTL

=============================================================================
