----------------------------- MODULE BatchProof -----------------------------
(***************************************************************************)
(* Theorems about Batch for any record, any size and number of requests:   *)
(* what fails locally has sent nothing, and a failed request is the last.  *)
(***************************************************************************)
EXTENDS Batch, FiniteSetTheorems, WellFoundedInduction, TLAPS

\* All the checks that stand before the first request.
AllChecks == Passes * Len(target)

ChunkStates == {"idle", "sent", "answered", "failed"}

\* What the steps need to know of the variables.
Typed ==
  /\ kind \in {"readUnchecked", "read", "write", "call"}
  /\ target \in Records
  /\ checks \in Nat
  /\ chunk \in [Chunks -> ChunkStates]

\* How far the checks are at each stage.
ChecksInv ==
  /\ stage = "checking"  => checks = 0
  /\ stage = "preflight" => checks < AllChecks
  /\ stage \in {"preparing", "sending"} => checks = AllChecks

\* The stages before a request is on its way, and those after one has failed.
RequestsInv ==
  \A c \in Chunks :
    /\ chunk[c] # "idle" => /\ stage \notin {"checking", "preflight", "preparing", "rejected"}
                            /\ checks = AllChecks
    /\ chunk[c] = "failed" => stage # "sending"

IInv == Typed /\ ChecksInv /\ RequestsInv

-----------------------------------------------------------------------------
\* The number of checks is a number, and none only without passes or entries.
LEMMA AllChecksNat ==
  ASSUME Typed
  PROVE  /\ AllChecks \in Nat
         /\ Passes = 0 => AllChecks = 0
         /\ Passes # 0 /\ target # <<>> => 0 < AllChecks
<1>1. Len(target) \in Nat /\ (target # <<>> => 0 < Len(target))
  BY BatchAssumption DEF Typed
<1>2. Passes \in 0..2
  BY DEF Typed, Passes
<1>3. Passes = 0 \/ Passes = 1 \/ Passes = 2
  BY <1>2
<1> QED
  BY <1>1, <1>3 DEF AllChecks

\* The record and the operation do not change, and so neither do its requests.
LEMMA SameRequests ==
  ASSUME UNCHANGED <<kind, target>>
  PROVE  Chunks' = Chunks /\ AllChecks' = AllChecks /\ Passes' = Passes
BY DEF Chunks, NumChunks, AllChecks, Passes

LEMMA InitIInv == Init => IInv
BY DEF Init, IInv, Typed, ChecksInv, RequestsInv, ChunkStates

\* Checks, preflight and preparation, before any request.
LEMMA LocalStepKeepsIInv ==
  ASSUME IInv, Check \/ Preflight \/ Prepare
  PROVE  IInv'
<1>1. /\ UNCHANGED <<kind, target, chunk>>
      /\ stage \in {"checking", "preflight", "preparing"}
  BY DEF Check, Preflight, Prepare
<1>2. \A c \in Chunks : chunk[c] = "idle"
  BY <1>1 DEF IInv, RequestsInv
<1>3. Chunks' = Chunks /\ AllChecks' = AllChecks
  BY <1>1, SameRequests
<1>4. Typed'
  BY <1>1, <1>3 DEF IInv, Typed, Check, Preflight, Prepare
<1>5. RequestsInv'
  BY <1>1, <1>2, <1>3 DEF RequestsInv
<1>6. ChecksInv'
  <2>1. CASE Check
    BY <2>1, <1>3, AllChecksNat DEF Check, Checked, IInv, ChecksInv
  <2>2. CASE Preflight
    <3>1. AllChecks \in Nat /\ checks \in Nat /\ checks < AllChecks
      BY <2>2, AllChecksNat DEF Preflight, IInv, Typed, ChecksInv
    <3> QED
      BY <2>2, <3>1, <1>3 DEF Preflight, Checked, ChecksInv, AllChecks
  <2>3. CASE Prepare
    BY <2>3, <1>3 DEF Prepare, IInv, ChecksInv
  <2> QED
    BY <2>1, <2>2, <2>3
<1> QED
  BY <1>4, <1>5, <1>6 DEF IInv

\* Requests are sent in stage "sending" only, and a failed one ends it.
LEMMA RequestStepKeepsIInv ==
  ASSUME IInv, NEW c \in Chunks, Send(c) \/ Answered(c) \/ RequestFails(c)
  PROVE  IInv'
<1>1. /\ UNCHANGED <<kind, target, checks>>
      /\ \E s \in ChunkStates : chunk' = [chunk EXCEPT ![c] = s]
      /\ chunk[c] # "idle" \/ stage = "sending"
  BY DEF Send, Answered, RequestFails, Fail, ChunkStates
<1>2. Chunks' = Chunks /\ AllChecks' = AllChecks
  BY <1>1, SameRequests
<1>3. stage \notin {"checking", "preflight", "preparing", "rejected"} /\ checks = AllChecks
  BY <1>1 DEF IInv, RequestsInv, ChecksInv
<1>4. stage' \in {stage, "failed"} /\ (RequestFails(c) => stage' # "sending")
  BY DEF Send, Answered, RequestFails, Fail
<1>5. Typed'
  BY <1>1, <1>2 DEF IInv, Typed
<1>6. ChecksInv'
  BY <1>1, <1>2, <1>3, <1>4 DEF ChecksInv
<1>7. RequestsInv'
  <2> SUFFICES ASSUME NEW d \in Chunks, chunk'[d] = "failed"
               PROVE  stage' # "sending"
    BY <1>1, <1>2, <1>3, <1>4 DEF RequestsInv
  <2>1. chunk[d] = "failed" \/ RequestFails(c)
    BY DEF IInv, Typed, Send, Answered
  <2> QED
    BY <2>1, <1>4 DEF IInv, RequestsInv
<1> QED
  BY <1>5, <1>6, <1>7 DEF IInv

\* The operation returns or is interrupted.
LEMMA EndKeepsIInv ==
  ASSUME IInv, Return \/ Interrupt
  PROVE  IInv'
<1>1. UNCHANGED <<kind, target, checks, chunk>> /\ stage' \in {"done", "interrupted"}
  BY DEF Return, Interrupt
<1>2. Chunks' = Chunks /\ AllChecks' = AllChecks
  BY <1>1, SameRequests
<1> QED
  BY <1>1, <1>2 DEF IInv, Typed, ChecksInv, RequestsInv

\* IInv is inductive.
LEMMA StepKeepsIInv == IInv /\ [Next]_vars => IInv'
<1> SUFFICES ASSUME IInv, [Next]_vars
             PROVE  IInv'
  OBVIOUS
<1>1. CASE UNCHANGED vars
  <2>1. UNCHANGED <<kind, target, stage, checks, chunk>>
    BY <1>1 DEF vars
  <2> QED
    BY <2>1, SameRequests DEF IInv, Typed, ChecksInv, RequestsInv
<1>2. CASE Next
  BY <1>2, LocalStepKeepsIInv, RequestStepKeepsIInv, EndKeepsIInv DEF Next, Fiber, Settles
<1> QED
  BY <1>1, <1>2

\* No request of a batch leaves before every entry has passed every check.
THEOREM LocalFailuresSendNothing == Spec => []LocalFailureSendsNothing
<1>1. IInv => LocalFailureSendsNothing
  BY DEF IInv, RequestsInv, LocalFailureSendsNothing, AllChecks
<1> QED
  BY InitIInv, StepKeepsIInv, <1>1, PTL DEF Spec

\* After a failed request or an interruption no further request is sent.
THEOREM FailureIsTheLastSent == Spec => NothingSentAfterFailure
<1> DEFINE Quiet ==
      \A c \in Chunks :
        (stage = "interrupted" \/ \E d \in Chunks : chunk[d] = "failed") =>
          (chunk'[c] = "sent" => chunk[c] = "sent")
<1>1. IInv /\ [Next]_vars => [Quiet]_vars
  <2> SUFFICES ASSUME IInv, Next, NEW c \in Chunks,
                      stage = "interrupted" \/ \E d \in Chunks : chunk[d] = "failed",
                      chunk'[c] = "sent"
               PROVE  chunk[c] = "sent"
    OBVIOUS
  <2>1. stage # "sending"
    BY DEF IInv, RequestsInv
  <2>2. CASE Check \/ Preflight \/ Prepare \/ Return \/ Interrupt
    BY <2>2 DEF Check, Preflight, Prepare, Return, Interrupt
  <2>3. CASE \E e \in Chunks : Answered(e) \/ RequestFails(e)
    BY <2>3 DEF Answered, RequestFails, Fail, IInv, Typed
  <2>4. CASE \E e \in Chunks : Send(e)
    BY <2>1, <2>4 DEF Send
  <2> QED
    BY <2>2, <2>3, <2>4 DEF Next, Fiber, Settles
<1> QED
  BY InitIInv, StepKeepsIInv, <1>1, PTL DEF Spec, NothingSentAfterFailure

-----------------------------------------------------------------------------
(***************************************************************************)
(* The results.  They match their keys because the slices partition the    *)
(* entries, because the server's answers are put in the order of the       *)
(* requests, and because each entry is executed with its slice only.       *)
(***************************************************************************)

\* The requests of a record: each takes a slice that is not empty, and a slice
\* that is not the last is full.
LEMMA SliceBounds ==
  ASSUME Typed, NEW c \in Chunks
  PROVE  /\ First(c) \in Nat \ {0} /\ Last(c) \in Nat
         /\ First(c) <= Last(c) /\ Last(c) <= Len(target)
         /\ c < NumChunks => Last(c) = c * MaxItemsPerRequest
<1> DEFINE n == Len(target)
           m == MaxItemsPerRequest
<1>1. n \in Nat /\ m \in Nat \ {0}
  BY BatchAssumption DEF Typed
<1>2. NumChunks = (n + m - 1) \div m
  BY DEF NumChunks
<1> HIDE DEF n, m
<1>3. NumChunks \in Nat /\ NumChunks * m <= n + m - 1
  BY <1>1, <1>2
<1>4. c \in Nat \ {0} /\ c <= NumChunks
  BY <1>3 DEF Chunks
<1>5. (c - 1) * m \in Nat /\ c * m \in Nat /\ c * m = (c - 1) * m + m
  BY <1>1, <1>4
<1>6. c < NumChunks => c * m + m <= NumChunks * m
  BY <1>1, <1>3, <1>4
<1>7. First(c) = (c - 1) * m + 1 /\ Last(c) = IF c = NumChunks THEN n ELSE c * m
  BY DEF First, Last, n, m
<1>8. CASE c = NumChunks
  BY <1>1, <1>3, <1>5, <1>7, <1>8 DEF n
<1>9. CASE c < NumChunks
  BY <1>1, <1>3, <1>4, <1>5, <1>6, <1>7, <1>9 DEF n, m
<1> QED
  BY <1>3, <1>4, <1>8, <1>9

\* No entry is sent twice.
LEMMA SlicesAreDisjoint ==
  ASSUME Typed, NEW c \in Chunks, NEW d \in Chunks, c # d
  PROVE  Slice(c) \intersect Slice(d) = {}
<1>1. ASSUME NEW b \in Chunks, NEW e \in Chunks, b < e
      PROVE  Last(b) < First(e)
  <2> DEFINE m == MaxItemsPerRequest
  <2>1. m \in Nat \ {0} /\ NumChunks \in Int
    BY BatchAssumption DEF Typed, NumChunks
  <2>2. b \in Nat \ {0} /\ e \in Nat \ {0} /\ b < NumChunks
    BY <1>1, <2>1 DEF Chunks
  <2>3. Last(b) = b * m /\ First(e) = (e - 1) * m + 1
    BY <2>2, SliceBounds DEF First
  <2> HIDE DEF m
  <2>4. b * m <= (e - 1) * m
    BY <1>1, <2>1, <2>2
  <2>5. b * m \in Int /\ (e - 1) * m \in Int
    BY <2>1, <2>2
  <2> QED
    BY <2>3, <2>4, <2>5
<1>2. /\ First(c) \in Nat /\ Last(c) \in Nat /\ First(d) \in Nat /\ Last(d) \in Nat
  BY SliceBounds
<1>3. Last(c) < First(d) \/ Last(d) < First(c)
  <2>1. c \in Int /\ d \in Int
    BY DEF Chunks
  <2> QED
    BY <1>1, <2>1
<1> QED
  BY <1>2, <1>3 DEF Slice

\* Every entry is sent.
LEMMA SlicesCover ==
  ASSUME Typed, NEW k \in Entries
  PROVE  \E c \in Chunks : k \in Slice(c)
<1> DEFINE n == Len(target)
           m == MaxItemsPerRequest
           c == (k - 1) \div m + 1
<1>1. n \in Nat /\ m \in Nat \ {0} /\ k \in 1..n
  BY BatchAssumption DEF Typed, Entries
<1>2. NumChunks = (n + m - 1) \div m
  BY DEF NumChunks
<1> HIDE DEF n, m
<1>3. NumChunks \in Nat /\ n <= NumChunks * m
  BY <1>1, <1>2
<1>4. c \in Nat \ {0} /\ (c - 1) * m <= k - 1 /\ k - 1 < (c - 1) * m + m
  BY <1>1
<1>5. (c - 1) * m \in Nat /\ c * m = (c - 1) * m + m
  BY <1>1, <1>4
<1>6. c - 1 < NumChunks
  <2>1. (c - 1) * m < NumChunks * m
    BY <1>1, <1>3, <1>4, <1>5
  <2> QED
    BY <1>1, <1>3, <1>4, <2>1
<1>7. c \in Chunks
  BY <1>3, <1>4, <1>6 DEF Chunks
<1>8. First(c) = (c - 1) * m + 1 /\ Last(c) = IF c = NumChunks THEN n ELSE c * m
  BY DEF First, Last, n, m
<1>9. First(c) <= k /\ k <= Last(c) /\ First(c) \in Nat /\ Last(c) \in Nat
  BY <1>1, <1>4, <1>5, <1>8
<1> QED
  BY <1>1, <1>7, <1>9 DEF Slice

\* A set of naturals has a least element.
LEMMA LeastNat ==
  ASSUME NEW T, T \subseteq Nat, T # {}
  PROVE  \E n \in T : \A m \in T : n <= m
<1> DEFINE Below == {0..n : n \in T}
<1>1. Below \subseteq FiniteSubsetsOf(Nat) /\ Below # {}
  <2>1. ASSUME NEW n \in T
        PROVE  0..n \in FiniteSubsetsOf(Nat)
    <3>1. IsFiniteSet(0..n) /\ 0..n \subseteq Nat
      BY FS_Interval
    <3> QED
      BY <3>1 DEF FiniteSubsetsOf
  <2> QED
    BY <2>1
<1>2. PICK x \in Below : \A y \in Below : ~ (<<y, x>> \in StrictSubsetOrdering(Nat))
  BY <1>1, WFMin, FS_StrictSubsetOrderingWellFounded
<1>3. PICK n \in T : x = 0..n
  BY <1>2
<1>4. ASSUME NEW m \in T, m < n
      PROVE  FALSE
  <2>1. 0..m \in Below /\ 0..m \subseteq 0..n /\ 0..m # 0..n /\ 0..m \subseteq Nat /\ 0..n \subseteq Nat
    BY <1>4
  <2> QED
    BY <2>1, <1>2, <1>3 DEF StrictSubsetOrdering
<1> QED
  BY <1>4

\* What holds of zero and is handed on holds of every natural.
LEMMA Induction ==
  ASSUME NEW T \in SUBSET Nat, 0 \in T, \A n \in T : n + 1 \in T
  PROVE  T = Nat
<1> SUFFICES ASSUME Nat \ T # {} PROVE FALSE
  OBVIOUS
<1>1. PICK n \in Nat \ T : \A m \in Nat \ T : n <= m
  BY LeastNat
<1>2. n - 1 \in Nat /\ n - 1 \in T
  BY <1>1
<1> QED
  BY <1>1, <1>2

\* g collects the answers of the requests up to n.
CollectsTo(g, n) ==
  g = [c \in 0..n |-> IF c = 0 THEN <<>> ELSE g[c - 1] \o answers[c]]

\* The recursion that collects the answers has a solution, so that InOrder
\* is one.
LEMMA InOrderSteps ==
  \A c \in Nat : InOrder[c] = IF c = 0 THEN <<>> ELSE InOrder[c - 1] \o answers[c]
<1>1. \A n \in Nat : \E g : CollectsTo(g, n)
  <2> DEFINE T == {n \in Nat : \E g : CollectsTo(g, n)}
  <2>1. 0 \in T
    <3>1. CollectsTo([c \in 0..0 |-> <<>>], 0)
      BY DEF CollectsTo
    <3> QED
      BY <3>1
  <2>2. ASSUME NEW n \in T
        PROVE  n + 1 \in T
    <3>1. PICK g : CollectsTo(g, n)
      OBVIOUS
    <3> DEFINE h == [c \in 0..(n + 1) |-> IF c = n + 1 THEN g[n] \o answers[n + 1] ELSE g[c]]
    <3>2. ASSUME NEW c \in 0..(n + 1)
          PROVE  h[c] = IF c = 0 THEN <<>> ELSE h[c - 1] \o answers[c]
      <4>1. CASE c = n + 1
        BY <4>1
      <4>2. CASE c # n + 1
        <5>1. c \in 0..n /\ (c # 0 => c - 1 \in 0..n)
          BY <4>2
        <5>2. h[c] = g[c] /\ (c # 0 => h[c - 1] = g[c - 1])
          BY <5>1
        <5>3. g[c] = IF c = 0 THEN <<>> ELSE g[c - 1] \o answers[c]
          BY <3>1, <5>1 DEF CollectsTo
        <5> QED
          BY <5>2, <5>3
      <4> QED
        BY <4>1, <4>2
    <3>3. CollectsTo(h, n + 1)
      BY <3>2 DEF CollectsTo
    <3> QED
      BY <3>3
  <2> HIDE DEF T
  <2>3. T = Nat
    BY <2>1, <2>2, Induction DEF T
  <2> QED
    BY <2>3 DEF T
<1> DEFINE G(n) == CHOOSE g : CollectsTo(g, n)
<1>2. ASSUME NEW n \in Nat, NEW c \in 0..n
      PROVE  G(n)[c] = IF c = 0 THEN <<>> ELSE G(n)[c - 1] \o answers[c]
  <2>1. CollectsTo(G(n), n)
    BY <1>1
  <2> HIDE DEF G
  <2> QED
    BY <2>1 DEF CollectsTo
<1> HIDE DEF G
<1>3. \A c \in Nat : \A n \in Nat : c <= n => G(n)[c] = G(c)[c]
  <2> DEFINE T == {c \in Nat : \A n \in Nat : c <= n => G(n)[c] = G(c)[c]}
  <2>1. 0 \in T
    BY <1>2
  <2>2. ASSUME NEW c \in T
        PROVE  c + 1 \in T
    <3> SUFFICES ASSUME NEW n \in Nat, c + 1 <= n
                 PROVE  G(n)[c + 1] = G(c + 1)[c + 1]
      OBVIOUS
    <3>1. /\ c + 1 \in Nat /\ c + 1 \in 0..n /\ c + 1 \in 0..(c + 1)
          /\ c + 1 # 0 /\ (c + 1) - 1 = c
      OBVIOUS
    <3>2. G(n)[c + 1] = G(n)[c] \o answers[c + 1]
      BY <1>2, <3>1
    <3>3. G(c + 1)[c + 1] = G(c + 1)[c] \o answers[c + 1]
      BY <1>2, <3>1
    <3>4. G(n)[c] = G(c)[c] /\ G(c + 1)[c] = G(c)[c]
      BY <3>1
    <3> QED
      BY <3>2, <3>3, <3>4
  <2> HIDE DEF T
  <2>3. T = Nat
    BY <2>1, <2>2, Induction DEF T
  <2> QED
    BY <2>3 DEF T
<1> DEFINE F == [c \in Nat |-> G(c)[c]]
<1>4. F = [c \in Nat |-> IF c = 0 THEN <<>> ELSE F[c - 1] \o answers[c]]
  <2>1. ASSUME NEW c \in Nat
        PROVE  F[c] = IF c = 0 THEN <<>> ELSE F[c - 1] \o answers[c]
    <3>1. CASE c = 0
      BY <1>2, <3>1
    <3>2. CASE c # 0
      <4>1. c - 1 \in Nat /\ c \in 0..c
        BY <3>2
      <4>2. G(c)[c] = G(c)[c - 1] \o answers[c]
        BY <1>2, <3>2, <4>1
      <4>3. G(c)[c - 1] = G(c - 1)[c - 1]
        BY <1>3, <4>1
      <4> QED
        BY <3>2, <4>1, <4>2, <4>3
    <3> QED
      BY <3>1, <3>2
  <2> QED
    BY <2>1
<1> HIDE DEF F
<1>5. InOrder = [c \in Nat |-> IF c = 0 THEN <<>> ELSE InOrder[c - 1] \o answers[c]]
  BY <1>4 DEF InOrder
<1> QED
  BY <1>5

Counts(r) == \A i \in 1..Len(r) : r[i] = i

\* A sequence that counts goes on counting.
LEMMA GoesOnCounting ==
  ASSUME NEW r \in Seq(Nat), NEW p \in Seq(Nat), Counts(r),
         \A i \in 1..Len(p) : p[i] = Len(r) + i
  PROVE  /\ r \o p \in Seq(Nat) /\ Len(r \o p) = Len(r) + Len(p)
         /\ Counts(r \o p)
<1>1. r \o p \in Seq(Nat) /\ Len(r \o p) = Len(r) + Len(p)
  OBVIOUS
<1>2. ASSUME NEW i \in 1..Len(r \o p) PROVE (r \o p)[i] = i
  <2>1. CASE i <= Len(r)
    BY <1>1, <2>1 DEF Counts
  <2>2. CASE i > Len(r)
    <3>1. (r \o p)[i] = p[i - Len(r)] /\ i - Len(r) \in 1..Len(p)
      BY <1>1, <2>2
    <3> QED BY <3>1
  <2> QED BY <2>1, <2>2
<1> QED
  BY <1>1, <1>2 DEF Counts

\* The answer to a request that the server has executed.
AnswerTo(c) == [i \in 1..(Last(c) - First(c) + 1) |-> First(c) + i - 1]

LEMMA AnswersCount ==
  ASSUME Typed, NEW c \in Chunks
  PROVE  /\ AnswerTo(c) \in Seq(Nat) /\ Len(AnswerTo(c)) = Last(c) - First(c) + 1
         /\ \A i \in 1..Len(AnswerTo(c)) : AnswerTo(c)[i] = First(c) - 1 + i
<1>1. First(c) \in Nat \ {0} /\ Last(c) \in Nat /\ First(c) <= Last(c)
  BY SliceBounds
<1> DEFINE n == Last(c) - First(c) + 1
<1>2. n \in Nat
  BY <1>1
<1>3. AnswerTo(c) = [i \in 1..n |-> First(c) + i - 1]
  BY DEF AnswerTo
<1> HIDE DEF n
<1>4. AnswerTo(c) \in Seq(Nat) /\ Len(AnswerTo(c)) = n
  BY <1>1, <1>2, <1>3
<1> QED
  BY <1>1, <1>2, <1>3, <1>4 DEF n

\* Where the entries of the first c requests end.
End(c) == IF c = NumChunks THEN Len(target) ELSE c * MaxItemsPerRequest

LEMMA EndsMeet ==
  ASSUME Typed
  PROVE  /\ NumChunks \in Nat /\ End(0) = 0
         /\ \A c \in Nat : c + 1 \in Chunks =>
              /\ End(c) \in Nat /\ First(c + 1) = End(c) + 1 /\ Last(c + 1) = End(c + 1)
<1> DEFINE n == Len(target)
           m == MaxItemsPerRequest
<1>1. n \in Nat /\ m \in Nat \ {0}
  BY BatchAssumption DEF Typed
<1>2. NumChunks = (n + m - 1) \div m
  BY DEF NumChunks
<1> HIDE DEF n, m
<1>3. NumChunks \in Nat /\ n <= NumChunks * m
  BY <1>1, <1>2
<1>4. End(0) = 0
  BY <1>1, <1>3 DEF End, n, m
<1>5. ASSUME NEW c \in Nat, c + 1 \in Chunks
      PROVE  End(c) \in Nat /\ First(c + 1) = End(c) + 1 /\ Last(c + 1) = End(c + 1)
  <2>1. c # NumChunks /\ c + 1 - 1 = c
    BY <1>3, <1>5 DEF Chunks
  <2>2. End(c) = c * m /\ First(c + 1) = c * m + 1
    BY <2>1 DEF End, First, m
  <2>3. c * m \in Nat
    BY <1>1
  <2> QED
    BY <2>2, <2>3 DEF Last, End
<1> QED
  BY <1>3, <1>4, <1>5

\* Once every request is answered, the answers in order count the entries.
LEMMA AnswersInOrder ==
  ASSUME Typed, \A c \in Chunks : answers[c] = AnswerTo(c)
  PROVE  \A k \in Entries : InOrder[NumChunks][k] = k
<1> DEFINE Up(c) == /\ InOrder[c] \in Seq(Nat) /\ Len(InOrder[c]) = End(c)
                    /\ Counts(InOrder[c])
           T == {c \in Nat : c <= NumChunks => Up(c)}
<1>0. NumChunks \in Nat
  BY EndsMeet
<1>1. 0 \in T
  <2>1. InOrder[0] = <<>>
    BY InOrderSteps
  <2>2. <<>> \in Seq(Nat) /\ Counts(<<>>) /\ Len(<<>>) = 0
    BY DEF Counts
  <2> QED
    BY <2>1, <2>2, EndsMeet
<1>2. ASSUME NEW c \in T
      PROVE  c + 1 \in T
  <2> SUFFICES ASSUME c + 1 <= NumChunks PROVE Up(c + 1)
    OBVIOUS
  <2>1. c \in Nat /\ Up(c) /\ c + 1 \in Chunks
    BY <1>0 DEF Chunks
  <2>0. c + 1 \in Nat /\ c + 1 # 0 /\ (c + 1) - 1 = c
    BY <2>1
  <2>2. InOrder[c + 1] = InOrder[c] \o answers[c + 1]
    <3>1. InOrder[c + 1] = IF c + 1 = 0 THEN <<>> ELSE InOrder[(c + 1) - 1] \o answers[c + 1]
      BY ONLY <2>0, InOrderSteps
    <3> QED
      BY ONLY <2>0, <3>1
  <2>3. /\ End(c) \in Nat /\ First(c + 1) = End(c) + 1 /\ Last(c + 1) = End(c + 1)
        /\ Last(c + 1) \in Nat
    BY <2>1, EndsMeet, SliceBounds
  <2>4. PICK p : p = answers[c + 1]
    OBVIOUS
  <2>5. /\ p \in Seq(Nat) /\ Len(p) = Last(c + 1) - First(c + 1) + 1
        /\ \A i \in 1..Len(p) : p[i] = First(c + 1) - 1 + i
    BY <2>1, <2>4, AnswersCount
  <2>6. PICK r : r = InOrder[c]
    OBVIOUS
  <2>7. r \in Seq(Nat) /\ Len(r) = End(c) /\ Counts(r)
    BY <2>1, <2>6
  <2> HIDE DEF Up, T
  <2>8. /\ r \o p \in Seq(Nat) /\ Len(r \o p) = Len(r) + Len(p)
        /\ Counts(r \o p)
    <3>1. First(c + 1) - 1 = Len(r)
      BY ONLY <2>3, <2>7
    <3>2. \A i \in 1..Len(p) : p[i] = Len(r) + i
      BY ONLY <2>5, <3>1
    <3> QED
      BY ONLY <2>5, <2>7, <3>2, GoesOnCounting
  <2>9. Len(r) + Len(p) = End(c + 1)
    BY <2>3, <2>5, <2>7
  <2> QED
    BY <2>2, <2>4, <2>6, <2>8, <2>9 DEF Up
<1> HIDE DEF T
<1>3. T = Nat
  BY <1>1, <1>2, Induction DEF T
<1>4. Up(NumChunks)
  BY <1>0, <1>3 DEF T
<1>5. Entries = 1..Len(target) /\ End(NumChunks) = Len(target)
  BY BatchAssumption DEF Typed, Entries, End
<1> QED
  BY <1>4, <1>5 DEF Counts
-----------------------------------------------------------------------------
\* Each entry is executed with its slice; a request that is answered has the
\* answers to its slice, and a record that is returned counts the entries.
AnswersInv ==
  /\ executed \in [Entries -> Nat]
  /\ DOMAIN answers = Chunks
  /\ \A c \in Chunks :
       /\ chunk[c] \in {"idle", "sent"} => \A k \in Slice(c) : executed[k] = 0
       /\ chunk[c] = "answered" =>
            /\ answers[c] = AnswerTo(c)
            /\ \A k \in Slice(c) : executed[k] = 1
  /\ stage = "checking" => results = <<>>
  /\ stage = "done" =>
       /\ \A c \in Chunks : chunk[c] = "answered"
       /\ DOMAIN results = Entries
       /\ \A k \in Entries : results[k] = k


LEMMA SameSlices ==
  ASSUME UNCHANGED target
  PROVE  /\ Entries' = Entries /\ Chunks' = Chunks
         /\ \A c : Slice(c)' = Slice(c) /\ AnswerTo(c)' = AnswerTo(c)
BY DEF Entries, Chunks, NumChunks, Slice, First, Last, AnswerTo

\* Nothing is sent of an empty record.
LEMMA EmptyRecord ==
  ASSUME Typed, target = <<>>
  PROVE  Chunks = {} /\ Entries = {}
<1> DEFINE m == MaxItemsPerRequest
<1>1. m \in Nat \ {0} /\ Len(target) = 0
  BY BatchAssumption
<1>2. NumChunks = (0 + m - 1) \div m
  BY <1>1 DEF NumChunks
<1> HIDE DEF m
<1>3. NumChunks = 0
  BY <1>1, <1>2
<1> QED
  BY <1>3 DEF Chunks, Entries

LEMMA SliceInEntries ==
  ASSUME Typed, NEW c \in Chunks
  PROVE  Slice(c) \subseteq Entries
<1>1. Entries = 1..Len(target) /\ Len(target) \in Nat
  BY BatchAssumption DEF Typed, Entries
<1> QED
  BY <1>1, SliceBounds DEF Slice

LEMMA InitAnswersInv == Init => AnswersInv
<1> SUFFICES ASSUME Init PROVE AnswersInv
  OBVIOUS
<1>1. \A c \in Chunks : Slice(c) \subseteq Entries
  BY InitIInv, SliceInEntries DEF IInv
<1> QED
  BY <1>1 DEF Init, AnswersInv

\* What leaves the requests and the answers alone.
LEMMA FiberKeepsAnswersInv ==
  ASSUME IInv, AnswersInv,
         Check \/ Preflight \/ Prepare \/ Interrupt \/ UNCHANGED vars
  PROVE  AnswersInv'
<1>1. UNCHANGED <<target, chunk, executed, answers, results>>
  BY DEF Check, Preflight, Prepare, Interrupt, vars
<1>2. /\ Entries' = Entries /\ Chunks' = Chunks
      /\ \A c : Slice(c)' = Slice(c) /\ AnswerTo(c)' = AnswerTo(c)
  BY <1>1, SameSlices
<1>3. stage' = "checking" => stage = "checking"
  BY DEF Check, Preflight, Prepare, Interrupt, vars, Checked
<1>4. stage' = "done" => stage = "done" \/ (stage = "checking" /\ target = <<>>)
  BY DEF Check, Preflight, Prepare, Interrupt, vars, Checked
<1>5. ASSUME stage' = "done"
      PROVE  /\ \A c \in Chunks : chunk[c] = "answered"
             /\ DOMAIN results = Entries
             /\ \A k \in Entries : results[k] = k
  <2>1. CASE stage = "done"
    BY <2>1 DEF AnswersInv
  <2>2. CASE stage = "checking" /\ target = <<>>
    <3>1. Chunks = {} /\ Entries = {}
      BY <2>2, EmptyRecord DEF IInv
    <3>2. results = <<>>
      BY <2>2 DEF AnswersInv
    <3> QED
      BY <3>1, <3>2
  <2> QED
    BY <1>4, <1>5, <2>1, <2>2
<1>6. /\ executed' \in [Entries' -> Nat] /\ DOMAIN answers' = Chunks'
  BY <1>1, <1>2 DEF AnswersInv
<1>7. ASSUME NEW c \in Chunks'
      PROVE  /\ chunk'[c] \in {"idle", "sent"} => \A k \in Slice(c)' : executed'[k] = 0
             /\ chunk'[c] = "answered" =>
                  /\ answers'[c] = AnswerTo(c)'
                  /\ \A k \in Slice(c)' : executed'[k] = 1
  BY <1>1, <1>2, <1>7 DEF AnswersInv
<1> QED
  BY <1>1, <1>2, <1>3, <1>5, <1>6, <1>7 DEF AnswersInv

\* A request is sent, answered or fails.
LEMMA RequestKeepsAnswersInv ==
  ASSUME IInv, AnswersInv, NEW c \in Chunks, Send(c) \/ Answered(c) \/ RequestFails(c)
  PROVE  AnswersInv'
<1>1. /\ UNCHANGED <<target, results>>
      /\ \E s \in ChunkStates : chunk' = [chunk EXCEPT ![c] = s]
      /\ chunk \in [Chunks -> ChunkStates]
  BY DEF Send, Answered, RequestFails, Fail, ChunkStates, IInv, Typed
<1>2. /\ Entries' = Entries /\ Chunks' = Chunks
      /\ \A d : Slice(d)' = Slice(d) /\ AnswerTo(d)' = AnswerTo(d)
  BY <1>1, SameSlices
<1>3. chunk[c] \in {"idle", "sent"}
  BY DEF Send, Answered, RequestFails
<1>4. /\ executed' \in [Entries -> Nat]
      /\ \A k \in Entries : k \notin Slice(c) => executed'[k] = executed[k]
  BY DEF Send, Answered, RequestFails, Executes, AnswersInv
<1>5. DOMAIN answers' = Chunks /\ \A d \in Chunks : d # c => answers'[d] = answers[d]
  BY DEF Send, Answered, RequestFails, AnswersInv
<1>6. stage' # "checking" /\ stage' # "done"
  <2>1. stage # "checking"
    BY <1>3 DEF Send, Answered, RequestFails, IInv, RequestsInv
  <2>2. stage # "done"
    BY <1>3 DEF AnswersInv
  <2> QED
    BY <2>1, <2>2 DEF Send, Answered, RequestFails, Fail
<1>7. ASSUME NEW d \in Chunks
      PROVE  /\ chunk'[d] \in {"idle", "sent"} => \A k \in Slice(d) : executed'[k] = 0
             /\ chunk'[d] = "answered" =>
                  /\ answers'[d] = AnswerTo(d)
                  /\ \A k \in Slice(d) : executed'[k] = 1
  <2>0. \A k \in Slice(d) : k \in Entries
    BY SliceInEntries DEF IInv
  <2>1. CASE d # c
    <3>1. chunk'[d] = chunk[d] /\ answers'[d] = answers[d]
      BY <1>1, <1>5, <2>1
    <3>2. \A k \in Slice(d) : executed'[k] = executed[k]
      BY <1>4, <2>0, <2>1, SlicesAreDisjoint DEF IInv
    <3> QED
      BY <3>1, <3>2 DEF AnswersInv
  <2>2. CASE d = c
    <3>1. \A k \in Slice(c) : executed[k] = 0
      BY <1>3 DEF AnswersInv
    <3>2. CASE Send(c)
      BY <1>1, <2>2, <3>1, <3>2 DEF Send
    <3>3. CASE Answered(c)
      <4>1. chunk'[c] = "answered"
        BY <1>1, <3>3 DEF Answered
      <4>2. answers'[c] = AnswerTo(c)
        BY <3>3 DEF Answered, AnswersInv, AnswerTo
      <4>3. \A k \in Slice(c) : executed'[k] = 1
        BY <2>0, <2>2, <3>1, <3>3 DEF Answered, Executes
      <4> QED
        BY <2>2, <4>1, <4>2, <4>3
    <3>4. CASE RequestFails(c)
      <4>1. chunk'[c] = "failed"
        BY <1>1, <3>4 DEF RequestFails, Fail
      <4> QED
        BY <2>2, <4>1
    <3> QED
      BY <3>2, <3>3, <3>4
  <2> QED
    BY <2>1, <2>2
<1> QED
  BY <1>2, <1>4, <1>5, <1>6, <1>7 DEF AnswersInv

\* The keyed record is put together.
LEMMA ReturnKeepsAnswersInv ==
  ASSUME IInv, AnswersInv, Return
  PROVE  AnswersInv'
<1>1. UNCHANGED <<target, chunk, executed, answers>> /\ stage' = "done"
  BY DEF Return
<1>2. /\ Entries' = Entries /\ Chunks' = Chunks
      /\ \A c : Slice(c)' = Slice(c) /\ AnswerTo(c)' = AnswerTo(c)
  BY <1>1, SameSlices
<1>3. \A c \in Chunks : chunk[c] = "answered"
  BY DEF Return
<1>4. \A c \in Chunks : answers[c] = AnswerTo(c)
  BY <1>3 DEF AnswersInv
<1>5. \A k \in Entries : InOrder[NumChunks][k] = k
  BY <1>4, AnswersInOrder DEF IInv
<1>6. results' = [k \in Entries |-> InOrder[NumChunks][k]]
  BY DEF Return
<1> QED
  BY <1>1, <1>2, <1>3, <1>5, <1>6 DEF AnswersInv

LEMMA StepKeepsAnswersInv == IInv /\ AnswersInv /\ [Next]_vars => AnswersInv'
BY FiberKeepsAnswersInv, RequestKeepsAnswersInv, ReturnKeepsAnswersInv
   DEF Next, Fiber, Settles

\* Whatever order the requests are answered in, each entry of a record that is
\* returned has the answer to itself under its key, and was executed once.
THEOREM ResultsAreUnderTheirKeys == Spec => []ResultsMatchKeys
<1>1. IInv /\ AnswersInv => ResultsMatchKeys
  <2> SUFFICES ASSUME IInv, AnswersInv, stage = "done", NEW k \in Entries
               PROVE  executed[k] = 1
    BY DEF AnswersInv, ResultsMatchKeys
  <2>1. PICK c \in Chunks : k \in Slice(c)
    BY SlicesCover DEF IInv
  <2> QED
    BY <2>1 DEF AnswersInv
<1> QED
  BY InitIInv, StepKeepsIInv, InitAnswersInv, StepKeepsAnswersInv, <1>1, PTL DEF Spec

=============================================================================
