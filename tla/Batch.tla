------------------------------- MODULE Batch -------------------------------
(***************************************************************************)
(* One readMany, writeMany or callMany (internal/batch): the keyed record  *)
(* is checked, every entry is preflighted one after the other, the entries *)
(* are sent in chunks of which some run at a time, and the answers are put *)
(* back under the keys.                                                    *)
(*                                                                         *)
(* Entries are numbered in the order of the record; chunk c is the c-th    *)
(* slice of them.  The server's answer to an entry is modelled by the      *)
(* number of the entry, so that an answer under a wrong key shows.         *)
(***************************************************************************)
EXTENDS Integers, Sequences, FiniteSets

CONSTANTS
  Nodes,                  \* NodeIds, or methods, that entries name
  Records,                \* the records callers pass: the node of each entry
  MaxItemsPerRequest,
  MaxConcurrentRequests

ASSUME BatchAssumption ==
  /\ Records \subseteq Seq(Nodes)
  /\ MaxItemsPerRequest \in Nat \ {0}
  /\ MaxConcurrentRequests \in Nat \ {0}

VARIABLES
  kind,      \* the operation; "readUnchecked" is readMany with validation "none"
  target,    \* the node of each entry
  stage,     \* where the operation is
  checks,    \* entries its preflight has checked, counted over all passes
  chunk,     \* state of each request
  executed,  \* per entry: how often the server has executed it
  answers,   \* per request: the results it was answered with
  results    \* the keyed record that is returned

vars == <<kind, target, stage, checks, chunk, executed, answers, results>>

Entries == DOMAIN target

\* chunksOf(entries, maxItemsPerRequest)
NumChunks == (Len(target) + MaxItemsPerRequest - 1) \div MaxItemsPerRequest
Chunks    == 1..NumChunks

First(c) == (c - 1) * MaxItemsPerRequest + 1
Last(c)  == IF c = NumChunks THEN Len(target) ELSE c * MaxItemsPerRequest
Slice(c) == First(c)..Last(c)

\* Passes over the entries before the first request: metadata, then encoding.
Passes == CASE kind = "readUnchecked"    -> 0
            [] kind = "read"             -> 1
            [] kind \in {"write", "call"} -> 2

Init ==
  /\ kind \in {"readUnchecked", "read", "write", "call"}
  /\ target \in Records
  /\ stage = "checking" /\ checks = 0
  /\ chunk = [c \in Chunks |-> "idle"]
  /\ executed = [k \in Entries |-> 0]
  /\ answers = [c \in Chunks |-> <<>>]
  /\ results = <<>>

-----------------------------------------------------------------------------
\* A read still waits for the structure runtime (a write or a call does so in
\* its second pass).
Checked == IF kind \in {"read", "readUnchecked"} THEN "preparing" ELSE "sending"

\* validateUniqueTargets, which callMany does not use.
HasDuplicates == kind # "call" /\ \E j, k \in Entries : j # k /\ target[j] = target[k]

\* Options and items are checked before anything is awaited; an empty record
\* needs no request.
Check ==
  /\ stage = "checking"
  /\ \/ stage' = "rejected"
     \/ /\ ~HasDuplicates
        /\ stage' = IF target = <<>> THEN "done" ELSE IF Passes = 0 THEN Checked ELSE "preflight"
  /\ UNCHANGED <<kind, target, checks, chunk, executed, answers, results>>

\* Mutant: requests start while the last pass is still running.
PreflightEager ==
  /\ stage = "preflight"
  /\ \/ stage' = "rejected" /\ UNCHANGED checks
     \/ /\ checks' = checks + 1
        /\ stage' = IF checks' > (Passes - 1) * Len(target) THEN Checked ELSE stage
  /\ UNCHANGED <<kind, target, chunk, executed, answers, results>>

\* The next entry passes or fails its metadata, access or encoding check.
Preflight ==
  /\ stage = "preflight"
  /\ \/ stage' = "rejected" /\ UNCHANGED checks
     \/ /\ checks' = checks + 1
        /\ stage' = IF checks' = Passes * Len(target) THEN Checked ELSE stage
  /\ UNCHANGED <<kind, target, chunk, executed, answers, results>>

\* ensureInitialized succeeds or fails.
Prepare ==
  /\ stage = "preparing"
  /\ stage' \in {"sending", "rejected"}
  /\ UNCHANGED <<kind, target, checks, chunk, executed, answers, results>>

InFlight == {c \in Chunks : chunk[c] = "sent"}

\* runChunked starts the requests in order, so many at a time.
Send(c) ==
  /\ stage = "sending"
  /\ chunk[c] = "idle"
  /\ \A d \in Chunks : d < c => chunk[d] # "idle"
  /\ Cardinality(InFlight) < MaxConcurrentRequests
  /\ chunk' = [chunk EXCEPT ![c] = "sent"]
  /\ UNCHANGED <<kind, target, stage, checks, executed, answers, results>>

\* The server executes a request that has reached it; the operation that sent
\* it may have ended meanwhile.
Executes(c) == executed' = [k \in Entries |-> executed[k] + (IF k \in Slice(c) THEN 1 ELSE 0)]

Answered(c) ==
  /\ chunk[c] = "sent"
  /\ Executes(c)
  /\ chunk' = [chunk EXCEPT ![c] = "answered"]
  /\ answers' = [answers EXCEPT ![c] = [i \in 1..(Last(c) - First(c) + 1) |-> First(c) + i - 1]]
  /\ UNCHANGED <<kind, target, stage, checks, results>>

\* The first failed request fails the operation: no further one is sent, the
\* results of those in flight are dropped.
Fail(c) ==
  /\ stage' = IF stage = "sending" THEN "failed" ELSE stage
  /\ chunk' = [chunk EXCEPT ![c] = "failed"]

\* Mutant: the other requests go on.
RequestFailsAlone(c) ==
  /\ chunk[c] = "sent"
  /\ Executes(c) \/ UNCHANGED executed
  /\ chunk' = [chunk EXCEPT ![c] = "failed"]
  /\ UNCHANGED <<kind, target, stage, checks, answers, results>>

\* A request fails, executed or not, or is answered with a wrong number of results.
RequestFails(c) ==
  /\ chunk[c] = "sent"
  /\ Executes(c) \/ UNCHANGED executed
  /\ Fail(c)
  /\ UNCHANGED <<kind, target, checks, answers, results>>

\* The results of the requests from c on, in the order of the requests.
InOrder[c \in Nat] ==
  IF c = 0 THEN <<>> ELSE InOrder[c - 1] \o answers[c]

\* Mutant: the last request's results come first.
ReturnSwapped ==
  /\ stage = "sending" /\ \A c \in Chunks : chunk[c] = "answered"
  /\ LET raw == answers[NumChunks] \o InOrder[NumChunks - 1]
     IN results' = [k \in Entries |-> raw[k]]
  /\ stage' = "done"
  /\ UNCHANGED <<kind, target, checks, chunk, executed, answers>>

\* rekeyOrderedResults: the k-th result goes under the key of the k-th entry.
Return ==
  /\ stage = "sending" /\ \A c \in Chunks : chunk[c] = "answered"
  /\ LET raw == InOrder[NumChunks]
     IN results' = [k \in Entries |-> raw[k]]
  /\ stage' = "done"
  /\ UNCHANGED <<kind, target, checks, chunk, executed, answers>>

\* The owner of the fiber interrupts it at an await.
Interrupt ==
  /\ stage \in {"preflight", "preparing"} \/ (stage = "sending" /\ InFlight # {})
  /\ stage' = "interrupted"
  /\ UNCHANGED <<kind, target, checks, chunk, executed, answers, results>>

-----------------------------------------------------------------------------
Fiber == Check \/ Preflight \/ Prepare \/ (\E c \in Chunks : Send(c)) \/ Return

Settles(c) == Answered(c) \/ RequestFails(c)

Next == Fiber \/ Interrupt \/ \E c \in Chunks : Settles(c)

Spec == Init /\ [][Next]_vars

\* The runtime runs the fiber, node-opcua settles every request.
FairSpec == Spec /\ WF_vars(Fiber) /\ WF_vars(\E c \in Chunks : Settles(c))

-----------------------------------------------------------------------------
(***************************************************************************)
(* Properties.                                                             *)
(***************************************************************************)

Over == {"done", "rejected", "failed", "interrupted"}

\* batch-operations.md 72: the whole batch is preflighted before the first
\* request: once one is on its way every entry has passed every check, and a
\* batch that fails locally has sent nothing.
LocalFailureSendsNothing ==
  (\E c \in Chunks : chunk[c] # "idle") =>
    /\ stage # "rejected"
    /\ checks = Passes * Len(target)

\* Every key of a returned record holds the answer to its own entry, whatever
\* the order the requests were answered in, and each entry was executed once.
ResultsMatchKeys ==
  stage = "done" =>
    /\ DOMAIN results = Entries
    /\ \A k \in Entries : results[k] = k /\ executed[k] = 1

\* Once a request has failed, or the batch was interrupted, no further request
\* is sent; only those already in flight are still executed.
NothingSentAfterFailure ==
  [][\A c \in Chunks :
       (stage = "interrupted" \/ \E d \in Chunks : chunk[d] = "failed") =>
         (chunk'[c] = "sent" => chunk[c] = "sent")]_vars

=============================================================================
