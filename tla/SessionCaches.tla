--------------------------- MODULE SessionCaches ---------------------------
(***************************************************************************)
(* The caches of one session (internal/metadata/service.ts) and its        *)
(* structure runtime (internal/structures/runtime.ts), used by concurrent  *)
(* operations and invalidated when node-opcua emits "session_restored".    *)
(*                                                                         *)
(* A target is what has metadata: a variable, a method, the namespace      *)
(* array.  Metadata is not modelled by its content but by its age: the     *)
(* number of restores before the oldest answer it is built from.  A        *)
(* restored session may talk to a server with another address space, so    *)
(* metadata is current if its age is the present number of restores.       *)
(*                                                                         *)
(* An action is what a fiber runs between two awaits.                      *)
(***************************************************************************)
EXTENDS Integers, FiniteSets, Sequences

CONSTANTS
  Requests,     \* fibers, each running one operation of the session
  Targets,
  Types,        \* data types that are not built in
  Reads,        \* service calls that read a target's attributes
  TypesOf,      \* a target's data types, in the order they are resolved
  Ensures,      \* calls of ensureInitialized by an operation on a target
  MaxRestores   \* bound on the restores of the session

Absent  == -1           \* no cache entry
BuiltIn == "BuiltIn"    \* a supertype that is a built-in type
NoType  == "NoType"     \* no supertype

Ages == 0..MaxRestores

ASSUME CachesAssumption ==
  /\ MaxRestores \in Nat
  /\ Reads \in [Targets -> Nat \ {0}]
  /\ TypesOf \in [Targets -> Seq(Types)]
  /\ Ensures \in [Targets -> Nat]
  /\ BuiltIn \notin Types /\ NoType \notin Types

VARIABLES
  restores,     \* "session_restored" events so far
  superType,    \* the server's HasSubtype references
  cache,        \* age of a target's entry: variable, method, namespace cache
  typeCache,    \* age of a type's entry in builtInDataTypeCache
  req,          \* the fibers
  memo,         \* per generation: the memoized initialization
  runner,       \* per generation: the fiber that runs the initialization
  extractions,  \* per generation: calls of getExtraDataTypeManager
  overlapped    \* was a discovery under way at a restore? (history)

cacheVars == <<cache, typeCache>>
memoVars  == <<memo, runner, extractions>>
vars      == <<restores, superType, cacheVars, req, memoVars, overlapped>>

NoTarget  == "NoTarget"
NoRequest == "NoRequest"

Idle == [ pc     |-> "idle",
          target |-> NoTarget,
          began  |-> 0,         \* restores when the operation began (history)
          reads  |-> 0,         \* attribute reads left
          arg    |-> 0,         \* position of the type being resolved
          type   |-> NoType,    \* where its walk is
          seen   |-> {},        \* visited
          age    |-> 0,         \* of the metadata so far
          walk   |-> 0,         \* age of the walk so far
          left   |-> 0,         \* calls of ensureInitialized left
          waits  |-> 0 ]        \* generation of the memo it awaits

Ended(pc) == [Idle EXCEPT !.pc = pc]

Discovering == {r \in Requests : req[r].pc \in {"reading", "walking"}}

Older(a, b) == IF a < b THEN a ELSE b

Init ==
  /\ restores = 0
  /\ superType \in [Types -> Types \union {BuiltIn, NoType}]
  /\ cache = [t \in Targets |-> Absent]
  /\ typeCache = [d \in Types |-> Absent]
  /\ req = [r \in Requests |-> Idle]
  /\ memo = [g \in Ages |-> "unstarted"]
  /\ runner = [g \in Ages |-> NoRequest]
  /\ extractions = [g \in Ages |-> 0]
  /\ overlapped = FALSE

-----------------------------------------------------------------------------
(* ensureInitialized: the memoized effect of Effect.cached. The first caller *)
(* of a generation runs it, later ones share its exit, whatever it is.     *)

\* Mutant: a running initialization is not shared.
EnsureUnshared(r, q) ==
  IF q.left = 0 \/ memo[restores] = "ready"
  THEN /\ req' = [req EXCEPT ![r] = [q EXCEPT !.pc = "sending", !.left = 0]]
       /\ UNCHANGED memoVars
  ELSE /\ req' = [req EXCEPT ![r] =
                    [q EXCEPT !.pc = "waiting", !.left = @ - 1, !.waits = restores]]
       /\ memo' = [memo EXCEPT ![restores] = "running"]
       /\ runner' = [runner EXCEPT ![restores] = r]
       /\ extractions' = [extractions EXCEPT ![restores] = @ + 1]

\* q is the fiber's state when it comes to call ensureInitialized (or, with no
\* call left, the service).
Ensure(r, q) ==
  \/ /\ q.left = 0 \/ memo[restores] = "ready"
     /\ req' = [req EXCEPT ![r] = [q EXCEPT !.pc = "sending", !.left = 0]]
     /\ UNCHANGED memoVars
  \/ /\ q.left > 0 /\ memo[restores] \in {"failed", "interrupted"}
     /\ req' = [req EXCEPT ![r] = Ended(memo[restores])]
     /\ UNCHANGED memoVars
  \/ /\ q.left > 0 /\ memo[restores] \in {"unstarted", "running"}
     /\ req' = [req EXCEPT ![r] =
                  [q EXCEPT !.pc = "waiting", !.left = @ - 1, !.waits = restores]]
     /\ IF memo[restores] = "running"
        THEN UNCHANGED memoVars
        ELSE /\ memo' = [memo EXCEPT ![restores] = "running"]
             /\ runner' = [runner EXCEPT ![restores] = r]
             /\ extractions' = [extractions EXCEPT ![restores] = @ + 1]

\* An operation that has its metadata checks it (access, codec, input) on the
\* way to the service call; any of the checks may reject it.
Checked(r, q) ==
  \/ Ensure(r, q)
  \/ req' = [req EXCEPT ![r] = Ended("failed")] /\ UNCHANGED memoVars

(***************************************************************************)
(* Discovery.                                                              *)
(***************************************************************************)

\* The fiber's state when it has metadata of that age for t.
Found(t, began, age) ==
  [Idle EXCEPT !.target = t, !.began = began, !.age = age, !.left = Ensures[t]]

\* Positions from i whose type is not cached (tc is the cache).
Uncached(t, i, tc) == {k \in i..Len(TypesOf[t]) : tc[TypesOf[t][k]] = Absent}

NextUncached(t, i, tc) ==
  CHOOSE k \in Uncached(t, i, tc) : \A m \in Uncached(t, i, tc) : k <= m

\* Resolve the types from position i: cached ones cost no await, the first
\* uncached one starts a walk; without one the metadata is complete.
ResolveTypes(r, q, i, tc) ==
  LET t    == q.target
      last == IF Uncached(t, i, tc) = {} THEN Len(TypesOf[t]) ELSE NextUncached(t, i, tc) - 1
      ages == {q.age} \union {tc[TypesOf[t][k]] : k \in i..last}
      age  == CHOOSE a \in ages : \A b \in ages : a <= b
  IN IF Uncached(t, i, tc) = {}
     THEN /\ cache' = [cache EXCEPT ![t] = age]
          /\ Checked(r, Found(t, q.began, age))
     ELSE /\ req' = [req EXCEPT ![r] =
                       [q EXCEPT !.pc   = "walking", !.age  = age, !.arg = last + 1,
                                  !.type = TypesOf[t][last + 1],
                                  !.seen = {TypesOf[t][last + 1]},
                                  !.walk = MaxRestores]]
          /\ UNCHANGED <<cache, memoVars>>

\* rawVariableMetadata, rawMethodMetadata, namespaceArray.
Begin(r, t) ==
  /\ req[r].pc = "idle"
  /\ IF cache[t] # Absent
     THEN Checked(r, Found(t, restores, cache[t]))
     ELSE /\ req' = [req EXCEPT ![r] =
                       [Idle EXCEPT !.pc = "reading", !.target = t, !.began = restores,
                                    !.reads = Reads[t], !.age = MaxRestores]]
          /\ UNCHANGED memoVars
  /\ UNCHANGED <<restores, superType, cacheVars, overlapped>>

\* An attribute read is answered; after the last one the types are resolved.
ReadAnswered(r) ==
  /\ req[r].pc = "reading"
  /\ LET q == [req[r] EXCEPT !.reads = @ - 1, !.age = Older(@, restores)]
     IN IF q.reads > 0
        THEN req' = [req EXCEPT ![r] = q] /\ UNCHANGED <<cache, memoVars>>
        ELSE ResolveTypes(r, q, 1, typeCache)
  /\ UNCHANGED <<restores, superType, typeCache, overlapped>>

\* Mutants: visited is not kept; the type is cached on the first answer.
WalkAnsweredUnvisited(r) ==
  /\ req[r].pc = "walking"
  /\ LET q    == [req[r] EXCEPT !.walk = Older(@, restores)]
         up   == superType[q.type]
         base == TypesOf[q.target][q.arg]
     IN \/ /\ up = BuiltIn
           /\ typeCache' = [typeCache EXCEPT ![base] = q.walk]
           /\ ResolveTypes(r, [q EXCEPT !.age = Older(@, q.walk)], q.arg + 1, typeCache')
        \/ /\ up \in Types
           /\ req' = [req EXCEPT ![r] = [q EXCEPT !.type = up]]
           /\ UNCHANGED <<cacheVars, memoVars>>
        \/ /\ up = NoType
           /\ req' = [req EXCEPT ![r] = Ended("failed")]
           /\ UNCHANGED <<cacheVars, memoVars>>
  /\ UNCHANGED <<restores, superType, overlapped>>

\* One step of resolveBuiltInDataType: the supertype is built in (cache the
\* result and go on), new (walk on), missing or visited before (fail).
WalkAnswered(r) ==
  /\ req[r].pc = "walking"
  /\ LET q    == [req[r] EXCEPT !.walk = Older(@, restores)]
         up   == superType[q.type]
         base == TypesOf[q.target][q.arg]
     IN \/ /\ up = BuiltIn
           /\ typeCache' = [typeCache EXCEPT ![base] = q.walk]
           /\ ResolveTypes(r, [q EXCEPT !.age = Older(@, q.walk)], q.arg + 1, typeCache')
        \/ /\ up \in Types \ q.seen
           /\ req' = [req EXCEPT ![r] = [q EXCEPT !.type = up, !.seen = @ \union {up}]]
           /\ UNCHANGED <<cacheVars, memoVars>>
        \/ /\ up = NoType \/ up \in q.seen
           /\ req' = [req EXCEPT ![r] = Ended("failed")]
           /\ UNCHANGED <<cacheVars, memoVars>>
  /\ UNCHANGED <<restores, superType, overlapped>>

\* A service call of the discovery fails, or an attribute is unreadable.
DiscoveryFails(r) ==
  /\ req[r].pc \in {"reading", "walking"}
  /\ req' = [req EXCEPT ![r] = Ended("failed")]
  /\ UNCHANGED <<restores, superType, cacheVars, memoVars, overlapped>>

(***************************************************************************)
(* The structure runtime and the service call.                             *)
(***************************************************************************)

\* getExtraDataTypeManager settles.
Extracted(g) ==
  /\ memo[g] = "running"
  /\ \E exit \in {"ready", "failed"} : memo' = [memo EXCEPT ![g] = exit]
  /\ UNCHANGED <<restores, superType, cacheVars, req, runner, extractions, overlapped>>

\* A fiber that awaited the memo resumes with its exit.
Resumed(r) ==
  /\ req[r].pc = "waiting" /\ memo[req[r].waits] \notin {"unstarted", "running"}
  /\ IF memo[req[r].waits] = "ready"
     THEN Checked(r, req[r])
     ELSE req' = [req EXCEPT ![r] = Ended(memo[req[r].waits])] /\ UNCHANGED memoVars
  /\ UNCHANGED <<restores, superType, cacheVars, overlapped>>

\* The read, write or call itself.
Served(r) ==
  /\ req[r].pc = "sending"
  /\ \E end \in {"done", "failed"} : req' = [req EXCEPT ![r] = Ended(end)]
  /\ UNCHANGED <<restores, superType, cacheVars, memoVars, overlapped>>

\* A fiber is interrupted; the exit of an initialization it runs is memoized.
Interrupt(r) ==
  /\ req[r].pc \in {"reading", "walking", "waiting", "sending"}
  /\ req' = [req EXCEPT ![r] = Ended("interrupted")]
  /\ memo' = [g \in Ages |-> IF memo[g] = "running" /\ runner[g] = r
                             THEN "interrupted" ELSE memo[g]]
  /\ UNCHANGED <<restores, superType, cacheVars, runner, extractions, overlapped>>

\* Mutant: builtInDataTypeCache is not cleared.
SessionRestoredKeepsTypes ==
  /\ restores < MaxRestores
  /\ restores' = restores + 1
  /\ cache' = [t \in Targets |-> Absent]
  /\ overlapped' = (overlapped \/ Discovering # {})
  /\ UNCHANGED <<superType, typeCache, req, memoVars>>

\* The "session_restored" listener: metadata.invalidate, then a new memo.
SessionRestored ==
  /\ restores < MaxRestores
  /\ restores' = restores + 1
  /\ cache' = [t \in Targets |-> Absent]
  /\ typeCache' = [d \in Types |-> Absent]
  /\ overlapped' = (overlapped \/ Discovering # {})
  /\ UNCHANGED <<superType, req, memoVars>>

-----------------------------------------------------------------------------
Answers(r) == ReadAnswered(r) \/ WalkAnswered(r) \/ DiscoveryFails(r) \/ Resumed(r) \/ Served(r)

Next ==
  \/ \E r \in Requests : \E t \in Targets : Begin(r, t)
  \/ \E r \in Requests : Answers(r) \/ Interrupt(r)
  \/ \E g \in Ages : Extracted(g)
  \/ SessionRestored

Spec == Init /\ [][Next]_vars

Progress ==
  \/ \E r \in Requests : Answers(r)
  \/ \E g \in Ages : Extracted(g)

\* node-opcua settles every promise and the runtime resumes every fiber; as an
\* operation makes finitely many steps, it is enough that some step is taken.
FairSpec == Spec /\ WF_vars(Progress)

-----------------------------------------------------------------------------
(***************************************************************************)
(* Properties.                                                             *)
(***************************************************************************)

Stages == {"idle", "reading", "walking", "waiting", "sending",
           "done", "failed", "interrupted"}

\* Operation r has got its metadata.
HasMetadata(r) == req[r].pc \in {"waiting", "sending"}

\* As long as no discovery was under way at a restore, whatever is cached was
\* answered after the last restore, and so is the metadata of every operation
\* that began after it, also where a data type came from builtInDataTypeCache.
CurrentUnlessOverlapped ==
  ~overlapped =>
    /\ \A t \in Targets : cache[t] \in {Absent, restores}
    /\ \A d \in Types : typeCache[d] \in {Absent, restores}
    /\ \A r \in Requests : HasMetadata(r) => req[r].age = req[r].began

\* client-session.md 64: a restore invalidates the caches and the next operation
\* repopulates them, so no operation uses metadata from before its last restore.
RestoredMetadataIsCurrent ==
  \A r \in Requests : HasMetadata(r) => req[r].age >= req[r].began

\* variables-codecs.md 83: the data types are extracted at most once per cache
\* generation, however many operations need them at the same time.
OneExtractionPerGeneration == \A g \in Ages : extractions[g] <= 1

\* An operation ends whatever the data type hierarchy looks like, whoever runs
\* the initialization it waits for, and whenever the session is restored.
EveryOperationEnds ==
  \A r \in Requests : req[r].pc # "idle" ~> req[r].pc \in {"done", "failed", "interrupted"}
=============================================================================
