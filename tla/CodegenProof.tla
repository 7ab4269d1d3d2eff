---------------------------- MODULE CodegenProof ----------------------------
(***************************************************************************)
(* Theorems about Codegen for any configurations, address spaces, types,   *)
(* files and directories: discovery leaves nothing out silently, what is   *)
(* emitted hangs together, check tells the truth, and generate keeps what  *)
(* is not its own.                                                         *)
(***************************************************************************)
EXTENDS Codegen, FiniteSetTheorems, WellFoundedInduction, TLAPS

-----------------------------------------------------------------------------
(* The output directory.                                                   *)

\* The command at work; what is written and checked before there is a model.
Begun ==
    /\ command \in {"generate", "check"}
    /\ phase \in {"generate", "generated"} => command = "generate"
    /\ phase \in {"check", "checked"} => command = "check"
    /\ phase \in {"roots", "walk", "types"} =>
          /\ writing = [index |-> 1, owned |-> FALSE]
          /\ staleFiles = {} /\ missingFiles = {} /\ editedSince = {}

DiskTyped ==
    /\ disk \in [AllFiles -> {"absent", "current", "generated", "foreign"}]
    /\ writing \in [index : Nat \ {0}, owned : BOOLEAN]
    /\ phase = "generate" => writing.index <= Len(Files)
    /\ phase = "check" => writing.index <= Len(Files) + 1

\* A file that generate is about to write is its own, or was edited meanwhile.
OwnsFile ==
    phase = "generate" /\ writing.owned /\ disk[file] = "foreign" => file \in editedSince

\* What check has found so far.
FoundSoFar ==
    editedSince = {} =>
        /\ phase = "check" =>
              (staleFiles \cup missingFiles = {}
                  <=> \A i \in 1..(writing.index - 1) : disk[Files[i]] = "current")
        /\ CheckTellsTheTruth

OutputInv == Begun /\ DiskTyped /\ OwnsFile /\ FoundSoFar

LEMMA InitOutputInv == Init => OutputInv
BY CodegenAssumption DEF Init, InitDiscover, OutputInv, Begun, DiskTyped, OwnsFile, FoundSoFar,
       CheckTellsTheTruth, AllFiles

\* Where discovery starts and where it leads to.
LEMMA DiscoverPhases ==
    DiscoverStep \/ DiscoverFault =>
        /\ phase \in {"roots", "walk", "types"}
        /\ phase' \in {"roots", "walk", "types", "failed"}
BY DEF DiscoverStep, DiscoverFault, ResolveRoot, AlreadyVisited, Visit, BeginTypes, ReadTypes,
       RequestFails, VisitRefused, Requesting, AtUnvisited, Abandon

LEMMA CommandStepKeepsOutput ==
    ASSUME OutputInv,
           \/ (DiscoverStep \/ DiscoverFault) /\ UNCHANGED outputVars
           \/ Compile \/ FileFails
    PROVE  OutputInv'
<1>1. CASE (DiscoverStep \/ DiscoverFault) /\ UNCHANGED outputVars
  BY <1>1, DiscoverPhases DEF outputVars, OutputInv, Begun, DiskTyped, OwnsFile, FoundSoFar,
       CheckTellsTheTruth
<1>2. CASE FileFails
  BY <1>2 DEF FileFails, outputVars, OutputInv, Begun, DiskTyped, OwnsFile, FoundSoFar,
       CheckTellsTheTruth
<1>3. CASE Compile
  <2>1. /\ phase = "types" /\ phase' \in {"failed", command}
        /\ UNCHANGED <<command, writing, staleFiles, missingFiles, editedSince>>
        /\ disk' = disk \/ disk' \in Disks
    BY <1>3 DEF Compile
  <2>2. disk' \in [AllFiles -> {"absent", "current", "generated", "foreign"}]
    BY <2>1, CodegenAssumption DEF OutputInv, DiskTyped, AllFiles
  <2>3. Len(Files) \in Nat \ {0}
    BY CodegenAssumption
  <2>4. /\ writing = [index |-> 1, owned |-> FALSE]
        /\ staleFiles = {} /\ missingFiles = {} /\ editedSince = {}
    BY <2>1 DEF OutputInv, Begun
  <2>5. Begun' /\ DiskTyped' /\ OwnsFile'
    BY <2>1, <2>2, <2>3, <2>4 DEF OutputInv, Begun, DiskTyped, OwnsFile
  <2>6. FoundSoFar'
    BY <2>1, <2>4 DEF OutputInv, Begun, FoundSoFar, CheckTellsTheTruth
  <2> QED
    BY <2>5, <2>6 DEF OutputInv
<1> QED
  BY <1>1, <1>2, <1>3

\* The file at hand is one of the directory's.
LEMMA FileIsThere ==
    ASSUME DiskTyped, writing.index <= Len(Files)
    PROVE  /\ writing.index \in 1..Len(Files) /\ file \in ToSet(Files) /\ file \in AllFiles
           /\ disk[file] \in {"absent", "current", "generated", "foreign"}
<1>1. writing.index \in 1..Len(Files) /\ DOMAIN Files = 1..Len(Files)
  BY CodegenAssumption DEF DiskTyped
<1>2. file \in ToSet(Files) /\ file \in AllFiles
  BY <1>1 DEF file, ToSet, AllFiles
<1> QED
  BY <1>1, <1>2 DEF DiskTyped

LEMMA GenerateKeepsOutput ==
    ASSUME OutputInv, assertGeneratedOwnership \/ WriteFile
    PROVE  OutputInv'
<1>1. phase = "generate" /\ UNCHANGED <<command, staleFiles, missingFiles>>
      /\ command = "generate" /\ phase' \in {"generate", "failed", "generated"}
  BY DEF assertGeneratedOwnership, WriteFile, OutputInv, Begun
<1>2. Begun' /\ FoundSoFar'
  BY <1>1 DEF OutputInv, Begun, FoundSoFar, CheckTellsTheTruth
<1>3. /\ writing \in [index : Nat \ {0}, owned : BOOLEAN] /\ writing.index \in 1..Len(Files)
      /\ file \in AllFiles /\ Len(Files) \in Nat
  BY <1>1, FileIsThere, CodegenAssumption DEF OutputInv, DiskTyped
<1>4. CASE assertGeneratedOwnership
  <2>1. DiskTyped'
    BY <1>3, <1>4 DEF assertGeneratedOwnership, OutputInv, DiskTyped
  <2>2. OwnsFile'
    <3> SUFFICES ASSUME phase' = "generate", writing'.owned, disk'[file'] = "foreign"
                 PROVE  FALSE
      BY DEF OwnsFile
    <3>1. disk[file] # "foreign" /\ disk' = disk /\ writing'.index = writing.index
      BY <1>3, <1>4 DEF assertGeneratedOwnership
    <3> QED
      BY <3>1 DEF file
  <2> QED
    BY <1>2, <2>1, <2>2 DEF OutputInv
<1>5. CASE WriteFile
  <2>1. disk' \in [AllFiles -> {"absent", "current", "generated", "foreign"}]
    BY <1>5 DEF WriteFile, OutputInv, DiskTyped
  <2>2. /\ writing' \in [index : Nat \ {0}, owned : BOOLEAN]
        /\ phase' = "generate" => writing'.index <= Len(Files) /\ ~writing'.owned
    <3>1. CASE writing.index = Len(Files)
      BY <1>3, <1>5, <3>1 DEF WriteFile
    <3>2. CASE writing.index # Len(Files)
      <4>1. writing' = [index |-> writing.index + 1, owned |-> FALSE]
        BY <1>5, <3>2 DEF WriteFile
      <4> QED
        BY <1>3, <3>2, <4>1
    <3> QED
      BY <3>1, <3>2
  <2> QED
    BY <1>1, <1>2, <2>1, <2>2 DEF OutputInv, DiskTyped, OwnsFile
<1> QED
  BY <1>4, <1>5

LEMMA CheckKeepsOutput ==
    ASSUME OutputInv, CheckFile \/ obsoleteGeneratedFiles
    PROVE  OutputInv'
<1>1. phase = "check" /\ UNCHANGED <<command, disk, editedSince>>
      /\ command = "check" /\ phase' \in {"check", "checked"}
      /\ writing.index <= Len(Files) + 1
  BY DEF CheckFile, obsoleteGeneratedFiles, OutputInv, Begun, DiskTyped
<1>2. Begun' /\ OwnsFile'
  BY <1>1 DEF OutputInv, Begun, OwnsFile
<1>3. /\ Len(Files) \in Nat /\ writing \in [index : Nat \ {0}, owned : BOOLEAN]
      /\ DOMAIN Files = 1..Len(Files)
  BY CodegenAssumption DEF OutputInv, DiskTyped
<1>4. CASE CheckFile
  <2>1. /\ phase' = "check" /\ writing.index <= Len(Files)
        /\ writing' = [writing EXCEPT !.index = writing.index + 1]
    BY <1>1, <1>4 DEF CheckFile
  <2>2. DiskTyped'
    BY <1>1, <1>3, <2>1 DEF OutputInv, DiskTyped
  <2>3. staleFiles' \cup missingFiles' = {}
           <=> staleFiles \cup missingFiles = {} /\ disk[file] = "current"
    <3>1. disk[file] \in {"absent", "current", "generated", "foreign"}
      BY <2>1, FileIsThere DEF OutputInv
    <3> QED
      BY <1>4, <3>1 DEF CheckFile
  <2>4. ASSUME editedSince = {}
        PROVE  staleFiles' \cup missingFiles' = {}
                  <=> \A i \in 1..(writing'.index - 1) : disk[Files[i]] = "current"
    <3>1. staleFiles \cup missingFiles = {}
              <=> \A i \in 1..(writing.index - 1) : disk[Files[i]] = "current"
      BY <1>1, <2>4 DEF OutputInv, FoundSoFar
    <3>2. 1..(writing'.index - 1) = 1..(writing.index - 1) \cup {writing.index}
      BY <1>3, <2>1
    <3> QED
      BY <2>3, <3>1, <3>2 DEF file
  <2>5. FoundSoFar'
    BY <1>1, <2>1, <2>4 DEF FoundSoFar, CheckTellsTheTruth
  <2> QED
    BY <1>2, <2>2, <2>5 DEF OutputInv
<1>5. CASE obsoleteGeneratedFiles
  <2>1. /\ phase' = "checked" /\ writing' = writing /\ missingFiles' = missingFiles
        /\ staleFiles' = staleFiles \cup {f \in Obsolete : disk[f] \in {"generated", "current"}}
        /\ writing.index > Len(Files)
    BY <1>5 DEF obsoleteGeneratedFiles
  <2>2. DiskTyped'
    BY <1>1, <2>1 DEF OutputInv, DiskTyped
  <2>3. ASSUME editedSince = {}
        PROVE  staleFiles' \cup missingFiles' = {} <=>
                  /\ \A f \in ToSet(Files) : disk[f] = "current"
                  /\ \A f \in Obsolete : disk[f] \in {"absent", "foreign"}
    <3>1. staleFiles \cup missingFiles = {}
              <=> \A i \in 1..(writing.index - 1) : disk[Files[i]] = "current"
      BY <1>1, <2>3 DEF OutputInv, FoundSoFar
    <3>2. 1..(writing.index - 1) = DOMAIN Files
      BY <1>1, <1>3, <2>1
    <3>3. staleFiles \cup missingFiles = {} <=> \A f \in ToSet(Files) : disk[f] = "current"
      BY <3>1, <3>2 DEF ToSet
    <3>4. {f \in Obsolete : disk[f] \in {"generated", "current"}} = {}
              <=> \A f \in Obsolete : disk[f] \in {"absent", "foreign"}
      BY DEF OutputInv, DiskTyped, AllFiles
    <3> QED
      BY <2>1, <3>3, <3>4
  <2>4. FoundSoFar'
    BY <1>1, <2>1, <2>3 DEF FoundSoFar, CheckTellsTheTruth
  <2> QED
    BY <1>2, <2>2, <2>4 DEF OutputInv
<1> QED
  BY <1>4, <1>5

LEMMA EditKeepsOutput ==
    ASSUME OutputInv, NEW f \in AllFiles, Edit(f)
    PROVE  OutputInv'
<1>1. /\ UNCHANGED <<phase, command, writing, staleFiles, missingFiles>>
      /\ phase \in {"generate", "check"} /\ editedSince' = editedSince \cup {f}
      /\ disk' = [disk EXCEPT ![f] = "foreign"]
  BY DEF Edit, discovered
<1>2. Begun' /\ FoundSoFar'
  BY <1>1 DEF OutputInv, Begun, FoundSoFar, CheckTellsTheTruth
<1>3. DiskTyped'
  BY <1>1 DEF OutputInv, DiskTyped
<1>4. OwnsFile'
  <2>1. file' = file
    BY <1>1 DEF file
  <2>2. file # f => disk'[file] = disk[file]
    BY <1>1 DEF OutputInv, DiskTyped
  <2> QED
    BY <1>1, <2>1, <2>2 DEF OutputInv, OwnsFile
<1> QED
  BY <1>2, <1>3, <1>4 DEF OutputInv

LEMMA StepKeepsOutput == OutputInv /\ [Next]_vars => OutputInv'
<1> SUFFICES ASSUME OutputInv, [Next]_vars PROVE OutputInv'
  OBVIOUS
<1>1. CASE UNCHANGED vars
  BY <1>1 DEF vars, discoverVars, outputVars, OutputInv, Begun, DiskTyped, OwnsFile, FoundSoFar,
       CheckTellsTheTruth, file
<1>2. CASE Next
  BY <1>2, CommandStepKeepsOutput, GenerateKeepsOutput, CheckKeepsOutput, EditKeepsOutput
     DEF Next, Walk
<1> QED
  BY <1>1, <1>2

\* A check that no edit meets passes exactly if the directory is as generate would
\* leave it, for any files.
THEOREM ChecksAreTrue == Spec => []CheckTellsTheTruth
<1>1. OutputInv => CheckTellsTheTruth
  BY DEF OutputInv, FoundSoFar, CheckTellsTheTruth
<1> QED
  BY InitOutputInv, StepKeepsOutput, <1>1, PTL DEF Spec

\* The command never overwrites a file of somebody else that it has not taken for
\* its own before the edit.
THEOREM ForeignFilesStay == Spec => ForeignFilesAreKept
<1>1. OutputInv /\ [Next]_vars => [LosesOnlyRacingEdits]_vars
  <2> SUFFICES ASSUME OutputInv, Next, phase \in {"generate", "check"},
                      NEW f \in AllFiles, ForeignFileLost(f)
               PROVE  command = "generate" /\ f \in editedSince
    BY DEF LosesOnlyRacingEdits
  <2>1. disk[f] = "foreign" /\ disk'[f] # "foreign"
    BY DEF ForeignFileLost
  <2>2. CASE WriteFile
    <3>1. disk' = [disk EXCEPT ![file] = "current"] /\ phase = "generate" /\ writing.owned
      BY <2>2 DEF WriteFile
    <3>2. f = file
      BY <2>1, <3>1 DEF OutputInv, DiskTyped
    <3> QED
      BY <2>1, <3>1, <3>2 DEF OutputInv, Begun, OwnsFile
  <2>3. CASE \E g \in AllFiles : Edit(g)
    BY <2>1, <2>3 DEF Edit, OutputInv, DiskTyped
  <2>4. CASE \/ (DiscoverStep \/ DiscoverFault) /\ UNCHANGED outputVars
             \/ assertGeneratedOwnership \/ CheckFile \/ obsoleteGeneratedFiles \/ FileFails
    BY <2>1, <2>4 DEF outputVars, assertGeneratedOwnership, CheckFile, obsoleteGeneratedFiles,
         FileFails
  <2>5. ~Compile
    BY DEF Compile
  <2> QED
    BY <2>2, <2>3, <2>4, <2>5 DEF Next, Walk
<1> QED
  BY InitOutputInv, StepKeepsOutput, <1>1, PTL DEF Spec, ForeignFilesAreKept
-----------------------------------------------------------------------------
(* Discovery.                                                              *)

SpaceNodes == DOMAIN space.nodes
Items == [nodeId : SpaceNodes, path : Seq(Nat), rootIndex : Nat, rootSegmentCount : Nat]

\* What the walk needs to know of the variables.
WalkTyped ==
    /\ config \in Configs /\ space \in Spaces
    /\ roots \in Seq([nodeId : SpaceNodes, path : Seq(Nat),
                      exportPrefix : {r.exportPrefix : r \in ToSet(config.roots)}])
    /\ phase = "roots" => Len(roots) < Len(config.roots)
    /\ queue \in Seq(Items)
    /\ visitedPaths \subseteq SpaceNodes \X Seq(Nat)

\* A node was visited under a path, or will be.
Awaits(n, p) ==
    \/ <<n, p>> \in visitedPaths
    \/ \E i \in DOMAIN queue : queue[i].nodeId = n /\ queue[i].path = p

\* A child is pruned, or known or omitted and an object awaited.
ChildAccounted(child, below) ==
    \/ Reported("branch.pruned", below)
    \/ /\ KnownUnlessOther(child.target, below) \/ Reported("node.omitted", below)
       /\ childClass(child) = "Object" => Awaits(child.target, below)

\* A visited node was refused, or its children are accounted for.
Accounted(n, p) ==
    \/ Reported("browse.failure", p)
    \/ \A child \in childNodes(n) : ChildAccounted(child, Append(p, child.name))

RootKept(n, p) == KnownUnlessOther(n, p) /\ Awaits(n, p)

WalkInv ==
    /\ WalkTyped
    /\ \A v \in visitedPaths : Accounted(v[1], v[2])
    /\ \A r \in ToSet(roots) : RootKept(r.nodeId, r.path)
    /\ phase \notin {"roots", "walk", "failed"} => queue = <<>>


LEMMA InitWalkInv == Init => WalkInv
<1> SUFFICES ASSUME Init PROVE WalkInv
  OBVIOUS
<1>1. /\ config \in Configs /\ space \in Spaces /\ phase = "roots" /\ roots = <<>>
      /\ queue = <<>> /\ visitedPaths = {} /\ DOMAIN nodes = {}
  BY DEF Init, InitDiscover, emptyMap
<1>2. 0 < Len(config.roots)
  BY <1>1, DiscoverAssumption
<1> QED
  BY <1>1, <1>2 DEF WalkInv, WalkTyped, ToSet

\* What is reported, known and awaited stays so.
Grows ==
    /\ space' = space /\ issues \subseteq issues'
    /\ \A m, q : Knows(m, q) => Knows(m, q)'
    /\ \A m, q : Awaits(m, q) => Awaits(m, q)'

\* Then what is accounted for stays so, and so do the roots.
LEMMA AccountsStay ==
    ASSUME Grows
    PROVE  /\ \A n, p : Accounted(n, p) => Accounted(n, p)'
           /\ \A n, p : RootKept(n, p) => RootKept(n, p)'
<1>1. \A n : childNodes(n)' = childNodes(n)
  BY DEF Grows, childNodes, selectedChildReferences
<1>2. \A code, q : Reported(code, q) => Reported(code, q)'
  BY DEF Grows, Reported
<1>3. \A m, q : KnownUnlessOther(m, q) => KnownUnlessOther(m, q)'
  BY DEF Grows, KnownUnlessOther
<1>4. \A c, q : ChildAccounted(c, q) => ChildAccounted(c, q)'
  BY <1>2, <1>3 DEF Grows, ChildAccounted, childClass
<1> QED
  BY <1>1, <1>2, <1>3, <1>4 DEF Grows, Accounted, RootKept

\* Nothing of the walk changes, or no more than its issues grow.
LEMMA WalkIsOver ==
    ASSUME WalkInv,
           UNCHANGED <<config, space, roots, nodes, queue, visitedPaths>>,
           issues \subseteq issues',
           \/ phase' = phase
           \/ phase' = "failed"
           \/ phase' # "roots" /\ queue = <<>>
    PROVE  WalkInv'
<1>1. WalkTyped'
  BY DEF WalkInv, WalkTyped, SpaceNodes, Items
<1>2. \A m, q : Knows(m, q)' = Knows(m, q)
  BY DEF Knows
<1>3. \A n, p : Awaits(n, p)' = Awaits(n, p)
  BY DEF Awaits
<1>4. Grows
  BY <1>2, <1>3 DEF Grows
<1> QED
  BY <1>1, <1>4, AccountsStay DEF WalkInv

\* compile adds issues to those of discovery.
LEMMA CompileAddsIssues == issues \subseteq compile(config).issues
BY DEF compile

LEMMA LaterStepsKeepWalk ==
    ASSUME WalkInv, OutputInv,
           \/ Compile \/ BeginTypes \/ ReadTypes \/ RequestFails
           \/ assertGeneratedOwnership \/ WriteFile \/ CheckFile \/ obsoleteGeneratedFiles
           \/ FileFails \/ (\E f \in AllFiles : Edit(f))
           \/ UNCHANGED vars
    PROVE  WalkInv'
<1>1. CASE Compile
  <2>1. issues \subseteq issues'
    BY <1>1, CompileAddsIssues DEF Compile
  <2>2. /\ UNCHANGED <<config, space, roots, nodes, queue, visitedPaths>>
        /\ phase = "types" /\ phase' \in {"failed", command}
    BY <1>1 DEF Compile
  <2>3. queue = <<>> /\ phase' # "roots"
    BY <2>2 DEF WalkInv, OutputInv, Begun
  <2> QED
    BY <2>1, <2>2, <2>3, WalkIsOver
<1>2. CASE BeginTypes \/ ReadTypes \/ RequestFails
  <2>1. /\ UNCHANGED <<config, space, roots, nodes, queue, visitedPaths>>
        /\ issues \subseteq issues'
        /\ phase' = phase \/ phase' = "failed" \/ (phase' = "types" /\ queue = <<>>)
    BY <1>2 DEF BeginTypes, ReadTypes, RequestFails, Abandon
  <2> QED
    BY <2>1, WalkIsOver
<1>3. CASE assertGeneratedOwnership \/ WriteFile \/ CheckFile \/ obsoleteGeneratedFiles
           \/ FileFails \/ (\E f \in AllFiles : Edit(f))
  <2>1. /\ UNCHANGED discovered /\ phase \in {"generate", "check"}
        /\ phase' \in {phase, "failed", "generated", "checked"}
    BY <1>3 DEF assertGeneratedOwnership, WriteFile, CheckFile, obsoleteGeneratedFiles,
         FileFails, Edit, outputVars
  <2>2. queue = <<>>
    BY <2>1 DEF WalkInv
  <2> QED
    BY <2>1, <2>2, WalkIsOver DEF discovered
<1>4. CASE UNCHANGED vars
  BY <1>4, WalkIsOver DEF vars, discoverVars
<1> QED
  BY <1>1, <1>2, <1>3, <1>4

\* Where an item may come from.
LEMMA RootsAreItems ==
    ASSUME config \in Configs, space \in Spaces, NEW i \in DOMAIN config.roots,
           NEW root \in resolveRoot(config.roots[i])
    PROVE  root \in [nodeId : SpaceNodes, path : Seq(Nat),
                     exportPrefix : {r.exportPrefix : r \in ToSet(config.roots)}]
<1>1. config.roots[i] \in ToSet(config.roots)
  BY DEF ToSet
<1>2. \A n \in resolvePathRoot(config.roots[i].path) : n \in SpaceNodes
  <2>1. config.roots[i].path \in Seq(Nat)
    BY DiscoverAssumption
  <2>2. Len(config.roots[i].path) \in 0..Len(config.roots[i].path)
    BY <2>1
  <2> QED
    BY <2>2 DEF resolvePathRoot, SpaceNodes
<1>3. config.roots[i].by = "nodeId" => config.roots[i].nodeId \in SpaceNodes
  BY DiscoverAssumption DEF SpaceNodes
<1>4. /\ root.nodeId \in SpaceNodes
      /\ root = [nodeId |-> root.nodeId, exportPrefix |-> config.roots[i].exportPrefix,
                 path |-> IF config.roots[i].by = "nodeId"
                          THEN <<space.nodes[root.nodeId].browseName>>
                          ELSE config.roots[i].path]
  BY <1>2, <1>3 DEF resolveRoot
<1>5. config.roots[i].path \in Seq(Nat) /\ space.nodes[root.nodeId].browseName \in Nat
  BY <1>4, DiscoverAssumption DEF SpaceNodes
<1>6. <<space.nodes[root.nodeId].browseName>> \in Seq(Nat)
  BY <1>5
<1>7. PICK p \in Seq(Nat), e \in {r.exportPrefix : r \in ToSet(config.roots)} :
         root = [nodeId |-> root.nodeId, exportPrefix |-> e, path |-> p]
  BY <1>1, <1>4, <1>5, <1>6
<1> QED
  BY <1>4, <1>7

\* What addOrUpdateNode does to the paths of the nodes.
LEMMA NodesAdded ==
    ASSUME NEW items, nodes' = addOrUpdateNodes(nodes, items), space' = space
    PROVE  /\ \A n, p : Knows(n, p) => Knows(n, p)'
           /\ \A i \in items : KnownUnlessOther(i.nodeId, i.path)'
<1> DEFINE known == {item.nodeId : item \in
                        {i \in items : space.nodes[i.nodeId].nodeClass \in KnownNodeClasses}}
           oldPaths(n) == IF n \in DOMAIN nodes THEN nodes[n].allPaths ELSE {}
<1>1. /\ DOMAIN nodes' = DOMAIN nodes \cup known
      /\ \A n \in DOMAIN nodes' :
            nodes'[n].allPaths = oldPaths(n) \cup {i.path : i \in {j \in items : j.nodeId = n}}
  BY DEF addOrUpdateNodes
<1> QED
  BY <1>1 DEF Knows, KnownUnlessOther

\* The next item of the walk.
LEMMA HeadOfQueue ==
    ASSUME WalkTyped, queue # <<>>
    PROVE  /\ current \in Items /\ Tail(queue) \in Seq(Items)
           /\ \A i \in DOMAIN queue : queue[i] = current \/ \E j \in DOMAIN Tail(queue) :
                                                              Tail(queue)[j] = queue[i]
<1>1. queue \in Seq(Items)
  BY DEF WalkTyped
<1>2. current \in Items /\ Tail(queue) \in Seq(Items) /\ current = queue[1]
  BY <1>1 DEF current
<1>3. ASSUME NEW i \in DOMAIN queue
      PROVE  queue[i] = current \/ \E j \in DOMAIN Tail(queue) : Tail(queue)[j] = queue[i]
  <2>1. CASE i = 1
    BY <1>2, <2>1
  <2>2. CASE i # 1
    <3>1. i - 1 \in DOMAIN Tail(queue) /\ Tail(queue)[i - 1] = queue[i]
      BY <1>1, <2>2
    <3> QED
      BY <3>1
  <2> QED
    BY <2>1, <2>2
<1> QED
  BY <1>2, <1>3

LEMMA Appended ==
    ASSUME NEW S, NEW s \in Seq(S), NEW e \in S
    PROVE  /\ Append(s, e) \in Seq(S) /\ Len(Append(s, e)) = Len(s) + 1
           /\ ToSet(Append(s, e)) = ToSet(s) \cup {e}
           /\ Len(s) + 1 \in DOMAIN Append(s, e) /\ Append(s, e)[Len(s) + 1] = e
           /\ \A i \in DOMAIN s : i \in DOMAIN Append(s, e) /\ Append(s, e)[i] = s[i]
<1>1. PICK t : t = Append(s, e)
  OBVIOUS
<1>2. /\ t \in Seq(S) /\ Len(t) = Len(s) + 1 /\ Len(s) \in Nat /\ t[Len(s) + 1] = e
      /\ \A i \in 1..Len(s) : t[i] = s[i]
  BY <1>1
<1>3. DOMAIN t = DOMAIN s \cup {Len(s) + 1} /\ DOMAIN s = 1..Len(s) /\ DOMAIN t = 1..(Len(s) + 1)
  BY <1>2
<1>4. ToSet(t) = ToSet(s) \cup {e}
  BY <1>2, <1>3 DEF ToSet
<1> QED
  BY <1>1, <1>2, <1>3, <1>4

LEMMA ResolveRootKeepsWalk ==
    ASSUME WalkInv, ResolveRoot
    PROVE  WalkInv'
<1> DEFINE k == Len(roots) + 1
<1>1. /\ phase = "roots" /\ Len(roots) \in Nat /\ k \in DOMAIN config.roots
      /\ config \in Configs /\ space \in Spaces /\ Len(config.roots) \in Nat
  BY DiscoverAssumption DEF ResolveRoot, WalkInv, WalkTyped
<1>2. CASE resolveRoot(config.roots[k]) = {}
  <2>1. UNCHANGED <<config, space, roots, nodes, queue, visitedPaths, issues>> /\ phase' = "failed"
    BY <1>2 DEF ResolveRoot, Abandon
  <2> QED
    BY <2>1, WalkIsOver
<1>3. CASE resolveRoot(config.roots[k]) # {}
  <2> DEFINE itemAt(root) == [nodeId |-> root.nodeId, path |-> root.path,
                  rootIndex |-> Len(roots) + 1, rootSegmentCount |-> Len(root.path)]
  <2>0. PICK root \in resolveRoot(config.roots[k]) :
          /\ roots' = Append(roots, root)
          /\ nodes' = addOrUpdateNodes(nodes, {itemAt(root)})
          /\ queue' = Append(queue, itemAt(root))
          /\ phase' = IF Len(roots') = Len(config.roots) THEN "walk" ELSE "roots"
          /\ UNCHANGED <<config, space, visitedPaths, issues>>
    BY <1>3 DEF ResolveRoot
  <2>1. PICK item :
          /\ item = [nodeId |-> root.nodeId, path |-> root.path,
                     rootIndex |-> Len(roots) + 1, rootSegmentCount |-> Len(root.path)]
          /\ roots' = Append(roots, root)
          /\ nodes' = addOrUpdateNodes(nodes, {item})
          /\ queue' = Append(queue, item)
          /\ phase' = IF Len(roots') = Len(config.roots) THEN "walk" ELSE "roots"
          /\ UNCHANGED <<config, space, visitedPaths, issues>>
    BY <2>0
  <2> HIDE DEF itemAt
  <2> DEFINE RootSet == [nodeId : SpaceNodes, path : Seq(Nat),
                         exportPrefix : {r.exportPrefix : r \in ToSet(config.roots)}]
  <2>2. root \in RootSet
    BY <1>1, RootsAreItems
  <2>3. SpaceNodes' = SpaceNodes /\ Items' = Items
    BY <2>1 DEF SpaceNodes, Items
  <2>4. item \in Items
    BY <1>1, <2>1, <2>2 DEF Items
  <2>5. roots \in Seq(RootSet) /\ queue \in Seq(Items)
    BY DEF WalkInv, WalkTyped
  <2> HIDE DEF RootSet
  <2>6. /\ roots' \in Seq(RootSet) /\ Len(roots') = Len(roots) + 1
        /\ ToSet(roots') = ToSet(roots) \cup {root}
    BY <2>1, <2>2, <2>5, Appended
  <2>7. /\ queue' \in Seq(Items)
        /\ Len(queue) + 1 \in DOMAIN queue' /\ queue'[Len(queue) + 1] = item
        /\ \A i \in DOMAIN queue : i \in DOMAIN queue' /\ queue'[i] = queue[i]
    BY <2>1, <2>4, <2>5, Appended
  <2>8. phase' = "roots" => Len(roots') < Len(config'.roots)
    BY <1>1, <2>1, <2>6
  <2>9. WalkTyped'
    <3>1. RootSet' = RootSet
      BY <2>1, <2>3 DEF RootSet
    <3> QED
      BY <2>1, <2>3, <2>6, <2>7, <2>8, <3>1 DEF WalkInv, WalkTyped, RootSet
  <2>10. /\ \A n, p : Knows(n, p) => Knows(n, p)'
         /\ KnownUnlessOther(root.nodeId, root.path)'
         /\ item.nodeId = root.nodeId /\ item.path = root.path
    <3>1. item.nodeId = root.nodeId /\ item.path = root.path
      BY <2>1
    <3>2. PICK items : items = {item}
      OBVIOUS
    <3>3. nodes' = addOrUpdateNodes(nodes, items) /\ space' = space
      BY <2>1, <3>2
    <3>4. /\ \A n, p : Knows(n, p) => Knows(n, p)'
          /\ \A i \in items : KnownUnlessOther(i.nodeId, i.path)'
      BY <3>3, NodesAdded
    <3> QED
      BY <3>1, <3>2, <3>4
  <2>11. \A n, p : Awaits(n, p) => Awaits(n, p)'
    BY <2>1, <2>7 DEF Awaits
  <2>12. RootKept(root.nodeId, root.path)'
    BY <2>7, <2>10 DEF Awaits, RootKept
  <2>13. Grows
    BY <2>1, <2>10, <2>11 DEF Grows
  <2>14. \A v \in visitedPaths' : Accounted(v[1], v[2])'
    BY <2>1, <2>13, AccountsStay DEF WalkInv
  <2>15. \A r \in ToSet(roots') : RootKept(r.nodeId, r.path)'
    BY <2>6, <2>12, <2>13, AccountsStay DEF WalkInv
  <2> QED
    BY <2>1, <2>9, <2>14, <2>15 DEF WalkInv
<1> QED
  BY <1>2, <1>3

LEMMA AlreadyVisitedKeepsWalk ==
    ASSUME WalkInv, AlreadyVisited
    PROVE  WalkInv'
<1>1. /\ phase = "walk" /\ queue # <<>> /\ visitKey(current) \in visitedPaths /\ queue' = Tail(queue)
      /\ UNCHANGED <<phase, config, space, roots, nodes, visitedPaths, issues>>
  BY DEF AlreadyVisited
<1>2. SpaceNodes' = SpaceNodes /\ Items' = Items
  BY <1>1 DEF SpaceNodes, Items
<1>3. WalkTyped'
  BY <1>1, <1>2, HeadOfQueue DEF WalkInv, WalkTyped
<1>4. \A n, p : Awaits(n, p) => Awaits(n, p)'
  BY <1>1, HeadOfQueue DEF Awaits, visitKey, WalkInv
<1>5. \A m, q : Knows(m, q)' = Knows(m, q)
  BY <1>1 DEF Knows
<1>6. Grows
  BY <1>1, <1>4, <1>5 DEF Grows
<1> QED
  BY <1>1, <1>3, <1>6, AccountsStay DEF WalkInv

\* A set of naturals has a least element.
LEMMA LeastNat ==
    ASSUME NEW T, T \subseteq Nat, T # {}
    PROVE  \E n \in T : \A m \in T : n <= m
<1>1. PICK n \in T : \A m \in T : ~(<<m, n>> \in OpToRel(<, Nat))
  BY NatLessThanWellFounded, WFMin
<1>2. ASSUME NEW m \in T, ~(n <= m) PROVE FALSE
  <2>1. <<m, n>> \in Nat \X Nat /\ <<m, n>>[1] < <<m, n>>[2]
    BY <1>2
  <2>2. <<m, n>> \in OpToRel(<, Nat)
    BY <2>1 DEF OpToRel
  <2> QED
    BY <1>1, <2>2
<1> QED
  BY <1>2

\* Every x has the place of its rank, one more than there are smaller names.
LEMMA InOrderHasAll ==
    ASSUME NEW N, IsFiniteSet(N), \A x \in N : x.name \in Nat,
           \A x, y \in N : x # y => x.name # y.name
    PROVE  /\ inOrderOfNames(N) \in Seq(N)
           /\ \A x \in N : \E i \in DOMAIN inOrderOfNames(N) : inOrderOfNames(N)[i] = x
<1> DEFINE below(x) == {y \in N : y.name < x.name}
           rank(x) == Cardinality(below(x))
<1>1. \A x \in N : IsFiniteSet(below(x)) /\ below(x) \subseteq N
  BY FS_Subset
<1>2. Cardinality(N) \in Nat
  BY FS_CardinalityType
<1>3. ASSUME NEW x \in N
      PROVE  rank(x) \in Nat /\ rank(x) < Cardinality(N)
  <2>1. below(x) \in SUBSET N /\ below(x) # N
    BY <1>1
  <2> HIDE DEF below
  <2> QED
    BY <1>1, <2>1, FS_Subset, FS_CardinalityType
<1>4. ASSUME NEW x \in N, NEW y \in N, x.name < y.name
      PROVE  rank(x) # rank(y)
  <2>1. below(x) \in SUBSET below(y) /\ below(x) # below(y)
    <3>1. x \in below(y) /\ x \notin below(x)
      BY <1>4
    <3>2. \A z \in below(x) : z \in below(y)
      BY <1>4
    <3> HIDE DEF below
    <3> QED
      BY <3>1, <3>2
  <2> HIDE DEF below
  <2> QED
    BY <1>1, <2>1, FS_Subset, FS_CardinalityType
<1>5. \A x, y \in N : x # y => rank(x) # rank(y)
  <2> SUFFICES ASSUME NEW x \in N, NEW y \in N, x # y PROVE rank(x) # rank(y)
    OBVIOUS
  <2>1. x.name < y.name \/ y.name < x.name
    OBVIOUS
  <2> HIDE DEF rank, below
  <2> QED
    BY <1>4, <2>1
<1> DEFINE n == Cardinality(N)
           at(i) == CHOOSE x \in N : rank(x) = i - 1
<1>6. inOrderOfNames(N) = [i \in 1..n |-> at(i)]
  BY DEF inOrderOfNames
<1> HIDE DEF rank, n
<1>7. \A x \in N : rank(x) + 1 \in 1..n /\ at(rank(x) + 1) = x
  <2> SUFFICES ASSUME NEW x \in N PROVE rank(x) + 1 \in 1..n /\ at(rank(x) + 1) = x
    OBVIOUS
  <2>1. rank(x) + 1 \in 1..n /\ (rank(x) + 1) - 1 = rank(x)
    BY <1>2, <1>3 DEF n
  <2>2. at(rank(x) + 1) \in N /\ rank(at(rank(x) + 1)) = rank(x)
    BY <2>1
  <2> HIDE DEF at
  <2> QED
    BY <1>5, <2>1, <2>2
<1>8. \A i \in 1..n : at(i) \in N
  <2> DEFINE ranks == [x \in N |-> rank(x)]
  <2>1. ranks \in Injection(N, 0..(n - 1))
    BY <1>2, <1>3, <1>5 DEF Injection, IsInjective, n
  <2>2. IsFiniteSet(0..(n - 1)) /\ Cardinality(0..(n - 1)) = n
    BY <1>2, FS_Interval DEF n
  <2>3. ranks \in Surjection(N, 0..(n - 1))
    <3> HIDE DEF ranks
    <3> QED
      BY <2>1, <2>2, FS_Injection DEF n
  <2>4. \A j \in 0..(n - 1) : \E x \in N : rank(x) = j
    BY <2>3 DEF Surjection
  <2>5. ASSUME NEW i \in 1..n PROVE at(i) \in N
    <3>1. i - 1 \in 0..(n - 1)
      BY <1>2 DEF n
    <3>2. \E x \in N : rank(x) = i - 1
      BY <2>4, <3>1
    <3> QED
      BY <3>2
  <2> QED
    BY <2>5
<1> HIDE DEF at
<1>9. /\ inOrderOfNames(N) \in [1..n -> N] /\ n \in Nat
      /\ \A i \in 1..n : inOrderOfNames(N)[i] = at(i)
  BY <1>2, <1>6, <1>8 DEF n
<1>10. inOrderOfNames(N) \in Seq(N) /\ DOMAIN inOrderOfNames(N) = 1..n
  BY <1>9
<1> QED
  BY <1>7, <1>9, <1>10

LEMMA ExcludeModes ==
    ASSUME config \in Configs
    PROVE  \A p : matchingExclude(p) \in {"keep", "prune", "omit"}
<1> SUFFICES ASSUME NEW p PROVE matchingExclude(p) \in {"keep", "prune", "omit"}
  OBVIOUS
<1> DEFINE matching == {i \in DOMAIN config.exclude :
                           matchPathPattern(config.exclude[i].path, p)}
<1>1. matchingExclude(p) =
        IF matching = {} THEN "keep"
        ELSE config.exclude[CHOOSE i \in matching : \A j \in matching : i <= j].mode
  BY DEF matchingExclude
<1>2. matching \subseteq DOMAIN config.exclude /\ DOMAIN config.exclude \subseteq Nat
  BY DiscoverAssumption
<1> HIDE DEF matching
<1>3. matching # {} => \E i \in matching : \A j \in matching : i <= j
  BY <1>2, LeastNat
<1> QED
  BY <1>1, <1>2, <1>3, DiscoverAssumption

\* The children of a node of the space.
LEMMA ChildrenOfNode ==
    ASSUME space \in Spaces, NEW n \in SpaceNodes
    PROVE  /\ IsFiniteSet(childNodes(n)) /\ childNodes(n) \subseteq selectedChildReferences(n)
           /\ \A c \in childNodes(n) : /\ c.name \in Nat /\ c.name # NoBrowseName
                                       /\ c.target \in SpaceNodes
<1>1. /\ IsFiniteSet(space.references[n])
      /\ \A c \in space.references[n] :
            (c.name = NoBrowseName \/ c.name \in Nat) /\ c.target \in SpaceNodes
  BY DiscoverAssumption DEF SpaceNodes
<1>2. childNodes(n) \in SUBSET space.references[n] /\ childNodes(n) \subseteq selectedChildReferences(n)
  BY DEF childNodes, selectedChildReferences
<1>3. IsFiniteSet(childNodes(n))
  BY <1>1, <1>2, FS_Subset
<1>4. \A c \in childNodes(n) : c.name # NoBrowseName
  BY DEF childNodes
<1> QED
  BY <1>1, <1>2, <1>3, <1>4

LEMMA Concatenated ==
    ASSUME NEW S, NEW s \in Seq(S), NEW t \in Seq(S)
    PROVE  /\ s \o t \in Seq(S)
           /\ \A i \in DOMAIN s : \E j \in DOMAIN (s \o t) : (s \o t)[j] = s[i]
           /\ \A i \in DOMAIN t : \E j \in DOMAIN (s \o t) : (s \o t)[j] = t[i]
<1>1. PICK u : u = s \o t
  OBVIOUS
<1>2. /\ u \in Seq(S) /\ Len(u) = Len(s) + Len(t) /\ Len(s) \in Nat /\ Len(t) \in Nat
      /\ \A i \in 1..Len(s) : u[i] = s[i]
      /\ \A i \in 1..Len(t) : u[Len(s) + i] = t[i]
  BY <1>1
<1>3. \A i \in DOMAIN s : i \in DOMAIN u /\ u[i] = s[i]
  BY <1>2
<1>4. \A i \in DOMAIN t : Len(s) + i \in DOMAIN u /\ u[Len(s) + i] = t[i]
  BY <1>2
<1> QED
  BY <1>1, <1>2, <1>3, <1>4

\* What a visited item leaves in the queue.
LEMMA AwaitsStay ==
    ASSUME WalkTyped, queue # <<>>, visitedPaths' = visitedPaths \cup {visitKey(current)},
           \A i \in DOMAIN Tail(queue) : \E j \in DOMAIN queue' : queue'[j] = Tail(queue)[i]
    PROVE  \A n, p : Awaits(n, p) => Awaits(n, p)'
BY HeadOfQueue DEF Awaits, visitKey

\* What accounts for the visited paths and for the one visited now.
LEMMA VisitsAccounted ==
    ASSUME NEW at, \A v \in visitedPaths : Accounted(v[1], v[2]), Accounted(at.nodeId, at.path)',
           visitedPaths' = visitedPaths \cup {<<at.nodeId, at.path>>}, Grows
    PROVE  \A v \in visitedPaths' : Accounted(v[1], v[2])'
<1> SUFFICES ASSUME NEW v \in visitedPaths' PROVE Accounted(v[1], v[2])'
  OBVIOUS
<1>1. PICK n, p : n = v[1] /\ p = v[2]
  OBVIOUS
<1>2. CASE v \in visitedPaths
  <2>1. Accounted(n, p)
    BY <1>1, <1>2
  <2>2. Accounted(n, p)'
    BY <2>1, AccountsStay
  <2> QED
    BY <1>1, <2>2
<1>3. CASE v = <<at.nodeId, at.path>>
  BY <1>3
<1> QED
  BY <1>2, <1>3

LEMMA RefusedKeepsWalk ==
    ASSUME WalkInv, VisitRefused
    PROVE  WalkInv'
<1>1. CASE config.onBrowseFailure = "fail"
  <2>1. UNCHANGED <<config, space, roots, nodes, queue, visitedPaths, issues>> /\ phase' = "failed"
    BY <1>1 DEF VisitRefused, Abandon
  <2> QED
    BY <2>1, WalkIsOver
<1>2. CASE config.onBrowseFailure # "fail"
  <2>1. /\ phase = "walk" /\ queue # <<>>
        /\ visitedPaths' = visitedPaths \cup {visitKey(current)}
        /\ queue' = Tail(queue)
        /\ issues' = issues \cup {issue("browse.failure", current.path)}
        /\ UNCHANGED <<phase, config, space, roots, nodes>>
    BY <1>2 DEF VisitRefused, AtUnvisited
  <2>2. SpaceNodes' = SpaceNodes /\ Items' = Items
    BY <2>1 DEF SpaceNodes, Items
  <2>3. current \in Items /\ current.nodeId \in SpaceNodes /\ current.path \in Seq(Nat)
    BY <2>1, HeadOfQueue DEF WalkInv, Items
  <2>4. WalkTyped'
    BY <2>1, <2>2, <2>3, HeadOfQueue DEF WalkInv, WalkTyped, visitKey
  <2>5. \A n, p : Awaits(n, p) => Awaits(n, p)'
    BY <2>1, AwaitsStay DEF WalkInv
  <2>6. \A m, q : Knows(m, q)' = Knows(m, q)
    BY <2>1 DEF Knows
  <2>7. PICK at : at = current
    OBVIOUS
  <2>8. Accounted(at.nodeId, at.path)'
    <3>1. issue("browse.failure", at.path) \in issues'
      BY <2>1, <2>7
    <3> QED
      BY <3>1 DEF issue, Reported, Accounted
  <2>9. Grows
    BY <2>1, <2>5, <2>6 DEF Grows
  <2>10. \A v \in visitedPaths' : Accounted(v[1], v[2])'
    <3>1. visitedPaths' = visitedPaths \cup {<<at.nodeId, at.path>>}
      BY <2>1, <2>7 DEF visitKey
    <3> QED
      BY <2>8, <2>9, <3>1, VisitsAccounted DEF WalkInv
  <2> QED
    BY <2>1, <2>4, <2>9, <2>10, AccountsStay DEF WalkInv
<1> QED
  BY <1>1, <1>2

LEMMA VisitKeepsWalk ==
    ASSUME WalkInv, Visit
    PROVE  WalkInv'
<1>1. CASE duplicateBrowseName(selectedChildReferences(current.nodeId))
  <2>1. UNCHANGED <<config, space, roots, nodes, queue, visitedPaths, issues>> /\ phase' = "failed"
    BY <1>1 DEF Visit, Abandon
  <2> QED
    BY <2>1, WalkIsOver
<1>2. CASE ~duplicateBrowseName(selectedChildReferences(current.nodeId))
  <2> DEFINE children == childNodes(current.nodeId)
             pathsOf(mode) == {itemOf(c).path : c \in
                    {d \in children : matchingExclude(itemOf(d).path) = mode}}
             toWalk == {c \in children : childClass(c) = "Object"
                                         /\ itemOf(c).path \notin pathsOf("prune")}
             walked == inOrderOfNames(toWalk)
             kept == {i \in {itemOf(c) : c \in children} : i.path \in pathsOf("keep")}
             next == [i \in DOMAIN walked |-> itemOf(walked[i])]
  <2>1. /\ phase = "walk" /\ queue # <<>>
        /\ visitedPaths' = visitedPaths \cup {visitKey(current)}
        /\ nodes' = addOrUpdateNodes(nodes, kept)
        /\ queue' = Tail(queue) \o next
        /\ issues' = issues \cup {issue("branch.pruned", p) : p \in pathsOf("prune")}
                            \cup {issue("node.omitted", p) : p \in pathsOf("omit")}
        /\ UNCHANGED <<phase, config, space, roots>>
    BY <1>2 DEF Visit, AtUnvisited
  <2>2. SpaceNodes' = SpaceNodes /\ Items' = Items /\ space \in Spaces /\ config \in Configs
    BY <2>1 DEF SpaceNodes, Items, WalkInv, WalkTyped
  <2>3. current \in Items /\ current.nodeId \in SpaceNodes /\ current.path \in Seq(Nat)
    BY <2>1, HeadOfQueue DEF WalkInv, Items
  <2>4. /\ IsFiniteSet(children)
        /\ \A c \in children : c.name \in Nat /\ c.target \in SpaceNodes
        /\ \A x, y \in children : x # y => x.name # y.name
    <3>1. /\ IsFiniteSet(children) /\ children \subseteq selectedChildReferences(current.nodeId)
          /\ \A c \in children : c.name \in Nat /\ c.name # NoBrowseName /\ c.target \in SpaceNodes
      BY <2>2, <2>3, ChildrenOfNode
    <3> HIDE DEF children
    <3>2. \A x, y \in children : x # y => x.name # y.name
      BY <1>2, <3>1 DEF duplicateBrowseName
    <3> QED
      BY <3>1, <3>2
  <2>5. \A c \in children : /\ itemOf(c).nodeId = c.target
                            /\ itemOf(c).path = Append(current.path, c.name)
    BY DEF itemOf
  <2>6. \A c \in children : itemOf(c) \in Items
    BY <2>3, <2>4 DEF itemOf, Items
  <2> HIDE DEF children
  <2>7. walked \in Seq(toWalk) /\ \A c \in toWalk : \E i \in DOMAIN walked : walked[i] = c
    <3>1. IsFiniteSet(toWalk) /\ toWalk \subseteq children
      BY <2>4, FS_Subset
    <3> HIDE DEF toWalk
    <3> QED
      BY <2>4, <3>1, InOrderHasAll
  <2>8. /\ next \in Seq(Items)
        /\ \A c \in toWalk : \E i \in DOMAIN next : next[i] = itemOf(c)
    <3>1. walked \in Seq(toWalk) /\ toWalk \subseteq children
      BY <2>7
    <3> HIDE DEF walked, toWalk, itemOf
    <3>2. \A i \in 1..Len(walked) : walked[i] \in children
      BY <3>1
    <3>3. \A i \in 1..Len(walked) : itemOf(walked[i]) \in Items
      BY <2>6, <3>2
    <3>4. Len(walked) \in Nat /\ DOMAIN walked = 1..Len(walked)
      BY <3>1
    <3>5. next = [i \in 1..Len(walked) |-> itemOf(walked[i])]
      BY <3>4 DEF next
    <3>6. next \in Seq(Items) /\ DOMAIN next = DOMAIN walked
      BY <3>3, <3>4, <3>5
    <3>7. \A i \in DOMAIN walked : next[i] = itemOf(walked[i])
      BY <3>4, <3>5
    <3> QED
      BY <2>7, <3>6, <3>7
  <2>9. Tail(queue) \in Seq(Items)
    BY <2>1, HeadOfQueue DEF WalkInv
  <2> HIDE DEF walked, next
  <2>10. /\ queue' \in Seq(Items)
         /\ \A i \in DOMAIN Tail(queue) : \E j \in DOMAIN queue' : queue'[j] = Tail(queue)[i]
         /\ \A i \in DOMAIN next : \E j \in DOMAIN queue' : queue'[j] = next[i]
    <3>1. PICK s, t : s = Tail(queue) /\ t = next
      OBVIOUS
    <3>2. PICK S : S = Items
      OBVIOUS
    <3>3. s \in Seq(S) /\ t \in Seq(S)
      BY <2>8, <2>9, <3>1, <3>2
    <3>4. s \o t \in Seq(S)
      BY ONLY <3>3, Concatenated
    <3>5. \A i \in DOMAIN s : \E j \in DOMAIN (s \o t) : (s \o t)[j] = s[i]
      BY ONLY <3>3, Concatenated
    <3>6. \A i \in DOMAIN t : \E j \in DOMAIN (s \o t) : (s \o t)[j] = t[i]
      BY ONLY <3>3, Concatenated
    <3> QED
      BY <2>1, <3>1, <3>2, <3>4, <3>5, <3>6
  <2>11. WalkTyped'
    BY <2>1, <2>2, <2>3, <2>10 DEF WalkInv, WalkTyped, visitKey
  <2>12. \A n, p : Awaits(n, p) => Awaits(n, p)'
    BY <2>1, <2>10, AwaitsStay DEF WalkInv
  <2>at. PICK at : at = current
    OBVIOUS
  <2>13. \A c \in toWalk : Awaits(c.target, Append(at.path, c.name))'
    <3> SUFFICES ASSUME NEW c \in toWalk PROVE Awaits(c.target, Append(at.path, c.name))'
      OBVIOUS
    <3>1. PICK i \in DOMAIN next : next[i] = itemOf(c)
      BY <2>8
    <3>2. PICK j \in DOMAIN queue' : queue'[j] = itemOf(c)
      BY <2>10, <3>1
    <3>3. queue'[j].nodeId = c.target /\ queue'[j].path = Append(at.path, c.name)
      BY <2>5, <2>at, <3>2
    <3> QED
      BY <3>3 DEF Awaits
  <2>14. PICK items : items = kept
    OBVIOUS
  <2>15. /\ \A n, p : Knows(n, p) => Knows(n, p)'
         /\ \A i \in items : KnownUnlessOther(i.nodeId, i.path)'
    <3>1. nodes' = addOrUpdateNodes(nodes, items) /\ space' = space
      BY ONLY <2>1, <2>14
    <3> QED
      BY <3>1, NodesAdded
  <2>16. Accounted(at.nodeId, at.path)'
    <3> SUFFICES ASSUME NEW c \in children
                 PROVE  ChildAccounted(c, Append(at.path, c.name))'
      <4>1. childNodes(at.nodeId)' = children
        BY <2>1, <2>at DEF children, childNodes, selectedChildReferences
      <4> QED
        BY <4>1 DEF Accounted
    <3>1. PICK below : below = Append(at.path, c.name)
      OBVIOUS
    <3>2. itemOf(c).path = below /\ itemOf(c).nodeId = c.target
      BY <2>5, <2>at, <3>1
    <3>3. childClass(c)' = childClass(c)
      BY <2>1 DEF childClass
    <3>4. CASE matchingExclude(below) = "prune"
      <4>1. below \in pathsOf("prune")
        BY <3>2, <3>4
      <4>2. issue("branch.pruned", below) \in issues'
        BY <2>1, <4>1
      <4> QED
        BY <3>1, <4>2 DEF issue, Reported, ChildAccounted
    <3>5. CASE matchingExclude(below) # "prune"
      <4>1. childClass(c) = "Object" => Awaits(c.target, below)'
        <5>1. below \notin pathsOf("prune")
          BY <3>5
        <5> QED
          BY <2>13, <3>1, <3>2, <5>1
      <4>2. matchingExclude(below) = "keep" => KnownUnlessOther(c.target, below)'
        <5>1. matchingExclude(below) = "keep" => itemOf(c) \in items
          BY <2>14, <3>2
        <5> QED
          BY <2>15, <3>2, <5>1
      <4>3. matchingExclude(below) = "omit" => Reported("node.omitted", below)'
        <5>1. matchingExclude(below) = "omit" => below \in pathsOf("omit")
          BY <3>2
        <5>2. matchingExclude(below) = "omit" => issue("node.omitted", below) \in issues'
          BY <2>1, <5>1
        <5> QED
          BY <5>2 DEF issue, Reported
      <4>4. matchingExclude(below) \in {"keep", "omit"}
        BY <2>2, <3>5, ExcludeModes
      <4> HIDE DEF children, pathsOf, toWalk, kept
      <4> QED
        BY <3>1, <3>3, <4>1, <4>2, <4>3, <4>4 DEF ChildAccounted
    <3> QED
      BY <3>4, <3>5
  <2>17. Grows
    BY <2>1, <2>12, <2>15 DEF Grows
  <2>18. \A v \in visitedPaths' : Accounted(v[1], v[2])'
    <3>1. visitedPaths' = visitedPaths \cup {<<at.nodeId, at.path>>}
      BY <2>1, <2>at DEF visitKey
    <3> QED
      BY <2>16, <2>17, <3>1, VisitsAccounted DEF WalkInv
  <2>19. \A r \in ToSet(roots') : RootKept(r.nodeId, r.path)'
    BY <2>1, <2>17, AccountsStay DEF WalkInv
  <2> QED
    BY <2>1, <2>11, <2>18, <2>19 DEF WalkInv
<1> QED
  BY <1>1, <1>2

LEMMA StepKeepsWalk == WalkInv /\ OutputInv /\ [Next]_vars => WalkInv'
BY LaterStepsKeepWalk, ResolveRootKeepsWalk, AlreadyVisitedKeepsWalk, VisitKeepsWalk,
   RefusedKeepsWalk DEF Next, Walk, DiscoverStep, DiscoverFault

\* Wherever the walk has been, each child with a name is known, omitted or pruned
\* with an issue, and walked through unless it is pruned, in any address space and
\* for any roots and rules.
THEOREM PathsAreExplained == Spec => []EveryPathIsExplained
<1>1. WalkInv => EveryPathIsExplained
  <2> SUFFICES ASSUME WalkInv, phase \in {"types", "generate", "check"}
               PROVE  EveryPathIsExplained
    BY DEF EveryPathIsExplained
  <2>1. \A n, p : Awaits(n, p) => <<n, p>> \in visitedPaths
    BY DEF WalkInv, Awaits
  <2>2. \A r \in ToSet(roots) :
           KnownUnlessOther(r.nodeId, r.path) /\ <<r.nodeId, r.path>> \in visitedPaths
    BY <2>1 DEF WalkInv, RootKept
  <2>3. ASSUME NEW visit \in visitedPaths, ~Reported("browse.failure", visit[2]),
               NEW child \in childNodes(visit[1]), NEW below,
               below = Append(visit[2], child.name)
        PROVE  \/ Reported("branch.pruned", below)
               \/ /\ KnownUnlessOther(child.target, below) \/ Reported("node.omitted", below)
                  /\ childClass(child) = "Object" => <<child.target, below>> \in visitedPaths
    <3>1. ChildAccounted(child, below)
      BY <2>3 DEF WalkInv, Accounted
    <3> QED
      BY <2>1, <3>1 DEF ChildAccounted
  <2> QED
    BY <2>2, <2>3 DEF EveryPathIsExplained
<1> QED
  BY InitWalkInv, StepKeepsWalk, InitOutputInv, StepKeepsOutput, <1>1, PTL DEF Spec

-----------------------------------------------------------------------------
(* Recursion.                                                              *)

LEMMA Induction ==
    ASSUME NEW T, 0 \in T, \A n \in Nat : n \in T => n + 1 \in T
    PROVE  Nat \subseteq T
<1> SUFFICES ASSUME Nat \ T # {} PROVE FALSE
  OBVIOUS
<1>1. PICK n \in Nat \ T : \A m \in Nat \ T : n <= m
  BY LeastNat
<1>2. n # 0
  OBVIOUS
<1>3. n - 1 \in Nat /\ ~(n <= n - 1)
  BY <1>2
<1>4. n - 1 \in T
  BY <1>1, <1>3
<1> QED
  BY <1>3, <1>4

\* A trail leads from a root through Objects to any place below it, also through
\* those that are omitted; what comes to its end is explained.
IsTrail(t) ==
    /\ t # <<>>
    /\ \E r \in ToSet(roots) : t[1] = <<r.nodeId, r.path>>
    /\ \A k \in 1..(Len(t) - 1) :
          /\ k # 1 => space.nodes[t[k][1]].nodeClass = "Object"
          /\ \E c \in childNodes(t[k][1]) : t[k + 1] = <<c.target, Append(t[k][2], c.name)>>

IsExplained(t) ==
    \/ \E k \in 1..(Len(t) - 1) : Reported("browse.failure", t[k][2])
    \/ \E k \in 2..Len(t) : Reported("branch.pruned", t[k][2])
    \/ Reported("node.omitted", t[Len(t)][2])
    \/ KnownUnlessOther(t[Len(t)][1], t[Len(t)][2])

EveryTrailIsExplained ==
    phase \in {"types", "generate", "check"} =>
        \A t \in Seq(SpaceNodes \X Seq(Nat)) : IsTrail(t) => IsExplained(t)

\* Wherever a trail of Objects leads from a root, the node at its end is known under
\* the path of the trail unless an issue says that this path is omitted, or that one
\* on the way was pruned or could not be browsed.
THEOREM TrailsAreExplained == Spec => []EveryTrailIsExplained
<1>1. EveryPathIsExplained => EveryTrailIsExplained
  <2> SUFFICES ASSUME EveryPathIsExplained, phase \in {"types", "generate", "check"},
                      NEW t \in Seq(SpaceNodes \X Seq(Nat)), IsTrail(t), ~IsExplained(t)
               PROVE  FALSE
    BY DEF EveryTrailIsExplained
  <2>1. /\ Len(t) \in Nat \ {0}
        /\ \A k \in 1..(Len(t) - 1) : ~Reported("browse.failure", t[k][2])
        /\ \A k \in 2..Len(t) : ~Reported("branch.pruned", t[k][2])
    BY DEF IsTrail, IsExplained
  <2> DEFINE Reached(n, path) ==
                /\ KnownUnlessOther(n, path) \/ Reported("node.omitted", path)
                /\ space.nodes[n].nodeClass = "Object" => <<n, path>> \in visitedPaths
             T == {k \in Nat : k + 1 <= Len(t) =>
                      /\ Reached(t[k + 1][1], t[k + 1][2])
                      /\ k = 0 => t[1] \in visitedPaths}
  <2>2. 0 \in T
    <3>1. PICK r \in ToSet(roots) : t[1] = <<r.nodeId, r.path>>
      BY DEF IsTrail
    <3>2. KnownUnlessOther(r.nodeId, r.path) /\ <<r.nodeId, r.path>> \in visitedPaths
      BY DEF EveryPathIsExplained
    <3>3. t[1][1] = r.nodeId /\ t[1][2] = r.path
      BY <3>1
    <3>4. Reached(t[1][1], t[1][2]) /\ t[1] \in visitedPaths
      BY <3>1, <3>2, <3>3
    <3> HIDE DEF Reached
    <3> QED
      BY <3>4
  <2>3. ASSUME NEW k \in Nat, k \in T PROVE k + 1 \in T
    <3> SUFFICES ASSUME (k + 1) + 1 <= Len(t)
                 PROVE  Reached(t[(k + 1) + 1][1], t[(k + 1) + 1][2])
      OBVIOUS
    <3>1. PICK i : i = k + 1
      OBVIOUS
    <3>2. i \in 1..(Len(t) - 1) /\ i + 1 \in 2..Len(t) /\ (i = 1 <=> k = 0) /\ i <= Len(t)
      BY <2>1, <3>1
    <3>3. t[i] = <<t[i][1], t[i][2]>>
      BY <2>1, <3>2
    <3>4. t[i] \in visitedPaths
      <4>1. CASE i = 1
        BY <2>3, <3>1, <3>2, <4>1
      <4>2. CASE i # 1
        <5>1. space.nodes[t[i][1]].nodeClass = "Object"
          BY <3>2, <4>2 DEF IsTrail
        <5>2. Reached(t[i][1], t[i][2])
          BY <2>3, <3>1, <3>2
        <5> QED
          BY <3>3, <5>1, <5>2
      <4> QED
        BY <4>1, <4>2
    <3>5. PICK c \in childNodes(t[i][1]) : t[i + 1] = <<c.target, Append(t[i][2], c.name)>>
      BY <3>2 DEF IsTrail
    <3>6. PICK below : below = Append(t[i][2], c.name)
      OBVIOUS
    <3>7. t[i + 1][1] = c.target /\ t[i + 1][2] = below
      BY <3>5, <3>6
    <3>8. ~Reported("browse.failure", t[i][2]) /\ ~Reported("branch.pruned", below)
      BY <2>1, <3>2, <3>7
    <3>9. /\ KnownUnlessOther(c.target, below) \/ Reported("node.omitted", below)
          /\ childClass(c) = "Object" => <<c.target, below>> \in visitedPaths
      BY <3>4, <3>6, <3>8 DEF EveryPathIsExplained
    <3>10. Reached(c.target, below)
      BY <3>9 DEF childClass
    <3> HIDE DEF Reached
    <3> QED
      BY <3>1, <3>7, <3>10
  <2> HIDE DEF T
  <2>4. Nat \subseteq T
    BY <2>2, <2>3, Induction
  <2>5. Len(t) - 1 \in T /\ (Len(t) - 1) + 1 = Len(t)
    BY <2>1, <2>4
  <2>6. Reached(t[Len(t)][1], t[Len(t)][2])
    <3> HIDE DEF Reached
    <3> QED
      BY <2>1, <2>5 DEF T
  <2> QED
    BY <2>6 DEF IsExplained
<1> QED
  BY <1>1, PathsAreExplained, PTL

SelfMap(S, a, F) == a \in S /\ F \in [S -> S]

\* A function can be applied again and again.
LEMMA Iterates ==
    ASSUME NEW S, NEW a, NEW F, SelfMap(S, a, F)
    PROVE  \E G \in [Nat -> S] : G[0] = a /\ \A n \in Nat : G[n + 1] = F[G[n]]
<1>0. a \in S /\ F \in [S -> S]
  BY DEF SelfMap
<1> USE <1>0
<1> DEFINE upTo(n) == {h \in [0..n -> S] : h[0] = a /\ \A k \in 0..(n - 1) : h[k + 1] = F[h[k]]}
<1>1. \A n \in Nat : upTo(n) # {}
  <2> DEFINE T == {n \in Nat : upTo(n) # {}}
  <2>1. 0 \in T
    <3>1. [k \in 0..0 |-> a] \in upTo(0)
      OBVIOUS
    <3> QED
      BY <3>1
  <2>2. ASSUME NEW n \in Nat, n \in T PROVE n + 1 \in T
    <3>1. PICK h : h \in upTo(n)
      BY <2>2
    <3> DEFINE g == [k \in 0..(n + 1) |-> IF k = n + 1 THEN F[h[n]] ELSE h[k]]
    <3>2. g \in [0..(n + 1) -> S] /\ g[0] = a
      BY <3>1
    <3>3. ASSUME NEW k \in 0..((n + 1) - 1) PROVE g[k + 1] = F[g[k]]
      <4>1. g[k] = h[k] /\ k + 1 \in 0..(n + 1)
        OBVIOUS
      <4>2. CASE k = n
        BY <4>1, <4>2
      <4>3. CASE k # n
        <5>1. k \in 0..(n - 1) /\ k + 1 # n + 1
          BY <4>3
        <5>2. g[k + 1] = h[k + 1]
          BY <4>1, <5>1
        <5> QED
          BY <3>1, <4>1, <5>1, <5>2
      <4> QED
        BY <4>2, <4>3
    <3> HIDE DEF g
    <3>4. g \in upTo(n + 1)
      BY <3>2, <3>3
    <3> QED
      BY <3>4
  <2> HIDE DEF T
  <2>3. Nat \subseteq T
    BY <2>1, <2>2, Induction
  <2> QED
    BY <2>3 DEF T
<1>h. \A n \in Nat : \A h \in upTo(n) :
         h \in [0..n -> S] /\ h[0] = a /\ \A k \in 0..(n - 1) : h[k + 1] = F[h[k]]
  OBVIOUS
<1> HIDE DEF upTo
<1>2. \A k \in Nat : \A m, n \in Nat : k <= m /\ k <= n =>
         \A g \in upTo(m), h \in upTo(n) : g[k] = h[k]
  <2> DEFINE T == {k \in Nat : \A m, n \in Nat : k <= m /\ k <= n =>
                      \A g \in upTo(m), h \in upTo(n) : g[k] = h[k]}
  <2>1. 0 \in T
    BY <1>h
  <2>2. ASSUME NEW k \in Nat, k \in T PROVE k + 1 \in T
    <3> SUFFICES ASSUME NEW m \in Nat, NEW n \in Nat, k + 1 <= m, k + 1 <= n,
                        NEW g \in upTo(m), NEW h \in upTo(n)
                 PROVE  g[k + 1] = h[k + 1]
      OBVIOUS
    <3>1. k <= m /\ k <= n /\ k \in 0..(m - 1) /\ k \in 0..(n - 1)
      OBVIOUS
    <3>2. g[k] = h[k]
      BY <2>2, <3>1
    <3> QED
      BY <1>h, <3>1, <3>2
  <2> HIDE DEF T
  <2>3. Nat \subseteq T
    BY <2>1, <2>2, Induction
  <2> QED
    BY <2>3 DEF T
<1> DEFINE H(n) == CHOOSE h : h \in upTo(n)
<1>3. \A n \in Nat : H(n) \in upTo(n)
  BY <1>1
<1> DEFINE G == [n \in Nat |-> H(n)[n]]
<1> HIDE DEF H
<1>4. G \in [Nat -> S]
  <2> SUFFICES ASSUME NEW n \in Nat PROVE H(n)[n] \in S
    OBVIOUS
  <2>1. H(n) \in [0..n -> S] /\ n \in 0..n
    BY <1>3, <1>h
  <2> QED
    BY <2>1
<1>5. G[0] = a
  BY <1>3, <1>h
<1>6. ASSUME NEW n \in Nat PROVE G[n + 1] = F[G[n]]
  <2>1. H(n + 1) \in upTo(n + 1) /\ H(n) \in upTo(n)
    BY <1>3
  <2>2. n \in 0..((n + 1) - 1) /\ n <= n /\ n <= n + 1 /\ n + 1 \in Nat
    OBVIOUS
  <2>3. H(n + 1)[n + 1] = F[H(n + 1)[n]]
    BY <1>h, <2>1, <2>2
  <2>4. H(n + 1)[n] = H(n)[n]
    BY <1>2, <2>1, <2>2
  <2> QED
    BY <2>3, <2>4
<1> HIDE DEF G
<1> QED
  BY <1>4, <1>5, <1>6

-----------------------------------------------------------------------------
(* The walk that sorts structures, with the place it has come to: what has *)
(* been seen, what has been sorted, what is pending.                       *)

Places(all) == [seen : SUBSET all, sorted : Seq(all), pending : Seq(all)]

Below(next, at) == [seen |-> at.seen \cup {Head(at.pending)}, sorted |-> at.sorted,
                    pending |-> next[Head(at.pending)]]
After(at, below) ==
    [seen |-> IF Head(at.pending) \in at.seen THEN at.seen ELSE below.seen,
     sorted |-> IF Head(at.pending) \in at.seen THEN at.sorted
                ELSE Append(below.sorted, Head(at.pending)),
     pending |-> Tail(at.pending)]

WalkStep(next, f, at) ==
    IF at.pending = <<>> THEN at ELSE f[After(at, f[Below(next, at)])]
IsVisit(all, next, f) == f = [at \in Places(all) |-> WalkStep(next, f, at)]

\* How much is left to see.
Left(all, at) == Cardinality(all \ at.seen)

LEMMA PlacesBelow ==
    ASSUME NEW all, NEW next \in [all -> Seq(all)], NEW at \in Places(all), at.pending # <<>>
    PROVE  /\ Head(at.pending) \in all /\ Below(next, at) \in Places(all)
           /\ Tail(at.pending) \in Seq(all) /\ Len(Tail(at.pending)) < Len(at.pending)
           /\ \A below \in Places(all) : After(at, below) \in Places(all)
<1>1. /\ Head(at.pending) \in all /\ Tail(at.pending) \in Seq(all)
      /\ Len(Tail(at.pending)) < Len(at.pending)
      /\ at.seen \in SUBSET all /\ at.sorted \in Seq(all)
  BY DEF Places
<1>2. PICK s \in all : s = Head(at.pending)
  BY <1>1
<1>3. Below(next, at) \in Places(all)
  BY <1>1, <1>2 DEF Below, Places
<1>4. ASSUME NEW below \in Places(all) PROVE After(at, below) \in Places(all)
  <2>1. below.seen \in SUBSET all /\ below.sorted \in Seq(all)
    BY DEF Places
  <2>2. Append(below.sorted, s) \in Seq(all)
    BY <2>1
  <2> QED
    BY <1>1, <1>2, <2>1, <2>2 DEF After, Places
<1> QED
  BY <1>1, <1>3, <1>4

LEMMA LessLeft ==
    ASSUME NEW all, IsFiniteSet(all), NEW x \in Places(all), NEW y \in Places(all)
    PROVE  /\ Left(all, x) \in Nat
           /\ x.seen \subseteq y.seen => Left(all, y) <= Left(all, x)
           /\ x.seen \subseteq y.seen /\ x.seen # y.seen => Left(all, y) < Left(all, x)
<1>1. PICK X, Y : X = all \ x.seen /\ Y = all \ y.seen
  OBVIOUS
<1>2. IsFiniteSet(X) /\ IsFiniteSet(Y)
  BY <1>1, FS_Subset
<1>3. Cardinality(X) \in Nat /\ Cardinality(Y) \in Nat
  BY <1>2, FS_CardinalityType
<1>4. Y \in SUBSET X => Cardinality(Y) <= Cardinality(X)
                        /\ (Y # X => Cardinality(Y) < Cardinality(X))
  BY <1>2, <1>3, FS_Subset
<1>5. x.seen \subseteq y.seen => Y \in SUBSET X /\ (x.seen # y.seen => Y # X)
  BY <1>1 DEF Places
<1> QED
  BY <1>1, <1>3, <1>4, <1>5 DEF Left

\* Where the walk goes on is nearer to its end.
Nearer(all, x, y) ==
    Left(all, x) < Left(all, y) \/ (Left(all, x) = Left(all, y) /\ Len(x.pending) < Len(y.pending))

LEMMA GoesNearer ==
    ASSUME NEW all, IsFiniteSet(all), NEW next \in [all -> Seq(all)],
           NEW at \in Places(all), at.pending # <<>>
    PROVE  /\ Head(at.pending) \notin at.seen => Nearer(all, Below(next, at), at)
           /\ \A below \in Places(all) :
                 Below(next, at).seen \subseteq below.seen => Nearer(all, After(at, below), at)
<1>1. Below(next, at) \in Places(all) /\ \A b \in Places(all) : After(at, b) \in Places(all)
  BY PlacesBelow
<1>2. ASSUME Head(at.pending) \notin at.seen PROVE Nearer(all, Below(next, at), at)
  <2>1. at.seen \subseteq Below(next, at).seen /\ at.seen # Below(next, at).seen
    BY <1>2 DEF Below
  <2> QED
    BY <1>1, <2>1, LessLeft DEF Nearer
<1>3. ASSUME NEW below \in Places(all), Below(next, at).seen \subseteq below.seen
      PROVE  Nearer(all, After(at, below), at)
  <2>1. CASE Head(at.pending) \in at.seen
    <3>1. After(at, below).seen = at.seen /\ After(at, below).pending = Tail(at.pending)
      BY <2>1 DEF After
    <3>2. Left(all, After(at, below)) = Left(all, at)
      BY <3>1 DEF Left
    <3> QED
      BY <3>1, <3>2, PlacesBelow DEF Nearer
  <2>2. CASE Head(at.pending) \notin at.seen
    <3>1. at.seen \subseteq After(at, below).seen /\ at.seen # After(at, below).seen
      BY <1>3, <2>2 DEF After, Below
    <3> QED
      BY <1>1, <3>1, LessLeft DEF Nearer
  <2> QED
    BY <2>1, <2>2
<1> QED
  BY <1>2, <1>3

\* What holds of a place if it holds of all that are nearer to the end holds of all.
LEMMA WalkInduction ==
    ASSUME NEW all, IsFiniteSet(all), NEW Good,
           \A at \in Places(all) :
              (\A x \in Places(all) : Nearer(all, x, at) => x \in Good) => at \in Good
    PROVE  Places(all) \subseteq Good
<1> SUFFICES ASSUME Places(all) \ Good # {} PROVE FALSE
  OBVIOUS
<1> DEFINE Bad == Places(all) \ Good
           lefts == {Left(all, at) : at \in Bad}
<1>1. lefts \subseteq Nat /\ lefts # {}
  BY LessLeft
<1>2. PICK m \in lefts : \A n \in lefts : m <= n
  BY <1>1, LeastNat
<1> DEFINE lengths == {Len(at.pending) : at \in {x \in Bad : Left(all, x) = m}}
<1>3. lengths \subseteq Nat /\ lengths # {}
  <2>1. \A x \in Bad : Len(x.pending) \in Nat
    <3> SUFFICES ASSUME NEW x \in Places(all) PROVE Len(x.pending) \in Nat
      OBVIOUS
    <3>1. x.pending \in Seq(all)
      BY DEF Places
    <3> QED
      BY <3>1
  <2>2. \E x \in Bad : Left(all, x) = m
    BY <1>2
  <2> HIDE DEF Bad
  <2>3. lengths # {}
    <3>1. PICK x \in Bad : Left(all, x) = m
      BY <2>2
    <3>2. Len(x.pending) \in lengths
      BY <3>1
    <3> HIDE DEF lengths
    <3> QED
      BY <3>2
  <2>4. lengths \subseteq Nat
    BY <2>1
  <2> QED
    BY <2>3, <2>4
<1>4. PICK l \in lengths : \A n \in lengths : l <= n
  BY <1>3, LeastNat
<1>5. PICK at \in Bad : Left(all, at) = m /\ Len(at.pending) = l
  BY <1>4
<1>6. PICK x \in Bad : Nearer(all, x, at)
  BY <1>5
<1>7. Left(all, x) \in lefts /\ m <= Left(all, x) /\ m \in Nat /\ Left(all, x) \in Nat
  BY <1>1, <1>2
<1>8. Left(all, x) = m /\ Len(x.pending) < l
  BY <1>5, <1>6, <1>7 DEF Nearer
<1>9. Len(x.pending) \in lengths /\ l \in Nat /\ Len(x.pending) \in Nat
  BY <1>3, <1>8
<1> QED
  BY <1>4, <1>8, <1>9

\* The walk with a bounded depth of recursion, deeper and deeper, comes to stay at v.
Settles(all, G, at, v) ==
    /\ v \in Places(all) /\ at.seen \subseteq v.seen
    /\ \E b \in Nat : \A j \in Nat : b <= j => G[j][at] = v

Deepens(all, next, G) ==
    /\ G \in [Nat -> [Places(all) -> Places(all)]]
    /\ \A n \in Nat : \A at \in Places(all) : G[n + 1][at] = WalkStep(next, G[n], at)

LEMMA SettleStep ==
    ASSUME NEW all, NEW next \in [all -> Seq(all)], NEW G, Deepens(all, next, G),
           NEW at \in Places(all), at.pending # <<>>, NEW below \in Places(all), NEW v,
           Head(at.pending) \in at.seen \/ Settles(all, G, Below(next, at), below),
           Settles(all, G, After(at, below), v)
    PROVE  Settles(all, G, at, v)
<1>1. PICK b \in Nat : \A j \in Nat : b <= j => G[j][After(at, below)] = v
  BY DEF Settles
<1>2. \A n \in Nat : G[n + 1][at] = G[n][After(at, G[n][Below(next, at)])]
  BY DEF Deepens, WalkStep
<1>3. v \in Places(all) /\ After(at, below).seen \subseteq v.seen
  BY DEF Settles
<1>4. CASE Head(at.pending) \in at.seen
  <2>1. \A x : After(at, x) = After(at, below) /\ After(at, x).seen = at.seen
    BY <1>4 DEF After
  <2>2. ASSUME NEW j \in Nat, b + 1 <= j PROVE G[j][at] = v
    <3>1. PICK i \in Nat : j = i + 1 /\ b <= i
      <4>1. j - 1 \in Nat /\ j = (j - 1) + 1 /\ b <= j - 1
        BY <2>2
      <4> QED
        BY <4>1
    <3>2. G[j][at] = G[i][After(at, below)]
      <4>1. PICK x : x = G[i][Below(next, at)]
        OBVIOUS
      <4>2. G[j][at] = G[i][After(at, x)]
        BY <1>2, <3>1, <4>1
      <4> QED
        BY <2>1, <4>2
    <3> QED
      BY <1>1, <3>1, <3>2
  <2>3. b + 1 \in Nat
    OBVIOUS
  <2> QED
    BY <1>3, <2>1, <2>2, <2>3 DEF Settles
<1>5. CASE Head(at.pending) \notin at.seen
  <2>1. Settles(all, G, Below(next, at), below)
    BY <1>5
  <2>2. PICK c \in Nat : \A j \in Nat : c <= j => G[j][Below(next, at)] = below
    BY <2>1 DEF Settles
  <2>3. at.seen \subseteq v.seen
    BY <1>3, <1>5, <2>1 DEF Settles, After, Below
  <2>4. ASSUME NEW j \in Nat, b + c + 1 <= j PROVE G[j][at] = v
    <3>1. PICK i \in Nat : j = i + 1 /\ b <= i /\ c <= i
      <4>1. j - 1 \in Nat /\ j = (j - 1) + 1 /\ b <= j - 1 /\ c <= j - 1
        BY <2>4
      <4> QED
        BY <4>1
    <3>2. G[i][Below(next, at)] = below
      BY <2>2, <3>1
    <3>3. G[j][at] = G[i][After(at, below)]
      BY <1>2, <3>1, <3>2
    <3> QED
      BY <1>1, <3>1, <3>3
  <2>5. b + c + 1 \in Nat
    OBVIOUS
  <2> QED
    BY <1>3, <2>3, <2>4, <2>5 DEF Settles
<1> QED
  BY <1>4, <1>5

LEMMA SettlesOnce ==
    ASSUME NEW all, NEW G, NEW at, NEW v, NEW w, Settles(all, G, at, v), Settles(all, G, at, w)
    PROVE  v = w
<1>1. PICK b \in Nat : \A j \in Nat : b <= j => G[j][at] = v
  BY DEF Settles
<1>2. PICK c \in Nat : \A j \in Nat : c <= j => G[j][at] = w
  BY DEF Settles
<1>3. b + c \in Nat /\ b <= b + c /\ c <= b + c
  OBVIOUS
<1> QED
  BY <1>1, <1>2, <1>3

LEMMA AllSettle ==
    ASSUME NEW all, IsFiniteSet(all), NEW next \in [all -> Seq(all)], NEW G,
           Deepens(all, next, G), NEW at \in Places(all)
    PROVE  \E v : Settles(all, G, at, v)
<1> DEFINE Good == {x \in Places(all) : \E v : Settles(all, G, x, v)}
<1>1. ASSUME NEW x \in Places(all), \A y \in Places(all) : Nearer(all, y, x) => y \in Good
      PROVE  x \in Good
  <2>1. CASE x.pending = <<>>
    <3>1. ASSUME NEW j \in Nat, 1 <= j PROVE G[j][x] = x
      <4>1. j - 1 \in Nat /\ j = (j - 1) + 1
        BY <3>1
      <4>2. G[(j - 1) + 1][x] = WalkStep(next, G[j - 1], x)
        BY <4>1 DEF Deepens
      <4> QED
        BY <2>1, <4>1, <4>2 DEF WalkStep
    <3>2. Settles(all, G, x, x)
      BY <3>1 DEF Settles
    <3> QED
      BY <3>2
  <2>2. CASE x.pending # <<>>
    <3>1. \E below \in Places(all) :
             /\ Head(x.pending) \in x.seen \/ Settles(all, G, Below(next, x), below)
             /\ Below(next, x).seen \subseteq below.seen
      <4>1. CASE Head(x.pending) \in x.seen
        BY <2>2, <4>1, PlacesBelow DEF Below
      <4>2. CASE Head(x.pending) \notin x.seen
        <5>1. Below(next, x) \in Good
          BY <1>1, <2>2, <4>2, PlacesBelow, GoesNearer
        <5>2. PICK v : Settles(all, G, Below(next, x), v)
          BY <5>1
        <5> QED
          BY <5>2 DEF Settles
      <4> QED
        BY <4>1, <4>2
    <3>2. PICK below \in Places(all) :
             /\ Head(x.pending) \in x.seen \/ Settles(all, G, Below(next, x), below)
             /\ Below(next, x).seen \subseteq below.seen
      BY <3>1
    <3>3. After(x, below) \in Good
      BY <1>1, <2>2, <3>2, PlacesBelow, GoesNearer
    <3>4. PICK v : Settles(all, G, After(x, below), v)
      BY <3>3
    <3>5. Settles(all, G, x, v)
      BY <2>2, <3>2, <3>4, SettleStep
    <3> QED
      BY <3>5
  <2> QED
    BY <2>1, <2>2
<1> HIDE DEF Good
<1>2. Places(all) \subseteq Good
  BY <1>1, WalkInduction
<1> QED
  BY <1>2 DEF Good

\* The recursion of the walk has a solution.
LEMMA VisitExists ==
    ASSUME NEW all, IsFiniteSet(all), NEW next \in [all -> Seq(all)]
    PROVE  \E f : IsVisit(all, next, f)
<1> DEFINE S == [Places(all) -> Places(all)]
           F == [f \in S |-> [at \in Places(all) |-> WalkStep(next, f, at)]]
           a == [at \in Places(all) |-> at]
<1>1. \A f \in S : [at \in Places(all) |-> WalkStep(next, f, at)] \in S
  <2> SUFFICES ASSUME NEW f \in S, NEW at \in Places(all)
               PROVE  WalkStep(next, f, at) \in Places(all)
    OBVIOUS
  <2>1. CASE at.pending = <<>>
    BY <2>1 DEF WalkStep
  <2>2. CASE at.pending # <<>>
    <3>1. f[Below(next, at)] \in Places(all)
      BY <2>2, PlacesBelow
    <3>2. f[After(at, f[Below(next, at)])] \in Places(all)
      BY <2>2, <3>1, PlacesBelow
    <3> QED
      BY <2>2, <3>2 DEF WalkStep
  <2> QED
    BY <2>1, <2>2
<1>2. SelfMap(S, a, F)
  BY <1>1 DEF SelfMap
<1> HIDE DEF F, a, S
<1>3. PICK G \in [Nat -> S] : \A n \in Nat : G[n + 1] = F[G[n]]
  <2>1. \E H \in [Nat -> S] : H[0] = a /\ \A n \in Nat : H[n + 1] = F[H[n]]
    BY ONLY <1>2, Iterates
  <2> QED
    BY ONLY <2>1
<1>4. Deepens(all, next, G)
  <2>1. \A n \in Nat : \A at \in Places(all) : G[n + 1][at] = WalkStep(next, G[n], at)
    <3> SUFFICES ASSUME NEW n \in Nat, NEW at \in Places(all)
                 PROVE  G[n + 1][at] = WalkStep(next, G[n], at)
      OBVIOUS
    <3>1. G[n + 1] = F[G[n]] /\ G[n] \in S
      BY <1>3
    <3>2. F[G[n]] = [x \in Places(all) |-> WalkStep(next, G[n], x)]
      BY <3>1 DEF F
    <3> QED
      BY <3>1, <3>2
  <2> QED
    BY <1>3, <2>1 DEF Deepens, S
<1> DEFINE f == [at \in Places(all) |-> CHOOSE v : Settles(all, G, at, v)]
<1>5. \A at \in Places(all) : Settles(all, G, at, f[at])
  BY <1>4, AllSettle
<1>6. DOMAIN f = Places(all) /\ f = [at \in Places(all) |-> f[at]]
  OBVIOUS
<1> HIDE DEF f
<1>7. ASSUME NEW at \in Places(all) PROVE f[at] = WalkStep(next, f, at)
  <2>1. CASE at.pending = <<>>
    <3>1. ASSUME NEW j \in Nat, 1 <= j PROVE G[j][at] = at
      <4>1. j - 1 \in Nat /\ j = (j - 1) + 1
        BY <3>1
      <4>2. G[(j - 1) + 1][at] = WalkStep(next, G[j - 1], at)
        BY <1>4, <4>1 DEF Deepens
      <4> QED
        BY <2>1, <4>1, <4>2 DEF WalkStep
    <3>2. Settles(all, G, at, at)
      BY <3>1 DEF Settles
    <3> QED
      BY <1>5, <2>1, <3>2, SettlesOnce DEF WalkStep
  <2>2. CASE at.pending # <<>>
    <3>1. PICK below : below = f[Below(next, at)]
      OBVIOUS
    <3>2. Settles(all, G, Below(next, at), below) /\ below \in Places(all)
      BY <1>5, <2>2, <3>1, PlacesBelow DEF Settles
    <3>3. Settles(all, G, After(at, below), f[After(at, below)])
      BY <1>5, <2>2, <3>2, PlacesBelow
    <3>4. Settles(all, G, at, f[After(at, below)])
      BY <1>4, <2>2, <3>2, <3>3, SettleStep
    <3> QED
      BY <1>5, <2>2, <3>1, <3>4, SettlesOnce DEF WalkStep
  <2> QED
    BY <2>1, <2>2
<1> QED
  BY <1>6, <1>7 DEF IsVisit

\* What is sorted was seen, once, and after all it refers to.
Sorted(next, at) ==
    /\ ToSet(at.sorted) \subseteq at.seen
    /\ \A i, j \in DOMAIN at.sorted : at.sorted[i] = at.sorted[j] => i = j
    /\ \A i \in DOMAIN at.sorted : \A x \in ToSet(next[at.sorted[i]]) :
          \E j \in DOMAIN at.sorted : j < i /\ at.sorted[j] = x

\* What is being visited.
Open(at) == at.seen \ ToSet(at.sorted)

\* reach[s] is what s refers to, directly or not, and s itself: no circle.
Reaches(all, next, reach) ==
    \A s \in all : /\ s \in reach[s]
                   /\ \A d \in ToSet(next[s]) : reach[d] \subseteq reach[s] /\ s \notin reach[d]

\* Nothing that is pending leads back to what is being visited.
Clear(reach, at) == \A x \in ToSet(at.pending) : \A g \in Open(at) : g \notin reach[x]

Sorts(all, next, reach, at, v) ==
    /\ v \in Places(all) /\ at.seen \subseteq v.seen
    /\ Sorted(next, at) /\ Clear(reach, at) =>
          /\ Sorted(next, v) /\ Open(v) = Open(at)
          /\ ToSet(at.sorted) \cup ToSet(at.pending) \subseteq ToSet(v.sorted)

LEMMA HeadAndTail ==
    ASSUME NEW S, NEW q \in Seq(S), q # <<>>
    PROVE  ToSet(q) = {Head(q)} \cup ToSet(Tail(q))
<1>1. Head(q) = q[1] /\ 1 \in DOMAIN q
  OBVIOUS
<1>2. PICK t : t = Tail(q)
  OBVIOUS
<1>3. \A i \in DOMAIN t : i + 1 \in DOMAIN q /\ t[i] = q[i + 1]
  BY <1>2
<1>4. \A i \in DOMAIN q : i # 1 => i - 1 \in DOMAIN t /\ t[i - 1] = q[i]
  BY <1>2
<1>5. ASSUME NEW x \in ToSet(q) PROVE x \in {Head(q)} \cup ToSet(t)
  <2>1. PICK i \in DOMAIN q : q[i] = x
    BY DEF ToSet
  <2>2. CASE i = 1
    BY <1>1, <2>1, <2>2
  <2>3. CASE i # 1
    <3>1. i - 1 \in DOMAIN t /\ t[i - 1] = x
      BY <1>4, <2>1, <2>3
    <3> QED
      BY <3>1 DEF ToSet
  <2> QED
    BY <2>2, <2>3
<1>6. ASSUME NEW x \in ToSet(t) PROVE x \in ToSet(q)
  <2>1. PICK i \in DOMAIN t : t[i] = x
    BY DEF ToSet
  <2>2. i + 1 \in DOMAIN q /\ q[i + 1] = x
    BY <1>3, <2>1
  <2> QED
    BY <2>2 DEF ToSet
<1>7. Head(q) \in ToSet(q)
  BY <1>1 DEF ToSet
<1> QED
  BY <1>2, <1>5, <1>6, <1>7

LEMMA SortedOneMore ==
    ASSUME NEW all, NEW next \in [all -> Seq(all)], NEW below \in Places(all), NEW s \in all,
           Sorted(next, below), s \in Open(below), ToSet(next[s]) \subseteq ToSet(below.sorted),
           NEW w, w.seen = below.seen, w.sorted = Append(below.sorted, s)
    PROVE  Sorted(next, w)
<1>0. Sorted(next, below)
  OBVIOUS
<1>1. PICK q \in Seq(all) : q = below.sorted
  BY DEF Places
<1>2. PICK t : t = w.sorted
  OBVIOUS
<1>3. /\ t \in Seq(all) /\ Len(t) = Len(q) + 1 /\ Len(q) \in Nat /\ t[Len(q) + 1] = s
      /\ \A i \in 1..Len(q) : t[i] = q[i]
  BY <1>1, <1>2
<1>4. DOMAIN t = DOMAIN q \cup {Len(q) + 1} /\ DOMAIN q = 1..Len(q) /\ DOMAIN t = 1..(Len(q) + 1)
  BY <1>3
<1>5. ToSet(t) = ToSet(q) \cup {s}
  BY <1>3, <1>4 DEF ToSet
<1>6. s \notin ToSet(q) /\ s \in w.seen /\ ToSet(q) \subseteq w.seen
  BY <1>1 DEF Open, Sorted
<1>7. \A i, j \in DOMAIN t : t[i] = t[j] => i = j
  <2>1. \A i \in DOMAIN q : q[i] # s
    BY <1>6 DEF ToSet
  <2>2. \A i, j \in DOMAIN q : q[i] = q[j] => i = j
    BY <1>1 DEF Sorted
  <2> QED
    BY <1>3, <1>4, <2>1, <2>2
<1>8. ASSUME NEW i \in DOMAIN t, NEW x \in ToSet(next[t[i]])
      PROVE  \E j \in DOMAIN t : j < i /\ t[j] = x
  <2>1. CASE i \in DOMAIN q
    <3>0. t[i] = q[i]
      BY <1>3, <1>4, <2>1
    <3>1. \A k \in DOMAIN q : \A y \in ToSet(next[q[k]]) :
             \E j \in DOMAIN q : j < k /\ q[j] = y
      BY ONLY <1>0, <1>1 DEF Sorted
    <3>2. x \in ToSet(next[q[i]])
      BY <3>0
    <3>3. PICK j \in DOMAIN q : j < i /\ q[j] = x
      BY <2>1, <3>1, <3>2
    <3> QED
      BY <1>3, <1>4, <3>3
  <2>2. CASE i = Len(q) + 1
    <3>1. x \in ToSet(q)
      BY <1>1, <1>3, <2>2
    <3>2. PICK j \in DOMAIN q : q[j] = x
      BY <3>1 DEF ToSet
    <3>3. j < i /\ j \in DOMAIN t /\ t[j] = x
      BY <1>3, <1>4, <2>2, <3>2
    <3> QED
      BY <3>3
  <2> QED
    BY <1>4, <2>1, <2>2
<1>10. ToSet(t) \subseteq w.seen
  BY <1>5, <1>6
<1>11. Sorted(next, w)
  <2>1. \A i \in DOMAIN t : \A x \in ToSet(next[t[i]]) : \E j \in DOMAIN t : j < i /\ t[j] = x
    BY <1>8
  <2> QED
    BY ONLY <1>2, <1>7, <2>1, <1>10 DEF Sorted
<1> QED
  BY <1>11

LEMMA SortsStep ==
    ASSUME NEW all, NEW next \in [all -> Seq(all)], NEW reach, Reaches(all, next, reach),
           NEW at \in Places(all), at.pending # <<>>, NEW below \in Places(all), NEW v,
           Head(at.pending) \in at.seen \/ Sorts(all, next, reach, Below(next, at), below),
           Sorts(all, next, reach, After(at, below), v)
    PROVE  Sorts(all, next, reach, at, v)
<1>1. PICK s : s = Head(at.pending)
  OBVIOUS
<1>2. /\ s \in all /\ next[s] \in Seq(all)
      /\ ToSet(at.pending) = {s} \cup ToSet(Tail(at.pending))
      /\ s \in reach[s]
  <2>1. at.pending \in Seq(all)
    BY DEF Places
  <2> QED
    BY <1>1, <2>1, PlacesBelow, HeadAndTail DEF Reaches
<1>3. After(at, below).pending = Tail(at.pending)
  BY DEF After
<1>4. CASE s \in at.seen
  <2>1. After(at, below).seen = at.seen /\ After(at, below).sorted = at.sorted
    BY <1>1, <1>4 DEF After
  <2>2. ASSUME Sorted(next, at), Clear(reach, at)
        PROVE  /\ Sorted(next, v) /\ Open(v) = Open(at)
               /\ ToSet(at.sorted) \cup ToSet(at.pending) \subseteq ToSet(v.sorted)
    <3>1. Open(After(at, below)) = Open(at)
      BY <2>1 DEF Open
    <3>2. s \in ToSet(at.sorted)
      BY <1>2, <1>4, <2>2 DEF Clear, Open
    <3>3. Sorted(next, After(at, below))
      BY <2>1, <2>2 DEF Sorted
    <3>4. Clear(reach, After(at, below))
      BY <1>2, <1>3, <2>2, <3>1 DEF Clear
    <3>5. /\ Sorted(next, v) /\ Open(v) = Open(After(at, below))
          /\ ToSet(at.sorted) \cup ToSet(Tail(at.pending)) \subseteq ToSet(v.sorted)
      BY <1>3, <2>1, <3>3, <3>4 DEF Sorts
    <3> QED
      BY <1>2, <3>1, <3>2, <3>5
  <2> QED
    BY <2>1, <2>2 DEF Sorts
<1>5. CASE s \notin at.seen
  <2>0. /\ Below(next, at).seen = at.seen \cup {s} /\ Below(next, at).sorted = at.sorted
        /\ Below(next, at).pending = next[s]
        /\ After(at, below).seen = below.seen /\ After(at, below).sorted = Append(below.sorted, s)
    BY <1>1, <1>5 DEF Below, After
  <2>1. Sorts(all, next, reach, Below(next, at), below)
    BY <1>1, <1>5
  <2>2. ASSUME Sorted(next, at), Clear(reach, at)
        PROVE  /\ Sorted(next, v) /\ Open(v) = Open(at)
               /\ ToSet(at.sorted) \cup ToSet(at.pending) \subseteq ToSet(v.sorted)
    <3>1. s \notin ToSet(at.sorted) /\ Open(Below(next, at)) = Open(at) \cup {s} /\ s \notin Open(at)
      BY <1>5, <2>0, <2>2 DEF Sorted, Open
    <3>2. Sorted(next, Below(next, at))
      BY <2>0, <2>2 DEF Sorted
    <3>3. Clear(reach, Below(next, at))
      <4>1. \A g \in Open(at) : g \notin reach[s]
        BY <1>2, <2>2 DEF Clear
      <4>2. \A d \in ToSet(next[s]) : reach[d] \subseteq reach[s] /\ s \notin reach[d]
        BY <1>2 DEF Reaches
      <4> QED
        BY <2>0, <3>1, <4>1, <4>2 DEF Clear
    <3>4. /\ Sorted(next, below) /\ Open(below) = Open(at) \cup {s}
          /\ ToSet(at.sorted) \cup ToSet(next[s]) \subseteq ToSet(below.sorted)
      BY <2>0, <2>1, <3>1, <3>2, <3>3 DEF Sorts
    <3>5. PICK w : w = After(at, below)
      OBVIOUS
    <3>6. /\ Sorted(next, w) /\ Open(w) = Open(below) \ {s}
          /\ ToSet(w.sorted) = ToSet(below.sorted) \cup {s}
      <4>1. /\ s \in all /\ Sorted(next, below) /\ s \in Open(below)
            /\ ToSet(next[s]) \subseteq ToSet(below.sorted)
        BY <1>2, <3>4
      <4>2. w.seen = below.seen /\ w.sorted = Append(below.sorted, s)
        BY <2>0, <3>5
      <4>3. Sorted(next, w)
        BY <4>1, <4>2, SortedOneMore
      <4>4. below.sorted \in Seq(all)
        BY DEF Places
      <4>5. ToSet(w.sorted) = ToSet(below.sorted) \cup {s}
        BY <4>1, <4>2, <4>4, Appended
      <4>6. Open(w) = Open(below) \ {s}
        BY <4>2, <4>5 DEF Open
      <4> QED
        BY <4>3, <4>5, <4>6
    <3>7. Open(w) = Open(at)
      BY <3>1, <3>4, <3>6
    <3>8. Clear(reach, w)
      BY <1>2, <1>3, <2>2, <3>5, <3>7 DEF Clear
    <3>9. /\ Sorted(next, v) /\ Open(v) = Open(w)
          /\ ToSet(w.sorted) \cup ToSet(Tail(at.pending)) \subseteq ToSet(v.sorted)
      BY <1>3, <3>5, <3>6, <3>8 DEF Sorts
    <3> QED
      BY <1>2, <3>4, <3>6, <3>7, <3>9
  <2>3. v \in Places(all) /\ at.seen \subseteq v.seen
    BY <2>0, <2>1 DEF Sorts
  <2> QED
    BY <2>2, <2>3 DEF Sorts
<1> QED
  BY <1>4, <1>5

\* What the walk does from any place.
LEMMA VisitSorts ==
    ASSUME NEW all, IsFiniteSet(all), NEW next \in [all -> Seq(all)], NEW reach,
           Reaches(all, next, reach), NEW f, IsVisit(all, next, f), NEW at \in Places(all)
    PROVE  Sorts(all, next, reach, at, f[at])
<1> DEFINE Good == {x \in Places(all) : Sorts(all, next, reach, x, f[x])}
<1>1. \A x \in Places(all) : f[x] = WalkStep(next, f, x)
  BY DEF IsVisit
<1>2. ASSUME NEW x \in Places(all), \A y \in Places(all) : Nearer(all, y, x) => y \in Good
      PROVE  x \in Good
  <2>1. CASE x.pending = <<>>
    <3>1. f[x] = x
      BY <1>1, <2>1 DEF WalkStep
    <3>2. ToSet(x.pending) = {}
      BY <2>1 DEF ToSet
    <3> QED
      BY <3>1, <3>2 DEF Sorts
  <2>2. CASE x.pending # <<>>
    <3>1. PICK below : below = f[Below(next, x)]
      OBVIOUS
    <3>2. f[x] = f[After(x, below)]
      BY <1>1, <2>2, <3>1 DEF WalkStep
    <3>3. CASE Head(x.pending) \notin x.seen
      <4>1. Sorts(all, next, reach, Below(next, x), below)
        BY <1>2, <2>2, <3>1, <3>3, PlacesBelow, GoesNearer
      <4>2. below \in Places(all) /\ Below(next, x).seen \subseteq below.seen
        BY <4>1 DEF Sorts
      <4>3. After(x, below) \in Good
        BY <1>2, <2>2, <4>2, PlacesBelow, GoesNearer
      <4> QED
        BY <2>2, <3>2, <4>1, <4>2, <4>3, SortsStep
    <3>4. CASE Head(x.pending) \in x.seen
      <4>1. After(x, below) = After(x, Below(next, x))
        BY <3>4 DEF After
      <4>2. After(x, Below(next, x)) \in Good
        BY <1>2, <2>2, PlacesBelow, GoesNearer
      <4> QED
        BY <2>2, <3>2, <3>4, <4>1, <4>2, PlacesBelow, SortsStep
    <3> QED
      BY <3>3, <3>4
  <2> QED
    BY <2>1, <2>2
<1> HIDE DEF Good
<1>3. Places(all) \subseteq Good
  BY <1>2, WalkInduction
<1> QED
  BY <1>3 DEF Good

-----------------------------------------------------------------------------
(* The order of the structures.                                            *)

\* What a structure refers to, in the order the walk follows it.
References(structures) ==
    [s \in Range(structures) |-> inOrderOfNames(dependencies(s, structures))]

NamedApart(structures) ==
    /\ IsFiniteSet(DOMAIN structures)
    /\ \A t \in DOMAIN structures : structures[t].name \in Nat
    /\ \A t, u \in DOMAIN structures : t # u => structures[t].name # structures[u].name

LEMMA NamesOfStructures ==
    ASSUME NEW structures, NamedApart(structures)
    PROVE  /\ IsFiniteSet(Range(structures))
           /\ \A s \in Range(structures) : s.name \in Nat
           /\ \A s, d \in Range(structures) : s # d => s.name # d.name
<1>1. Range(structures) = {structures[t] : t \in DOMAIN structures}
  BY DEF Range
<1>2. IsFiniteSet(Range(structures))
  <2>1. PICK T : T = Range(structures)
    OBVIOUS
  <2> DEFINE f == [t \in DOMAIN structures |-> structures[t]]
  <2>2. f \in Surjection(DOMAIN structures, T)
    BY <1>1, <2>1 DEF Surjection
  <2> HIDE DEF f
  <2>3. IsFiniteSet(T)
    BY <2>2, FS_Surjection DEF NamedApart
  <2> QED
    BY <2>1, <2>3
<1> QED
  BY <1>1, <1>2 DEF NamedApart

LEMMA ReferencesInOrder ==
    ASSUME NEW structures, NamedApart(structures)
    PROVE  /\ References(structures) \in [Range(structures) -> Seq(Range(structures))]
           /\ \A s \in Range(structures) : ToSet(References(structures)[s]) = dependencies(s, structures)
           /\ inOrderOfNames(Range(structures)) \in Seq(Range(structures))
           /\ ToSet(inOrderOfNames(Range(structures))) = Range(structures)
<1>1. ASSUME NEW N \in SUBSET Range(structures)
      PROVE  /\ inOrderOfNames(N) \in Seq(N) /\ inOrderOfNames(N) \in Seq(Range(structures))
             /\ ToSet(inOrderOfNames(N)) = N
  <2>1. /\ IsFiniteSet(N) /\ \A x \in N : x.name \in Nat
        /\ \A x, y \in N : x # y => x.name # y.name
    BY NamesOfStructures, FS_Subset
  <2>2. /\ inOrderOfNames(N) \in Seq(N)
        /\ \A x \in N : \E i \in DOMAIN inOrderOfNames(N) : inOrderOfNames(N)[i] = x
    BY <2>1, InOrderHasAll
  <2>3. PICK q : q = inOrderOfNames(N)
    OBVIOUS
  <2>4. q \in Seq(N) /\ \A x \in N : \E i \in DOMAIN q : q[i] = x
    BY <2>2, <2>3
  <2>5. q \in Seq(Range(structures)) /\ ToSet(q) = N
    BY <2>4 DEF ToSet
  <2> QED
    BY <2>3, <2>4, <2>5
<1>2. \A s : dependencies(s, structures) \in SUBSET Range(structures)
  BY DEF dependencies
<1>3. \A s \in Range(structures) :
         References(structures)[s] = inOrderOfNames(dependencies(s, structures))
  BY DEF References
<1>4. References(structures) \in [Range(structures) -> Seq(Range(structures))]
  <2>1. \A s \in Range(structures) :
           inOrderOfNames(dependencies(s, structures)) \in Seq(Range(structures))
    BY <1>1, <1>2
  <2> QED
    BY <2>1 DEF References
<1>5. \A s \in Range(structures) : ToSet(References(structures)[s]) = dependencies(s, structures)
  BY <1>1, <1>2, <1>3
<1>6. /\ inOrderOfNames(Range(structures)) \in Seq(Range(structures))
      /\ ToSet(inOrderOfNames(Range(structures))) = Range(structures)
  BY <1>1
<1> QED
  BY <1>4, <1>5, <1>6

\* Every structure, once, and after those it refers to.
LEMMA StructuresSorted ==
    ASSUME NEW structures, NamedApart(structures), NEW reach,
           Reaches(Range(structures), References(structures), reach)
    PROVE  LET q == sortStructures(structures) IN
           /\ q \in Seq(Range(structures)) /\ ToSet(q) = Range(structures)
           /\ \A i, j \in DOMAIN q : q[i] = q[j] => i = j
           /\ \A i \in DOMAIN q : \A x \in dependencies(q[i], structures) :
                 \E j \in DOMAIN q : j < i /\ q[j] = x
<1> DEFINE all == Range(structures)
           next == References(structures)
           start == [seen |-> {}, sorted |-> <<>>, pending |-> inOrderOfNames(all)]
           Step(f, at) ==
              IF at.pending = <<>> THEN at
              ELSE LET s == Head(at.pending)
                       below == f[[seen |-> at.seen \cup {s}, sorted |-> at.sorted,
                                   pending |-> inOrderOfNames(dependencies(s, structures))]]
                   IN  f[[seen |-> IF s \in at.seen THEN at.seen ELSE below.seen,
                          sorted |-> IF s \in at.seen THEN at.sorted ELSE Append(below.sorted, s),
                          pending |-> Tail(at.pending)]]
           walk == CHOOSE f : f = [at \in [seen : SUBSET all, sorted : Seq(all), pending : Seq(all)]
                                     |-> Step(f, at)]
<1>1. sortStructures(structures) = walk[start].sorted
  BY DEF sortStructures
<1>2. /\ IsFiniteSet(all) /\ next \in [all -> Seq(all)]
      /\ inOrderOfNames(all) \in Seq(all) /\ ToSet(inOrderOfNames(all)) = all
      /\ \A s \in all : ToSet(next[s]) = dependencies(s, structures)
  BY NamesOfStructures, ReferencesInOrder
<1>3. \A f : \A at \in Places(all) : Step(f, at) = WalkStep(next, f, at)
  <2> SUFFICES ASSUME NEW f, NEW at \in Places(all) PROVE Step(f, at) = WalkStep(next, f, at)
    OBVIOUS
  <2>1. CASE at.pending = <<>>
    BY <2>1 DEF WalkStep
  <2>2. CASE at.pending # <<>>
    <3>1. Head(at.pending) \in all
      BY <1>2, <2>2, PlacesBelow
    <3>2. next[Head(at.pending)] = inOrderOfNames(dependencies(Head(at.pending), structures))
      BY <3>1 DEF References
    <3> QED
      BY <2>2, <3>2 DEF WalkStep, Below, After
  <2> QED
    BY <2>1, <2>2
<1> HIDE DEF Step
<1>4. \A f : IsVisit(all, next, f) <=>
         f = [at \in [seen : SUBSET all, sorted : Seq(all), pending : Seq(all)] |-> Step(f, at)]
  BY <1>3 DEF IsVisit, Places
<1>5. IsVisit(all, next, walk)
  <2>1. PICK f : IsVisit(all, next, f)
    BY <1>2, VisitExists
  <2> QED
    BY <1>4, <2>1
<1> HIDE DEF walk
<1>6. start \in Places(all)
  BY <1>2 DEF Places
<1>7. Sorts(all, next, reach, start, walk[start])
  BY <1>2, <1>5, <1>6, VisitSorts
<1>8. Sorted(next, start) /\ Clear(reach, start) /\ Open(start) = {}
  BY DEF Sorted, Clear, Open, ToSet
<1>9. PICK v : v = walk[start]
  OBVIOUS
<1>10. /\ v \in Places(all) /\ Sorted(next, v) /\ all \subseteq ToSet(v.sorted)
  BY <1>2, <1>7, <1>8, <1>9 DEF Sorts
<1>11. PICK q : q = v.sorted
  OBVIOUS
<1>12. q \in Seq(all)
  BY <1>10, <1>11 DEF Places
<1>13. ToSet(q) \subseteq all
  BY <1>12 DEF ToSet
<1>14. /\ \A i, j \in DOMAIN q : q[i] = q[j] => i = j
       /\ \A i \in DOMAIN q : \A x \in ToSet(next[q[i]]) : \E j \in DOMAIN q : j < i /\ q[j] = x
  BY ONLY <1>10, <1>11 DEF Sorted
<1>15. \A i \in DOMAIN q : \A x \in dependencies(q[i], structures) :
          \E j \in DOMAIN q : j < i /\ q[j] = x
  <2> SUFFICES ASSUME NEW i \in DOMAIN q, NEW x \in dependencies(q[i], structures)
               PROVE  \E j \in DOMAIN q : j < i /\ q[j] = x
    OBVIOUS
  <2>1. q[i] \in all
    BY <1>12
  <2>2. x \in ToSet(next[q[i]])
    BY <1>2, <2>1
  <2> QED
    BY <1>14, <2>2
<1>16. q = sortStructures(structures) /\ ToSet(q) = all
  BY <1>1, <1>9, <1>10, <1>11, <1>13
<1> QED
  BY <1>12, <1>14, <1>15, <1>16

-----------------------------------------------------------------------------
(* What a type refers to.                                                  *)

Refers(definitions, raw, ts) ==
    {f.type : f \in UNION {fieldsOf(definitions, t) : t \in ts \cap raw}}

\* g is what is met in up to n steps.
IsClosure(definitions, raw, from, n, g) ==
    g = [k \in 0..n |-> IF k = 0 THEN {from} ELSE g[k - 1] \cup Refers(definitions, raw, g[k - 1])]

LEMMA ClosureExists ==
    ASSUME NEW definitions, NEW raw, NEW from
    PROVE  \A n \in Nat : \E g : IsClosure(definitions, raw, from, n, g)
<1> DEFINE T == {n \in Nat : \E g : IsClosure(definitions, raw, from, n, g)}
           grown(c) == c \cup Refers(definitions, raw, c)
<1>1. 0 \in T
  <2>1. IsClosure(definitions, raw, from, 0, [k \in 0..0 |-> {from}])
    BY DEF IsClosure
  <2> QED
    BY <2>1
<1>2. ASSUME NEW n \in Nat, n \in T PROVE n + 1 \in T
  <2>1. PICK h : IsClosure(definitions, raw, from, n, h)
    BY <1>2
  <2>2. \A k \in 0..n : h[k] = IF k = 0 THEN {from} ELSE grown(h[k - 1])
    BY <2>1 DEF IsClosure
  <2> HIDE DEF grown
  <2> DEFINE g == [k \in 0..(n + 1) |-> IF k = n + 1 THEN grown(h[n]) ELSE h[k]]
  <2>3. ASSUME NEW k \in 0..(n + 1)
        PROVE  g[k] = IF k = 0 THEN {from} ELSE grown(g[k - 1])
    <3>1. CASE k = n + 1
      <4>1. k - 1 = n /\ n \in 0..(n + 1) /\ k # 0 /\ n # n + 1
        BY <3>1
      <4> QED
        BY <3>1, <4>1
    <3>2. CASE k # n + 1
      <4>1. k \in 0..n /\ g[k] = h[k]
        BY <3>2
      <4>2. k # 0 => k - 1 \in 0..(n + 1) /\ k - 1 # n + 1 /\ g[k - 1] = h[k - 1]
        BY <3>2
      <4> HIDE DEF g
      <4> QED
        BY <2>2, <4>1, <4>2
    <3> QED
      BY <3>1, <3>2
  <2>4. g = [k \in 0..(n + 1) |-> g[k]]
    OBVIOUS
  <2> HIDE DEF g
  <2>5. g = [k \in 0..(n + 1) |-> IF k = 0 THEN {from} ELSE grown(g[k - 1])]
    BY <2>3, <2>4
  <2>6. IsClosure(definitions, raw, from, n + 1, g)
    BY <2>5 DEF IsClosure, grown
  <2> QED
    BY <2>6
<1> HIDE DEF T
<1>3. Nat \subseteq T
  BY <1>1, <1>2, Induction
<1> QED
  BY <1>3 DEF T

\* In as many steps as there are structures everything has been met.
LEMMA ClosureIsClosed ==
    ASSUME NEW definitions, NEW raw, IsFiniteSet(raw), NEW from \in raw, NEW g,
           IsClosure(definitions, raw, from, Cardinality(raw), g)
    PROVE  LET C == g[Cardinality(raw)] IN
           /\ from \in C /\ Refers(definitions, raw, C) \subseteq C
           /\ \A D : from \in D /\ Refers(definitions, raw, D) \subseteq D => C \subseteq D
<1> DEFINE N == Cardinality(raw)
           R(c) == Refers(definitions, raw, c)
<1>1. N \in Nat
  BY FS_CardinalityType
<1>2. g[0] = {from} /\ \A k \in 0..N : k # 0 => g[k] = g[k - 1] \cup R(g[k - 1])
  <2>1. \A k \in 0..N : g[k] = IF k = 0 THEN {from} ELSE g[k - 1] \cup R(g[k - 1])
    BY DEF IsClosure
  <2>2. 0 \in 0..N
    BY <1>1
  <2> HIDE DEF R, N
  <2> QED
    BY <2>1, <2>2
<1>3. \A c, D : c \subseteq D => R(c) \subseteq R(D)
  BY DEF Refers
<1>4. \A c, D : c \cap raw = D \cap raw => R(c) = R(D)
  BY DEF Refers
<1> HIDE DEF R, N
<1>5. ASSUME NEW D, from \in D, R(D) \subseteq D PROVE g[N] \subseteq D
  <2> DEFINE T == {k \in Nat : k <= N => g[k] \subseteq D}
  <2>1. 0 \in T
    BY <1>2, <1>5
  <2>2. ASSUME NEW k \in Nat, k \in T PROVE k + 1 \in T
    <3>1. CASE k + 1 <= N
      <4>1. k + 1 \in 0..N /\ k + 1 # 0 /\ (k + 1) - 1 = k /\ k <= N
        BY <1>1, <3>1
      <4>2. g[k + 1] = g[k] \cup R(g[k]) /\ g[k] \subseteq D
        BY <1>2, <2>2, <4>1
      <4> QED
        BY <1>3, <1>5, <4>2
    <3> QED
      BY <3>1
  <2> HIDE DEF T
  <2>3. N \in T
    BY <1>1, <2>1, <2>2, Induction
  <2> QED
    BY <1>1, <2>3 DEF T
<1>6. from \in g[N] /\ R(g[N]) \subseteq g[N]
  <2> DEFINE met(k) == g[k] \cap raw
             T == {k \in Nat : k <= N => /\ from \in g[k]
                                         /\ R(g[k]) \subseteq g[k] \/ k + 1 <= Cardinality(met(k))}
  <2>0. \A k : IsFiniteSet(met(k)) /\ Cardinality(met(k)) \in Nat /\ Cardinality(met(k)) <= N
    BY FS_Subset, FS_CardinalityType DEF N
  <2>1. 0 \in T
    <3>1. met(0) = {from}
      BY <1>2
    <3>2. Cardinality(met(0)) = 1
      BY <3>1, FS_Singleton
    <3> HIDE DEF met
    <3> QED
      BY <1>2, <3>2
  <2>2. ASSUME NEW k \in Nat, k \in T PROVE k + 1 \in T
    <3> SUFFICES ASSUME k + 1 <= N
                 PROVE  /\ from \in g[k + 1]
                        /\ R(g[k + 1]) \subseteq g[k + 1] \/ (k + 1) + 1 <= Cardinality(met(k + 1))
      OBVIOUS
    <3>1. k + 1 \in 0..N /\ k + 1 # 0 /\ (k + 1) - 1 = k /\ k <= N
      BY <1>1
    <3>2. g[k + 1] = g[k] \cup R(g[k])
      BY <1>2, <3>1
    <3>3. from \in g[k] /\ (R(g[k]) \subseteq g[k] \/ k + 1 <= Cardinality(met(k)))
      BY <2>2, <3>1
    <3>4. CASE R(g[k]) \subseteq g[k]
      <4>1. g[k + 1] = g[k]
        BY <3>2, <3>4
      <4> QED
        BY <3>3, <3>4, <4>1
    <3>5. CASE met(k + 1) = met(k)
      <4>1. R(g[k + 1]) = R(g[k])
        BY <1>4, <3>5
      <4> QED
        BY <3>2, <3>3, <4>1
    <3>6. CASE met(k + 1) # met(k) /\ k + 1 <= Cardinality(met(k))
      <4>1. met(k) \in SUBSET met(k + 1)
        BY <3>2
      <4> HIDE DEF met
      <4>2. Cardinality(met(k)) < Cardinality(met(k + 1))
        BY <2>0, <3>6, <4>1, FS_Subset
      <4> QED
        BY <2>0, <3>2, <3>3, <3>6, <4>2
    <3> QED
      BY <3>3, <3>4, <3>5, <3>6
  <2> HIDE DEF T
  <2>3. N \in T
    BY <1>1, <2>1, <2>2, Induction
  <2>4. from \in g[N] /\ (R(g[N]) \subseteq g[N] \/ N + 1 <= Cardinality(met(N)))
    BY <1>1, <2>3 DEF T
  <2> HIDE DEF met
  <2> QED
    BY <1>1, <2>0, <2>4
<1> QED
  BY <1>5, <1>6 DEF N, R

\* What a structure reaches includes itself, its fields' types, and what these reach.
LEMMA ReachesIsTransitive ==
    ASSUME NEW definitions, NEW raw, IsFiniteSet(raw), NEW t \in raw
    PROVE  /\ reaches(definitions, raw, t, t)
           /\ \A u \in raw : \A f \in fieldsOf(definitions, u) :
                 reaches(definitions, raw, t, u) => reaches(definitions, raw, t, f.type)
           /\ \A u \in raw : \A w : reaches(definitions, raw, t, u) /\ reaches(definitions, raw, u, w)
                                       => reaches(definitions, raw, t, w)
<1>1. ASSUME NEW from \in raw
      PROVE  \E C : /\ \A w : reaches(definitions, raw, from, w) <=> w \in C
                    /\ from \in C /\ Refers(definitions, raw, C) \subseteq C
                    /\ \A D : from \in D /\ Refers(definitions, raw, D) \subseteq D => C \subseteq D
  <2> DEFINE N == Cardinality(raw)
             closure == CHOOSE g : g = [k \in 0..N |->
                 IF k = 0 THEN {from}
                 ELSE g[k - 1] \cup
                      {f.type : f \in UNION {fieldsOf(definitions, u) : u \in g[k - 1] \cap raw}}]
  <2>1. \A w : reaches(definitions, raw, from, w) <=> w \in closure[N]
    BY DEF reaches
  <2>2. IsClosure(definitions, raw, from, N, closure)
    <3>1. N \in Nat
      BY FS_CardinalityType
    <3>2. PICK g : IsClosure(definitions, raw, from, N, g)
      BY <3>1, ClosureExists
    <3> QED
      BY <3>2 DEF IsClosure, Refers
  <2> HIDE DEF closure
  <2>3. /\ from \in closure[N] /\ Refers(definitions, raw, closure[N]) \subseteq closure[N]
        /\ \A D : from \in D /\ Refers(definitions, raw, D) \subseteq D => closure[N] \subseteq D
    BY <2>2, ClosureIsClosed
  <2> QED
    BY <2>1, <2>3
<1>2. PICK C : /\ \A w : reaches(definitions, raw, t, w) <=> w \in C
               /\ t \in C /\ Refers(definitions, raw, C) \subseteq C
  BY <1>1
<1>3. \A u \in raw : \A f \in fieldsOf(definitions, u) : u \in C => f.type \in C
  BY <1>2 DEF Refers
<1>4. ASSUME NEW u \in raw, u \in C, NEW w, reaches(definitions, raw, u, w) PROVE w \in C
  <2>1. PICK E : /\ \A x : reaches(definitions, raw, u, x) <=> x \in E
                 /\ \A D : u \in D /\ Refers(definitions, raw, D) \subseteq D => E \subseteq D
    BY <1>1
  <2> QED
    BY <1>2, <1>4, <2>1
<1> QED
  BY <1>2, <1>3, <1>4

\* A field that refers to a structure does so for a type that does not lead back.
RefersWithoutCircle(definitions, raw, structures) ==
    \A t \in DOMAIN structures : \A i \in DOMAIN structures[t].fields :
       structures[t].fields[i].schema.tag = "Structure" =>
          \E f \in fieldsOf(definitions, t) :
             /\ f.type \in DOMAIN structures /\ ~reaches(definitions, raw, f.type, t)
             /\ structures[t].fields[i].schema.name = structures[f.type].name


\* The fields that are emitted as structures lead to no circle.
LEMMA StructuresMakeNoCircle ==
    ASSUME NEW definitions, NEW raw, IsFiniteSet(raw), NEW structures, NamedApart(structures),
           DOMAIN structures \subseteq raw,
           RefersWithoutCircle(definitions, raw, structures)
    PROVE  \E reach : Reaches(Range(structures), References(structures), reach)
<1> DEFINE all == Range(structures)
           met(s) == {w \in DOMAIN structures : \E t \in DOMAIN structures :
                         structures[t] = s /\ reaches(definitions, raw, t, w)}
           reach == [s \in all |-> {structures[w] : w \in met(s)}]
<1>1. \A s \in all : reach[s] = {structures[w] : w \in met(s)}
  OBVIOUS
<1>2. \A t, u \in DOMAIN structures : structures[t] = structures[u] => t = u
  BY DEF NamedApart
<1> HIDE DEF reach
<1>3. ASSUME NEW s \in all PROVE s \in reach[s]
  <2>1. PICK t \in DOMAIN structures : structures[t] = s
    BY DEF Range
  <2>2. t \in met(s)
    BY <2>1, ReachesIsTransitive
  <2> QED
    BY <1>1, <2>1, <2>2
<1>4. ASSUME NEW s \in all, NEW d \in dependencies(s, structures)
      PROVE  reach[d] \subseteq reach[s] /\ s \notin reach[d]
  <2>1. PICK t \in DOMAIN structures : structures[t] = s
    BY DEF Range
  <2>2. PICK i \in DOMAIN s.fields : s.fields[i].schema.tag = "Structure"
                                     /\ s.fields[i].schema.name = d.name
    BY <1>4 DEF dependencies
  <2>3. d \in all
    BY <1>4 DEF dependencies
  <2>4. PICK u \in DOMAIN structures : structures[u] = d
    BY <2>3 DEF Range
  <2>5. PICK f \in fieldsOf(definitions, t) :
           /\ f.type \in DOMAIN structures /\ ~reaches(definitions, raw, f.type, t)
           /\ structures[t].fields[i].schema.name = structures[f.type].name
    BY <2>1, <2>2 DEF RefersWithoutCircle
  <2>6. f.type = u
    BY <2>1, <2>2, <2>4, <2>5 DEF NamedApart
  <2>7. reaches(definitions, raw, t, u)
    BY <2>5, <2>6, ReachesIsTransitive
  <2>8. ASSUME NEW w \in met(d) PROVE w \in met(s) /\ w # t
    <3>1. reaches(definitions, raw, u, w)
      BY <1>2, <2>4, <2>8
    <3>2. reaches(definitions, raw, t, w)
      BY <2>7, <3>1, ReachesIsTransitive
    <3> QED
      BY <2>1, <2>5, <2>6, <3>1, <3>2
  <2> HIDE DEF met
  <2>9. reach[d] \subseteq reach[s]
    BY <1>1, <2>3, <2>8
  <2>10. s \notin reach[d]
    <3> SUFFICES ASSUME s \in reach[d] PROVE FALSE
      OBVIOUS
    <3>1. PICK w \in met(d) : structures[w] = s
      BY <1>1, <2>3
    <3>2. w \in DOMAIN structures
      BY <3>1 DEF met
    <3> QED
      BY <1>2, <2>1, <2>8, <3>1, <3>2
  <2> QED
    BY <2>9, <2>10
<1>5. \A s \in all : ToSet(References(structures)[s]) = dependencies(s, structures)
  BY ReferencesInOrder
<1>6. Reaches(all, References(structures), reach)
  BY <1>3, <1>4, <1>5 DEF Reaches
<1> QED
  BY <1>6

-----------------------------------------------------------------------------
(* What is compiled.                                                       *)

Definitions(c, types, results) == reachableDefinitions(c, types, results).definitions

LEMMA DefinitionsWereRead ==
    ASSUME NEW c, NEW types, NEW results
    PROVE  /\ DOMAIN Definitions(c, types, results) \subseteq DOMAIN results
           /\ \A t \in DOMAIN Definitions(c, types, results) :
                 results[t].tag = "Success" /\ Definitions(c, types, results)[t] = results[t].definition
BY DEF Definitions, reachableDefinitions

LEMMA EnumsNamedApart ==
    ASSUME NEW definitions
    PROVE  LET enums == compileEnums(definitions).enums IN
           /\ DOMAIN enums \subseteq DOMAIN definitions
           /\ \A t, u \in DOMAIN enums : t # u => enums[t].name # enums[u].name
<1> DEFINE ts == tagged(definitions, "Enum")
           named == ts \ (unnamedIn(definitions, ts) \cup collidingIn(definitions, ts))
<1>1. PICK enums : enums = compileEnums(definitions).enums
  OBVIOUS
<1>2. /\ DOMAIN enums \subseteq named
      /\ \A t \in DOMAIN enums : enums[t].name = typeName(definitions, t)
  BY <1>1 DEF compileEnums
<1>3. \A t, u \in named : t # u => typeName(definitions, t) # typeName(definitions, u)
  BY DEF unnamedIn, collidingIn
<1>4. named \subseteq DOMAIN definitions
  BY DEF tagged
<1> HIDE DEF named
<1> QED
  BY <1>1, <1>2, <1>3, <1>4

\* What the schema of a field says of its type.
LEMMA SchemaOfField ==
    ASSUME NEW f, NEW definitions, NEW enumGraph, NEW valid
    PROVE  LET schema == fieldSchema(f, definitions, enumGraph, valid) IN
           /\ schema.tag = "Structure" =>
                 f.type \in valid /\ schema.name = typeName(definitions, f.type)
           /\ schema.tag = "Enum" =>
                 f.type \in DOMAIN enumGraph.enums /\ schema.name = enumGraph.enums[f.type].name
BY DEF fieldSchema, Unknown

\* The structures are named apart, and their fields refer to structures and enums
\* that are emitted, the structures without a circle.
LEMMA StructuresCompiled ==
    ASSUME NEW c, NEW definitions, NEW enumGraph
    PROVE  LET structures == compileStructures(c, definitions, enumGraph).structures
               raw == tagged(definitions, "Structure")
           IN
           /\ DOMAIN structures \subseteq raw
           /\ \A t \in DOMAIN structures : structures[t].name = typeName(definitions, t)
           /\ \A t, u \in DOMAIN structures : t # u => structures[t].name # structures[u].name
           /\ \A t \in DOMAIN structures : \A i \in DOMAIN structures[t].fields :
                 /\ structures[t].fields[i].schema.tag = "Structure" =>
                       \E f \in fieldsOf(definitions, t) :
                          /\ f.type \in DOMAIN structures /\ ~reaches(definitions, raw, f.type, t)
                          /\ structures[t].fields[i].schema.name = structures[f.type].name
                 /\ structures[t].fields[i].schema.tag = "Enum" =>
                       \E u \in DOMAIN enumGraph.enums :
                          structures[t].fields[i].schema.name = enumGraph.enums[u].name
<1> DEFINE raw == tagged(definitions, "Structure")
           named == raw \ (unnamedIn(definitions, raw) \cup collidingIn(definitions, raw))
           recursive(t) == recursiveStructureFields(definitions, raw, t)
           schemaOf(valid, t, f) == IF f \in recursive(t) THEN Unknown
                                    ELSE fieldSchema(f, definitions, enumGraph, valid)
<1>1. PICK structures : structures = compileStructures(c, definitions, enumGraph).structures
  OBVIOUS
<1>2. /\ DOMAIN structures \subseteq named
      /\ \A t \in DOMAIN structures :
            /\ structures[t].name = typeName(definitions, t)
            /\ DOMAIN structures[t].fields = DOMAIN definitions[t].fields
            /\ \A i \in DOMAIN structures[t].fields :
                  structures[t].fields[i].schema
                     = schemaOf(DOMAIN structures, t, definitions[t].fields[i])
  BY <1>1 DEF compileStructures
<1>3. \A t, u \in named : t # u => typeName(definitions, t) # typeName(definitions, u)
  BY DEF unnamedIn, collidingIn
<1> HIDE DEF schemaOf
<1>4. ASSUME NEW t \in DOMAIN structures, NEW i \in DOMAIN structures[t].fields
      PROVE  /\ structures[t].fields[i].schema.tag = "Structure" =>
                   \E f \in fieldsOf(definitions, t) :
                      /\ f.type \in DOMAIN structures /\ ~reaches(definitions, raw, f.type, t)
                      /\ structures[t].fields[i].schema.name = structures[f.type].name
             /\ structures[t].fields[i].schema.tag = "Enum" =>
                   \E u \in DOMAIN enumGraph.enums :
                      structures[t].fields[i].schema.name = enumGraph.enums[u].name
  <2>1. PICK f, schema : f = definitions[t].fields[i] /\ schema = structures[t].fields[i].schema
    OBVIOUS
  <2>2. f \in fieldsOf(definitions, t)
    BY <1>2, <2>1 DEF fieldsOf, ToSet
  <2>3. schema = schemaOf(DOMAIN structures, t, f)
    BY <1>2, <2>1
  <2>4. schema.tag \in {"Structure", "Enum"} =>
           /\ f \notin recursive(t)
           /\ schema = fieldSchema(f, definitions, enumGraph, DOMAIN structures)
    BY <2>3 DEF schemaOf, Unknown
  <2>5. schema.tag = "Structure" =>
           f.type \in DOMAIN structures /\ schema.name = typeName(definitions, f.type)
    BY <2>4, SchemaOfField
  <2>6. schema.tag = "Enum" =>
           f.type \in DOMAIN enumGraph.enums /\ schema.name = enumGraph.enums[f.type].name
    BY <2>4, SchemaOfField
  <2>7. schema.tag = "Structure" => ~reaches(definitions, raw, f.type, t)
    BY <1>2, <2>2, <2>4, <2>5 DEF recursiveStructureFields
  <2> QED
    BY <1>2, <2>1, <2>2, <2>5, <2>6, <2>7
<1> HIDE DEF raw
<1>5. named \subseteq raw
  OBVIOUS
<1> HIDE DEF named
<1> QED
  BY <1>1, <1>2, <1>3, <1>4, <1>5 DEF raw

\* A variable's codec refers to what the graph has.
LEMMA CodecOfVariable ==
    ASSUME NEW c, NEW items, NEW graph, NEW v \in compileVariables(c, items, graph).variables
    PROVE  /\ v.codec.tag = "Structure" =>
                 \E t \in DOMAIN graph.structures : v.codec.name = graph.structures[t].name
           /\ v.codec.tag = "Enum" =>
                 \E t \in DOMAIN graph.enums : v.codec.name = graph.enums[t].name
<1>1. PICK item \in items : v.codec = variableCodec(item.node, graph)
  BY DEF compileVariables
<1>2. PICK codec : codec = variableCodec(item.node, graph)
  OBVIOUS
<1>3. PICK t : t = space.nodes[item.node].dataType
  OBVIOUS
<1>4. /\ codec.tag = "Structure" =>
            t \in DOMAIN graph.structures /\ codec.name = graph.structures[t].name
      /\ codec.tag = "Enum" => t \in DOMAIN graph.enums /\ codec.name = graph.enums[t].name
  BY <1>2, <1>3 DEF variableCodec
<1>5. v.codec = codec
  BY <1>1, <1>2
<1> QED
  BY ONLY <1>4, <1>5

\* A collision of paths is an error.
LEMMA PathsDoNotCollide ==
    ASSUME NEW variables, NEW graph, ~isFatal(modelIssues(variables, graph)),
           NEW v \in variables, NEW w \in variables, v # w
    PROVE  ~IsPrefix(v.generatedPath, w.generatedPath)
<1>1. ASSUME NEW code \in {"path.generatedPathCollision", "path.branchLeafCollision"},
             issue(code, v.generatedPath) \in modelIssues(variables, graph)
      PROVE  FALSE
  <2>1. issue(code, v.generatedPath).severity = "error"
    BY DEF issue, infoCodes, warningCodes
  <2> QED
    BY <1>1, <2>1 DEF isFatal
<1>2. CASE v.generatedPath = w.generatedPath
  BY <1>1, <1>2 DEF modelIssues
<1>3. CASE v.generatedPath # w.generatedPath /\ IsPrefix(v.generatedPath, w.generatedPath)
  <2>1. IsStrictPrefix(v.generatedPath, w.generatedPath)
    BY <1>3 DEF IsStrictPrefix
  <2> QED
    BY <1>1, <2>1 DEF modelIssues
<1> QED
  BY <1>2, <1>3

\* The parts of the model.
LEMMA ModelParts ==
    ASSUME NEW c, ~isFatal(compile(c).issues)
    PROVE  \E items, types : LET graph == compileReachableTypes(c, types, dataTypeResults)
                                 variables == compileVariables(c, items, graph).variables
                             IN  /\ compile(c).model = [variables |-> variables, enums |-> graph.enums,
                                         structures |-> sortStructures(graph.structures)]
                                 /\ ~isFatal(modelIssues(variables, graph))
<1> DEFINE items == surfaceNodes(c)
           early == issues \cup pathIssues(items)
           variableItems == {i \in items : space.nodes[i.node].nodeClass = "Variable"}
           types == {space.nodes[i.node].dataType : i \in variableItems}
           graph == compileReachableTypes(c, types, dataTypeResults)
           result == compileVariables(c, variableItems, graph)
<1>1. compile(c) = IF isFatal(early) THEN [issues |-> early, model |-> emptyMap]
                   ELSE [issues |-> early \cup graph.issues \cup result.issues
                                       \cup modelIssues(result.variables, graph),
                         model |-> [variables |-> result.variables, enums |-> graph.enums,
                                    structures |-> sortStructures(graph.structures)]]
  BY DEF compile
<1> HIDE DEF items, early, variableItems, types, graph, result
<1>2. ~isFatal(early)
  BY <1>1
<1>3. /\ compile(c).issues = early \cup graph.issues \cup result.issues
                                \cup modelIssues(result.variables, graph)
      /\ compile(c).model = [variables |-> result.variables, enums |-> graph.enums,
                             structures |-> sortStructures(graph.structures)]
  BY <1>1, <1>2
<1>4. ~isFatal(modelIssues(result.variables, graph))
  BY <1>3 DEF isFatal
<1> QED
  BY <1>3, <1>4 DEF graph, result

-----------------------------------------------------------------------------
(* What is emitted hangs together.                                         *)

\* The number of names is the number of what is named apart.
LEMMA AsManyNames ==
    ASSUME NEW named, IsFiniteSet(DOMAIN named),
           \A t, u \in DOMAIN named : t # u => named[t].name # named[u].name
    PROVE  Cardinality({e.name : e \in Range(named)}) = Cardinality(DOMAIN named)
<1> DEFINE f == [t \in DOMAIN named |-> named[t].name]
<1>1. PICK N : N = {e.name : e \in Range(named)}
  OBVIOUS
<1>2. N = {named[t].name : t \in DOMAIN named}
  BY <1>1 DEF Range
<1>3. f \in Surjection(DOMAIN named, N)
  BY <1>2 DEF Surjection
<1>4. f \in Injection(DOMAIN named, N)
  BY <1>2 DEF Injection, IsInjective
<1> HIDE DEF f
<1>5. IsFiniteSet(N) /\ Cardinality(N) <= Cardinality(DOMAIN named)
  BY <1>3, FS_Surjection
<1>6. Cardinality(DOMAIN named) <= Cardinality(N)
  BY <1>4, <1>5, FS_Injection
<1>7. Cardinality(N) \in Nat /\ Cardinality(DOMAIN named) \in Nat
  BY <1>5, FS_CardinalityType
<1> QED
  BY <1>1, <1>5, <1>6, <1>7

LEMMA CompiledModelHangsTogether ==
    ASSUME NEW c, NEW items, NEW types, NEW results, IsFiniteSet(DOMAIN results),
           \A t \in DOMAIN results : results[t].tag = "Success" =>
              sanitizePascal[results[t].definition.name] \in Nat,
           NEW graph, graph = compileReachableTypes(c, types, results),
           NEW variables, variables = compileVariables(c, items, graph).variables,
           ~isFatal(modelIssues(variables, graph))
    PROVE  HangsTogether([variables |-> variables, enums |-> graph.enums,
                          structures |-> sortStructures(graph.structures)])
<1>1. PICK definitions : definitions = Definitions(c, types, results)
  OBVIOUS
<1>2. PICK enumGraph, raw : enumGraph = compileEnums(definitions)
                            /\ raw = tagged(definitions, "Structure")
  OBVIOUS
<1>3. PICK enums, structures :
         /\ enums = enumGraph.enums
         /\ structures = compileStructures(c, definitions, enumGraph).structures
  OBVIOUS
<1>4. graph.enums = enums /\ graph.structures = structures
  BY <1>1, <1>2, <1>3 DEF compileReachableTypes, Definitions
<1>5. /\ DOMAIN definitions \subseteq DOMAIN results
      /\ \A t \in DOMAIN definitions : sanitizePascal[definitions[t].name] \in Nat
  BY <1>1, DefinitionsWereRead
<1>6. /\ DOMAIN enums \subseteq DOMAIN definitions
      /\ \A t, u \in DOMAIN enums : t # u => enums[t].name # enums[u].name
  BY <1>2, <1>3, EnumsNamedApart
<1>7. /\ DOMAIN structures \subseteq raw
      /\ \A t \in DOMAIN structures : structures[t].name = typeName(definitions, t)
      /\ \A t, u \in DOMAIN structures : t # u => structures[t].name # structures[u].name
      /\ \A t \in DOMAIN structures : \A i \in DOMAIN structures[t].fields :
            /\ structures[t].fields[i].schema.tag = "Structure" =>
                  \E f \in fieldsOf(definitions, t) :
                     /\ f.type \in DOMAIN structures /\ ~reaches(definitions, raw, f.type, t)
                     /\ structures[t].fields[i].schema.name = structures[f.type].name
            /\ structures[t].fields[i].schema.tag = "Enum" =>
                  \E u \in DOMAIN enums : structures[t].fields[i].schema.name = enums[u].name
  BY <1>2, <1>3, StructuresCompiled
<1>8. IsFiniteSet(DOMAIN enums) /\ IsFiniteSet(raw) /\ IsFiniteSet(DOMAIN structures)
      /\ raw \subseteq DOMAIN definitions
  <2>1. raw \subseteq DOMAIN definitions
    BY <1>2 DEF tagged
  <2> QED
    BY <1>5, <1>6, <1>7, <2>1, FS_Subset
<1>9. NamedApart(structures)
  BY <1>5, <1>7, <1>8 DEF NamedApart, typeName
<1>10. PICK reach : Reaches(Range(structures), References(structures), reach)
  <2>1. RefersWithoutCircle(definitions, raw, structures)
    BY ONLY <1>7 DEF RefersWithoutCircle
  <2>2. DOMAIN structures \subseteq raw /\ IsFiniteSet(raw)
    BY <1>7, <1>8
  <2> QED
    BY <1>9, <2>1, <2>2, StructuresMakeNoCircle
<1>11. PICK q : q = sortStructures(structures)
  OBVIOUS
<1>12. /\ q \in Seq(Range(structures)) /\ ToSet(q) = Range(structures)
       /\ \A i, j \in DOMAIN q : q[i] = q[j] => i = j
       /\ \A i \in DOMAIN q : \A x \in dependencies(q[i], structures) :
             \E j \in DOMAIN q : j < i /\ q[j] = x
  BY <1>9, <1>10, <1>11, StructuresSorted
<1>13. DOMAIN q = 1..Len(q) /\ Len(q) \in Nat
  BY <1>12
<1> DEFINE namesUpTo(i) == {q[j].name : j \in 1..i}
           enumNames == {e.name : e \in Range(enums)}
<1>14. \A u \in DOMAIN enums : enums[u].name \in enumNames
  BY DEF Range
<1>15. \A t \in DOMAIN structures : structures[t].name \in namesUpTo(Len(q))
  <2> SUFFICES ASSUME NEW t \in DOMAIN structures PROVE structures[t].name \in namesUpTo(Len(q))
    OBVIOUS
  <2>1. structures[t] \in ToSet(q)
    BY <1>12 DEF Range
  <2>2. PICK j \in DOMAIN q : q[j] = structures[t]
    BY <2>1 DEF ToSet
  <2> QED
    BY <1>13, <2>2
<1>16. ASSUME NEW i \in DOMAIN q PROVE q[i].name \notin namesUpTo(i - 1)
  <2> SUFFICES ASSUME NEW j \in 1..(i - 1), q[j].name = q[i].name PROVE FALSE
    OBVIOUS
  <2>1. j \in DOMAIN q /\ j # i
    BY <1>13
  <2>2. q[j] \in Range(structures) /\ q[i] \in Range(structures)
    BY <1>12, <2>1
  <2>3. q[j] = q[i]
    BY <1>9, <2>2, NamesOfStructures
  <2> QED
    BY <1>12, <2>1, <2>3
<1>17. ASSUME NEW i \in DOMAIN q, NEW k \in DOMAIN q[i].fields
       PROVE  refersOnlyTo(q[i].fields[k].schema, namesUpTo(i - 1), enumNames)
  <2>1. PICK t \in DOMAIN structures : q[i] = structures[t]
    BY <1>12 DEF Range
  <2>2. PICK schema : schema = q[i].fields[k].schema
    OBVIOUS
  <2>3. ASSUME schema.tag = "Structure" PROVE schema.name \in namesUpTo(i - 1)
    <3>1. PICK u \in DOMAIN structures : schema.name = structures[u].name
      BY <1>7, <2>1, <2>2, <2>3
    <3>2. structures[u] \in dependencies(q[i], structures)
      BY <2>2, <2>3, <3>1 DEF dependencies, Range
    <3>3. PICK j \in DOMAIN q : j < i /\ q[j] = structures[u]
      BY <1>12, <3>2
    <3>4. j \in 1..(i - 1)
      BY <1>13, <3>3
    <3> QED
      BY <3>1, <3>3, <3>4
  <2>4. schema.tag = "Enum" => schema.name \in enumNames
    BY <1>7, <1>14, <2>1, <2>2
  <2> QED
    BY <2>2, <2>3, <2>4 DEF refersOnlyTo
<1>18. ASSUME NEW v \in variables
       PROVE  refersOnlyTo(v.codec, namesUpTo(Len(q)), enumNames)
  <2>1. /\ v.codec.tag = "Structure" =>
              \E t \in DOMAIN structures : v.codec.name = structures[t].name
        /\ v.codec.tag = "Enum" => \E u \in DOMAIN enums : v.codec.name = enums[u].name
    BY <1>4, CodecOfVariable
  <2> QED
    BY <1>14, <1>15, <2>1 DEF refersOnlyTo
<1>19. \A v, w \in variables : v # w => ~IsPrefix(v.generatedPath, w.generatedPath)
  BY PathsDoNotCollide
<1>20. Cardinality(enumNames) = Cardinality(DOMAIN enums)
  BY <1>6, <1>8, AsManyNames
<1>21. PICK emitted : emitted = [variables |-> variables, enums |-> enums, structures |-> q]
  OBVIOUS
<1>22. emitted.variables = variables /\ emitted.enums = enums /\ emitted.structures = q
  BY <1>21
<1> HIDE DEF namesUpTo, enumNames
<1>23. HangsTogether(emitted)
  BY <1>16, <1>17, <1>18, <1>19, <1>20, <1>22 DEF HangsTogether, namesUpTo, enumNames
<1> QED
  BY <1>4, <1>11, <1>21, <1>23

-----------------------------------------------------------------------------
(* The data types that are read.                                           *)

\* What is discovered lies in the space, and what is read of the data types is of
\* the server's, whichever of its worlds that is.
TypesInv ==
    /\ DOMAIN nodes \subseteq SpaceNodes
    /\ IsFiniteSet(DOMAIN dataTypeResults)
    /\ \A world \in TypeWorlds : typeQueue \cup DOMAIN dataTypeResults \subseteq DOMAIN world
    /\ \A t \in DOMAIN dataTypeResults : dataTypeResults[t].tag = "Success" =>
          sanitizePascal[dataTypeResults[t].definition.name] \in Nat

LEMMA InitTypesInv == Init => TypesInv
BY FS_EmptySet DEF Init, InitDiscover, TypesInv, emptyMap

LEMMA NodesStayInSpace ==
    ASSUME NEW items, nodes' = addOrUpdateNodes(nodes, items), space' = space,
           DOMAIN nodes \subseteq SpaceNodes, \A i \in items : i.nodeId \in SpaceNodes
    PROVE  (DOMAIN nodes \subseteq SpaceNodes)'
<1>1. DOMAIN nodes' \subseteq DOMAIN nodes \cup {i.nodeId : i \in items}
  BY DEF addOrUpdateNodes
<1> QED
  BY <1>1 DEF SpaceNodes

LEMMA WalkKeepsTypes ==
    ASSUME WalkInv, TypesInv, ResolveRoot \/ Visit
    PROVE  TypesInv'
<1> SUFFICES (DOMAIN nodes \subseteq SpaceNodes)'
  BY DEF TypesInv, ResolveRoot, Visit, Abandon
<1>1. CASE ResolveRoot
  <2> DEFINE k == Len(roots) + 1
  <2>1. /\ config \in Configs /\ space \in Spaces /\ k \in DOMAIN config.roots
    BY <1>1, DiscoverAssumption DEF ResolveRoot, WalkInv, WalkTyped
  <2>2. CASE nodes' = nodes /\ space' = space
    BY <2>2 DEF TypesInv, SpaceNodes
  <2>3. ASSUME NEW root \in resolveRoot(config.roots[k]), NEW item, item.nodeId = root.nodeId,
               nodes' = addOrUpdateNodes(nodes, {item}), space' = space
        PROVE  (DOMAIN nodes \subseteq SpaceNodes)'
    <3>1. root.nodeId \in SpaceNodes
      BY <2>1, RootsAreItems
    <3>2. PICK items : items = {item}
      OBVIOUS
    <3>3. nodes' = addOrUpdateNodes(nodes, items) /\ space' = space
      BY <2>3, <3>2
    <3>4. \A i \in items : i.nodeId \in SpaceNodes
      BY <2>3, <3>1, <3>2
    <3> QED
      BY <3>3, <3>4, NodesStayInSpace DEF TypesInv
  <2>4. \/ nodes' = nodes /\ space' = space
        \/ \E root \in resolveRoot(config.roots[k]) : \E item :
              /\ item.nodeId = root.nodeId
              /\ nodes' = addOrUpdateNodes(nodes, {item}) /\ space' = space
    BY <1>1 DEF ResolveRoot, Abandon
  <2> QED
    BY <2>2, <2>3, <2>4
<1>2. CASE Visit
  <2>1. CASE nodes' = nodes /\ space' = space
    BY <2>1 DEF TypesInv, SpaceNodes
  <2>2. ASSUME NEW items \in SUBSET {itemOf(c) : c \in childNodes(current.nodeId)},
               nodes' = addOrUpdateNodes(nodes, items), space' = space
        PROVE  (DOMAIN nodes \subseteq SpaceNodes)'
    <3>1. current.nodeId \in SpaceNodes /\ space \in Spaces
      BY <1>2, HeadOfQueue DEF Visit, AtUnvisited, WalkInv, WalkTyped, Items
    <3>2. \A c \in childNodes(current.nodeId) : itemOf(c).nodeId \in SpaceNodes
      BY <3>1, ChildrenOfNode DEF itemOf
    <3> QED
      BY <2>2, <3>2, NodesStayInSpace DEF TypesInv
  <2>3. \/ nodes' = nodes /\ space' = space
        \/ \E items \in SUBSET {itemOf(c) : c \in childNodes(current.nodeId)} :
              nodes' = addOrUpdateNodes(nodes, items) /\ space' = space
    BY <1>2 DEF Visit, Abandon
  <2> QED
    BY <2>1, <2>2, <2>3
<1> QED
  BY <1>1, <1>2

LEMMA ReadingKeepsTypes ==
    ASSUME WalkInv, TypesInv, BeginTypes \/ ReadTypes
    PROVE  TypesInv'
<1>1. (DOMAIN nodes \subseteq SpaceNodes)'
  BY DEF TypesInv, SpaceNodes, BeginTypes, ReadTypes
<1>2. CASE BeginTypes
  <2>1. typeQueue' = variableTypes(nodes) \ BuiltInTypes /\ dataTypeResults' = dataTypeResults
    BY <1>2 DEF BeginTypes
  <2>2. ASSUME NEW world \in TypeWorlds PROVE typeQueue' \subseteq DOMAIN world
    BY <2>1, TypesAssumption DEF variableTypes, TypesInv, SpaceNodes, WalkInv, WalkTyped
  <2> QED
    BY <1>1, <2>1, <2>2 DEF TypesInv
<1>3. CASE ReadTypes
  <2>1. PICK world \in TypeWorlds :
           /\ dataTypeResults' = [t \in typeQueue \cup DOMAIN dataTypeResults |->
                                    readDefinition(world[t])]
           /\ typeQueue' = (UNION {fieldTypes(dataTypeResults'[t]) : t \in typeQueue})
                              \ (BuiltInTypes \cup DOMAIN dataTypeResults')
    BY <1>3 DEF ReadTypes
  <2>2. PICK read, fresh : read = dataTypeResults' /\ fresh = typeQueue
    OBVIOUS
  <2>3. /\ DOMAIN read = fresh \cup DOMAIN dataTypeResults
        /\ \A t \in DOMAIN read : read[t] = readDefinition(world[t])
        /\ typeQueue' = (UNION {fieldTypes(read[t]) : t \in fresh}) \ (BuiltInTypes \cup DOMAIN read)
    BY <2>1, <2>2
  <2>4. \A other \in TypeWorlds : DOMAIN read \subseteq DOMAIN other
    BY <2>2, <2>3 DEF TypesInv
  <2>5. IsFiniteSet(DOMAIN read)
    BY <2>4, TypesAssumption, FS_Subset
  <2>6. ASSUME NEW other \in TypeWorlds PROVE typeQueue' \subseteq DOMAIN other
    <3>1. \A t \in fresh : fieldTypes(read[t]) \subseteq BuiltInTypes \cup DOMAIN other
      BY <2>3, <2>4, TypesAssumption
    <3>2. PICK found, queued : /\ found = UNION {fieldTypes(read[t]) : t \in fresh}
                               /\ queued = typeQueue'
      OBVIOUS
    <3>3. queued = found \ (BuiltInTypes \cup DOMAIN read)
      BY <2>3, <3>2
    <3>4. found \subseteq BuiltInTypes \cup DOMAIN other
      BY <3>1, <3>2
    <3> QED
      BY <3>2, <3>3, <3>4
  <2>7. ASSUME NEW t \in DOMAIN read, read[t].tag = "Success"
        PROVE  sanitizePascal[read[t].definition.name] \in Nat
    BY <2>3, <2>4, <2>7, TypeNamesAssumption
  <2> QED
    BY <1>1, <2>2, <2>4, <2>5, <2>6, <2>7 DEF TypesInv
<1> QED
  BY <1>2, <1>3

LEMMA OtherStepsKeepTypes ==
    ASSUME TypesInv, UNCHANGED <<space, nodes, typeQueue, dataTypeResults>>
    PROVE  TypesInv'
BY DEF TypesInv, SpaceNodes

LEMMA StepKeepsTypes == WalkInv /\ TypesInv /\ [Next]_vars => TypesInv'
<1> SUFFICES ASSUME WalkInv, TypesInv, [Next]_vars PROVE TypesInv'
  OBVIOUS
<1>1. CASE ResolveRoot \/ Visit
  BY <1>1, WalkKeepsTypes
<1>2. CASE BeginTypes \/ ReadTypes
  BY <1>2, ReadingKeepsTypes
<1>3. CASE AlreadyVisited \/ RequestFails \/ VisitRefused
  BY <1>3, OtherStepsKeepTypes DEF AlreadyVisited, RequestFails, VisitRefused, Abandon
<1>4. CASE \/ Compile \/ assertGeneratedOwnership \/ WriteFile \/ CheckFile
           \/ obsoleteGeneratedFiles \/ FileFails \/ (\E f \in AllFiles : Edit(f))
           \/ UNCHANGED vars
  BY <1>4, OtherStepsKeepTypes DEF Compile, assertGeneratedOwnership, WriteFile, CheckFile,
       obsoleteGeneratedFiles, FileFails, Edit, discovered, vars, discoverVars
<1> QED
  BY <1>1, <1>2, <1>3, <1>4 DEF Next, Walk, DiscoverStep, DiscoverFault

-----------------------------------------------------------------------------
(* The model stays as it was compiled.                                     *)

LEMMA CompileMakesClosed ==
    ASSUME TypesInv, Compile
    PROVE  ModelIsClosed'
<1> SUFFICES ASSUME phase' # "failed" PROVE HangsTogether(model')
  BY DEF ModelIsClosed
<1>1. model' = compile(config).model /\ ~isFatal(compile(config).issues)
  BY DEF Compile, enforceIssuePolicy
<1>2. PICK c, results : c = config /\ results = dataTypeResults
  OBVIOUS
<1>3. PICK items, types :
         LET graph == compileReachableTypes(c, types, dataTypeResults)
             variables == compileVariables(c, items, graph).variables
         IN  /\ compile(c).model = [variables |-> variables, enums |-> graph.enums,
                                    structures |-> sortStructures(graph.structures)]
             /\ ~isFatal(modelIssues(variables, graph))
  BY <1>1, <1>2, ModelParts
<1>4. PICK graph : graph = compileReachableTypes(c, types, results)
  OBVIOUS
<1>5. PICK variables : variables = compileVariables(c, items, graph).variables
  OBVIOUS
<1>6. /\ compile(c).model = [variables |-> variables, enums |-> graph.enums,
                             structures |-> sortStructures(graph.structures)]
      /\ ~isFatal(modelIssues(variables, graph))
  BY <1>2, <1>3, <1>4, <1>5
<1>7. PICK emitted : emitted = compile(c).model
  OBVIOUS
<1>8. HangsTogether(emitted)
  BY <1>2, <1>4, <1>5, <1>6, <1>7, CompiledModelHangsTogether DEF TypesInv
<1> QED
  BY <1>1, <1>2, <1>7, <1>8

LEMMA StepKeepsModelClosed == TypesInv /\ ModelIsClosed /\ [Next]_vars => ModelIsClosed'
<1> SUFFICES ASSUME TypesInv, ModelIsClosed, [Next]_vars PROVE ModelIsClosed'
  OBVIOUS
<1>1. CASE Compile
  BY <1>1, CompileMakesClosed
<1>2. CASE (DiscoverStep \/ DiscoverFault) /\ UNCHANGED outputVars
  BY <1>2, DiscoverPhases DEF ModelIsClosed
<1>3. CASE \/ assertGeneratedOwnership \/ WriteFile \/ CheckFile \/ obsoleteGeneratedFiles
           \/ FileFails \/ (\E f \in AllFiles : Edit(f)) \/ UNCHANGED vars
  <2>1. model' = model /\ phase' \in {phase, "failed", "generated", "checked"}
    BY <1>3 DEF assertGeneratedOwnership, WriteFile, CheckFile, obsoleteGeneratedFiles,
         FileFails, Edit, outputVars, vars, discoverVars
  <2> QED
    BY <2>1 DEF ModelIsClosed
<1> QED
  BY <1>1, <1>2, <1>3 DEF Next, Walk

\* What is emitted hangs together, for any data types that refer to each other in
\* any way: compile accepts nothing that would not.
THEOREM ModelsAreClosed == Spec => []ModelIsClosed
<1>1. Init => ModelIsClosed
  BY DEF Init, InitDiscover, ModelIsClosed
<1> QED
  BY <1>1, InitTypesInv, StepKeepsTypes, InitWalkInv, StepKeepsWalk, InitOutputInv, StepKeepsOutput,
     StepKeepsModelClosed, PTL DEF Spec

=============================================================================
