------------------------------ MODULE Codegen ------------------------------
(***************************************************************************)
(* packages/codegen from the configuration to the output directory:        *)
(* generate writes the compiled files one after the other, each after a    *)
(* look at who owns the file that is there, and check compares them.       *)
(*                                                                         *)
(* A file on the disk is "absent", has the "current" contents, is          *)
(* "generated" with others, or is "foreign": it lacks the header.          *)
(***************************************************************************)
EXTENDS TypeGraph

CONSTANTS
    Files,      \* the files that are generated, in the order of emit
    Obsolete,   \* other files of the output directory
    Disks,      \* contents of the output directory before the run
    MaxEdits    \* bound on the files somebody else writes meanwhile

ASSUME CodegenAssumption ==
    /\ MaxEdits \in Nat
    /\ Files \in Seq(ToSet(Files)) /\ Files # <<>>
    /\ Disks \subseteq [ToSet(Files) \cup Obsolete ->
                           {"absent", "current", "generated", "foreign"}]

VARIABLES
    command,    \* "generate" or "check"
    model,      \* what is emitted
    disk,
    writing,    \* [index, owned]: the file at hand, and whether its owner is known
    staleFiles, missingFiles,
    edits, editedSince      \* files edited since generate looked at their owner

outputVars == <<command, model, disk, writing, staleFiles, missingFiles,
                edits, editedSince>>
vars == <<discoverVars, outputVars>>

AllFiles == ToSet(Files) \cup Obsolete
Done == {"failed", "generated", "checked"}

Init ==
    /\ InitDiscover
    /\ command \in {"generate", "check"}
    /\ model = emptyMap
    /\ disk = [f \in AllFiles |-> "absent"]
    /\ writing = [index |-> 1, owned |-> FALSE]
    /\ staleFiles = {} /\ missingFiles = {}
    /\ edits = 0 /\ editedSince = {}

\* compile, enforceIssuePolicy and emit; the output directory is only looked at
\* from here on.
Compile ==
    /\ phase = "types" /\ typeQueue = {}
    /\ LET compiled == compile(config) IN
       /\ issues' = compiled.issues
       /\ IF enforceIssuePolicy(config, compiled.issues) = "fail"
          THEN phase' = "failed" /\ UNCHANGED <<model, disk>>
          ELSE phase' = command /\ model' = compiled.model /\ disk' \in Disks
    /\ UNCHANGED <<config, space, roots, nodes, queue, visitedPaths, typeQueue,
                   dataTypeResults, faults, command, writing, staleFiles,
                   missingFiles, edits, editedSince>>

-----------------------------------------------------------------------------
(* generate.                                                               *)

file == Files[writing.index]
discovered == <<config, space, roots, nodes, queue, visitedPaths, typeQueue,
                dataTypeResults, issues>>

\* Defect: any file is taken for a generated one.
assertOwnershipOfAny ==
    /\ phase = "generate" /\ ~writing.owned
    /\ writing' = [writing EXCEPT !.owned = TRUE]
    /\ editedSince' = editedSince \ {file}
    /\ UNCHANGED <<discovered, phase, faults, command, model, disk, staleFiles,
                   missingFiles, edits>>

assertGeneratedOwnership ==
    /\ phase = "generate" /\ ~writing.owned
    /\ IF disk[file] = "foreign"
       THEN phase' = "failed" /\ UNCHANGED <<writing, editedSince>>
       ELSE /\ writing' = [writing EXCEPT !.owned = TRUE]
            /\ editedSince' = editedSince \ {file}
            /\ UNCHANGED phase
    /\ UNCHANGED <<discovered, faults, command, model, disk, staleFiles,
                   missingFiles, edits>>

WriteFile ==
    /\ phase = "generate" /\ writing.owned
    /\ disk' = [disk EXCEPT ![file] = "current"]
    /\ IF writing.index = Len(Files)
       THEN phase' = "generated" /\ UNCHANGED writing
       ELSE /\ writing' = [index |-> writing.index + 1, owned |-> FALSE]
            /\ UNCHANGED phase
    /\ UNCHANGED <<discovered, faults, command, model, staleFiles, missingFiles,
                   edits, editedSince>>

\* Reading or writing a file fails; what was written stays.
FileFails ==
    /\ phase \in {"generate", "check"} /\ faults < MaxFaults
    /\ faults' = faults + 1 /\ phase' = "failed"
    /\ UNCHANGED <<discovered, outputVars>>

-----------------------------------------------------------------------------
(* check: the files one by one, then what else is in the directory.        *)

CheckFile ==
    /\ phase = "check" /\ writing.index <= Len(Files)
    /\ missingFiles' = missingFiles \cup (IF disk[file] = "absent" THEN {file} ELSE {})
    /\ staleFiles' = staleFiles \cup
          (IF disk[file] \in {"generated", "foreign"} THEN {file} ELSE {})
    /\ writing' = [writing EXCEPT !.index = @ + 1]
    /\ UNCHANGED <<discovered, phase, faults, command, model, disk, edits, editedSince>>

\* Defect: a generated file that is no longer emitted is overlooked.
obsoleteForgotten ==
    /\ phase = "check" /\ writing.index > Len(Files)
    /\ phase' = "checked"
    /\ UNCHANGED <<discovered, faults, command, model, disk, writing, staleFiles,
                   missingFiles, edits, editedSince>>

obsoleteGeneratedFiles ==
    /\ phase = "check" /\ writing.index > Len(Files)
    /\ staleFiles' = staleFiles \cup
          {f \in Obsolete : disk[f] \in {"generated", "current"}}
    /\ phase' = "checked"
    /\ UNCHANGED <<discovered, faults, command, model, disk, writing,
                   missingFiles, edits, editedSince>>

-----------------------------------------------------------------------------
(* The specification.                                                      *)

\* Somebody puts a file of their own into the directory.
Edit(f) ==
    /\ phase \in {"generate", "check"} /\ edits < MaxEdits
    /\ disk' = [disk EXCEPT ![f] = "foreign"]
    /\ edits' = edits + 1 /\ editedSince' = editedSince \cup {f}
    /\ UNCHANGED <<discovered, phase, faults, command, model, writing, staleFiles,
                   missingFiles>>

Walk ==
    \/ DiscoverStep /\ UNCHANGED outputVars
    \/ assertGeneratedOwnership \/ WriteFile
    \/ CheckFile \/ obsoleteGeneratedFiles

Next ==
    \/ Walk \/ Compile
    \/ DiscoverFault /\ UNCHANGED outputVars
    \/ FileFails
    \/ \E f \in AllFiles : Edit(f)

\* Compile is the only step of its phase, so that its fairness can be stated of the
\* phase alone, without evaluating it.
Compiles == phase = "types" /\ typeQueue = {} /\ phase' \in {"failed", command}

Spec == Init /\ [][Next]_vars /\ WF_vars(Walk) /\ WF_phase(Compiles)

-----------------------------------------------------------------------------
(* Properties.                                                             *)

\* Discovery ends, also when data types refer to each other in circles, and so
\* does the command, with a result or with an error.
CodegenEnds == <>(phase \in Done)

\* Nothing that has a name is left out silently.  The walk has been at every root,
\* and wherever it has been, either an issue says that the node could not be browsed,
\* or each child is known under its path, omitted or pruned with an issue, and walked
\* through unless it is pruned: also what is omitted is (docs/users/codegen.md 63).
Reported(code, path) == \E i \in issues : i.code = code /\ i.at = path
Knows(n, path) == n \in DOMAIN nodes /\ path \in nodes[n].allPaths

KnownUnlessOther(n, path) ==
    space.nodes[n].nodeClass \in KnownNodeClasses => Knows(n, path)

EveryPathIsExplained ==
    phase \in {"types", "generate", "check"} =>
        /\ \A r \in ToSet(roots) :
              KnownUnlessOther(r.nodeId, r.path) /\ <<r.nodeId, r.path>> \in visitedPaths
        /\ \A visit \in visitedPaths :
              \/ Reported("browse.failure", visit[2])
              \/ \A child \in childNodes(visit[1]) :
                    LET below == Append(visit[2], child.name) IN
                    \/ Reported("branch.pruned", below)
                    \/ /\ KnownUnlessOther(child.target, below) \/ Reported("node.omitted", below)
                       /\ childClass(child) = "Object" => <<child.target, below>> \in visitedPaths

\* What is emitted hangs together: a codec or a field refers to a type that is
\* emitted, a structure to one emitted before it, no two structures and no two
\* enums have one name, and no path of a variable is that of another or leads
\* through one.
refersOnlyTo(schema, structureNames, enumNames) ==
    /\ schema.tag = "Structure" => schema.name \in structureNames
    /\ schema.tag = "Enum" => schema.name \in enumNames

HangsTogether(emitted) ==
    LET structures == emitted.structures
        namesUpTo(i) == {structures[j].name : j \in 1..i}
        enumNames == {e.name : e \in Range(emitted.enums)}
    IN  /\ \A i \in DOMAIN structures :
              /\ structures[i].name \notin namesUpTo(i - 1)
              /\ \A k \in DOMAIN structures[i].fields :
                    refersOnlyTo(structures[i].fields[k].schema, namesUpTo(i - 1), enumNames)
        /\ Cardinality(enumNames) = Cardinality(DOMAIN emitted.enums)
        /\ \A v \in emitted.variables :
              refersOnlyTo(v.codec, namesUpTo(Len(structures)), enumNames)
        /\ \A v, w \in emitted.variables :
              v # w => ~IsPrefix(v.generatedPath, w.generatedPath)

ModelIsClosed == phase \in {"generate", "check"} => HangsTogether(model)

\* A file somebody else has written is never overwritten, unless it was put
\* there after generate had looked at it, and files are only written by generate.
ForeignFileLost(f) == disk[f] = "foreign" /\ disk'[f] # "foreign"
LosesOnlyRacingEdits ==
    phase \in {"generate", "check"} =>
       \A f \in AllFiles : ForeignFileLost(f) => command = "generate" /\ f \in editedSince
ForeignFilesAreKept == [][LosesOnlyRacingEdits]_vars

\* check passes only if every file is as generate would leave it and no
\* generated file is left over, and it fails for no other reason, unless a file
\* was edited while it was looking.
CheckTellsTheTruth ==
    phase = "checked" /\ editedSince = {} =>
        ((staleFiles \cup missingFiles = {}) <=>
            /\ \A f \in ToSet(Files) : disk[f] = "current"
            /\ \A f \in Obsolete : disk[f] \in {"absent", "foreign"})
=============================================================================
