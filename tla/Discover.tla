------------------------------ MODULE Discover ------------------------------
(***************************************************************************)
(* Discovery of packages/codegen: the roots of a configuration are looked  *)
(* up, the address space below them is browsed breadth first, one request  *)
(* for the children of a node and one for their metadata at a time, and    *)
(* the definitions of the data types the variables use are read in batches *)
(* until no new one turns up.  A step is one turn of the loop, with the    *)
(* requests it waits for: nothing else changes meanwhile.                  *)
(*                                                                         *)
(* Nodes, types and browse names are numbers, a browse name its place in   *)
(* the order of localeCompare; a path is a sequence of browse names.  A    *)
(* reference may come without a name; it always has a node id.  A          *)
(* configuration is a valid one; its roots are found by path or by node.   *)
(* Metadata that is only copied, and the list of references, which         *)
(* nothing reads, are left out.                                            *)
(***************************************************************************)
EXTENDS Integers, SequencesExt

CONSTANTS
    Spaces,         \* address spaces, [nodes, references], see below
    Configs,        \* normalized configurations
    TypeWorlds,     \* what a server has of its data types, functions from
                    \* data types to records, see readDefinition
    BuiltInTypes,   \* data types of namespace 0
    MetadataNames,  \* names of properties such as EnumStrings
    MaxFaults       \* bound on the requests that fail

VARIABLES
    phase,          \* "roots", "walk", "types", then those of module Codegen
    config, space,
    roots,          \* the roots found so far, [nodeId, path, exportPrefix]
    nodes,          \* what has been discovered: the [best, allPaths] of a node
    queue, visitedPaths,
    typeQueue, dataTypeResults,
    issues,         \* [code, severity, at], where "at" is a path, or a node,
                    \* a type or a name as a sequence of its own
    faults

discoverVars == <<phase, config, space, roots, nodes, queue, visitedPaths,
                  typeQueue, dataTypeResults, issues, faults>>

objectsFolderNodeId == 0
NoBrowseName == -1
emptyMap == [n \in {} |-> n]

\* A space gives a node its [nodeClass, browseName, dataType, rank, access], and
\* the references it browses to: [name, target, type, forward].
ASSUME DiscoverAssumption ==
    /\ MaxFaults \in Nat
    /\ \A s \in Spaces :
          /\ objectsFolderNodeId \in DOMAIN s.nodes
          /\ \A n \in DOMAIN s.nodes :
                /\ s.nodes[n].browseName \in Nat
                /\ IsFiniteSet(s.references[n])
                /\ \A r \in s.references[n] :
                      r.name \in Nat \cup {NoBrowseName} /\ r.target \in DOMAIN s.nodes
          /\ \A c \in Configs : \A i \in DOMAIN c.roots :
                c.roots[i].by = "nodeId" => c.roots[i].nodeId \in DOMAIN s.nodes
    /\ \A c \in Configs :
          /\ c.roots \in Seq(ToSet(c.roots)) /\ c.roots # <<>>
          /\ \A i \in DOMAIN c.roots : c.roots[i].path \in Seq(Nat)
          /\ c.exclude \in Seq(ToSet(c.exclude))
          /\ \A i \in DOMAIN c.exclude : c.exclude[i].mode \in {"prune", "omit"}

childClass(child) == space.nodes[child.target].nodeClass

\* The severity of the issues of a code that do not say their own.
infoCodes == {"branch.pruned", "node.omitted", "file.checked", "file.written"}
warningCodes == {"browse.failure", "node.multiPath", "structure.fieldEmptyName",
                 "enum.memberEmptyName", "variable.notAccessibleSkipped"}
issue(code, at) ==
    [code |-> code, at |-> at,
     severity |-> IF code \in infoCodes THEN "info"
                  ELSE IF code \in warningCodes THEN "warning" ELSE "error"]
issueOf(severity, code, at) == [issue(code, at) EXCEPT !.severity = severity]

InitDiscover ==
    /\ phase = "roots"
    /\ config \in Configs /\ space \in Spaces
    /\ roots = <<>> /\ nodes = emptyMap
    /\ queue = <<>> /\ visitedPaths = {}
    /\ typeQueue = {} /\ dataTypeResults = emptyMap
    /\ issues = {} /\ faults = 0

\* What ends the whole run: a request that fails, or an error worth it.
Abandon == phase' = "failed" /\ UNCHANGED <<config, space, roots, nodes, queue,
                visitedPaths, typeQueue, dataTypeResults, issues>>

current == Head(queue)
visitKey(item) == <<item.nodeId, item.path>>

AtUnvisited == phase = "walk" /\ queue # <<>> /\ visitKey(current) \notin visitedPaths

Requesting ==
    \/ phase = "roots"
    \/ AtUnvisited
    \/ phase = "types" /\ typeQueue # {}

RequestFails ==
    /\ Requesting
    /\ faults < MaxFaults /\ faults' = faults + 1
    /\ Abandon

-----------------------------------------------------------------------------
(* What the loops ask of a browse result.                                  *)

selectedChildReferences(n) ==
    {r \in space.references[n] : r.forward /\ r.type \in {"Hierarchical", "Property"}}

duplicateBrowseName(children) ==
    \E x, y \in children : x # y /\ x.name = y.name /\ x.name # NoBrowseName

\* A reference without a name makes no path: it is left out without an issue, and so
\* is what no other reference leads to.
childNodes(n) ==
    {r \in selectedChildReferences(n) :
        /\ r.name # NoBrowseName
        /\ ~(r.type = "Property" /\ r.name \in MetadataNames)}

\* A segment of a pattern is [deep, names]: "**", or the names that a literal or
\* a RegExp matches.  match[i, j]: the pattern from i on matches the path from j.
matchPathPattern(pattern, path) ==
    LET m == Len(pattern)  n == Len(path)
        match[i \in 1..(m + 1), j \in 1..(n + 1)] ==
            IF i = m + 1 THEN j = n + 1
            ELSE IF pattern[i].deep
            THEN match[i + 1, j] \/ (j <= n /\ match[i, j + 1])
            ELSE j <= n /\ path[j] \in pattern[i].names /\ match[i + 1, j + 1]
    IN  match[1, 1]

\* The mode of the first rule that matches, or "keep".
matchingExclude(path) ==
    LET matching == {i \in DOMAIN config.exclude :
                        matchPathPattern(config.exclude[i].path, path)}
    IN  IF matching = {} THEN "keep"
        ELSE config.exclude[CHOOSE i \in matching : \A j \in matching : i <= j].mode

-----------------------------------------------------------------------------
(* Roots.                                                                  *)

\* The nodes a path leads to from the Objects folder: one, or none as soon as a
\* segment matches no child or several.
resolvePathRoot(path) ==
    {trail[Len(path)] : trail \in
        {t \in [0..Len(path) -> DOMAIN space.nodes] :
            /\ t[0] = objectsFolderNodeId
            /\ \A i \in 1..Len(path) : \E match \in selectedChildReferences(t[i - 1]) :
                  /\ {r \in selectedChildReferences(t[i - 1]) : r.name = path[i]} = {match}
                  /\ t[i] = match.target}}

\* The possible [nodeId, path, exportPrefix] of a root.
resolveRoot(root) ==
    {[nodeId |-> n, exportPrefix |-> root.exportPrefix,
      path |-> IF root.by = "nodeId" THEN <<space.nodes[n].browseName>> ELSE root.path] :
        n \in IF root.by = "nodeId" THEN {root.nodeId} ELSE resolvePathRoot(root.path)}

-----------------------------------------------------------------------------
(* The nodes that have been reached, each with its best path.              *)

PathBefore(p, q) ==
    \E i \in 1..Len(q) :
        /\ \A j \in 1..(i - 1) : j <= Len(p) /\ p[j] = q[j]
        /\ i > Len(p) \/ p[i] < q[i]

relativeLength(node) == Len(node.path) - node.rootSegmentCount

\* One node id always compares with itself: the last criterion never decides.
comparePathRank(l, r) ==
    \/ l.rootIndex < r.rootIndex
    \/ /\ l.rootIndex = r.rootIndex
       /\ \/ relativeLength(l) < relativeLength(r)
          \/ relativeLength(l) = relativeLength(r) /\ PathBefore(l.path, r.path)

KnownNodeClasses == {"Object", "Variable", "Method", "DataType", "ObjectType",
                     "VariableType", "ReferenceType"}

\* What addOrUpdateNode leaves of the nodes found when it is called for some items,
\* each [nodeId, path, rootIndex, rootSegmentCount]: their order makes no difference.
addOrUpdateNodes(found, items) ==
    LET known == {item.nodeId : item \in
                     {i \in items : space.nodes[i.nodeId].nodeClass \in KnownNodeClasses}}
        of(n) == {i \in items : i.nodeId = n}
        olds(n) == IF n \in DOMAIN found THEN {found[n].best} ELSE {}
        oldPaths(n) == IF n \in DOMAIN found THEN found[n].allPaths ELSE {}
    IN  [n \in DOMAIN found \cup known |->
            [best |-> CHOOSE i \in olds(n) \cup of(n) :
                         \A j \in olds(n) \cup of(n) : ~comparePathRank(j, i),
             allPaths |-> oldPaths(n) \cup {i.path : i \in of(n)}]]

\* The roots are resolved one by one; when all are, the walk begins.
ResolveRoot ==
    /\ phase = "roots"
    /\ LET found == resolveRoot(config.roots[Len(roots) + 1]) IN
       IF found = {}
       THEN Abandon
       ELSE \E root \in found :
          LET item == [nodeId |-> root.nodeId, path |-> root.path,
                       rootIndex |-> Len(roots) + 1, rootSegmentCount |-> Len(root.path)] IN
          /\ roots' = Append(roots, root)
          /\ nodes' = addOrUpdateNodes(nodes, {item})
          /\ queue' = Append(queue, item)
          /\ phase' = IF Len(roots') = Len(config.roots) THEN "walk" ELSE "roots"
          /\ UNCHANGED <<config, space, visitedPaths, typeQueue, dataTypeResults, issues>>
    /\ UNCHANGED faults

-----------------------------------------------------------------------------
(* The walk.                                                               *)

itemOf(child) ==
    [nodeId |-> child.target, path |-> Append(current.path, child.name),
     rootIndex |-> current.rootIndex, rootSegmentCount |-> current.rootSegmentCount]

AlreadyVisited ==
    /\ phase = "walk" /\ queue # <<>> /\ visitKey(current) \in visitedPaths
    /\ queue' = Tail(queue)
    /\ UNCHANGED <<phase, config, space, roots, nodes, visitedPaths, typeQueue,
                   dataTypeResults, issues, faults>>

\* What has different names, in the order of the names: each at its rank.
inOrderOfNames(named) ==
    [i \in 1..Cardinality(named) |->
        CHOOSE x \in named : Cardinality({y \in named : y.name < x.name}) = i - 1]

\* Defect: what is omitted is not walked through either.
VisitStoppedByOmit ==
    /\ AtUnvisited
    /\ IF duplicateBrowseName(selectedChildReferences(current.nodeId))
       THEN Abandon
       ELSE LET children == childNodes(current.nodeId)
                pathsOf(mode) == {itemOf(c).path : c \in
                    {d \in children : matchingExclude(itemOf(d).path) = mode}}
                walked == inOrderOfNames({c \in children :
                    childClass(c) = "Object" /\ itemOf(c).path \in pathsOf("keep")})
            IN  /\ visitedPaths' = visitedPaths \cup {visitKey(current)}
                /\ nodes' = addOrUpdateNodes(nodes,
                      {i \in {itemOf(c) : c \in children} : i.path \in pathsOf("keep")})
                /\ queue' = Tail(queue) \o [i \in DOMAIN walked |-> itemOf(walked[i])]
                /\ issues' = issues \cup {issue("branch.pruned", p) : p \in pathsOf("prune")}
                                    \cup {issue("node.omitted", p) : p \in pathsOf("omit")}
                /\ UNCHANGED <<phase, config, space, roots, typeQueue, dataTypeResults>>
    /\ UNCHANGED faults

\* What is omitted is still walked through, what is pruned is not.  The metadata of a
\* child that is kept is always there: readManyNodeMetadata answers each node id it
\* is asked for, and a Failure among its answers has ended the run (RequestFails).
Visit ==
    /\ AtUnvisited
    /\ IF duplicateBrowseName(selectedChildReferences(current.nodeId))
       THEN Abandon
       ELSE LET children == childNodes(current.nodeId)
                pathsOf(mode) == {itemOf(c).path : c \in
                    {d \in children : matchingExclude(itemOf(d).path) = mode}}
                walked == inOrderOfNames({c \in children :
                    childClass(c) = "Object" /\ itemOf(c).path \notin pathsOf("prune")})
            IN  /\ visitedPaths' = visitedPaths \cup {visitKey(current)}
                /\ nodes' = addOrUpdateNodes(nodes,
                      {i \in {itemOf(c) : c \in children} : i.path \in pathsOf("keep")})
                /\ queue' = Tail(queue) \o [i \in DOMAIN walked |-> itemOf(walked[i])]
                /\ issues' = issues \cup {issue("branch.pruned", p) : p \in pathsOf("prune")}
                                    \cup {issue("node.omitted", p) : p \in pathsOf("omit")}
                /\ UNCHANGED <<phase, config, space, roots, typeQueue, dataTypeResults>>
    /\ UNCHANGED faults

\* The server refuses to browse the node.
VisitRefused ==
    /\ AtUnvisited
    /\ faults < MaxFaults /\ faults' = faults + 1
    /\ IF config.onBrowseFailure = "fail"
       THEN Abandon
       ELSE /\ visitedPaths' = visitedPaths \cup {visitKey(current)}
            /\ queue' = Tail(queue)
            /\ issues' = issues \cup {issue("browse.failure", current.path)}
            /\ UNCHANGED <<phase, config, space, roots, nodes, typeQueue, dataTypeResults>>

-----------------------------------------------------------------------------
(* Data types.                                                             *)

variableTypes(found) ==
    {space.nodes[n].dataType : n \in {m \in DOMAIN found :
                                         space.nodes[m].nodeClass = "Variable"}}

\* A data type of the server is [attribute, properties, dynamic]: what becomes of
\* its DataTypeDefinition attribute, of the values of its enum properties, and what
\* node-opcua extracts from the type dictionaries.  Each is a result: a Success with
\* a definition, a Failure or Unsupported if it cannot be made one, or Missing.
isEmptyStructureResult(result) ==
    /\ result.tag = "Success" /\ result.definition.tag = "Structure"
    /\ result.definition.fields = <<>>

readDynamicDataTypeDefinition(type, otherwise) ==
    IF /\ type.dynamic.tag = "Success" /\ ~isEmptyStructureResult(type.dynamic)
       /\ type.dynamic.definition.tag = "Enum" => type.dynamic.definition.members # <<>>
    THEN type.dynamic ELSE otherwise

\* EnumValues are preferred, also if they turn out to be of no use.
readEnumPropertyDefinition(type) ==
    IF type.properties = emptyMap THEN [tag |-> "Missing"]
    ELSE type.properties[IF "EnumValues" \in DOMAIN type.properties
                         THEN "EnumValues" ELSE "EnumStrings"]

\* The types asked for are never of namespace 0, whose definitions would not be
\* looked for in the dictionaries.
readDefinition(type) ==
    IF isEmptyStructureResult(type.attribute)
    THEN readDynamicDataTypeDefinition(type, [tag |-> "Unsupported"])
    ELSE IF type.attribute.tag # "Missing" THEN type.attribute
    ELSE IF readEnumPropertyDefinition(type).tag # "Missing"
    THEN readEnumPropertyDefinition(type)
    ELSE readDynamicDataTypeDefinition(type, type.attribute)

\* The server's data types are only looked at from here on.
BeginTypes ==
    /\ phase = "walk" /\ queue = <<>>
    /\ phase' = "types"
    /\ issues' = issues \cup
          {issue("node.multiPath", nodes[n].best.path) :
              n \in {m \in DOMAIN nodes : Cardinality(nodes[m].allPaths) > 1}}
    /\ typeQueue' = variableTypes(nodes) \ BuiltInTypes
    /\ UNCHANGED <<config, space, roots, nodes, queue, visitedPaths,
                   dataTypeResults, faults>>

fieldTypes(result) ==
    IF result.tag = "Success" /\ result.definition.tag = "Structure"
    THEN {f.type : f \in ToSet(result.definition.fields)} ELSE {}

\* Wherever a data type is referred to, the server has an answer for it: it has
\* finitely many, of one space or the other.
ASSUME TypesAssumption ==
    \A world \in TypeWorlds :
        /\ IsFiniteSet(DOMAIN world)
        /\ \A s \in Spaces : \A n \in DOMAIN s.nodes : s.nodes[n].nodeClass = "Variable" =>
              s.nodes[n].dataType \in BuiltInTypes \cup DOMAIN world
        /\ \A t \in DOMAIN world : \A other \in TypeWorlds :
              fieldTypes(readDefinition(world[t])) \subseteq BuiltInTypes \cup DOMAIN other

\* Defect: a type that was read is read again when another one refers to it.
ReadTypesAgain ==
    /\ phase = "types" /\ typeQueue # {}
    /\ \E world \in TypeWorlds :
          /\ \A t \in DOMAIN dataTypeResults : readDefinition(world[t]) = dataTypeResults[t]
          /\ dataTypeResults' = [t \in typeQueue \cup DOMAIN dataTypeResults |->
                                    readDefinition(world[t])]
          /\ typeQueue' = (UNION {fieldTypes(dataTypeResults'[t]) : t \in typeQueue}) \ BuiltInTypes
    /\ UNCHANGED <<phase, config, space, roots, nodes, queue, visitedPaths, issues, faults>>

\* One batch: every type that is queued and was not read before.
ReadTypes ==
    /\ phase = "types" /\ typeQueue # {}
    /\ \E world \in TypeWorlds :
          /\ \A t \in DOMAIN dataTypeResults : readDefinition(world[t]) = dataTypeResults[t]
          /\ dataTypeResults' = [t \in typeQueue \cup DOMAIN dataTypeResults |->
                                    readDefinition(world[t])]
          /\ typeQueue' = (UNION {fieldTypes(dataTypeResults'[t]) : t \in typeQueue})
                             \ (BuiltInTypes \cup DOMAIN dataTypeResults')
    /\ UNCHANGED <<phase, config, space, roots, nodes, queue, visitedPaths, issues, faults>>

DiscoverStep == ResolveRoot \/ AlreadyVisited \/ Visit \/ BeginTypes \/ ReadTypes
DiscoverFault == RequestFails \/ VisitRefused
=============================================================================
