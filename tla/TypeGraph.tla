----------------------------- MODULE TypeGraph -----------------------------
(***************************************************************************)
(* The compiler of packages/codegen, from what discovery has found to the  *)
(* model that is emitted: functions of their arguments, checked by the     *)
(* runs of module Codegen.                                                 *)
(*                                                                         *)
(* A definition is an Enum with [name, members] or a Structure with        *)
(* [name, kind, fields]; a member is [name, value], a field                *)
(* [name, type, rank].  Generated names are the values of the constant     *)
(* functions sanitizePascal and sanitizeCamel, NoName where the code has   *)
(* no usable one.  Messages and the encoded names of fields are left out.  *)
(***************************************************************************)
EXTENDS Discover

CONSTANTS
    Scalars, DynamicScalars,        \* built-in types with a schema, and those
                                    \* that are only emitted as Opcua.dynamic
    sanitizePascal, sanitizeCamel,  \* generated names of the browse names, the
                                    \* type names and the field names
    NoName, DataTypesKey,           \* no generated name; the reserved group
    NumberType                      \* the scalar that stands in for a bad enum

\* A generated name is its place in the order of names.
ASSUME TypeNamesAssumption ==
    \A world \in TypeWorlds : \A t \in DOMAIN world :
        LET result == readDefinition(world[t]) IN
        result.tag = "Success" => sanitizePascal[result.definition.name] \in Nat

typeFallbackSeverity(c) == IF c.typeFallback = "fail" THEN "error" ELSE "warning"
requiresDataTypeDefinition(t) == t \notin BuiltInTypes
isUnsupportedArrayRank(rank) == rank = "Matrix"

tagged(definitions, tag) == {t \in DOMAIN definitions : definitions[t].tag = tag}
typeName(definitions, t) == sanitizePascal[definitions[t].name]

\* The types of a set whose generated name is missing, or shared with another.
unnamedIn(definitions, ts) == {t \in ts : typeName(definitions, t) = NoName}
collidingIn(definitions, ts) ==
    {t \in ts : \E u \in ts \ {t} : typeName(definitions, t) # NoName
                                 /\ typeName(definitions, u) = typeName(definitions, t)}

\* The names of the fields of a type or of the members of an enum; one without
\* a usable name gets a warning and a name that no other has.
unnamed(named, sanitize) == {i \in DOMAIN named : sanitize[named[i].name] = NoName}
givenNames(named, sanitize) ==
    [i \in DOMAIN named |-> IF i \in unnamed(named, sanitize) THEN -i
                            ELSE sanitize[named[i].name]]
repeatsName(names) == \E i, j \in DOMAIN names : i # j /\ names[i] = names[j]

-----------------------------------------------------------------------------
(* Reachable definitions.                                                  *)

\* reached[k]: the types met in k rounds from those of the variables.
reachableTypes(types, results) ==
    LET step(ts) == ts \cup UNION {fieldTypes(results[t]) \ BuiltInTypes :
                                      t \in ts \cap DOMAIN results}
        reached[k \in 0..Cardinality(DOMAIN results)] ==
            IF k = 0 THEN types ELSE step(reached[k - 1])
    IN  reached[Cardinality(DOMAIN results)]

definitionIssue(tag) ==
    IF tag = "Failure" THEN "datatype.definitionFailure"
    ELSE IF tag = "Unsupported" THEN "datatype.definitionUnsupported"
    ELSE "datatype.definitionMissing"

\* [definitions, issues]
reachableDefinitions(c, types, results) ==
    LET reached == reachableTypes({t \in types : requiresDataTypeDefinition(t)}, results)
        usable == {t \in reached \cap DOMAIN results : results[t].tag = "Success"}
        tagOf(t) == IF t \in DOMAIN results THEN results[t].tag ELSE "Missing"
    IN  [definitions |-> [t \in usable |-> results[t].definition],
         issues |-> {issueOf(typeFallbackSeverity(c), definitionIssue(tagOf(t)), <<t>>) :
                        t \in reached \ usable}]

-----------------------------------------------------------------------------
(* Enums.                                                                  *)

\* [enums, invalidEnums, issues]: an enum is [name, members].
compileEnums(definitions) ==
    LET ts == tagged(definitions, "Enum")
        nameless == unnamedIn(definitions, ts)
        colliding == collidingIn(definitions, ts)
        named == ts \ (nameless \cup colliding)
        names(t) == givenNames(definitions[t].members, sanitizePascal)
        repeating == {t \in named : repeatsName(names(t))}
        valid == named \ repeating
    IN  [enums |-> [t \in valid |-> [name |-> typeName(definitions, t),
                                     members |-> ToSet(names(t))]],
         invalidEnums |-> ts \ valid,
         issues |-> {issue("enum.emptyName", <<t>>) : t \in nameless}
               \cup {issue("enum.nameCollision", <<typeName(definitions, t)>>) : t \in colliding}
               \cup {issue("enum.memberNameCollision", <<t>>) : t \in repeating}
               \cup {issue("enum.memberEmptyName", <<t>>) : t \in
                        {u \in named : unnamed(definitions[u].members, sanitizePascal) # {}}}]

-----------------------------------------------------------------------------
(* Structures.                                                             *)

fieldsOf(definitions, t) == ToSet(definitions[t].fields)

\* reaches[k]: what t refers to in at most k steps, itself included.
reaches(definitions, raw, from, target) ==
    LET closure[k \in 0..Cardinality(raw)] ==
            IF k = 0 THEN {from}
            ELSE closure[k - 1] \cup
                 {f.type : f \in UNION {fieldsOf(definitions, t) : t \in closure[k - 1] \cap raw}}
    IN  target \in closure[Cardinality(raw)]

\* The fields through which a structure contains itself.
recursiveStructureFields(definitions, raw, t) ==
    {f \in fieldsOf(definitions, t) : f.type \in raw /\ reaches(definitions, raw, f.type, t)}

Unknown == [tag |-> "Unknown", name |-> NoName, array |-> FALSE]

\* The schema of a field of an accepted type, where "enums" and "structures" are
\* those without an error, and whether the field costs an issue.
fieldSchema(f, definitions, enumGraph, valid) ==
    LET schema(tag, name) == [tag |-> tag, name |-> name, array |-> f.rank = "Array"] IN
    IF isUnsupportedArrayRank(f.rank) THEN Unknown
    ELSE IF f.type \in Scalars THEN schema("Scalar", f.type)
    ELSE IF f.type \in DOMAIN enumGraph.enums
    THEN schema("Enum", enumGraph.enums[f.type].name)
    ELSE IF f.type \in enumGraph.invalidEnums THEN schema("Scalar", NumberType)
    ELSE IF f.type \in valid THEN schema("Structure", typeName(definitions, f.type))
    ELSE IF f.type \in DynamicScalars THEN schema("Unknown", NoName)
    ELSE Unknown

\* Every field left Unknown has an issue, except those whose type is a valid
\* definition, which there is none of.
compileStructures(c, definitions, enumGraph) ==
    LET raw == tagged(definitions, "Structure")
        nameless == unnamedIn(definitions, raw)
        colliding == collidingIn(definitions, raw)
        ofKind(kind) == {t \in raw : definitions[t].kind = kind}
        named == raw \ (nameless \cup colliding \cup ofKind("Union") \cup ofKind("Unknown"))
        names(t) == givenNames(definitions[t].fields, sanitizeCamel)
        repeating == {t \in named : repeatsName(names(t))}
        valid == named \ repeating
        recursive(t) == recursiveStructureFields(definitions, raw, t)
        schemaOf(t, f) == IF f \in recursive(t) THEN Unknown
                          ELSE fieldSchema(f, definitions, enumGraph, valid)
        severity == typeFallbackSeverity(c)
    IN  [structures |->
            [t \in valid |-> [name |-> typeName(definitions, t),
                fields |-> [i \in DOMAIN definitions[t].fields |->
                    [name |-> names(t)[i], schema |-> schemaOf(t, definitions[t].fields[i])]]]],
         issues |-> {issue("structure.emptyName", <<t>>) : t \in nameless}
            \cup {issue("structure.nameCollision", <<typeName(definitions, t)>>) : t \in colliding}
            \cup {issue("structure.fieldNameCollision", <<t>>) : t \in repeating}
            \cup {issue("structure.fieldEmptyName", <<t>>) : t \in
                     {u \in named : unnamed(definitions[u].fields, sanitizeCamel) # {}}}
            \cup {issueOf(severity, "datatype.unionUnsupported", <<t>>) : t \in ofKind("Union")}
            \cup {issueOf(severity, "datatype.definitionUnsupported", <<t>>) : t \in ofKind("Unknown")}
            \cup UNION {{issueOf(severity,
                            IF f \in recursive(t) THEN "structure.recursiveField"
                            ELSE "structure.unsupportedField", <<t>>) :
                           f \in {g \in fieldsOf(definitions, t) : schemaOf(t, g).tag = "Unknown"}} :
                        t \in valid}]

-----------------------------------------------------------------------------
(* Variables.  An item is [node, path, generatedPath].                     *)

generatedPath(path) == [i \in DOMAIN path |-> sanitizePascal[path[i]]]

relativeGeneratedPath(c, n) ==
    LET best == nodes[n].best
        root == roots[best.rootIndex]
        stripped == SubSeq(best.path, Len(root.path) + 1, Len(best.path))
        path == IF root.exportPrefix = NoName THEN stripped
                ELSE <<root.exportPrefix>> \o stripped
    IN  [node |-> n, path |-> path, generatedPath |-> generatedPath(path)]

surfaceNodes(c) ==
    {item \in {relativeGeneratedPath(c, n) : n \in DOMAIN nodes} : item.path # <<>>}

\* A segment without a name, and two siblings of one parent path whose different
\* names generate one key.
pathIssues(items) ==
    {issue("path.emptyGeneratedKey", item.path) :
        item \in {i \in items : NoName \in ToSet(i.generatedPath)}}
    \cup {issue("path.generatedKeyCollision", Front(item.path)) :
        item \in {i \in items : \E j \in items :
            /\ Front(i.path) = Front(j.path) /\ Last(i.path) # Last(j.path)
            /\ Last(i.generatedPath) = Last(j.generatedPath)
            /\ Last(i.generatedPath) # NoName}}

variableCodec(n, graph) ==
    LET t == space.nodes[n].dataType
        codec(tag, name) == [tag |-> tag, name |-> name, array |-> space.nodes[n].rank = "Array"]
        Dynamic == [tag |-> "Dynamic", name |-> NoName, array |-> FALSE]
    IN  IF isUnsupportedArrayRank(space.nodes[n].rank) THEN Dynamic
        ELSE IF t \in DOMAIN graph.structures THEN codec("Structure", graph.structures[t].name)
        ELSE IF t \in DOMAIN graph.enums THEN codec("Enum", graph.enums[t].name)
        ELSE IF t \in graph.invalidEnums THEN codec("Schema", NumberType)
        ELSE IF t \in Scalars THEN codec("Schema", t) ELSE Dynamic

\* A type that is meant to be dynamic is emitted as such without an issue; a union
\* has a code of its own, which makes no difference.
codecIssues(c, n, graph) ==
    LET t == space.nodes[n].dataType IN
    IF isUnsupportedArrayRank(space.nodes[n].rank)
    THEN {issueOf(typeFallbackSeverity(c), "codec.unsupportedArrayRank", <<n>>)}
    ELSE IF variableCodec(n, graph).tag = "Dynamic" /\ t \notin DynamicScalars
    THEN {issueOf(typeFallbackSeverity(c), "codec.dynamicFallback", <<t>>)} ELSE {}

isAccessible(n) == space.nodes[n].access # "none"

\* [variables, issues]
compileVariables(c, items, graph) ==
    LET emitted == {item \in items : isAccessible(item.node)}
    IN  [variables |-> {[path |-> item.path, generatedPath |-> item.generatedPath,
                         node |-> item.node, access |-> space.nodes[item.node].access,
                         codec |-> variableCodec(item.node, graph)] : item \in emitted},
         issues |-> (UNION {codecIssues(c, item.node, graph) : item \in emitted})
            \cup {issue("variable.notAccessibleSkipped", item.path) : item \in items \ emitted}]

-----------------------------------------------------------------------------
(* The model.                                                              *)

modelIssues(variables, graph) ==
    {issue("path.generatedPathCollision", v.generatedPath) :
        v \in {x \in variables : \E y \in variables \ {x} : x.generatedPath = y.generatedPath}}
    \cup {issue("path.branchLeafCollision", v.generatedPath) :
        v \in {x \in variables : \E y \in variables :
                  IsStrictPrefix(x.generatedPath, y.generatedPath)}}
    \cup (IF /\ \E v \in variables : Head(v.generatedPath) = DataTypesKey
             /\ DOMAIN graph.enums \cup DOMAIN graph.structures # {}
          THEN {issue("path.topLevelExportCollision", <<DataTypesKey>>)} ELSE {})

\* Defect: structures in the order of their names.
sortStructuresByName(structures) ==
    inOrderOfNames(Range(structures))

dependencies(s, structures) ==
    {d \in Range(structures) :
        \E i \in DOMAIN s.fields : /\ s.fields[i].schema.tag = "Structure"
                                   /\ s.fields[i].schema.name = d.name}

\* A walk through the structures in the order of their names that puts each after
\* those it refers to.
sortStructures(structures) ==
    LET all == Range(structures)
        visit[at \in [seen : SUBSET all, sorted : Seq(all), pending : Seq(all)]] ==
            IF at.pending = <<>> THEN at
            ELSE LET s == Head(at.pending)
                     below == visit[[seen |-> at.seen \cup {s}, sorted |-> at.sorted,
                                     pending |-> inOrderOfNames(dependencies(s, structures))]]
                 IN  visit[[seen |-> IF s \in at.seen THEN at.seen ELSE below.seen,
                            sorted |-> IF s \in at.seen THEN at.sorted ELSE Append(below.sorted, s),
                            pending |-> Tail(at.pending)]]
    IN  visit[[seen |-> {}, sorted |-> <<>>, pending |-> inOrderOfNames(all)]].sorted

compileReachableTypes(c, types, results) ==
    LET reachable == reachableDefinitions(c, types, results)
        enumGraph == compileEnums(reachable.definitions)
        structureGraph == compileStructures(c, reachable.definitions, enumGraph)
    IN  [enums |-> enumGraph.enums, invalidEnums |-> enumGraph.invalidEnums,
         structures |-> structureGraph.structures,
         issues |-> reachable.issues \cup enumGraph.issues \cup structureGraph.issues]

isFatal(found) == \E i \in found : i.severity = "error"

\* [issues, model], where the model only counts if no issue is fatal.  The code
\* stops before the types if a path is at fault.
compile(c) ==
    LET items == surfaceNodes(c)
        early == issues \cup pathIssues(items)
        variableItems == {i \in items : space.nodes[i.node].nodeClass = "Variable"}
        graph == compileReachableTypes(c, {space.nodes[i.node].dataType : i \in variableItems},
                                       dataTypeResults)
        result == compileVariables(c, variableItems, graph)
    IN  IF isFatal(early) THEN [issues |-> early, model |-> emptyMap]
        ELSE [issues |-> early \cup graph.issues \cup result.issues
                            \cup modelIssues(result.variables, graph),
              model |-> [variables |-> result.variables, enums |-> graph.enums,
                         structures |-> sortStructures(graph.structures)]]

\* Warnings count as errors if the configuration says so.
enforceIssuePolicy(c, found) ==
    IF c.warningsAsErrors /\ \E i \in found : i.severity = "warning" THEN "fail"
    ELSE IF isFatal(found) THEN "fail" ELSE "pass"
=============================================================================
