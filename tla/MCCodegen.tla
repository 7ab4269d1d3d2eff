---------------------------- MODULE MCCodegen ----------------------------
(* Three address spaces: one with a node that two paths lead to and with    *)
(* what discovery ignores, references without a name among it, one with     *)
(* names that generate the same key or none, and one whose names are        *)
(* ambiguous.                                                               *)
EXTENDS Codegen

ref(name, target) == [name |-> name, target |-> target, type |-> "Hierarchical",
                      forward |-> TRUE]
object(name) == [nodeClass |-> "Object", browseName |-> name, dataType |-> 11,
                 rank |-> "Scalar", access |-> "none"]
variable(name, type) == [nodeClass |-> "Variable", browseName |-> name, dataType |-> type,
                         rank |-> "Scalar", access |-> "readWrite"]

Leaves == [n \in 0..8 |-> {}]

Plant ==
    [nodes |-> 0 :> object(0) @@ 1 :> object(1) @@ 2 :> object(2) @@ 5 :> object(5)
            @@ 3 :> variable(3, 1) @@ 6 :> variable(3, 11) @@ 7 :> variable(6, 2)
            @@ 4 :> variable(4, 11) @@ 8 :> [object(8) EXCEPT !.nodeClass = "View"],
     references |-> 0 :> {ref(1, 1)}
            @@ 1 :> {ref(2, 2), ref(3, 3), ref(5, 5), ref(8, 8),
                     [ref(4, 4) EXCEPT !.type = "Property"],
                     [ref(6, 0) EXCEPT !.forward = FALSE],
                     [ref(6, 6) EXCEPT !.type = "TypeDefinition"]}
            @@ 2 :> {ref(3, 6), ref(5, 5), ref(NoBrowseName, 5), ref(NoBrowseName, 7)}
            @@ 5 :> {ref(6, 7)} @@ Leaves]
Awkward ==
    [nodes |-> 0 :> object(0) @@ 1 :> object(1) @@ 2 :> object(9) @@ 5 :> object(5)
            @@ 3 :> variable(3, 1) @@ 4 :> variable(8, 2)
            @@ 6 :> [variable(6, 12) EXCEPT !.access = "none"]
            @@ 7 :> [variable(3, 2) EXCEPT !.rank = "Matrix"],
     references |-> 0 :> {ref(1, 1)}
            @@ 1 :> {ref(9, 2), ref(3, 3), ref(5, 5), ref(8, 4)}
            @@ 2 :> {ref(6, 6)}
            @@ 5 :> {ref(3, 7), ref(6, 6)} @@ Leaves]
Ambiguous ==
    [Plant EXCEPT !.references[5] = {ref(6, 7), ref(6, 3)}]
MCSpaces == {Plant, Awkward, Ambiguous}

path(p, prefix) == [by |-> "path", nodeId |-> 0, path |-> p, exportPrefix |-> prefix]
node(n, prefix) == [by |-> "nodeId", nodeId |-> n, path |-> <<>>, exportPrefix |-> prefix]
anywhere(names) == <<[deep |-> TRUE, names |-> {}], [deep |-> FALSE, names |-> names]>>
exactly(p) == [i \in DOMAIN p |-> [deep |-> FALSE, names |-> {p[i]}]]
rule(pattern, mode) == [path |-> pattern, mode |-> mode]
lenient == [roots |-> <<path(<<1>>, 0)>>, exclude |-> <<>>, onBrowseFailure |-> "warn",
            typeFallback |-> "dynamic", warningsAsErrors |-> FALSE]
MCConfigs == {
    lenient,
    [lenient EXCEPT !.roots = <<path(<<1>>, 0), path(<<1, 5>>, 6)>>,
                    !.exclude = <<rule(anywhere({8, 9}), "omit")>>],
    [lenient EXCEPT !.roots = <<node(5, 7), path(<<1>>, 0)>>,
                    !.exclude = <<rule(exactly(<<1, 2>>), "prune"),
                                  rule(anywhere({2, 5, 8}), "omit")>>,
                    !.onBrowseFailure = "fail", !.typeFallback = "fail"],
    [lenient EXCEPT !.roots = <<path(<<1, 6>>, 0)>>, !.warningsAsErrors = TRUE]}

field(name, type) == [name |-> name, type |-> type, rank |-> "Scalar"]
success(definition) == [tag |-> "Success", definition |-> definition]
structure(name, fields) ==
    success([tag |-> "Structure", kind |-> "Structure", name |-> name, fields |-> fields])
union(name) ==
    success([tag |-> "Structure", kind |-> "Union", name |-> name, fields |-> <<field(1, 11)>>])
enum(name, members) ==
    success([tag |-> "Enum", name |-> name,
             members |-> [i \in DOMAIN members |-> [name |-> members[i], value |-> i]]])
no(tag) == [tag |-> tag]

\* What is read of a type by its attribute, its properties or the dictionaries.
attribute(result) == [attribute |-> result, properties |-> emptyMap, dynamic |-> no("Missing")]
values(result) ==
    [attribute(no("Missing")) EXCEPT
        !.properties = "EnumValues" :> result @@ "EnumStrings" :> enum(4, <<1>>)]
strings(result) == [attribute(no("Missing")) EXCEPT !.properties = "EnumStrings" :> result]
dynamic(read, result) == [attribute(read) EXCEPT !.dynamic = result]
MCTypeWorlds == {1 :> x @@ 2 :> y @@ 3 :> z :
    x \in {attribute(structure(1, <<field(1, 2), field(2, 3), field(9, 12)>>)),
           dynamic(structure(5, <<>>), structure(5, <<field(1, 11), field(8, 3)>>)),
           dynamic(structure(5, <<>>), enum(5, <<>>)),
           values(no("Failure"))},
    y \in {attribute(structure(2, <<field(1, 1)>>)),
           dynamic(no("Missing"), structure(1, <<field(3, 3), field(8, 11)>>)),
           strings(enum(3, <<1, 2, 9>>)), values(enum(3, <<3, 8>>)), attribute(union(2))},
    z \in {attribute(structure(3, <<[field(1, 11) EXCEPT !.rank = "Array"],
                                    [field(2, 11) EXCEPT !.rank = "Matrix"]>>)),
           attribute(enum(8, <<1>>)), attribute(no("Missing"))}}

MCPascal == [n \in 0..9 |-> IF n = 8 THEN 3 ELSE IF n = 9 THEN 0 ELSE n]
MCDisks == {"variables" :> x @@ "enums" :> y @@ "old" :> z :
    x \in {"absent", "current", "foreign"}, y \in {"current", "generated"},
    z \in {"absent", "generated"}}
MCFiles == <<"enums", "variables">>
=============================================================================
