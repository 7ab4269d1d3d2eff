-------------------------- MODULE MCSessionCaches --------------------------
(***************************************************************************)
(* Values for the constants of SessionCaches: a variable and a method that *)
(* share a data type, as a structured read and a plain call use them.      *)
(***************************************************************************)
EXTENDS SessionCaches

CONSTANTS d1, d2

VariableAndMethod == {"variable", "method"}

ReadsOf    == [t \in VariableAndMethod |-> IF t = "method" THEN 2 ELSE 1]
TypesUsed  == [t \in VariableAndMethod |-> IF t = "method" THEN <<d1, d2>> ELSE <<d1>>]
EnsuresOf  == [t \in VariableAndMethod |-> IF t = "method" THEN 0 ELSE 2]

=============================================================================
