------------------------------ MODULE MCBrowse ------------------------------
(***************************************************************************)
(* Values for the constants of Browse: three callers with page sizes of    *)
(* their own, the third without a limit.                                   *)
(***************************************************************************)
EXTENDS Browse

CONSTANTS c1, c2, c3

OwnLimits == [c \in Callers |-> CASE c = c1 -> 1 [] c = c2 -> 2 [] c = c3 -> 0]
=============================================================================
