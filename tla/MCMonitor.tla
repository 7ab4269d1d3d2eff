----------------------------- MODULE MCMonitor -----------------------------
(***************************************************************************)
(* Values for the constants of Monitor.                                    *)
(***************************************************************************)
EXTENDS Monitor

\* Items 1 and 3 are compatible, 2 needs a request of its own.
CompatInterleaved == [i \in Items |-> IF i = 2 THEN "b" ELSE "a"]
CompatAll         == [i \in Items |-> "a"]

OnlyDropping == {Dropping(1)}
BothPolicies == {Sliding(2), Dropping(1)}
=============================================================================
