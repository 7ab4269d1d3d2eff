---------------------------- MODULE MCDemoClient ----------------------------
(* Two layers.  Two submits of the first use one command id, as a caller    *)
(* does that tries again before the first try has ended; the submit of the   *)
(* second layer asks for a product name of spaces, which only the server     *)
(* refuses, and its entry pushes that of the others out of a buffer of one.  *)
EXTENDS DemoClient

CONSTANTS s1, s2, s3, L1, L2

MCLayerOf == s1 :> L1 @@ s2 :> L1 @@ s3 :> L2
MCRequestOf ==
    s1 :> [id |-> 1, kind |-> "Plain", payload |-> "Absent"]
    @@ s2 :> [id |-> 1, kind |-> "Plain", payload |-> "Absent"]
    @@ s3 :> [id |-> 2, kind |-> "Typed", payload |-> "Blank"]
=============================================================================
