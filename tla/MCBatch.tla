------------------------------ MODULE MCBatch ------------------------------
(***************************************************************************)
(* Values for the constants of Batch: records of no entry, of one and of   *)
(* three requests, with and without a node that is named twice.            *)
(***************************************************************************)
EXTENDS Batch

CONSTANTS n1, n2, n3, n4, n5

SomeRecords ==
  {<<>>, <<n1>>, <<n1, n1>>, <<n1, n2, n3>>, <<n1, n2, n3, n4, n5>>, <<n1, n2, n3, n4, n1>>}
=============================================================================
