---------------------------- MODULE MCOperations ----------------------------
(***************************************************************************)
(* One writer, two operations of the manager and one backup set.           *)
(***************************************************************************)
EXTENDS Operations, TLC

CONSTANTS r1, r2, s1, collector, backup

Interchangeable == Permutations({r1, r2})
=============================================================================
