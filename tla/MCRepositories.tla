--------------------------- MODULE MCRepositories ---------------------------
(***************************************************************************)
(* Three clients or administrators, who may be any of the requests.        *)
(***************************************************************************)
EXTENDS PullThrough, TLC

CONSTANTS j1, j2, j3, d1, d2

Interchangeable == Permutations(Jobs) \cup Permutations(Digests)
=============================================================================
