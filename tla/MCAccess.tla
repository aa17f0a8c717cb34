------------------------------- MODULE MCAccess -------------------------------
(***************************************************************************)
(* Users who may be anybody at first, one an administrator, and two        *)
(* requests at a time.                                                     *)
(***************************************************************************)
EXTENDS Access, TLC

CONSTANTS u1, u2, j1, j2

Interchangeable == Permutations(Users) \cup Permutations(Jobs)
=============================================================================
