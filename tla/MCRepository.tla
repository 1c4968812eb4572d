---------------------------- MODULE MCRepository ----------------------------
(* Small instances of Repository for TLC.                                  *)
EXTENDS Repository, TLC

CONSTANTS p1, p2

(* Paths are only compared for equality.                                   *)
Paths == Permutations(Path)
=============================================================================
