---------------------------- MODULE MCSequencer ----------------------------
(* Small instances of Sequencer for TLC.                                   *)
EXTENDS Sequencer, TLC

CONSTANTS u1, u2

(* Uploads are alike: no property names one.                               *)
Symmetry == Permutations(Upload)
=============================================================================
