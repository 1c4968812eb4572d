---------------------------- MODULE MCBlockPush ----------------------------
(* Small instances of BlockPush for TLC.                                   *)
EXTENDS BlockPush

CONSTANTS b1, b2, p, x
=============================================================================
