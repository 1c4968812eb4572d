---------------------------- MODULE MCBlockPull ----------------------------
(* Small instances of BlockPull for TLC.                                   *)
EXTENDS BlockPull

CONSTANTS h1, h2, h3

(* A file whose first block occurs again at its end.                       *)
RepeatedBlock == <<h1, h2, h1>>
TwoBlocks     == <<h1, h2>>
=============================================================================
