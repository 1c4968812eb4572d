---------------------------- MODULE MCIndexFinder ----------------------------
(* Small instances of IndexFinder for TLC.                                 *)
EXTENDS IndexFinder, TLC

CONSTANTS s1, s2, s3, t1, t2

(* Two threads search the same term.                                       *)
TwoAndOne == s1 :> t1 @@ s2 :> t1 @@ s3 :> t2
=============================================================================
