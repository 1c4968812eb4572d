---------------------------- MODULE MCDiscovery ----------------------------
(* Small instances of Discovery for TLC.                                   *)
EXTENDS Discovery

CONSTANTS u1, d1, d2, a1, a2, a3

(* One device has one address, the other has two.                          *)
OneAndTwo == [a \in Address |-> IF a = a1 THEN d1 ELSE d2]
=============================================================================
