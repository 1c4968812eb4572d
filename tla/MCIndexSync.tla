---------------------------- MODULE MCIndexSync ----------------------------
(* Small instances of IndexSync for TLC.                                   *)
EXTENDS IndexSync

CONSTANTS c1, c2, d1, d2, f1, f2, p1, p2, x1, x2

Rec(p, t, s) == [path |-> p, modified |-> t, valid |-> s]

(* One device, reached over two connections, one after the other or both   *)
(* at once; a later record is older than an earlier one of the same path.  *)
OneDevice     == [c \in Conn |-> d1]
OneIndex      == [c \in Conn |-> [d \in Device |-> x1]]
ShortLog      == [x \in Index |-> [f \in Folder |->
                   <<Rec(p1, 2, TRUE), Rec(p1, 1, TRUE)>>]]
AnnounceTwo   == [c \in Conn |-> [d \in Device |-> [f \in Folder |-> 2]]]

(* Two devices with an index each, sharing one folder.                     *)
TwoDevices    == [c \in Conn |-> IF c = c1 THEN d1 ELSE d2]
TwoIndexes    == [c \in Conn |-> [d \in Device |-> IF d = d1 THEN x1 ELSE x2]]
TwoLogs       == [x \in Index |-> [f \in Folder |->
                   IF x = x1 THEN <<Rec(p1, 1, TRUE), Rec(p1, 3, TRUE)>>
                             ELSE <<Rec(p1, 2, TRUE)>>]]
(* The peer of c1 knows the indexes of both, that of c2 has no index ids.  *)
AnnounceOther == [c \in Conn |-> [d \in Device |-> [f \in Folder |->
                   IF c = c2 THEN -1 ELSE IF d = d1 THEN 2 ELSE 1]]]
=============================================================================
