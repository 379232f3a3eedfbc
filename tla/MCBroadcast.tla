---------------------------- MODULE MCBroadcast -----------------------------
(* Instances of Broadcast for TLC: none, in a set of times, is -1.         *)
EXTENDS Broadcast

WithinAny == {None, 0}
AnyTime == {None}
VideoOrNone == {0, None}
=============================================================================
