-------------------------- MODULE MCActiveClipboard --------------------------
(* Small instances of ActiveClipboard for TLC. *)
EXTENDS ActiveClipboard

TwoDevices == 1 .. 2
ThreeDevices == 1 .. 3

(* Everybody knows everybody. *)
Mesh == {l \in Device \X Device : l[1] # l[2]}

(* 1 - 2 - 3: the ends only hear of each other through the middle. *)
Chain == {<<1, 2>>, <<2, 1>>, <<2, 3>>, <<3, 2>>}
=============================================================================
