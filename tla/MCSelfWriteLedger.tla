------------------------- MODULE MCSelfWriteLedger -------------------------
(* Small instances of SelfWriteLedger for TLC. *)
EXTENDS SelfWriteLedger, TLC

CONSTANTS text, png, dib

(* The OS turns the png it is given into a dib of the same picture. *)
AsDib == [k \in Content |-> IF k = png THEN dib ELSE k]
AsPng == [k \in Content |-> IF k = dib THEN png ELSE k]

(* Writers differ in nothing but their names. *)
AnyWriter == Permutations(Writer)
=============================================================================
