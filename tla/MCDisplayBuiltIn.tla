--------------------------- MODULE MCDisplayBuiltIn ---------------------------
(* One display, for TLC: two buffers alike and one that is not. *)
EXTENDS SDMCompDisplayBuiltIn, TLC

CONSTANTS b1, b2, b3, small, large

BufferGeometry == [b \in Buffer |-> IF b = b3 THEN large ELSE small]
=============================================================================
