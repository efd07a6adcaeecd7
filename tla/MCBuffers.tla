----------------------------- MODULE MCBuffers -----------------------------
(***************************************************************************)
(* SDMCompBuffers for TLC, with a word of 14 bits in place of 32: 64 x 64  *)
(* of two bytes fit it, of four bytes are one byte too large for it, and   *)
(* 128 x 128 wrap before they are multiplied by the bytes.                 *)
(***************************************************************************)
EXTENDS SDMCompBuffers, TLC

SmallWord == 16384

Picture(w, h, f, s) == [width |-> w, height |-> h, format |-> f, size |-> s]

Fitting == Picture(20, 31, "RGB888", 0)
TooLarge == Picture(64, 64, "ARGB8888", 0)
Wrapping == Picture(160, 128, "RGB565", 0)
OfOwnSize == Picture(20, 20, "RGB565", 4096)
Unsupported == Picture(20, 20, "RGB101010", 0)

MCRequest == {Fitting, TooLarge, Wrapping, OfOwnSize, Unsupported}

MCConfig == {[width |-> 33, height |-> 40, format |-> "RGBA4444"]}

ASSUME RequestsCover

Symmetry == Permutations(Handle) \cup Permutations(Memory)
                \cup Permutations(Fd) \cup Permutations(Thread)
=============================================================================
