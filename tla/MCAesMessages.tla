--------------------------- MODULE MCAesMessages ----------------------------
(***************************************************************************)
(* AesMessages with IVs of a few bits.                                     *)
(***************************************************************************)
EXTENDS AesMessages, Bitwise

XorOfBits(a, b) == a ^^ b
=============================================================================
