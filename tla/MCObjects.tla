----------------------------- MODULE MCObjects -----------------------------
(***************************************************************************)
(* Objects for TLC.                                                        *)
(***************************************************************************)
EXTENDS Objects, TLC

CONSTANTS s1, s2

MCSessionHandles == {s1, s2}
Symmetry == Permutations(MCSessionHandles)
=============================================================================
