----------------------------- MODULE MCSessions -----------------------------
(* Instances of Sessions for TLC.  Keys are interchangeable: they are only *)
(* stored and compared.                                                    *)
EXTENDS Sessions, TLC

CONSTANTS s1, s2, k1, k2, p0, p1, p2

KeySymmetry == Permutations(Keys)
Symmetry    == KeySymmetry \cup Permutations(Slots)
=============================================================================
