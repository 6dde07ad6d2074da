-------------------------- MODULE MCKeyAttributes --------------------------
(***************************************************************************)
(* KeyAttributes for TLC.                                                  *)
(***************************************************************************)
EXTENDS KeyAttributes, TLC

CONSTANTS k1, k2, k3, v1, v2, v3

MCKeys   == {k1, k2, k3}
MCValues == {v1, v2, v3}

(* A key in the open, one that may be wrapped, and one that may not; each  *)
(* also lacks one of the rights the others have.                           *)
MCTemplates ==
  {[a \in Attributes |-> a \in on] :
     on \in {{"EXTRACTABLE", "MODIFIABLE", "COPYABLE", "WRAP_WITH_TRUSTED"},
            {"SENSITIVE", "EXTRACTABLE", "MODIFIABLE"},
            {"SENSITIVE", "COPYABLE"}}}

Symmetry == Permutations(MCKeys) \cup Permutations(MCValues)
=============================================================================
