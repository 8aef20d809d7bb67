----------------------------- MODULE MCSettings -----------------------------
(* Two projects, which are alike, and a list for two.                       *)
EXTENDS Settings, TLC

MCStripped == [p \in Path |-> p]
Alike == Permutations(Path)
=============================================================================
