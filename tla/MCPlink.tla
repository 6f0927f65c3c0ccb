------------------------------- MODULE MCPlink -------------------------------
(* Instances of Plink for TLC. *)
EXTENDS Plink, TLC

Symmetric == Permutations(Name) \cup Permutations(UpIno) \cup Permutations(LowIno)
=============================================================================
