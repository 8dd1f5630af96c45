----------------------------- MODULE MCQwen35Kv -----------------------------
(* Model-checking instance of Qwen35Kv: tokens and slots are interchangeable. *)
EXTENDS Qwen35Kv, TLC

Symmetry == Permutations(Token) \cup Permutations(Slots)

=============================================================================
