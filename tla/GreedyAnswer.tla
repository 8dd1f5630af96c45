---------------------------- MODULE GreedyAnswer ----------------------------
(***************************************************************************)
(* What decoding promises, however it speculates: token by token the       *)
(* answer is the story, the target's own greedy continuation, until a hook *)
(* departs from it; nothing follows an end-of-sequence token, and only an  *)
(* injected tool prefix may exceed the number of tokens asked for.         *)
(***************************************************************************)
EXTENDS Naturals, Sequences

CONSTANTS Token, Eos, NGen, ToolPrefix

VARIABLES story, out, departed

vars == <<story, out, departed>>

Init == out = <<>> /\ departed = FALSE

Open == (out = <<>> \/ out[Len(out)] # Eos) /\ UNCHANGED story

Follow ==
    /\ Open /\ ~departed /\ Len(out) < NGen
    /\ out' = Append(out, story[Len(out) + 1])
    /\ UNCHANGED departed

Depart ==
    /\ Open /\ ~departed
    /\ departed' = TRUE
    /\ \/ UNCHANGED out
       \/ out' = out \o ToolPrefix
       \/ Len(out) < NGen /\ \E t \in Token : out' = Append(out, t)

Continue ==
    /\ Open /\ departed /\ Len(out) < NGen
    /\ \E t \in Token : out' = Append(out, t)
    /\ UNCHANGED departed

Next == Follow \/ Depart \/ Continue

Spec == Init /\ [][Next]_vars
=============================================================================
