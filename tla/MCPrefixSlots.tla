---------------------------- MODULE MCPrefixSlots ----------------------------
(***************************************************************************)
(* Tokens: 0 placeholder, 1..3 text, 4 what compression puts in place of   *)
(* text, 9 an answer.                                                      *)
(***************************************************************************)
EXTENDS PrefixSlots, TLC

Plain == <<1>>
Grown == <<1, 9>>
Long  == <<3>>
Aged  == <<1, 3, 2>>
Tools == <<3, 2>>

MCPrompt == {Plain, Grown, Long, Aged, Tools}

\* Each prompt is always served in the same form.
StableServed ==
    Plain :> ("verbatim" :> Plain) @@ Grown :> ("verbatim" :> Grown)
      @@ Long :> ("compressed" :> <<4>>) @@ Aged :> ("flowkv" :> <<1, 4>>)
      @@ Tools :> ("rewritten" :> <<1>>)

Longer == <<1, 3, 2>>

FewPrompt == {Longer}

\* The same prompt is compressed in one request and kept verbatim in another.
ChangingServed == Longer :> ("compressed" :> <<4, 2>> @@ "verbatim" :> Longer)

Symmetry == Permutations(Inline)

=============================================================================
