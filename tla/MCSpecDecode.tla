---------------------------- MODULE MCSpecDecode ----------------------------
(* Instances of SpecDecode for model checking. *)
EXTENDS SpecDecode

CONSTANTS a, b

MCClose      == <<a, b>>
MCToolPrefix == <<b>>
MCPeriods    == {1}
=============================================================================
