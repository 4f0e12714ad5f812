-------------------------- MODULE MCConformanceRun --------------------------
(***************************************************************************)
(* An instance of ConformanceRun with a rule of five test cases, one of    *)
(* which does not satisfy the rule's condition, and a rule of one.         *)
(***************************************************************************)
EXTENDS ConformanceRun

TwoRules == <<5, 1>>
SecondOfFirst == {<<1, 2>>}
=============================================================================
