------------------------ MODULE MCObjectConditions ------------------------
(***************************************************************************)
(* An instance of ObjectConditions: a policy that refers to either of two  *)
(* clusters, or has a stage the controller does not know.                  *)
(***************************************************************************)
EXTENDS ObjectConditions

CONSTANTS a, b, toA, toB, badStage

MCRefOf == [s \in Specs |-> IF s = toB THEN b ELSE a]

=============================================================================
