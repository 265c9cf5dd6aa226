-------------------------- MODULE MCConvoyEventLoop -------------------------
(***************************************************************************)
(* The smallest instance of ConvoyEventLoop with two branches: s1 then s3, *)
(* and s2 beside them.                                                     *)
(***************************************************************************)
EXTENDS ConvoyEventLoop

CONSTANTS c1, s1, s2, s3, blog, pitch

TwoBranchPlans == {
  [steps |-> {s1, s2, s3},
   polecat_type |-> [s \in StepIds |-> IF s = s3 THEN pitch ELSE blog],
   depends_on |-> [s \in StepIds |-> IF s = s3 THEN {s1} ELSE {}]]}
=============================================================================
