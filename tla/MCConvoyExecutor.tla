-------------------------- MODULE MCConvoyExecutor --------------------------
(***************************************************************************)
(* Small instances of ConvoyExecutor for TLC.                              *)
(***************************************************************************)
EXTENDS ConvoyExecutor, TLC

CONSTANTS c1, s1, s2, s3, blog, pitch, social

NoDeps == [s \in StepIds |-> {}]

\* s3 is of a type that always needs approval; the others are not.
TypeOf == [s \in StepIds |-> IF s = s3 THEN pitch
                             ELSE IF s = s2 THEN social ELSE blog]

MkPlan(S, d) == [steps |-> S, polecat_type |-> TypeOf, depends_on |-> d @@ NoDeps]

\* Chain by id, fork by polecat type, join, two branches, independent steps, a
\* step whose dependency nothing provides, a cycle, and the empty plan.
ThreeStepPlans == {
  MkPlan({s1, s2, s3}, s2 :> {s1} @@ s3 :> {s2}),
  MkPlan({s1, s2, s3}, s2 :> {blog} @@ s3 :> {blog}),
  MkPlan({s1, s2, s3}, s3 :> {s1, social}),
  MkPlan({s1, s2, s3}, s3 :> {s1}),
  MkPlan({s1, s2, s3}, NoDeps),
  MkPlan({s1, s2}, s2 :> {pitch}),
  MkPlan({s1, s2}, s1 :> {s2} @@ s2 :> {blog}),
  MkPlan({}, NoDeps)}

\* A chain by id that ends in an always-approve step, and a pair beside it.
OpsPlans == {
  MkPlan({s1, s2, s3}, s2 :> {s1} @@ s3 :> {s2}),
  MkPlan({s2, s3}, NoDeps)}
=============================================================================
