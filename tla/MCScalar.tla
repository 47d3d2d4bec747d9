------------------------------ MODULE MCScalar ------------------------------
(* Instances of Scalar; the stand-in for the sigmoid gives its node a value   *)
(* whose derivative, v (1 - v), is neither 0 nor 1.                           *)
EXTENDS Scalar

MCLeaves == {3, -2}
MCSigmoid(x) == IF x > 0 THEN 2 ELSE -1
=============================================================================
