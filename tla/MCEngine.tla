------------------------------ MODULE MCEngine ------------------------------
(* Model-checking instance of Engine: two concurrent callers, two FQNs.   *)
EXTENDS Engine

CONSTANTS c1, c2, k1, k2, b1, b2, d1

MCCallers == {c1, c2}
MCFQNs == {k1, k2}
MCKinds == {b1, b2}
MCDSDescs == {d1}

=============================================================================
