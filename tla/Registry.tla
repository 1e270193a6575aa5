------------------------------ MODULE Registry ------------------------------
(***************************************************************************)
(* What the Feature registry promises its callers (spec section 4.3 and    *)
(* section 5), as one atomic step per operation: a Feature is bound under  *)
(* its FQN only after its builder plugin was found and applied, unbinding  *)
(* removes it, and the set of registered builders only grows.              *)
(*                                                                         *)
(* With Upsert = FALSE binding is the spec's "not an upsert": it happens   *)
(* only while the FQN is unbound, so a benign race never produces two      *)
(* Features for one FQN.  With Upsert = TRUE a bind may replace a bound    *)
(* Feature.                                                                *)
(***************************************************************************)
CONSTANTS
  FQNs,        \* names of features
  Kinds,       \* builder kinds
  Features,    \* the Feature values, records with fqn, builder, applied
  NoFeature,   \* an unbound FQN
  Upsert       \* whether BindFeature may replace a bound Feature

VARIABLES features, appliers

Init ==
  /\ features = [k \in FQNs |-> NoFeature]
  /\ appliers \in SUBSET Kinds

Register(kind) ==
  /\ appliers' = appliers \cup {kind}
  /\ UNCHANGED features

BindFeature(f) ==
  /\ f.applied
  /\ f.builder \in appliers
  /\ Upsert \/ features[f.fqn] = NoFeature
  /\ features' = [features EXCEPT ![f.fqn] = f]
  /\ UNCHANGED appliers

UnbindFeature(k) ==
  /\ features' = [features EXCEPT ![k] = NoFeature]
  /\ UNCHANGED appliers

Next ==
  \/ \E b \in Kinds : Register(b)
  \/ \E f \in Features : BindFeature(f)
  \/ \E k \in FQNs : UnbindFeature(k)

Spec == Init /\ [][Next]_<<features, appliers>>

=============================================================================
