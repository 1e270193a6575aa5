---------------------------- MODULE EngineProofs ----------------------------
(***************************************************************************)
(* Proofs about the Feature/DataSource registry of module Engine, for all  *)
(* values of its constants.                                                *)
(*                                                                         *)
(* BoundFeaturesBuilt is not inductive on its own: BindStore stores the    *)
(* caller's local Feature ft[c], so the invariant must also say that a     *)
(* caller between FeatureWithEngine and the Store holds a Feature whose    *)
(* builder is registered and was applied (PendingBuilt).                   *)
(***************************************************************************)
EXTENDS Engine, TLAPS

PendingBuilt ==
  \A c \in Callers :
    pc[c] \in {"check", "store"} =>
      /\ ft[c] \in Feature
      /\ ft[c].applied
      /\ ft[c].builder \in appliers

IInv == TypeOK /\ BoundFeaturesBuilt /\ PendingBuilt

LEMMA InitIInv == Init => IInv
PROOF
  <1> SUFFICES ASSUME Init PROVE IInv
    OBVIOUS
  <1>1. TypeOK
    BY SentinelAssumption, MaxCallsAssumption
    DEF Init, TypeOK, Results, PCs
  <1>2. BoundFeaturesBuilt
    BY DEF Init, BoundFeaturesBuilt, BoundFQNs, Bound
  <1>3. PendingBuilt
    BY DEF Init, PendingBuilt
  <1>4. QED BY <1>1, <1>2, <1>3 DEF IInv

LEMMA NextIInv == IInv /\ [Next]_vars => IInv'
PROOF
  <1> SUFFICES ASSUME IInv, [Next]_vars PROVE IInv'
    OBVIOUS
  <1> USE SentinelAssumption, MaxCallsAssumption
  <1>1. ASSUME NEW b \in Kinds, Register(b) PROVE IInv'
    BY <1>1 DEF IInv, TypeOK, BoundFeaturesBuilt, BoundFQNs, Bound,
              PendingBuilt, Register
  <1>2. ASSUME NEW c \in Callers, NEW k \in FQNs, NEW b \in Kinds,
               BindFeature(c, k, b)
        PROVE IInv'
    <2>1. PICK parsed, applyOk \in BOOLEAN :
            LET f == [fqn |-> k, builder |-> b, by |-> c,
                      call |-> calls[c] + 1, applied |-> applyOk]
            IN  \/ /\ ~parsed
                   /\ ret' = [ret EXCEPT ![c] = "ErrInvalidDescriptor"]
                   /\ UNCHANGED <<pc, ft>>
                \/ /\ parsed
                   /\ b \notin appliers
                   /\ ret' = [ret EXCEPT ![c] = "ErrNoBuilder"]
                   /\ UNCHANGED <<pc, ft>>
                \/ /\ parsed
                   /\ b \in appliers
                   /\ ~applyOk
                   /\ ret' = [ret EXCEPT ![c] = "ErrApply"]
                   /\ UNCHANGED <<pc, ft>>
                \/ /\ parsed
                   /\ b \in appliers
                   /\ applyOk
                   /\ ft' = [ft EXCEPT ![c] = f]
                   /\ pc' = [pc EXCEPT ![c] = "check"]
                   /\ UNCHANGED ret
      BY <1>2 DEF BindFeature
    <2>2. calls[c] + 1 \in 1..MaxCalls
      BY <1>2 DEF BindFeature, CanCall, IInv, TypeOK
    <2> DEFINE f == [fqn |-> k, builder |-> b, by |-> c,
                     call |-> calls[c] + 1, applied |-> applyOk]
    <2>a. f \in Feature
      BY <2>2 DEF Feature
    <2>b. calls' \in [Callers -> 0..MaxCalls]
      BY <1>2, <2>2 DEF BindFeature, StartCall, IInv, TypeOK
    <2>c. /\ ret' \in [Callers -> Results]
          /\ ft' \in [Callers -> Feature \cup {NoFeature}]
          /\ pc' \in [Callers -> PCs]
      <3>1. CASE ~parsed
        BY <2>1, <3>1 DEF IInv, TypeOK, Results
      <3>2. CASE parsed /\ b \notin appliers
        BY <2>1, <3>2 DEF IInv, TypeOK, Results
      <3>3. CASE parsed /\ b \in appliers /\ ~applyOk
        BY <2>1, <3>3 DEF IInv, TypeOK, Results
      <3>4. CASE parsed /\ b \in appliers /\ applyOk
        BY <2>1, <2>a, <3>4 DEF IInv, TypeOK, PCs
      <3>5. QED BY <3>1, <3>2, <3>3, <3>4
    <2>3. TypeOK'
      BY <1>2, <2>b, <2>c DEF BindFeature, IInv, TypeOK
    <2>4. BoundFeaturesBuilt'
      BY <1>2 DEF BindFeature, IInv, BoundFeaturesBuilt, BoundFQNs, Bound
    <2>5. PendingBuilt'
      BY <1>2, <2>1, <2>2 DEF BindFeature, CanCall, IInv, TypeOK,
                              PendingBuilt, Feature, Idle
    <2>6. QED BY <2>3, <2>4, <2>5 DEF IInv
  <1>3. ASSUME NEW c \in Callers, BindCheck(c) PROVE IInv'
    BY <1>3 DEF BindCheck, IInv, TypeOK, Results, PCs, BoundFeaturesBuilt,
              BoundFQNs, Bound, PendingBuilt
  <1>4. ASSUME NEW c \in Callers, BindStore(c) PROVE IInv'
    <2>1. ft[c] \in Feature /\ ft[c].applied /\ ft[c].builder \in appliers
      BY <1>4 DEF BindStore, IInv, PendingBuilt
    <2>2. TypeOK'
      BY <1>4, <2>1 DEF BindStore, IInv, TypeOK, Results, PCs, Feature
    <2>3. BoundFeaturesBuilt'
      BY <1>4, <2>1 DEF BindStore, IInv, TypeOK, BoundFeaturesBuilt,
                        BoundFQNs, Bound, Feature
    <2>4. PendingBuilt'
      BY <1>4 DEF BindStore, IInv, TypeOK, PendingBuilt
    <2>5. QED BY <2>2, <2>3, <2>4 DEF IInv
  <1>5. ASSUME NEW c \in Callers, BindDeferInc(c) PROVE IInv'
    BY <1>5 DEF BindDeferInc, IInv, TypeOK, PCs, BoundFeaturesBuilt,
              BoundFQNs, Bound, PendingBuilt
  <1>6. ASSUME NEW c \in Callers, NEW k \in FQNs, UnbindFeature(c, k)
        PROVE IInv'
    BY <1>6 DEF UnbindFeature, CanCall, StartCall, Idle, IInv, TypeOK, PCs,
              BoundFeaturesBuilt, BoundFQNs, Bound, PendingBuilt
  <1>7. ASSUME NEW c \in Callers, UnbindDeferDec(c) PROVE IInv'
    BY <1>7 DEF UnbindDeferDec, IInv, TypeOK, PCs, Results,
              BoundFeaturesBuilt, BoundFQNs, Bound, PendingBuilt
  <1>8. ASSUME NEW c \in Callers, NEW k \in FQNs, HasFeature(c, k)
        PROVE IInv'
    BY <1>8 DEF HasFeature, BoolResult, IInv, TypeOK, Results,
              BoundFeaturesBuilt, BoundFQNs, Bound, PendingBuilt
  <1>9. ASSUME NEW c \in Callers, NEW k \in FQNs, NEW d \in DSDescs,
               BindDataSource(c, k, d)
        PROVE IInv'
    BY <1>9 DEF BindDataSource, CanCall, StartCall, IInv, TypeOK, Results,
              BoundFeaturesBuilt, BoundFQNs, Bound, PendingBuilt
  <1>10. ASSUME NEW c \in Callers, NEW k \in FQNs, UnbindDataSource(c, k)
         PROVE IInv'
    BY <1>10 DEF UnbindDataSource, CanCall, StartCall, IInv, TypeOK, Results,
               BoundFeaturesBuilt, BoundFQNs, Bound, PendingBuilt
  <1>11. ASSUME NEW c \in Callers, NEW k \in FQNs, HasDataSource(c, k)
         PROVE IInv'
    BY <1>11 DEF HasDataSource, BoolResult, IInv, TypeOK, Results,
               BoundFeaturesBuilt, BoundFQNs, Bound, PendingBuilt
  <1>12. ASSUME NEW c \in Callers, NEW k \in FQNs, GetDataSource(c, k)
         PROVE IInv'
    BY <1>12 DEF GetDataSource, IInv, TypeOK, Results,
               BoundFeaturesBuilt, BoundFQNs, Bound, PendingBuilt
  <1>13. CASE UNCHANGED vars
    BY <1>13 DEF vars, IInv, TypeOK, BoundFeaturesBuilt, BoundFQNs, Bound,
               PendingBuilt
  <1>14. QED
    BY <1>1, <1>2, <1>3, <1>4, <1>5, <1>6, <1>7, <1>8, <1>9, <1>10, <1>11,
       <1>12, <1>13 DEF Next

(***************************************************************************)
(* The registry's state keeps its types in every reachable state, for any  *)
(* number of callers, FQNs, builder kinds and any call bound.              *)
(***************************************************************************)
THEOREM TypeCorrect == Spec => []TypeOK
PROOF
  <1>1. IInv => TypeOK BY DEF IInv
  <1>2. QED BY <1>1, InitIInv, NextIInv, PTL DEF Spec

(***************************************************************************)
(* BindFeature never binds a Feature whose descriptor failed to parse,     *)
(* whose builder has no plugin or whose plugin failed, and a bound         *)
(* Feature sits under its own FQN, however the callers interleave and      *)
(* whenever plugins register.                                              *)
(***************************************************************************)
THEOREM BoundFeaturesBuiltInvariant == Spec => []BoundFeaturesBuilt
PROOF
  <1>1. IInv => BoundFeaturesBuilt BY DEF IInv
  <1>2. QED BY <1>1, InitIInv, NextIInv, PTL DEF Spec

(***************************************************************************)
(* The engine implements the registry in which a bind may replace a bound  *)
(* Feature (BindIsUpsert), for all values of the constants.  Under the     *)
(* identity mapping of features and appliers, BindStore is the abstract    *)
(* BindFeature of the caller's pending Feature (which PendingBuilt says is *)
(* applied and has a registered builder), UnbindFeature's Delete is the    *)
(* abstract UnbindFeature, Register is Register, and every other step      *)
(* leaves both variables alone.                                            *)
(***************************************************************************)
THEOREM ImplementsUpsertRegistry == Spec => BindIsUpsert
PROOF
  <1>1. Init => UpsertRegistry!Init
    BY DEF Init, UpsertRegistry!Init
  <1>2. IInv /\ [Next]_vars => [UpsertRegistry!Next]_<<features, appliers>>
    <2> SUFFICES ASSUME IInv, [Next]_vars
                 PROVE  [UpsertRegistry!Next]_<<features, appliers>>
      OBVIOUS
    <2>1. ASSUME NEW b \in Kinds, Register(b)
          PROVE  UpsertRegistry!Next
      BY <2>1 DEF Register, UpsertRegistry!Next, UpsertRegistry!Register
    <2>2. ASSUME NEW c \in Callers, BindStore(c)
          PROVE  UpsertRegistry!Next
      <3>1. ft[c] \in Feature /\ ft[c].applied /\ ft[c].builder \in appliers
        BY <2>2 DEF BindStore, IInv, PendingBuilt
      <3>2. UpsertRegistry!BindFeature(ft[c])
        BY <2>2, <3>1 DEF BindStore, UpsertRegistry!BindFeature
      <3>3. QED BY <3>1, <3>2 DEF UpsertRegistry!Next
    <2>3. ASSUME NEW c \in Callers, NEW k \in FQNs, UnbindFeature(c, k)
          PROVE  UpsertRegistry!Next
      BY <2>3 DEF UnbindFeature, UpsertRegistry!Next,
                  UpsertRegistry!UnbindFeature
    <2>4. ASSUME NEW c \in Callers,
                 \/ \E k \in FQNs, b \in Kinds : BindFeature(c, k, b)
                 \/ BindCheck(c)
                 \/ BindDeferInc(c)
                 \/ UnbindDeferDec(c)
                 \/ \E k \in FQNs : HasFeature(c, k)
                 \/ \E k \in FQNs, d \in DSDescs : BindDataSource(c, k, d)
                 \/ \E k \in FQNs : UnbindDataSource(c, k)
                 \/ \E k \in FQNs : HasDataSource(c, k)
                 \/ \E k \in FQNs : GetDataSource(c, k)
                 \/ UNCHANGED vars
          PROVE  UNCHANGED <<features, appliers>>
      BY <2>4 DEF BindFeature, BindCheck, BindDeferInc, UnbindDeferDec,
                  HasFeature, BindDataSource, UnbindDataSource,
                  HasDataSource, GetDataSource, vars
    <2>5. QED
      BY <2>1, <2>2, <2>3, <2>4, CallersAssumption DEF Next
  <1>3. Spec => []IInv
    BY InitIInv, NextIInv, PTL DEF Spec
  <1>4. QED
    BY <1>1, <1>2, <1>3, PTL DEF Spec, BindIsUpsert, UpsertRegistry!Spec

=============================================================================
