------------------------------- MODULE Engine -------------------------------
(***************************************************************************)
(* The Feature/DataSource registry of the engine                           *)
(* (src/internal/engine/engine_bind.go, lines 27-100) and the builder      *)
(* plugin registry it consults (plugins.FeatureAppliers, whose code is not *)
(* in this repository and is modelled from the spec).                      *)
(*                                                                         *)
(* The registry keeps two sync.Map values, features and dataSources.  Each *)
(* sync.Map operation (Load, Store, Delete) is atomic; an engine method    *)
(* that performs several of them is not.  Concurrent callers (goroutines   *)
(* of the service) are modelled with a program counter each, one step per  *)
(* shared-memory access, so that BindFeature's HasFeature check and its    *)
(* Store, and the deferred gauge updates, interleave with other calls.     *)
(***************************************************************************)
EXTENDS Integers, FiniteSets

CONSTANTS
  Callers,        \* goroutines calling the engine concurrently
  FQNs,           \* fully-qualified names of features and data sources
  Kinds,          \* builder kinds a Feature descriptor may name
  DSDescs,        \* DataSource descriptors (opaque)
  MaxCalls,       \* bound on the mutating calls each caller makes
  NoFeature,      \* sync.Map Load of features: key absent
  NoDataSource    \* sync.Map Load of dataSources: key absent

ASSUME CallersAssumption == Callers # {}
ASSUME MaxCallsAssumption == MaxCalls \in Nat

VARIABLES
  features,          \* e.features: FQN -> *Feature
  dataSources,       \* e.dataSources: FQN -> api.DataSource
  appliers,          \* kinds registered in plugins.FeatureAppliers
  numberOfFeatures,  \* the stats gauge behind Inc/DecNumberOfFeatures
  pc,                \* where each caller is inside its current call
  ft,                \* BindFeature's local Feature (ft / f) per caller
  ret,               \* value returned by each caller's last call
  calls              \* mutating calls each caller has started

vars == <<features, dataSources, appliers, numberOfFeatures,
          pc, ft, ret, calls>>

(***************************************************************************)
(* A bound Feature.  The descriptor fields the registry reads are its FQN  *)
(* and builder kind; "by" and "call" name the BindFeature call that built  *)
(* it, so that two Features for one FQN are told apart; "applied" records  *)
(* whether the builder plugin populated its runtime fields.                *)
(***************************************************************************)
Feature == [fqn: FQNs, builder: Kinds, by: Callers,
            call: 1..MaxCalls, applied: BOOLEAN]

ASSUME SentinelAssumption ==
  /\ NoFeature \notin Feature
  /\ NoDataSource \notin DSDescs

PCs == {"idle", "check", "store", "inc", "dec"}

Results == {"none", "ok", "ErrInvalidDescriptor", "ErrNoBuilder",
            "ErrApply", "ErrFeatureAlreadyExists", "ErrNotFound",
            "true", "false"} \cup DSDescs

\* The bool HasFeature and HasDataSource return.
BoolResult(b) == IF b THEN "true" ELSE "false"

Bound(k) == features[k] # NoFeature

BoundFQNs == {k \in FQNs : Bound(k)}

Idle(c) == pc[c] = "idle"

CanCall(c) == Idle(c) /\ calls[c] < MaxCalls

StartCall(c) == calls' = [calls EXCEPT ![c] = @ + 1]

-----------------------------------------------------------------------------
(***************************************************************************)
(* Mutants: plausible bugs in the operations below, each used to show that *)
(* a property of the passing run can detect it.                            *)
(***************************************************************************)
\* A registration that replaces the registry instead of adding to it.
RegisterReplacing(kind) ==
  /\ kind \notin appliers
  /\ appliers' = {kind}
  /\ UNCHANGED <<features, dataSources, numberOfFeatures, pc, ft,
                 ret, calls>>

\* FeatureWithEngine without its "if err != nil return" after the plugin.
BindFeatureIgnoringApplyError(c, k, b) ==
  /\ CanCall(c)
  /\ StartCall(c)
  /\ \E parsed, applyOk \in BOOLEAN :
       LET f == [fqn |-> k, builder |-> b, by |-> c,
                 call |-> calls[c] + 1, applied |-> applyOk]
       IN  \/ /\ ~parsed
              /\ ret' = [ret EXCEPT ![c] = "ErrInvalidDescriptor"]
              /\ UNCHANGED <<pc, ft>>
           \/ /\ parsed
              /\ b \notin appliers
              /\ ret' = [ret EXCEPT ![c] = "ErrNoBuilder"]
              /\ UNCHANGED <<pc, ft>>
           \/ /\ parsed
              /\ b \in appliers
              /\ ft' = [ft EXCEPT ![c] = f]
              /\ pc' = [pc EXCEPT ![c] = "check"]
              /\ UNCHANGED ret
  /\ UNCHANGED <<features, dataSources, appliers, numberOfFeatures>>

\* BindDataSource storing into the features map (e.features.Store).
BindDataSourceIntoFeatures(c, k, d) ==
  /\ CanCall(c)
  /\ StartCall(c)
  /\ features' = [features EXCEPT ![k] = d]
  /\ ret' = [ret EXCEPT ![c] = "ok"]
  /\ UNCHANGED <<dataSources, appliers, numberOfFeatures, pc, ft>>

\* GetDataSource returning the Load result without checking ok.
GetDataSourceUnchecked(c, k) ==
  /\ Idle(c)
  /\ ret' = [ret EXCEPT ![c] = dataSources[k]]
  /\ UNCHANGED <<features, dataSources, appliers, numberOfFeatures, pc,
                 ft, calls>>

-----------------------------------------------------------------------------
(***************************************************************************)
(* Plugin registry.  Builders register during start-up (Init) and may      *)
(* register late, racing with lookups; a registration is never undone.    *)
(***************************************************************************)
Register(kind) ==
  /\ kind \notin appliers
  /\ appliers' = appliers \cup {kind}
  /\ UNCHANGED <<features, dataSources, numberOfFeatures, pc, ft,
                 ret, calls>>

-----------------------------------------------------------------------------
(***************************************************************************)
(* BindFeature(in) calls FeatureWithEngine: the descriptor is parsed (it   *)
(* may fail), the builder plugin is looked up in FeatureAppliers (it may   *)
(* be missing), and the plugin is applied to the local Feature (it may     *)
(* fail).  Everything but the lookup is local to the caller, so the whole  *)
(* of FeatureWithEngine is one step.  On error the call returns at once,   *)
(* before bindFeature and its deferred gauge increment.                    *)
(***************************************************************************)
BindFeature(c, k, b) ==
  /\ CanCall(c)
  /\ StartCall(c)
  /\ \E parsed, applyOk \in BOOLEAN :
       LET f == [fqn |-> k, builder |-> b, by |-> c,
                 call |-> calls[c] + 1, applied |-> applyOk]
       IN  \/ /\ ~parsed
              /\ ret' = [ret EXCEPT ![c] = "ErrInvalidDescriptor"]
              /\ UNCHANGED <<pc, ft>>
           \/ /\ parsed
              /\ b \notin appliers
              /\ ret' = [ret EXCEPT ![c] = "ErrNoBuilder"]
              /\ UNCHANGED <<pc, ft>>
           \/ /\ parsed
              /\ b \in appliers
              /\ ~applyOk
              /\ ret' = [ret EXCEPT ![c] = "ErrApply"]
              /\ UNCHANGED <<pc, ft>>
           \/ /\ parsed
              /\ b \in appliers
              /\ applyOk
              /\ ft' = [ft EXCEPT ![c] = f]
              /\ pc' = [pc EXCEPT ![c] = "check"]
              /\ UNCHANGED ret
  /\ UNCHANGED <<features, dataSources, appliers, numberOfFeatures>>

\* bindFeature: if e.HasFeature(f.FQN) return ErrFeatureAlreadyExists.
BindCheck(c) ==
  /\ pc[c] = "check"
  /\ IF Bound(ft[c].fqn)
       THEN /\ pc' = [pc EXCEPT ![c] = "inc"]
            /\ ret' = [ret EXCEPT ![c] = "ErrFeatureAlreadyExists"]
       ELSE /\ pc' = [pc EXCEPT ![c] = "store"]
            /\ UNCHANGED ret
  /\ UNCHANGED <<features, dataSources, appliers, numberOfFeatures, ft,
                 calls>>

BindStore(c) ==
  /\ pc[c] = "store"
  /\ features' = [features EXCEPT ![ft[c].fqn] = ft[c]]
  /\ pc' = [pc EXCEPT ![c] = "inc"]
  /\ ret' = [ret EXCEPT ![c] = "ok"]
  /\ UNCHANGED <<dataSources, appliers, numberOfFeatures, ft, calls>>

\* bindFeature's deferred stats.IncNumberOfFeatures(), run on both returns.
BindDeferInc(c) ==
  /\ pc[c] = "inc"
  /\ numberOfFeatures' = numberOfFeatures + 1
  /\ pc' = [pc EXCEPT ![c] = "idle"]
  /\ ft' = [ft EXCEPT ![c] = NoFeature]
  /\ UNCHANGED <<features, dataSources, appliers, ret, calls>>

\* UnbindFeature: e.features.Delete(fqn), whether or not fqn is bound.
UnbindFeature(c, k) ==
  /\ CanCall(c)
  /\ StartCall(c)
  /\ features' = [features EXCEPT ![k] = NoFeature]
  /\ pc' = [pc EXCEPT ![c] = "dec"]
  /\ UNCHANGED <<dataSources, appliers, numberOfFeatures, ft, ret>>

\* UnbindFeature's deferred stats.DecNumberOfFeatures(); returns nil.
UnbindDeferDec(c) ==
  /\ pc[c] = "dec"
  /\ numberOfFeatures' = numberOfFeatures - 1
  /\ pc' = [pc EXCEPT ![c] = "idle"]
  /\ ret' = [ret EXCEPT ![c] = "ok"]
  /\ UNCHANGED <<features, dataSources, appliers, ft, calls>>

HasFeature(c, k) ==
  /\ Idle(c)
  /\ ret' = [ret EXCEPT ![c] = BoolResult(Bound(k))]
  /\ UNCHANGED <<features, dataSources, appliers, numberOfFeatures, pc,
                 ft, calls>>

-----------------------------------------------------------------------------
(***************************************************************************)
(* DataSource operations: one sync.Map operation each, hence atomic.       *)
(***************************************************************************)
BindDataSource(c, k, d) ==
  /\ CanCall(c)
  /\ StartCall(c)
  /\ dataSources' = [dataSources EXCEPT ![k] = d]
  /\ ret' = [ret EXCEPT ![c] = "ok"]
  /\ UNCHANGED <<features, appliers, numberOfFeatures, pc, ft>>

UnbindDataSource(c, k) ==
  /\ CanCall(c)
  /\ StartCall(c)
  /\ dataSources' = [dataSources EXCEPT ![k] = NoDataSource]
  /\ ret' = [ret EXCEPT ![c] = "ok"]
  /\ UNCHANGED <<features, appliers, numberOfFeatures, pc, ft>>

HasDataSource(c, k) ==
  /\ Idle(c)
  /\ ret' = [ret EXCEPT ![c] = BoolResult(dataSources[k] # NoDataSource)]
  /\ UNCHANGED <<features, dataSources, appliers, numberOfFeatures, pc,
                 ft, calls>>

GetDataSource(c, k) ==
  /\ Idle(c)
  /\ ret' = [ret EXCEPT ![c] = IF dataSources[k] = NoDataSource
                                 THEN "ErrNotFound"
                                 ELSE dataSources[k]]
  /\ UNCHANGED <<features, dataSources, appliers, numberOfFeatures, pc,
                 ft, calls>>

-----------------------------------------------------------------------------
Init ==
  /\ features = [k \in FQNs |-> NoFeature]
  /\ dataSources = [k \in FQNs |-> NoDataSource]
  /\ appliers \in SUBSET Kinds
  /\ numberOfFeatures = 0
  /\ pc = [c \in Callers |-> "idle"]
  /\ ft = [c \in Callers |-> NoFeature]
  /\ ret = [c \in Callers |-> "none"]
  /\ calls = [c \in Callers |-> 0]

Next ==
  \/ \E b \in Kinds : Register(b)
  \/ \E c \in Callers :
       \/ \E k \in FQNs, b \in Kinds : BindFeature(c, k, b)
       \/ BindCheck(c)
       \/ BindStore(c)
       \/ BindDeferInc(c)
       \/ \E k \in FQNs : UnbindFeature(c, k)
       \/ UnbindDeferDec(c)
       \/ \E k \in FQNs : HasFeature(c, k)
       \/ \E k \in FQNs, d \in DSDescs : BindDataSource(c, k, d)
       \/ \E k \in FQNs : UnbindDataSource(c, k)
       \/ \E k \in FQNs : HasDataSource(c, k)
       \/ \E k \in FQNs : GetDataSource(c, k)

Spec == Init /\ [][Next]_vars

(***************************************************************************)
(* A goroutine inside bindFeature or UnbindFeature is never blocked: the   *)
(* sync.Map calls and the gauge updates do not wait on another caller, so  *)
(* the Go scheduler runs it on.  Each caller is weakly fair on the steps   *)
(* that finish a call it has started; starting a call is left to the       *)
(* callers, and plugins need not register.                                 *)
(***************************************************************************)
Fairness ==
  \A c \in Callers :
    /\ WF_vars(BindCheck(c))
    /\ WF_vars(BindStore(c))
    /\ WF_vars(BindDeferInc(c))
    /\ WF_vars(UnbindDeferDec(c))

FairSpec == Spec /\ Fairness

-----------------------------------------------------------------------------
(***************************************************************************)
(* Properties.                                                             *)
(***************************************************************************)
TypeOK ==
  /\ features \in [FQNs -> Feature \cup {NoFeature}]
  /\ dataSources \in [FQNs -> DSDescs \cup {NoDataSource}]
  /\ appliers \subseteq Kinds
  /\ numberOfFeatures \in Int
  /\ pc \in [Callers -> PCs]
  /\ ft \in [Callers -> Feature \cup {NoFeature}]
  /\ ret \in [Callers -> Results]
  /\ calls \in [Callers -> 0..MaxCalls]

(***************************************************************************)
(* Every bound Feature is stored under its own FQN, its builder plugin is  *)
(* registered and was applied to it: BindFeature never binds a Feature     *)
(* whose descriptor failed to parse, whose builder kind has no plugin, or  *)
(* whose plugin returned an error (FeatureWithEngine's early returns),     *)
(* even when plugins register while binds are in flight.                   *)
(***************************************************************************)
BoundFeaturesBuilt ==
  \A k \in BoundFQNs :
    /\ features[k].fqn = k
    /\ features[k].applied
    /\ features[k].builder \in appliers

(***************************************************************************)
(* Whenever no call is in flight, the feature gauge maintained by          *)
(* bindFeature's deferred IncNumberOfFeatures and UnbindFeature's deferred *)
(* DecNumberOfFeatures equals the number of bound Features (the spec: the  *)
(* counter is incremented on a successful bind and decremented on unbind). *)
(***************************************************************************)
FeatureCountAccurate ==
  (\A c \in Callers : Idle(c)) => numberOfFeatures = Cardinality(BoundFQNs)

AtomicRegistry == INSTANCE Registry WITH Features <- Feature, Upsert <- FALSE

UpsertRegistry == INSTANCE Registry WITH Features <- Feature, Upsert <- TRUE

(***************************************************************************)
(* The engine implements the registry the spec promises: BindFeature's     *)
(* AlreadyExists check and its Store act as one atomic step, so that two   *)
(* concurrent BindFeature calls never bind two Features for one FQN.       *)
(***************************************************************************)
BindIsAtomic == AtomicRegistry!Spec

(***************************************************************************)
(* The engine implements the weaker registry in which a bind may replace a *)
(* bound Feature: the features map changes only by storing a built         *)
(* Feature under its FQN or by deleting one FQN, and the plugin registry   *)
(* only grows.                                                             *)
(***************************************************************************)
BindIsUpsert == UpsertRegistry!Spec

=============================================================================
