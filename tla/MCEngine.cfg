\* Two callers racing over two FQNs, two builder kinds, two mutating
\* calls each: enough for a double bind, an unbind of a never-bound FQN,
\* a late plugin registration and a bind/unbind race on one FQN.
CONSTANTS
  c1 = c1  c2 = c2  k1 = k1  k2 = k2  b1 = b1  b2 = b2  d1 = d1
  NoFeature = NoFeature
  NoDataSource = NoDataSource
  Callers <- MCCallers
  FQNs <- MCFQNs
  Kinds <- MCKinds
  DSDescs <- MCDSDescs
  MaxCalls = 2
SPECIFICATION Spec
INVARIANTS TypeOK BoundFeaturesBuilt
PROPERTIES BindIsUpsert
