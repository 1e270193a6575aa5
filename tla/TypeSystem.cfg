\* Every input of the bounded domain, one call per state.
CONSTANT Panic = Panic
SPECIFICATION Spec
INVARIANTS TypeOK ZeroValueDetected DetectMatchesReference
