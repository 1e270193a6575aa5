CONSTANT Panic = Panic
SPECIFICATION Spec
INVARIANT NormalizeTotal
