CONSTANT Panic = Panic
SPECIFICATION Spec
INVARIANT TypeDetectTotal
