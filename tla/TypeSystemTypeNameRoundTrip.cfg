CONSTANT Panic = Panic
SPECIFICATION Spec
INVARIANT TypeNameRoundTrip
