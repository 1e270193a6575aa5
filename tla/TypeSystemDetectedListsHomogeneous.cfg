CONSTANT Panic = Panic
SPECIFICATION Spec
INVARIANT DetectedListsHomogeneous
