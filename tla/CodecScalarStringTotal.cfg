SPECIFICATION Spec
INVARIANT ScalarStringTotal
