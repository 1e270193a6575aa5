SPECIFICATION Spec
INVARIANT FromStringTotal
