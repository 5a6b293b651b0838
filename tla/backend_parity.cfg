SPECIFICATION Spec
CONSTANT MaxOps = 3
INVARIANT TypeOK
INVARIANT SameResponse
