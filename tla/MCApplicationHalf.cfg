SPECIFICATION Spec
CONSTANT
  Files <- HalfFiles
INVARIANT
  RefusedIsUntouched
