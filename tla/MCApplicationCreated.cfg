SPECIFICATION Spec
CONSTANT
  Files <- NoFile
INVARIANT
  CreatedIsOpen
