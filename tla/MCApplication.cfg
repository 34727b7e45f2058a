SPECIFICATION Spec
CONSTANT
  Files <- RealFiles
INVARIANTS
  UsesAreUp
  NothingLeft
  UpgradeIsOpen
  RefusedIsUntouchedUnlessHalf
