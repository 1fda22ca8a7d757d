SPECIFICATION Spec
INVARIANTS
  UpgradeSuffices
