SPECIFICATION Spec
CONSTANTS
  Releases <- OneKey
  BootstrapKey = "k1"
  NoKey = "none"
  MaxGeneration = 5
INVARIANT BootFindsSlot
