SPECIFICATION Spec
CONSTANTS
  Releases <- Rotation
  BootstrapKey = "k1"
  NoKey = "none"
  MaxGeneration = 4
INVARIANTS RecordsKept AlwaysBootable BootFindsNamedSlot
PROPERTIES NeverOlderRelease OldKeyNeverBoots
