SPECIFICATION MCSpec
CONSTANTS
  Width = 6
  N = 2
  MaxLen = 20
  StatusLen <- StatusLenDef
  TypeLen <- TypeLenDef
  BodyLen <- BodyLenDef
  FixedLen = 133
  JsonSize = 100
  LakeSize = 512
  CacheSize = 448
  SlotSize = 448
INVARIANTS
  LoadsInBounds
  StartsInOrder
  NoStartMissed
  SlicesInBounds
  BuffersHold
  ResponsesTile
  OneResponseEach
