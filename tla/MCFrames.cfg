SPECIFICATION Spec
SYMMETRY MCSymmetry
CONSTANTS
  Textures = {t1, t2}
  PresentSlots = {p1, p2}
  CacheLimit = 1
  Buffers = {b}
  SlotCount = 2
  MaxAge = 2
INVARIANTS NothingInUseIsDestroyed NoFenceForgotten RegionsApart
PROPERTIES WriteBacksInOrder
