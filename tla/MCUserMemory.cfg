SPECIFICATION MemorySpec
CONSTANTS
  Space = 64
  Granule = 2
  UserStart = 6
  UserEnd = 26
  Uids = {b1, b2, b3, b4, b5}
  Sizes = {1, 4, 5, 8}
  Alignments = {2, 4}
  Addresses = {9, 14}
SYMMETRY Symmetry
INVARIANT ExactTiling
