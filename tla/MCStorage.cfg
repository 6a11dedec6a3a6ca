SPECIFICATION Spec
SYMMETRY MCSymmetry
CONSTANTS
  MaxSaves = 2
  BackupDirs = {d1, d2}
  Images = {i1}
INVARIANT InstallationUsable
PROPERTY OldGivesWayToNew
