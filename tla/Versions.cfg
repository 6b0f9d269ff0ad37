CONSTANTS
  BlockSize = 2
  MaxBlocks = 2
  MaxChanges = 3
  Faults = TRUE
  NULL = NULL
  Handles = {h1, h2}
  Writes <- MCWrites
  Sizes = {1, 4}
  MaxVersions = 1
  MaxOpens = 3
  MaxRestarts = 1
SPECIFICATION Spec
SYMMETRY Symmetry
INVARIANTS FilesInv VersionFaithful KeepsLastVersions
CHECK_DEADLOCK FALSE
