CONSTANTS
  Threads = {t1, t2}
  Names = {a, b}
  Uses <- MCUses
  MaxIno = 4
SPECIFICATION Spec
SYMMETRY Symmetry
INVARIANTS NamesInv ParentsExist NlinkExact NoOrphans RecordsOwned Durable OneName
CHECK_DEADLOCK FALSE
