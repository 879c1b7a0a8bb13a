SPECIFICATION Spec
CONSTANTS
  i1 = i1
  i2 = i2
  i3 = i3
  Images = {i1, i2, i3}
  NoImage = noimage
  Blank = blank
  Torn = torn
  Sectors = 2
  SectorCells = 2
  Size <- MCSize
  FlashMayFail = TRUE
INVARIANTS
  Bootable
  AppIntact
