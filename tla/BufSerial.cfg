CONSTANTS
  Proc = {p1, p2}
  Block = {b1, b2, b3, b4}
  NoBlock = none
  Value = {v1, v2}
  NBUF = 3
  MaxPinned = 1
  DiskErrors = FALSE
SPECIFICATION Spec
SYMMETRY Perms

  
PROPERTY Serial
