SPECIFICATION Spec
CONSTANTS
  Block = {b1, b2, b3, b4}
  Value = {v1, v2}
  Proc = {p1}
  NBUF = 4
  MaxHeld = 2
  none = none
INVARIANTS TypeOK SyncDurable NoPanic
PROPERTY Implements
