\* A file that reaches the triple indirect block on a disk of 20 blocks, next to a
\* small file and a symbolic link that stays.
SPECIFICATION Spec
CONSTANTS
  Inodes = {1, 2, 3}
  NDIRECT = 1
  NINDIRECT = 2
  NBLOCKS = 20
  WriteSizes = {5}
  Small = {2}
  SmallSize = 6
  BigSize = 30
  Symlinks = {3}
  PathWords = {1}
  Removable = {1, 2}
INVARIANTS TypeOK BitmapExact WordsKept
