\* Files of up to four bytes, in blocks of one to three, rewritten once meanwhile.
SPECIFICATION Spec
CONSTANTS
  Names <- MCNames
  ChunkSizes = {0, 1, 2, 3}
  MaxLen = 4
  MaxChanges = 1
  Base = 2
INVARIANTS
  SizeTells
  ReadsAllIds
  DownloadIsUpload
\* A call ends.
CHECK_DEADLOCK FALSE
