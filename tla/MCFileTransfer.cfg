SPECIFICATION FairSpec
CONSTANTS
  Senders = {s1, s2}
  s1 = s1
  s2 = s2
  SourceSizes <- MCSourceSizes
  OldSizes = {4}
  Strays <- MCStrays
  Old  = old
  Junk = junk
  Zero = zero
  SizeT = 16
  Header = 1
  MAX_FILE_CHUNK_SIZE  = 2
  MAX_FILE_BUFFER_SIZE = 2
  MAX_FILE_SIZE        = 3
INVARIANTS
  TypeOK
  FileExact
  Transferred
PROPERTIES
  SendersEnd
