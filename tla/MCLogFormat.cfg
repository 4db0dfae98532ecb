SPECIFICATION Spec
CONSTANTS
  BlockSize = 6
  HeaderSize = 2
  BufferSize = 12
  Lengths = {2, 3, 9}
  Zero = Zero
  MaxRecords = 3
  MaxFailures = 2
INVARIANTS
  TypeOK
  AckedReadable
  NothingInvented
  TailExact
