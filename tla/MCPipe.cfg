CONSTANTS
  Byte = {b0, b1}
  Sz = 4
  MaxRequest = 4
  Requests <- MCRequests
  ReadSizes <- MCReadSizes
SPECIFICATION Spec
INVARIANTS TypeOK CountsAgree
PROPERTY ImplementsFifo
