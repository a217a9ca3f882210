CONSTANTS
  r1 = r1
  r2 = r2
  r3 = r3
  Nil = Nil
  MaxHeight = 2
  Regs <- MCRegs
  UpdatedAt <- MCUpdatedAt
  EventHeights <- MCEventHeights
  WriterModes = {TRUE, FALSE}
  Queries <- MCQueries
  QueryHeights <- MCQueryHeights
  Limit = 2
  ReadsFail = TRUE
SPECIFICATION Spec
INVARIANT TypeOK
INVARIANT ValuesReadDuringCall
INVARIANT EventsOfIndexedHeight
INVARIANT ValuesWithinIndexedRange
