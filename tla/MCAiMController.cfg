SPECIFICATION MCSpec
CONSTANTS
  NumChannels = 2
  ISRSize = 2
  TraceLen = 4
  Instrs <- MCInstrs
  Banks = {"b1", "b2"}
  Rows = {"r1", "r2"}
  Closed = Closed
  BufMax = 2
  WrHigh = 1
  WrLow = 1
INVARIANTS
  TraceCarriedOut
  WorkAccountedFor
  BlockingStopsLaterCopies
  BuffersConsistent
  AiMInOrder
PROPERTIES
  EventuallyFinished
  BarrierDrainsAiM
  ImplementsDMA
