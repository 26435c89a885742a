\* Two items of one phase, its support and the final support.
SPECIFICATION Spec
CONSTANTS
  NItems = 2
  MaxBatchSize = 2
  Keep = 1
  MaxBatch = 5
  MaxFaults = 1
INVARIANTS CommitsRise EarlierBatchesClosed  
PROPERTY ContinuedTicksAreReported
