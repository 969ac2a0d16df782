SPECIFICATION PipelineSpec
CONSTANTS
  N = 2
  Streams <- AnyStream
  BatchSize = 2
  ReportEvery = 2
INVARIANT NothingLeftInBatch
