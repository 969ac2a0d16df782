SPECIFICATION PipelineFairSpec
CONSTANTS
  N = 2
  Streams <- AnyStream
  BatchSize = 2
  ReportEvery = 2
INVARIANTS
  PipelineTypeOK
  ExitMeansDrained
PROPERTIES
  MergesWholeBatches
  MainReturns
