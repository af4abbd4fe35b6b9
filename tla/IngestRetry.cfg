SPECIFICATION Spec
CONSTANTS
  Worker = {w1, w2}
  Queue = {"process", "extract", "postprocess"}
  Payload = {j1}
  Job = {j1}
  NoJob = NoJob
  Content <- MCSameContent
  ExtractionEnabled = FALSE
  ConnectedServices = {"neo4j", "mongodb", "rabbitmq", "s3"}
  MAX_RETRIES = 1
  MaxPublished = 1
  MaxFaults = 2
INVARIANT ChunksStoredOnce
PROPERTY EndedJobReopensOnlyInRepeat
CHECK_DEADLOCK FALSE
