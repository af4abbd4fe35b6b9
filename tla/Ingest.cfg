SPECIFICATION FairSpec
CONSTANTS
  Worker = {w1}
  Queue = {"process", "extract", "postprocess"}
  Payload = {j1}
  Job = {j1}
  NoJob = NoJob
  Content <- MCSameContent
  ExtractionEnabled = TRUE
  ConnectedServices = {"neo4j", "mongodb", "rabbitmq", "s3"}
  MAX_RETRIES = 0
  MaxPublished = 5
  MaxFaults = 2
INVARIANTS
  QueuedWorkIsPrepared
  CompletedDocumentIsStored
PROPERTY
  EveryUploadIsResolved
CHECK_DEADLOCK FALSE
