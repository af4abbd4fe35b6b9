SPECIFICATION Spec
CONSTANTS
  Worker = {w1, w2}
  Queue = {"process", "extract", "postprocess"}
  Payload = {j1, j2}
  Job = {j1, j2}
  NoJob = NoJob
  Content <- MCSameContent
  ExtractionEnabled = FALSE
  ConnectedServices = {"neo4j", "mongodb", "rabbitmq", "s3"}
  MAX_RETRIES = 1
  MaxPublished = 2
  MaxFaults = 0
SYMMETRY MCSymmetryWithJobs
INVARIANT
  JobAgreesWithDocument
PROPERTY
  ImplementsCatalog
CHECK_DEADLOCK FALSE
