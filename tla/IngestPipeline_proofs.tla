------------------------ MODULE IngestPipeline_proofs ------------------------
(***************************************************************************)
(* Proofs about IngestPipeline, for any uploads, contents, workers,        *)
(* retries and faults, with and without extraction and S3.                 *)
(*                                                                         *)
(* First the pipeline is shown to implement the broker, so that ownership  *)
(* of messages can be used freely.  Then PipelineInv is shown inductive.   *)
(* The properties alone are not: a document is complete only if stored     *)
(* because the message that completes it was sent after storing            *)
(* (MessageReady), by a handler that knew (HandlerKnows), while nobody     *)
(* else was storing (SingleStorer), because the insertion of its record    *)
(* lets one attempt pass (DocumentAgrees).  The last theorem needs one     *)
(* thing more: that an undisturbed upload is carried on by one message at  *)
(* a time (Once).                                                          *)
(***************************************************************************)
EXTENDS IngestPipeline, TaskBroker_proofs

Storer(c, j) == pc[c] \in Storing /\ JobOf(c) = j

(* A request has written what comes before the step it is at.              *)
RequestKnows(j) ==
  /\ api[j] \in {"uploaded", "created", "queued"} => j \in s3
  /\ api[j] \in {"created", "queued"} => jobs[j].status # "absent"

(* A message comes after the data of its job, and a message of a later     *)
(* stage also after its storer.                                            *)
MessageReady(m) ==
  IF log[m].queue = QUEUE_PROCESS
    THEN log[m].payload \in s3 /\ jobs[log[m].payload].status # "absent"
    ELSE FullyStored(log[m].payload) /\ \A d \in Consumer : ~Storer(d, log[m].payload)

(* The calls of each stage.                                                *)
RightQueue(c) ==
  /\ pc[c] \in {"process", "lookup", "duplicate", "insert", "nochunks"} \cup Storing =>
       QueueOf(c) = QUEUE_PROCESS
  /\ pc[c] \in {"extract", "entities", "extracted", "forward"} =>
       QueueOf(c) = QUEUE_EXTRACT
  /\ pc[c] \in {"postprocess", "finish"} => QueueOf(c) = QUEUE_POSTPROCESS

(* What a handler may rely on at the call it is about to make.             *)
HandlerKnows(c) ==
  /\ pc[c] # "none" => phase[c] = "handling"
  /\ RightQueue(c)
  /\ pc[c] = "duplicate" => found[c] # NoJob
  /\ pc[c] \in Storing => docs[JobOf(c)] = "processing"
  /\ pc[c] \in {"convert", "store"} => chunks[JobOf(c)] = "nothing"
  /\ pc[c] \in {"graph", "node", "processed", "handoff"} => chunks[JobOf(c)] = "all"
  /\ pc[c] \in {"node", "processed", "handoff"} => "chunks" \in graph[JobOf(c)]
  /\ pc[c] \in {"processed", "handoff"} => "document" \in graph[JobOf(c)]
  /\ pc[c] = "complete" => docs[JobOf(c)] = "completed"
  /\ pc[c] = "nochunks" => docs[JobOf(c)] = "failed"

(* The records of one upload agree with each other.                        *)
DocumentAgrees(j) ==
  /\ docs[j] \in {"absent", "failed"} => chunks[j] = "nothing"
  /\ chunks[j] # "mixed"
  /\ docs[j] = "completed" => FullyStored(j)

JobAgrees(j) ==
  /\ jobs[j].status = "completed" /\ jobs[j].dupOf = NoJob => docs[j] = "completed"
  /\ jobs[j].status = "failed" => docs[j] = "failed"
  /\ jobs[j].stage \notin {"none", "queued", "process"} => FullyStored(j)
  /\ jobs[j].stage = "complete" => docs[j] = "completed"

PipelineTypes ==
  /\ api \in [Job -> {"new", "uploaded", "created", "queued", "failed"}]
  /\ s3 \subseteq Job
  /\ jobs \in [Job -> JobRecord]
  /\ docs \in [Job -> DocStatus]
  /\ chunks \in [Job -> Stored]
  /\ graph \in [Job -> SUBSET {"chunks", "document", "entities"}]
  /\ pc \in [Consumer -> Label]
  /\ found \in [Consumer -> Job \cup {NoJob}]

RecordsAgree ==
  /\ \A j \in Job : RequestKnows(j) /\ DocumentAgrees(j) /\ JobAgrees(j)
  /\ \A m \in DOMAIN log : MessageReady(m)
  /\ \A c \in Consumer : HandlerKnows(c)
  /\ SingleStorer

PipelineInv == BrokerInv /\ PipelineTypes /\ RecordsAgree

-----------------------------------------------------------------------------
(* A consumer that runs a handler owns a message, whose payload is its job.*)
LEMMA JobOfIsJob ==
  ASSUME BrokerInv, NEW c \in Consumer, phase[c] = "handling"
  PROVE  /\ JobOf(c) \in Job
         /\ held[c] \in DOMAIN log
         /\ log[held[c]] \in Message
         /\ log[held[c]].queue = QueueOf(c)
<1>1. held[c] \in DOMAIN log /\ log[held[c]].queue = QueueOf(c)
  BY DEF BrokerInv, Ownership, Holding
<1>2. log[held[c]] \in Message
  BY <1>1, LenProperties, ElementOfSeq DEF BrokerInv, BrokerTypeOK
<1> QED BY <1>1, <1>2, PipelineAssumption DEF JobOf, Message

(* update_job() changes the fields it is given, of one job.                *)
LEMMA UpdatedJob ==
  ASSUME jobs \in [Job -> JobRecord], NEW j \in Job, NEW ch, UpdateJob(j, ch)
  PROVE  /\ \A k \in Job : k # j => jobs'[k] = jobs[k]
         /\ jobs'[j].status = IF "status" \in DOMAIN ch THEN ch.status ELSE jobs[j].status
         /\ jobs'[j].stage = IF "stage" \in DOMAIN ch THEN ch.stage ELSE jobs[j].stage
         /\ jobs'[j].dupOf = IF "dupOf" \in DOMAIN ch THEN ch.dupOf ELSE jobs[j].dupOf
         /\ (jobs'[j].status \in JobStatus /\ jobs'[j].stage \in Stage
               /\ jobs'[j].dupOf \in Job \cup {NoJob} => jobs' \in [Job -> JobRecord])
<1> DEFINE r == [f \in DOMAIN jobs[j] |-> IF f \in DOMAIN ch THEN ch[f] ELSE jobs[j][f]]
<1>1. jobs' = [jobs EXCEPT ![j] = r]
  BY DEF UpdateJob
<1>2. jobs[j] \in JobRecord
  OBVIOUS
<1>3. DOMAIN jobs[j] = {"status", "stage", "dupOf"}
  BY <1>2 DEF JobRecord
<1>4. jobs'[j] = r /\ \A k \in Job : k # j => jobs'[k] = jobs[k]
  BY <1>1
<1>5. r = [status |-> r.status, stage |-> r.stage, dupOf |-> r.dupOf]
  BY <1>3
<1>6. jobs'[j].status \in JobStatus /\ jobs'[j].stage \in Stage
        /\ jobs'[j].dupOf \in Job \cup {NoJob} => r \in JobRecord
  BY <1>4, <1>5 DEF JobRecord
<1>7. /\ r.status = IF "status" \in DOMAIN ch THEN ch.status ELSE jobs[j].status
      /\ r.stage = IF "stage" \in DOMAIN ch THEN ch.stage ELSE jobs[j].stage
      /\ r.dupOf = IF "dupOf" \in DOMAIN ch THEN ch.dupOf ELSE jobs[j].dupOf
  BY <1>3
<1> HIDE DEF r
<1> QED BY <1>1, <1>4, <1>6, <1>7

-----------------------------------------------------------------------------
(* Seen from the queues, a step of the pipeline is a step of the broker or *)
(* changes nothing.                                                        *)
LEMMA NextIsBrokerNext ==
  ASSUME BrokerInv, [Next]_vars PROVE [BrokerNext]_brokerVars
<1> USE PipelineAssumption
<1>1. ASSUME NEW j \in Job, EnqueueStep(j) \/ EnqueueFails(j) \/ EnqueueUnanswered(j)
      PROVE  [BrokerNext]_brokerVars
  <2>1. CASE Enqueue(j) \/ EnqueueUnanswered(j)
    BY <2>1 DEF Enqueue, EnqueueUnanswered, BrokerNext
  <2>2. CASE UploadFile(j) \/ CreateJob(j) \/ EnqueueFails(j)
    BY <2>2 DEF UploadFile, CreateJob, EnqueueFails, brokerVars
  <2> QED BY <1>1, <2>1, <2>2 DEF EnqueueStep
<1>2. ASSUME NEW w \in Worker, StartWorker(w) \/ StopWorker(w)
      PROVE  [BrokerNext]_brokerVars
  BY <1>2 DEF StartWorker, StopWorker, BrokerNext
<1>3. ASSUME NEW c \in Consumer, HandlerStep(c) PROVE [BrokerNext]_brokerVars
  <2>0. JobOf(c) \in Payload
    <3>1. phase[c] = "handling"
      BY <1>3 DEF HandlerStep, ProcessStep, ExtractStep, FinishStep, Call,
         MarkProcessing, LookUp, CloseDuplicate, InsertDocument, Convert, FailDocument,
         FailJob, InsertChunks, UpsertChunks, UpsertDocumentNode, ProcessDone, HandOff,
         MarkExtract, StoreEntities, ExtractDone, Forward, MarkPostprocess,
         CompleteDocument, CompleteJob
    <3> QED BY <3>1, JobOfIsJob
  <2>1. CASE HandOff(c)
    BY <2>0, <2>1 DEF HandOff, BrokerNext
  <2>2. CASE Forward(c)
    BY <2>0, <2>2 DEF Forward, BrokerNext
  <2>3. CASE ~HandOff(c) /\ ~Forward(c)
    BY <1>3, <2>3 DEF HandlerStep, ProcessStep, ExtractStep, FinishStep, brokerVars,
         MarkProcessing, LookUp, CloseDuplicate, InsertDocument, Convert, FailDocument,
         FailJob, InsertChunks, UpsertChunks, UpsertDocumentNode, ProcessDone,
         MarkExtract, StoreEntities, ExtractDone, MarkPostprocess,
         CompleteDocument, CompleteJob
  <2> QED BY <2>1, <2>2, <2>3
<1>4. ASSUME NEW c \in Consumer, NEW m \in DOMAIN log, Take(c, m)
      PROVE  [BrokerNext]_brokerVars
  BY <1>4 DEF Take, BrokerNext, ConsumerStep
<1>5. ASSUME NEW c \in Consumer,
             Return(c) \/ Raise(c) \/ Answer(c) \/ ConsumerFails(c)
      PROVE  [BrokerNext]_brokerVars
  BY <1>5 DEF Return, Raise, Answer, ConsumerFails, BrokerNext, ConsumerStep
<1>6. CASE UNCHANGED vars
  BY <1>6 DEF vars, brokerVars
<1> QED BY <1>1, <1>2, <1>3, <1>4, <1>5, <1>6 DEF Next, RunConsumer

-----------------------------------------------------------------------------
(* A step that leaves every message, record, handler and request alone.    *)
LEMMA IdleKeepsRecords ==
  ASSUME RecordsAgree, UNCHANGED vars PROVE RecordsAgree'
BY DEF RecordsAgree, vars, RequestKnows, DocumentAgrees, JobAgrees, MessageReady,
  HandlerKnows, RightQueue, SingleStorer, Storer, FullyStored, JobOf

(* A handler's call on the stores keeps the records in agreement if, of    *)
(* its own document j, it loses no content, respects a verdict, changes    *)
(* record or chunks only when nobody else is storing, and starts storing   *)
(* only an unregistered document.                                          *)
LEMMA CallKeepsRecords ==
  ASSUME BrokerInv, PipelineTypes, RecordsAgree, NEW c \in Consumer, NEW j \in Job,
         phase[c] = "handling", JobOf(c) = j,
         UNCHANGED <<log, phase, held, api, s3>>,
         \A d \in Consumer : d # c => pc'[d] = pc[d] /\ found'[d] = found[d],
         \A k \in Job : k # j => /\ jobs'[k] = jobs[k]
                                 /\ docs'[k] = docs[k]
                                 /\ chunks'[k] = chunks[k]
                                 /\ graph'[k] = graph[k],
         jobs[j].status # "absent" => jobs'[j].status # "absent",
         FullyStored(j) => FullyStored(j)',
         graph[j] \subseteq graph'[j],
         docs[j] \in {"completed", "failed"} => docs'[j] = docs[j],
         \/ docs'[j] = docs[j] /\ chunks'[j] = chunks[j]
         \/ \A d \in Consumer : d # c => ~Storer(d, j),
         pc'[c] \in Storing => pc[c] \in Storing \/ docs[j] = "absent",
         HandlerKnows(c)', DocumentAgrees(j)', JobAgrees(j)'
  PROVE  RecordsAgree'
<1>1. \A d \in Consumer : JobOf(d)' = JobOf(d)
  BY DEF JobOf
<1>2. \A d \in Consumer : pc[d] \in Storing => phase[d] = "handling" /\ JobOf(d) \in Job
  BY JobOfIsJob DEF RecordsAgree, HandlerKnows, Storing
<1>3. \A d \in Consumer : pc'[d] \in Storing /\ d # c => pc[d] \in Storing
  OBVIOUS
<1>4. ASSUME NEW k \in Job PROVE RequestKnows(k)' /\ DocumentAgrees(k)' /\ JobAgrees(k)'
  <2>1. RequestKnows(k) /\ DocumentAgrees(k) /\ JobAgrees(k)
    BY DEF RecordsAgree
  <2>2. CASE k = j
    BY <2>1, <2>2 DEF RequestKnows
  <2>3. CASE k # j
    BY <2>1, <2>3 DEF RequestKnows, DocumentAgrees, JobAgrees, FullyStored
  <2> QED BY <2>2, <2>3
<1>5. ASSUME docs[j] = "absent"
      PROVE  ~FullyStored(j) /\ \A d \in Consumer : ~Storer(d, j)
  BY <1>5 DEF RecordsAgree, DocumentAgrees, FullyStored, HandlerKnows, Storer
<1>6. ASSUME NEW m \in DOMAIN log' PROVE MessageReady(m)'
  <2> DEFINE k == log[m].payload
  <2>1. MessageReady(m) /\ k \in Job
    <3>1. log[m] \in Message
      BY LenProperties, ElementOfSeq DEF BrokerInv, BrokerTypeOK
    <3> QED BY <3>1, PipelineAssumption DEF RecordsAgree, Message
  <2>2. CASE log[m].queue = QUEUE_PROCESS
    BY <2>1, <2>2 DEF MessageReady
  <2>3. CASE log[m].queue # QUEUE_PROCESS
    <3>1. FullyStored(k) /\ \A d \in Consumer : ~Storer(d, k)
      BY <2>1, <2>3 DEF MessageReady
    <3>2. FullyStored(k)'
      <4>1. CASE k = j
        BY <3>1, <4>1
      <4>2. CASE k # j
        BY <2>1, <3>1, <4>2 DEF FullyStored
      <4> QED BY <4>1, <4>2
    <3>3. ASSUME NEW d \in Consumer PROVE ~(pc'[d] \in Storing /\ JobOf(d)' = k)
      BY <1>1, <1>3, <1>5, <3>1 DEF Storer
    <3> QED BY <2>3, <3>2, <3>3 DEF MessageReady, Storer
  <2> QED BY <2>2, <2>3
<1>7. ASSUME NEW d \in Consumer PROVE HandlerKnows(d)'
  <2>1. HandlerKnows(d)
    BY DEF RecordsAgree
  <2>2. CASE d = c
    BY <2>2
  <2>3. CASE d # c /\ pc[d] = "none"
    BY <2>3 DEF HandlerKnows, RightQueue, Storing
  <2>4. CASE d # c /\ pc[d] # "none"
    <3>0. JobOf(d) \in Job
      BY <2>1, <2>4, JobOfIsJob DEF HandlerKnows
    <3>1. CASE JobOf(d) # j
      BY <1>1, <2>1, <2>4, <3>0, <3>1 DEF HandlerKnows, RightQueue
    <3>2. CASE JobOf(d) = j /\ pc[d] \in Storing
      <4>1. docs'[j] = docs[j] /\ chunks'[j] = chunks[j]
        BY <2>4, <3>2 DEF Storer
      <4> QED BY <1>1, <2>1, <2>4, <3>2, <4>1 DEF HandlerKnows, RightQueue, Storing
    <3>3. CASE JobOf(d) = j /\ pc[d] \notin Storing
      BY <1>1, <2>1, <2>4, <3>3 DEF HandlerKnows, RightQueue, Storing
    <3> QED BY <3>1, <3>2, <3>3
  <2> QED BY <2>2, <2>3, <2>4
<1>8. SingleStorer'
  <2>1. ASSUME NEW d \in Consumer, d # c, pc'[d] \in Storing, pc'[c] \in Storing,
               JobOf(d) = j
        PROVE  FALSE
    BY <2>1, <1>3, <1>5 DEF RecordsAgree, SingleStorer, Storer
  <2> QED BY <1>1, <1>3, <2>1 DEF RecordsAgree, SingleStorer
<1> QED BY <1>4, <1>6, <1>7, <1>8 DEF RecordsAgree

-----------------------------------------------------------------------------
(* What a running handler finds of its own upload.                         *)
LEMMA HandlerFacts ==
  ASSUME BrokerInv, PipelineTypes, RecordsAgree,
         NEW c \in Consumer, phase[c] = "handling", NEW j \in Job, JobOf(c) = j
  PROVE  /\ HandlerKnows(c) /\ DocumentAgrees(j) /\ JobAgrees(j)
         /\ jobs[j] \in JobRecord
         /\ QueueOf(c) # QUEUE_PROCESS =>
              FullyStored(j) /\ \A d \in Consumer : ~Storer(d, j)
         /\ pc[c] \in Storing => \A d \in Consumer : d # c => ~Storer(d, j)
<1>1. held[c] \in DOMAIN log /\ log[held[c]].queue = QueueOf(c)
  BY JobOfIsJob
<1>2. MessageReady(held[c]) /\ HandlerKnows(c) /\ DocumentAgrees(j) /\ JobAgrees(j)
  BY <1>1 DEF RecordsAgree
<1>3. jobs[j] \in JobRecord
  BY <1>1 DEF PipelineTypes
<1>4. QueueOf(c) # QUEUE_PROCESS =>
        FullyStored(j) /\ \A d \in Consumer : ~Storer(d, j)
  BY <1>1, <1>2 DEF MessageReady, JobOf
<1>5. pc[c] \in Storing => \A d \in Consumer : d # c => ~Storer(d, j)
  BY DEF RecordsAgree, SingleStorer, Storer
<1> QED BY <1>2, <1>3, <1>4, <1>5

(* The calls that update the job record, each with the next one.           *)
JobCall == {<<"process", "lookup">>, <<"duplicate", "done">>, <<"nochunks", "done">>,
            <<"processed", "handoff">>, <<"extract", "entities">>,
            <<"extracted", "forward">>, <<"postprocess", "finish">>,
            <<"complete", "done">>}

(* Such a call keeps the records in agreement if the job record still does *)
(* agree with the document; it may forget a duplicate.                     *)
LEMMA JobCallKeepsRecords ==
  ASSUME BrokerInv, PipelineTypes, RecordsAgree,
         NEW c \in Consumer, NEW j \in Job, JobOf(c) = j,
         NEW from, NEW to, Call(c, from, to), <<from, to>> \in JobCall,
         NEW ch, UpdateJob(j, ch),
         "status" \in DOMAIN ch => ch.status \in JobStatus \ {"absent"},
         "stage" \in DOMAIN ch => ch.stage \in Stage,
         "dupOf" \in DOMAIN ch => ch.dupOf \in Job \cup {NoJob},
         UNCHANGED <<log, phase, held, api, s3, docs, chunks, graph>>,
         found' \in [Consumer -> Job \cup {NoJob}],
         \A d \in Consumer : d # c => found'[d] = found[d],
         JobAgrees(j)'
  PROVE  PipelineTypes' /\ RecordsAgree'
<1>0. phase[c] = "handling" /\ pc[c] = from /\ to \in Label
  BY DEF Call, JobCall, Label
<1>1. jobs[j] \in JobRecord /\ DocumentAgrees(j) /\ HandlerKnows(c)
  BY <1>0, HandlerFacts
<1>2. /\ \A k \in Job : k # j => jobs'[k] = jobs[k]
      /\ jobs'[j].status = IF "status" \in DOMAIN ch THEN ch.status ELSE jobs[j].status
      /\ jobs' \in [Job -> JobRecord]
  BY <1>1, UpdatedJob DEF PipelineTypes, JobRecord
<1>3. pc'[c] = to /\ \A d \in Consumer : d # c => pc'[d] = pc[d]
  BY DEF PipelineTypes, Call
<1>4. PipelineTypes'
  BY <1>0, <1>2 DEF PipelineTypes, Call
<1>5. DocumentAgrees(j)' /\ (FullyStored(j) => FullyStored(j)')
  BY <1>1 DEF DocumentAgrees, FullyStored
<1>6. jobs[j].status # "absent" => jobs'[j].status # "absent"
  BY <1>2
<1>7. HandlerKnows(c)'
  BY <1>0, <1>1, <1>3 DEF HandlerKnows, RightQueue, Storing, JobCall, JobOf
<1>8. to \in Storing => from \in Storing
  BY DEF JobCall, Storing
<1> QED BY <1>0, <1>2, <1>3, <1>4, <1>5, <1>6, <1>7, <1>8, CallKeepsRecords

(* Each of those calls.                                                    *)
LEMMA JobCallsKeepRecords ==
  ASSUME BrokerInv, PipelineTypes, RecordsAgree, NEW c \in Consumer,
         \/ MarkProcessing(c) \/ CloseDuplicate(c) \/ FailJob(c) \/ ProcessDone(c)
         \/ MarkExtract(c) \/ ExtractDone(c) \/ MarkPostprocess(c) \/ CompleteJob(c)
  PROVE  PipelineTypes' /\ RecordsAgree'
<1>1. phase[c] = "handling"
  BY DEF Call, MarkProcessing, CloseDuplicate, FailJob, ProcessDone, MarkExtract,
    ExtractDone, MarkPostprocess, CompleteJob
<1>2. PICK j \in Job : JobOf(c) = j
  BY <1>1, JobOfIsJob
<1>3. /\ HandlerKnows(c) /\ DocumentAgrees(j) /\ JobAgrees(j)
      /\ QueueOf(c) # QUEUE_PROCESS => FullyStored(j)
  BY <1>1, <1>2, HandlerFacts
<1>4. jobs \in [Job -> JobRecord] /\ found \in [Consumer -> Job \cup {NoJob}]
        /\ pc \in [Consumer -> Label]
  BY DEF PipelineTypes
<1> USE DEF JobCall, JobStatus, Stage
<1>5. CASE MarkProcessing(c)
  <2> DEFINE ch == [status |-> "processing", stage |-> "process"]
  <2>1. UpdateJob(j, ch) /\ Call(c, "process", "lookup")
    BY <1>2, <1>5 DEF MarkProcessing
  <2>2. JobAgrees(j)'
    BY <2>1, <1>4, UpdatedJob DEF JobAgrees
  <2> QED BY <2>1, <2>2, <1>2, <1>4, <1>5, JobCallKeepsRecords DEF MarkProcessing
<1>6. CASE CloseDuplicate(c)
  <2>0. PICK k \in Job : k = found[c]
    BY <1>3, <1>4, <1>6 DEF CloseDuplicate, Call, HandlerKnows
  <2> DEFINE ch == [status |-> "completed", dupOf |-> k]
  <2>1. UpdateJob(j, ch) /\ Call(c, "duplicate", "done")
    BY <2>0, <1>2, <1>6 DEF CloseDuplicate
  <2>2. JobAgrees(j)'
    BY <2>1, <1>6, <1>2, <1>3, <1>4, UpdatedJob, PipelineAssumption
       DEF CloseDuplicate, JobAgrees, FullyStored
  <2> QED BY <2>1, <2>2, <1>2, <1>4, <1>6, JobCallKeepsRecords DEF CloseDuplicate
<1>7. CASE FailJob(c)
  <2> DEFINE ch == [status |-> "failed"]
  <2>1. UpdateJob(j, ch) /\ Call(c, "nochunks", "done")
    BY <1>2, <1>7 DEF FailJob
  <2>2. JobAgrees(j)'
    BY <2>1, <1>7, <1>2, <1>3, <1>4, UpdatedJob
       DEF FailJob, JobAgrees, FullyStored, HandlerKnows, Call
  <2> QED BY <2>1, <2>2, <1>2, <1>4, <1>7, JobCallKeepsRecords DEF FailJob
<1>8. CASE ProcessDone(c)
  <2> DEFINE ch == [stage |-> "process_done"]
  <2>1. UpdateJob(j, ch) /\ Call(c, "processed", "handoff")
    BY <1>2, <1>8 DEF ProcessDone
  <2>2. JobAgrees(j)'
    BY <2>1, <1>8, <1>2, <1>3, <1>4, UpdatedJob
       DEF ProcessDone, JobAgrees, FullyStored, HandlerKnows, Call, Storing
  <2> QED BY <2>1, <2>2, <1>2, <1>4, <1>8, JobCallKeepsRecords DEF ProcessDone
<1>9. CASE MarkExtract(c)
  <2> DEFINE ch == [stage |-> "extract"]
  <2>1. UpdateJob(j, ch) /\ Call(c, "extract", "entities")
    BY <1>2, <1>9 DEF MarkExtract
  <2>2. JobAgrees(j)'
    BY <2>1, <1>9, <1>2, <1>3, <1>4, UpdatedJob
       DEF MarkExtract, JobAgrees, FullyStored, HandlerKnows, RightQueue, Call, QUEUE_PROCESS, QUEUE_EXTRACT, QUEUE_POSTPROCESS
  <2> QED BY <2>1, <2>2, <1>2, <1>4, <1>9, JobCallKeepsRecords DEF MarkExtract
<1>10. CASE ExtractDone(c)
  <2> DEFINE ch == [stage |-> "extract_done"]
  <2>1. UpdateJob(j, ch) /\ Call(c, "extracted", "forward")
    BY <1>2, <1>10 DEF ExtractDone
  <2>2. JobAgrees(j)'
    BY <2>1, <1>10, <1>2, <1>3, <1>4, UpdatedJob
       DEF ExtractDone, JobAgrees, FullyStored, HandlerKnows, RightQueue, Call, QUEUE_PROCESS, QUEUE_EXTRACT, QUEUE_POSTPROCESS
  <2> QED BY <2>1, <2>2, <1>2, <1>4, <1>10, JobCallKeepsRecords DEF ExtractDone
<1>11. CASE MarkPostprocess(c)
  <2> DEFINE ch == [stage |-> "postprocess"]
  <2>1. UpdateJob(j, ch) /\ Call(c, "postprocess", "finish")
    BY <1>2, <1>11 DEF MarkPostprocess
  <2>2. JobAgrees(j)'
    BY <2>1, <1>11, <1>2, <1>3, <1>4, UpdatedJob
       DEF MarkPostprocess, JobAgrees, FullyStored, HandlerKnows, RightQueue, Call, QUEUE_PROCESS, QUEUE_EXTRACT, QUEUE_POSTPROCESS
  <2> QED BY <2>1, <2>2, <1>2, <1>4, <1>11, JobCallKeepsRecords DEF MarkPostprocess
<1>12. CASE CompleteJob(c) /\ QueueOf(c) = QUEUE_POSTPROCESS
  <2> DEFINE ch == [status |-> "completed", stage |-> "complete"]
  <2>1. UpdateJob(j, ch) /\ Call(c, "complete", "done")
    BY <1>2, <1>12 DEF CompleteJob
  <2>2. JobAgrees(j)'
    BY <2>1, <1>12, <1>2, <1>3, <1>4, UpdatedJob
       DEF CompleteJob, JobAgrees, DocumentAgrees, FullyStored, HandlerKnows, Call
  <2> QED BY <2>1, <2>2, <1>2, <1>4, <1>12, JobCallKeepsRecords DEF CompleteJob
<1>13. CASE CompleteJob(c) /\ QueueOf(c) # QUEUE_POSTPROCESS
  <2> DEFINE ch == [status |-> "completed"]
  <2>1. UpdateJob(j, ch) /\ Call(c, "complete", "done")
    BY <1>2, <1>13 DEF CompleteJob
  <2>2. JobAgrees(j)'
    BY <2>1, <1>13, <1>2, <1>3, <1>4, UpdatedJob
       DEF CompleteJob, JobAgrees, FullyStored, HandlerKnows, Call
  <2> QED BY <2>1, <2>2, <1>2, <1>4, <1>13, JobCallKeepsRecords DEF CompleteJob
<1> QED BY <1>5, <1>6, <1>7, <1>8, <1>9, <1>10, <1>11, <1>12, <1>13

(* The calls that read or change document, chunks and graph.               *)
LEMMA StoreCallsKeepRecords ==
  ASSUME BrokerInv, PipelineTypes, RecordsAgree, NEW c \in Consumer,
         \/ LookUp(c) \/ InsertDocument(c) \/ Convert(c) \/ FailDocument(c)
         \/ InsertChunks(c) \/ UpsertChunks(c) \/ UpsertDocumentNode(c)
         \/ StoreEntities(c) \/ CompleteDocument(c)
  PROVE  PipelineTypes' /\ RecordsAgree'
<1>1. phase[c] = "handling"
  BY DEF Call, LookUp, InsertDocument, Convert, FailDocument, InsertChunks, UpsertChunks, UpsertDocumentNode, StoreEntities, CompleteDocument
<1>2. PICK j \in Job : JobOf(c) = j
  BY <1>1, JobOfIsJob
<1>3. /\ HandlerKnows(c) /\ DocumentAgrees(j) /\ JobAgrees(j)
      /\ QueueOf(c) # QUEUE_PROCESS =>
           FullyStored(j) /\ \A d \in Consumer : ~Storer(d, j)
      /\ pc[c] \in Storing => \A d \in Consumer : d # c => ~Storer(d, j)
  BY <1>1, <1>2, HandlerFacts
<1>4. /\ docs \in [Job -> DocStatus] /\ chunks \in [Job -> Stored]
      /\ graph \in [Job -> SUBSET {"chunks", "document", "entities"}]
      /\ pc \in [Consumer -> Label] /\ found \in [Consumer -> Job \cup {NoJob}]
  BY DEF PipelineTypes
<1>5. docs[j] = "absent" => \A d \in Consumer : ~Storer(d, j)
  BY DEF RecordsAgree, HandlerKnows, Storer
<1>6. /\ JobOf(c)' = JobOf(c) /\ UNCHANGED <<log, phase, held, api, s3, jobs>>
      /\ \A d \in Consumer : d # c => pc'[d] = pc[d] /\ found'[d] = found[d]
      /\ \A k \in Job : k # j => /\ docs'[k] = docs[k]
                              /\ chunks'[k] = chunks[k]
                              /\ graph'[k] = graph[k]
  BY <1>2, <1>4 DEF JobOf, Call, Insert, UpdateDocumentStatus, LookUp, InsertDocument, Convert, FailDocument, InsertChunks, UpsertChunks, UpsertDocumentNode, StoreEntities, CompleteDocument
<1>7. PipelineTypes'
  BY <1>2, <1>4 DEF PipelineTypes, Call, Insert, UpdateDocumentStatus, DocStatus, Stored,
    Label, SameContent, LookUp, InsertDocument, Convert, FailDocument, InsertChunks, UpsertChunks, UpsertDocumentNode, StoreEntities, CompleteDocument
<1>8. CASE LookUp(c)
  <2>1. HandlerKnows(c)'
    BY <1>2, <1>3, <1>4, <1>6, <1>8, PipelineAssumption
       DEF LookUp, Call, SameContent, HandlerKnows, RightQueue, Storing
  <2>2. DocumentAgrees(j)' /\ JobAgrees(j)'
    BY <1>2, <1>3, <1>4, <1>6, <1>8
       DEF LookUp, Call, SameContent, HandlerKnows, DocumentAgrees, JobAgrees, FullyStored, Storing
  <2>3. /\ FullyStored(j) => FullyStored(j)'
        /\ graph[j] \subseteq graph'[j]
        /\ docs[j] \in {"completed", "failed"} => docs'[j] = docs[j]
        /\ \/ docs'[j] = docs[j] /\ chunks'[j] = chunks[j]
           \/ \A d \in Consumer : d # c => ~Storer(d, j)
        /\ pc'[c] \in Storing => pc[c] \in Storing \/ docs[j] = "absent"
    BY <1>2, <1>3, <1>4, <1>5, <1>6, <1>8
       DEF LookUp, Call, SameContent, HandlerKnows, FullyStored, Storing
  <2> QED BY <1>1, <1>2, <1>6, <1>7, <2>1, <2>2, <2>3, CallKeepsRecords
<1>9. CASE InsertDocument(c)
  <2>1. HandlerKnows(c)'
    BY <1>2, <1>3, <1>4, <1>6, <1>9, PipelineAssumption
       DEF InsertDocument, Call, UpdateDocumentStatus, HandlerKnows, RightQueue, Storing,
         DocumentAgrees
  <2>2. DocumentAgrees(j)' /\ JobAgrees(j)'
    BY <1>2, <1>3, <1>4, <1>6, <1>9
       DEF InsertDocument, Call, UpdateDocumentStatus, HandlerKnows, DocumentAgrees, JobAgrees, FullyStored, Storing
  <2>3. /\ FullyStored(j) => FullyStored(j)'
        /\ graph[j] \subseteq graph'[j]
        /\ docs[j] \in {"completed", "failed"} => docs'[j] = docs[j]
        /\ \/ docs'[j] = docs[j] /\ chunks'[j] = chunks[j]
           \/ \A d \in Consumer : d # c => ~Storer(d, j)
        /\ pc'[c] \in Storing => pc[c] \in Storing \/ docs[j] = "absent"
    BY <1>2, <1>3, <1>4, <1>5, <1>6, <1>9
       DEF InsertDocument, Call, UpdateDocumentStatus, HandlerKnows, FullyStored, Storing
  <2> QED BY <1>1, <1>2, <1>6, <1>7, <2>1, <2>2, <2>3, CallKeepsRecords
<1>10. CASE Convert(c)
  <2>1. HandlerKnows(c)'
    BY <1>2, <1>3, <1>4, <1>6, <1>10, PipelineAssumption
       DEF Convert, Call, HandlerKnows, RightQueue, Storing
  <2>2. DocumentAgrees(j)' /\ JobAgrees(j)'
    BY <1>2, <1>3, <1>4, <1>6, <1>10
       DEF Convert, Call, HandlerKnows, DocumentAgrees, JobAgrees, FullyStored, Storing
  <2>3. /\ FullyStored(j) => FullyStored(j)'
        /\ graph[j] \subseteq graph'[j]
        /\ docs[j] \in {"completed", "failed"} => docs'[j] = docs[j]
        /\ \/ docs'[j] = docs[j] /\ chunks'[j] = chunks[j]
           \/ \A d \in Consumer : d # c => ~Storer(d, j)
        /\ pc'[c] \in Storing => pc[c] \in Storing \/ docs[j] = "absent"
    BY <1>2, <1>3, <1>4, <1>5, <1>6, <1>10
       DEF Convert, Call, HandlerKnows, FullyStored, Storing
  <2> QED BY <1>1, <1>2, <1>6, <1>7, <2>1, <2>2, <2>3, CallKeepsRecords
<1>11. CASE FailDocument(c)
  <2>1. HandlerKnows(c)'
    BY <1>2, <1>3, <1>4, <1>6, <1>11, PipelineAssumption
       DEF FailDocument, Call, UpdateDocumentStatus, HandlerKnows, RightQueue, Storing
  <2>2. DocumentAgrees(j)' /\ JobAgrees(j)'
    BY <1>2, <1>3, <1>4, <1>6, <1>11
       DEF FailDocument, Call, UpdateDocumentStatus, HandlerKnows, DocumentAgrees, JobAgrees, FullyStored, Storing
  <2>3. /\ FullyStored(j) => FullyStored(j)'
        /\ graph[j] \subseteq graph'[j]
        /\ docs[j] \in {"completed", "failed"} => docs'[j] = docs[j]
        /\ \/ docs'[j] = docs[j] /\ chunks'[j] = chunks[j]
           \/ \A d \in Consumer : d # c => ~Storer(d, j)
        /\ pc'[c] \in Storing => pc[c] \in Storing \/ docs[j] = "absent"
    BY <1>2, <1>3, <1>4, <1>5, <1>6, <1>11
       DEF FailDocument, Call, UpdateDocumentStatus, HandlerKnows, FullyStored, Storing
  <2> QED BY <1>1, <1>2, <1>6, <1>7, <2>1, <2>2, <2>3, CallKeepsRecords
<1>12. CASE InsertChunks(c)
  <2>1. HandlerKnows(c)'
    BY <1>2, <1>3, <1>4, <1>6, <1>12, PipelineAssumption
       DEF InsertChunks, Call, Insert, HandlerKnows, RightQueue, Storing
  <2>2. DocumentAgrees(j)' /\ JobAgrees(j)'
    BY <1>2, <1>3, <1>4, <1>6, <1>12
       DEF InsertChunks, Call, Insert, HandlerKnows, DocumentAgrees, JobAgrees, FullyStored, Storing
  <2>3. /\ FullyStored(j) => FullyStored(j)'
        /\ graph[j] \subseteq graph'[j]
        /\ docs[j] \in {"completed", "failed"} => docs'[j] = docs[j]
        /\ \/ docs'[j] = docs[j] /\ chunks'[j] = chunks[j]
           \/ \A d \in Consumer : d # c => ~Storer(d, j)
        /\ pc'[c] \in Storing => pc[c] \in Storing \/ docs[j] = "absent"
    BY <1>2, <1>3, <1>4, <1>5, <1>6, <1>12
       DEF InsertChunks, Call, Insert, HandlerKnows, FullyStored, Storing
  <2> QED BY <1>1, <1>2, <1>6, <1>7, <2>1, <2>2, <2>3, CallKeepsRecords
<1>13. CASE UpsertChunks(c)
  <2>1. HandlerKnows(c)'
    BY <1>2, <1>3, <1>4, <1>6, <1>13, PipelineAssumption
       DEF UpsertChunks, Call, HandlerKnows, RightQueue, Storing
  <2>2. DocumentAgrees(j)' /\ JobAgrees(j)'
    BY <1>2, <1>3, <1>4, <1>6, <1>13
       DEF UpsertChunks, Call, HandlerKnows, DocumentAgrees, JobAgrees, FullyStored, Storing
  <2>3. /\ FullyStored(j) => FullyStored(j)'
        /\ graph[j] \subseteq graph'[j]
        /\ docs[j] \in {"completed", "failed"} => docs'[j] = docs[j]
        /\ \/ docs'[j] = docs[j] /\ chunks'[j] = chunks[j]
           \/ \A d \in Consumer : d # c => ~Storer(d, j)
        /\ pc'[c] \in Storing => pc[c] \in Storing \/ docs[j] = "absent"
    BY <1>2, <1>3, <1>4, <1>5, <1>6, <1>13
       DEF UpsertChunks, Call, HandlerKnows, FullyStored, Storing
  <2> QED BY <1>1, <1>2, <1>6, <1>7, <2>1, <2>2, <2>3, CallKeepsRecords
<1>14. CASE UpsertDocumentNode(c)
  <2>1. HandlerKnows(c)'
    BY <1>2, <1>3, <1>4, <1>6, <1>14, PipelineAssumption
       DEF UpsertDocumentNode, Call, HandlerKnows, RightQueue, Storing
  <2>2. DocumentAgrees(j)' /\ JobAgrees(j)'
    BY <1>2, <1>3, <1>4, <1>6, <1>14
       DEF UpsertDocumentNode, Call, HandlerKnows, DocumentAgrees, JobAgrees, FullyStored, Storing
  <2>3. /\ FullyStored(j) => FullyStored(j)'
        /\ graph[j] \subseteq graph'[j]
        /\ docs[j] \in {"completed", "failed"} => docs'[j] = docs[j]
        /\ \/ docs'[j] = docs[j] /\ chunks'[j] = chunks[j]
           \/ \A d \in Consumer : d # c => ~Storer(d, j)
        /\ pc'[c] \in Storing => pc[c] \in Storing \/ docs[j] = "absent"
    BY <1>2, <1>3, <1>4, <1>5, <1>6, <1>14
       DEF UpsertDocumentNode, Call, HandlerKnows, FullyStored, Storing
  <2> QED BY <1>1, <1>2, <1>6, <1>7, <2>1, <2>2, <2>3, CallKeepsRecords
<1>15. CASE StoreEntities(c)
  <2>1. HandlerKnows(c)'
    BY <1>2, <1>3, <1>4, <1>6, <1>15, PipelineAssumption
       DEF StoreEntities, Call, HandlerKnows, RightQueue, Storing
  <2>2. DocumentAgrees(j)' /\ JobAgrees(j)'
    BY <1>2, <1>3, <1>4, <1>6, <1>15
       DEF StoreEntities, Call, HandlerKnows, DocumentAgrees, JobAgrees, FullyStored, Storing
  <2>3. /\ FullyStored(j) => FullyStored(j)'
        /\ graph[j] \subseteq graph'[j]
        /\ docs[j] \in {"completed", "failed"} => docs'[j] = docs[j]
        /\ \/ docs'[j] = docs[j] /\ chunks'[j] = chunks[j]
           \/ \A d \in Consumer : d # c => ~Storer(d, j)
        /\ pc'[c] \in Storing => pc[c] \in Storing \/ docs[j] = "absent"
    BY <1>2, <1>3, <1>4, <1>5, <1>6, <1>15
       DEF StoreEntities, Call, HandlerKnows, FullyStored, Storing
  <2> QED BY <1>1, <1>2, <1>6, <1>7, <2>1, <2>2, <2>3, CallKeepsRecords
<1>16. CASE CompleteDocument(c)
  <2>0. /\ FullyStored(j) /\ docs[j] # "failed"
        /\ \A d \in Consumer : d # c => ~Storer(d, j)
    BY <1>2, <1>3, <1>16 DEF CompleteDocument, Call, HandlerKnows, RightQueue, Storing,
      FullyStored, DocumentAgrees, QUEUE_PROCESS, QUEUE_POSTPROCESS
  <2>1. HandlerKnows(c)'
    BY <1>2, <1>3, <1>4, <1>6, <1>16
       DEF CompleteDocument, Call, UpdateDocumentStatus, HandlerKnows, RightQueue, Storing
  <2>2. DocumentAgrees(j)' /\ JobAgrees(j)'
    BY <2>0, <1>2, <1>3, <1>4, <1>6, <1>16 DEF CompleteDocument, UpdateDocumentStatus,
      DocumentAgrees, JobAgrees, FullyStored
  <2>3. /\ FullyStored(j) => FullyStored(j)'
        /\ graph[j] \subseteq graph'[j]
        /\ docs[j] \in {"completed", "failed"} => docs'[j] = docs[j]
        /\ pc'[c] \notin Storing
    BY <2>0, <1>2, <1>4, <1>16 DEF CompleteDocument, UpdateDocumentStatus, Call, FullyStored, Storing
  <2> QED BY <1>1, <1>2, <1>6, <1>7, <2>0, <2>1, <2>2, <2>3, CallKeepsRecords
<1> QED BY <1>8, <1>9, <1>10, <1>11, <1>12, <1>13, <1>14, <1>15, <1>16

-----------------------------------------------------------------------------
(* A new message, of work that is ready.                                   *)
LEMMA PublishedLog ==
  ASSUME BrokerInv, NEW q \in Queue, NEW j \in Job, Publish(q, j)
  PROVE  /\ DOMAIN log' = DOMAIN log \cup {Len(log) + 1}
         /\ log'[Len(log) + 1].queue = q
         /\ log'[Len(log) + 1].payload = j
         /\ \A m \in DOMAIN log : log'[m] = log[m]
<1> DEFINE e == Fresh(q, j, 0, Len(log) + 1)
<1>1. e \in Message
  BY BrokerAssumption, PipelineAssumption, LenProperties
     DEF Fresh, Message, Place, BrokerInv, BrokerTypeOK
<1>2. log' = Append(log, e) /\ e.queue = q /\ e.payload = j
  BY DEF Publish, Fresh
<1> QED BY <1>1, <1>2, AppendedLog DEF BrokerInv, BrokerTypeOK

(* Publishing work that is ready; the handler c that does it has no more   *)
(* to do.                                                                  *)
LEMMA PublishKeepsRecords ==
  ASSUME BrokerInv, PipelineTypes, RecordsAgree,
         NEW q \in Queue, NEW j \in Job, Publish(q, j),
         UNCHANGED <<phase, held, s3, jobs, docs, chunks, graph, found>>,
         \A k \in Job : RequestKnows(k)',
         pc' \in [Consumer -> Label],
         \A d \in Consumer : pc'[d] = pc[d] \/ (pc'[d] = "done" /\ phase[d] = "handling"),
         IF q = QUEUE_PROCESS THEN j \in s3 /\ jobs[j].status # "absent"
         ELSE FullyStored(j) /\ \A d \in Consumer : pc'[d] = pc[d] => ~Storer(d, j)
  PROVE  RecordsAgree'
<1> DEFINE n == Len(log) + 1
<1>1. /\ DOMAIN log' = DOMAIN log \cup {n}
      /\ log'[n].queue = q /\ log'[n].payload = j
      /\ \A m \in DOMAIN log : log'[m] = log[m]
  BY PublishedLog
<1>2. \A d \in Consumer : phase[d] = "handling" => JobOf(d)' = JobOf(d)
  BY <1>1, JobOfIsJob DEF JobOf
<1>3. \A d \in Consumer : HandlerKnows(d)
  BY DEF RecordsAgree
<1>4. \A d \in Consumer : pc'[d] \in Storing => pc'[d] = pc[d] /\ JobOf(d)' = JobOf(d)
  BY <1>2, <1>3 DEF Storing, HandlerKnows
<1>5. ASSUME NEW k \in Job PROVE DocumentAgrees(k)' /\ JobAgrees(k)'
  BY DEF RecordsAgree, DocumentAgrees, JobAgrees, FullyStored
<1>6. ASSUME NEW m \in DOMAIN log' PROVE MessageReady(m)'
  <2>1. CASE m = n
    BY <2>1, <1>1, <1>4 DEF MessageReady, FullyStored, Storer
  <2>2. CASE m # n
    BY <2>2, <1>1, <1>4 DEF RecordsAgree, MessageReady, FullyStored, Storer
  <2> QED BY <2>1, <2>2
<1>7. ASSUME NEW d \in Consumer PROVE HandlerKnows(d)'
  <2>1. CASE pc'[d] = pc[d] /\ pc[d] # "none"
    BY <2>1, <1>2, <1>3 DEF HandlerKnows, RightQueue
  <2>2. CASE pc'[d] \in {"none", "done"}
    BY <2>2, <1>3 DEF HandlerKnows, RightQueue, Storing
  <2> QED BY <2>1, <2>2
<1>8. SingleStorer'
  BY <1>4 DEF RecordsAgree, SingleStorer
<1> QED BY <1>5, <1>6, <1>7, <1>8 DEF RecordsAgree

(* The places that publish: the request, whether it hears of it or not,    *)
(* and two handlers.                                                       *)
LEMMA PublishersKeepRecords ==
  ASSUME BrokerInv, PipelineTypes, RecordsAgree,
         \/ \E j \in Job : Enqueue(j) \/ EnqueueUnanswered(j)
         \/ \E c \in Consumer : HandOff(c) \/ Forward(c)
  PROVE  PipelineTypes' /\ RecordsAgree'
<1> USE PipelineAssumption
<1>1. ASSUME NEW j \in Job, Enqueue(j) \/ EnqueueUnanswered(j)
      PROVE  PipelineTypes' /\ RecordsAgree'
  <2>1. PipelineTypes'
    BY <1>1 DEF Enqueue, EnqueueUnanswered, PipelineTypes
  <2>2. /\ \A k \in Job : RequestKnows(k)'
        /\ j \in s3 /\ jobs[j].status # "absent"
    BY <1>1 DEF Enqueue, EnqueueUnanswered, PipelineTypes, RecordsAgree, RequestKnows
  <2> QED BY <2>1, <2>2, <1>1, PublishKeepsRecords
          DEF Enqueue, EnqueueUnanswered, PipelineTypes
<1>2. ASSUME NEW c \in Consumer, HandOff(c) \/ Forward(c)
      PROVE  PipelineTypes' /\ RecordsAgree'
  <2>1. /\ phase[c] = "handling" /\ pc[c] \in {"handoff", "forward"}
        /\ pc' = [pc EXCEPT ![c] = "done"]
        /\ UNCHANGED <<phase, held, api, s3, jobs, docs, chunks, graph, found>>
    BY <1>2 DEF HandOff, Forward, Call
  <2>2. PICK j \in Job : JobOf(c) = j
    BY <2>1, JobOfIsJob
  <2>3. PICK q \in {QUEUE_EXTRACT, QUEUE_POSTPROCESS} : Publish(q, j)
    BY <1>2, <2>2 DEF HandOff, Forward
  <2>4. PipelineTypes'
    BY <2>1 DEF PipelineTypes, Label
  <2>5. FullyStored(j) /\ \A d \in Consumer : d # c => ~Storer(d, j)
    <3>1. CASE pc[c] = "handoff"
      BY <2>1, <2>2, <3>1, HandlerFacts DEF HandlerKnows, FullyStored, Storing
    <3>2. CASE pc[c] = "forward"
      BY <2>1, <2>2, <3>2, HandlerFacts DEF HandlerKnows, RightQueue, QUEUE_PROCESS, QUEUE_EXTRACT
    <3> QED BY <2>1, <3>1, <3>2
  <2>6. \A k \in Job : RequestKnows(k)'
    BY <2>1 DEF RecordsAgree, RequestKnows
  <2>7. /\ q # QUEUE_PROCESS /\ q \in Queue
        /\ pc' \in [Consumer -> Label] /\ pc'[c] # pc[c]
        /\ \A d \in Consumer : pc'[d] = pc[d] \/ (pc'[d] = "done" /\ phase[d] = "handling")
    BY <2>1, <2>4 DEF QUEUE_PROCESS, QUEUE_EXTRACT, QUEUE_POSTPROCESS, PipelineTypes
  <2> QED BY <2>1, <2>3, <2>4, <2>5, <2>6, <2>7, PublishKeepsRecords
<1> QED BY <1>1, <1>2

(* The request's other calls.                                              *)
LEMMA RequestKeepsRecords ==
  ASSUME BrokerInv, PipelineTypes, RecordsAgree, NEW j \in Job,
         UploadFile(j) \/ CreateJob(j) \/ EnqueueFails(j)
  PROVE  PipelineTypes' /\ RecordsAgree'
<1>1. PipelineTypes'
  BY DEF UploadFile, CreateJob, EnqueueFails, PipelineTypes, JobRecord, JobStatus, Stage
<1>2. UNCHANGED <<log, phase, held, docs, chunks, graph, pc, found>> /\ s3 \subseteq s3'
  BY DEF UploadFile, CreateJob, EnqueueFails
<1>3. \A k \in Job :
        jobs'[k] = jobs[k] \/ (jobs'[k].status = "pending" /\ jobs'[k].stage = "queued")
  BY DEF UploadFile, CreateJob, EnqueueFails, PipelineTypes
<1>4. \A k \in Job : RequestKnows(k)'
  BY <1>3 DEF UploadFile, CreateJob, EnqueueFails, PipelineTypes, RecordsAgree, RequestKnows
<1>5. \A k \in Job : DocumentAgrees(k)' /\ JobAgrees(k)'
  BY <1>2, <1>3 DEF RecordsAgree, DocumentAgrees, JobAgrees, FullyStored
<1>6. \A m \in DOMAIN log : log[m].payload \in Job
  <2>1. \A m \in DOMAIN log : log[m] \in Message
    BY LenProperties, ElementOfSeq DEF BrokerInv, BrokerTypeOK
  <2> QED BY <2>1, PipelineAssumption DEF Message
<1>7. \A m \in DOMAIN log' : MessageReady(m)'
  BY <1>2, <1>3, <1>6 DEF RecordsAgree, MessageReady, FullyStored, Storer, JobOf
<1>8. (\A c \in Consumer : HandlerKnows(c)') /\ SingleStorer'
  BY <1>2 DEF RecordsAgree, HandlerKnows, RightQueue, SingleStorer, JobOf
<1> QED BY <1>1, <1>4, <1>5, <1>7, <1>8 DEF RecordsAgree

-----------------------------------------------------------------------------
(* Messages keep queue and payload, and new ones are copies of old ones.   *)
Carries ==
  /\ \A m \in DOMAIN log' : \E n \in DOMAIN log :
       log'[m].queue = log[n].queue /\ log'[m].payload = log[n].payload
  /\ \A m \in DOMAIN log : m \in DOMAIN log' /\ log'[m].payload = log[m].payload

(* This is so of moving a message,                                         *)
LEMMA MovingCarries ==
  ASSUME BrokerInv, NEW m \in DOMAIN log, NEW p \in Place, log' = Moved(m, p)
  PROVE  Carries
<1>1. log \in Seq(Message) /\ log' = [log EXCEPT ![m].place = p]
  BY DEF Moved, BrokerInv, BrokerTypeOK
<1> QED BY <1>1, MovedLog DEF Carries

(* answering for one,                                                      *)
LEMMA ReleaseCarries ==
  ASSUME BrokerInv, NEW c \in Consumer, phase[c] \in Holding, NEW p \in Place, NEW next,
         Release(c, p, next)
  PROVE  Carries
BY MovingCarries DEF Release, BrokerInv, Ownership

(* publishing its copy,                                                    *)
LEMMA RepublishCarries ==
  ASSUME BrokerInv, NEW c \in Consumer, Republish(c)
  PROVE  Carries
<1> DEFINE m == held[c]
           e == NextAttempt(m)
<1>1. m \in DOMAIN log
  BY DEF Republish, Advance, BrokerInv, Ownership, Holding
<1>2. log[m] \in Message
  BY <1>1, LenProperties, ElementOfSeq DEF BrokerInv, BrokerTypeOK
<1>3. e \in Message /\ log' = Append(log, e)
        /\ e.queue = log[m].queue /\ e.payload = log[m].payload
  BY <1>2, BrokerAssumption DEF Republish, NextAttempt, Fresh, Message, Place
<1> HIDE DEF e
<1>4. /\ DOMAIN log' = DOMAIN log \cup {Len(log) + 1}
      /\ log'[Len(log) + 1] = e
      /\ \A n \in DOMAIN log : log'[n] = log[n]
  BY <1>3, AppendedLog DEF BrokerInv, BrokerTypeOK
<1> QED BY <1>1, <1>3, <1>4 DEF Carries

(* and a crash.                                                            *)
LEMMA CrashCarries ==
  ASSUME BrokerInv, NEW w \in Worker, Crash(w) PROVE Carries
BY CrashedLog DEF Carries

(* A broker step keeps the records in agreement if the handlers that are   *)
(* in the middle of their work stay there, and chunks are left behind only *)
(* by a storer that gives up.                                              *)
LEMMA BrokerStepKeepsRecords ==
  ASSUME BrokerInv, BrokerInv', PipelineTypes, RecordsAgree, Carries,
         UNCHANGED <<api, s3, jobs, docs, graph>>,
         \A d \in Consumer :
           \/ pc'[d] = "none"
           \/ pc'[d] = QueueOf(d) /\ phase'[d] = "handling"
           \/ /\ pc'[d] = pc[d] /\ phase'[d] = "handling" /\ phase[d] = "handling"
              /\ found'[d] = found[d] /\ held'[d] = held[d],
         \A k \in Job :
           \/ chunks'[k] = chunks[k]
           \/ /\ docs[k] = "processing" /\ ~FullyStored(k)
              /\ chunks'[k] = "some"
              /\ \A d \in Consumer : Storer(d, k) => pc'[d] = "none"
  PROVE  RecordsAgree'
<1> USE PipelineAssumption DEF Carries
<1>1. \A d \in Consumer : QueueOf(d) \in {"process", "extract", "postprocess"}
  BY DEF Consumer, QueueOf, QUEUE_PROCESS, QUEUE_EXTRACT, QUEUE_POSTPROCESS
<1>2. \A d \in Consumer : phase[d] = "handling" /\ held'[d] = held[d] => JobOf(d)' = JobOf(d)
  BY JobOfIsJob DEF JobOf
<1>3. \A d \in Consumer : pc'[d] \in Storing =>
        /\ pc'[d] = pc[d] /\ phase'[d] = "handling" /\ phase[d] = "handling"
        /\ JobOf(d)' = JobOf(d) /\ JobOf(d) \in Job
  BY <1>1, <1>2, JobOfIsJob DEF Storing
<1>4. \A k \in Job : FullyStored(k) => FullyStored(k)'
  BY DEF FullyStored
<1>5. ASSUME NEW k \in Job PROVE RequestKnows(k)' /\ DocumentAgrees(k)' /\ JobAgrees(k)'
  BY <1>4 DEF RecordsAgree, RequestKnows, DocumentAgrees, JobAgrees
<1>6. ASSUME NEW m \in DOMAIN log' PROVE MessageReady(m)'
  <2>1. PICK n \in DOMAIN log :
          log'[m].queue = log[n].queue /\ log'[m].payload = log[n].payload
    OBVIOUS
  <2>2. log[n].payload \in Job
    <3>1. log[n] \in Message
      BY LenProperties, ElementOfSeq DEF BrokerInv, BrokerTypeOK
    <3> QED BY <3>1 DEF Message
  <2>3. MessageReady(n)
    BY DEF RecordsAgree
  <2> QED BY <2>1, <2>2, <2>3, <1>3, <1>4 DEF MessageReady, Storer
<1>7. ASSUME NEW d \in Consumer PROVE HandlerKnows(d)'
  <2>0. HandlerKnows(d)
    BY DEF RecordsAgree
  <2>1. CASE pc'[d] = "none"
    BY <2>1 DEF HandlerKnows, RightQueue, Storing
  <2>2. CASE pc'[d] = QueueOf(d) /\ phase'[d] = "handling"
    BY <2>2, <1>1 DEF HandlerKnows, RightQueue, Storing, QUEUE_PROCESS, QUEUE_EXTRACT,
      QUEUE_POSTPROCESS
  <2>3. CASE /\ pc'[d] = pc[d] /\ phase'[d] = "handling" /\ phase[d] = "handling"
             /\ found'[d] = found[d] /\ held'[d] = held[d] /\ pc[d] # "none"
    <3>1. JobOf(d)' = JobOf(d) /\ JobOf(d) \in Job
      BY <2>3, <1>2, JobOfIsJob
    <3>2. pc[d] \in Storing => chunks'[JobOf(d)] = chunks[JobOf(d)]
      BY <2>3, <3>1 DEF Storer
    <3> QED BY <2>0, <2>3, <3>1, <3>2 DEF HandlerKnows, RightQueue, Storing
  <2> QED BY <2>1, <2>2, <2>3
<1>8. SingleStorer'
  BY <1>3 DEF RecordsAgree, SingleStorer
<1> QED BY <1>5, <1>6, <1>7, <1>8 DEF RecordsAgree

(* A handler that a broker step does not concern stays where it is.        *)
LEMMA HandlersStay ==
  ASSUME BrokerInv, PipelineTypes, RecordsAgree, NEW d \in Consumer,
         pc'[d] = pc[d], found'[d] = found[d], held'[d] = held[d], phase'[d] = phase[d]
  PROVE  \/ pc'[d] = "none"
         \/ /\ pc'[d] = pc[d] /\ phase'[d] = "handling" /\ phase[d] = "handling"
            /\ found'[d] = found[d] /\ held'[d] = held[d]
BY DEF RecordsAgree, HandlerKnows

(* The broker's steps as the pipeline takes them.                          *)
LEMMA BrokerStepsKeepRecords ==
  ASSUME BrokerInv, BrokerInv', PipelineTypes, RecordsAgree,
         \/ \E w \in Worker : StartWorker(w) \/ StopWorker(w)
         \/ \E c \in Consumer : \/ \E m \in DOMAIN log : Take(c, m)
                               \/ Return(c) \/ Raise(c) \/ Answer(c) \/ ConsumerFails(c)
  PROVE  PipelineTypes' /\ RecordsAgree'
<1> USE PipelineAssumption
<1>0. /\ pc \in [Consumer -> Label] /\ found \in [Consumer -> Job \cup {NoJob}]
      /\ phase \in [Consumer -> Phase] /\ held \in [Consumer -> Nat]
      /\ \A d \in Consumer : pc[d] # "none" => phase[d] = "handling"
  BY DEF PipelineTypes, BrokerInv, BrokerTypeOK, RecordsAgree, HandlerKnows
<1>1. ASSUME NEW w \in Worker, StartWorker(w) PROVE PipelineTypes' /\ RecordsAgree'
  <2>1. Carries /\ held' = held /\ UNCHANGED pipelineVars
    BY <1>1 DEF StartWorker, Start, Carries
  <2>2. \A d \in Consumer : pc[d] # "none" => phase'[d] = phase[d]
    <3>1. \A d \in Consumer : d[1] = w => phase[d] = "down"
      BY <1>1 DEF StartWorker, Start, Consumer
    <3> QED BY <3>1, <1>0, <1>1 DEF StartWorker, Start
  <2> QED
    BY <2>1, <2>2, HandlersStay, BrokerStepKeepsRecords DEF pipelineVars, PipelineTypes
<1>2. ASSUME NEW w \in Worker, StopWorker(w) PROVE PipelineTypes' /\ RecordsAgree'
  <2>1. Carries
    BY <1>2, CrashCarries DEF StopWorker, Shutdown, Carries
  <2>2. /\ UNCHANGED <<api, stores>>
        /\ pc' = [c \in Consumer |-> IF c[1] = w THEN "none" ELSE pc[c]]
        /\ found' = [c \in Consumer |-> IF c[1] = w THEN NoJob ELSE found[c]]
        /\ \A d \in Consumer : d[1] # w => held'[d] = held[d] /\ phase'[d] = phase[d]
    BY <1>2 DEF StopWorker, Crash, Shutdown
  <2>3. PipelineTypes'
    BY <2>2 DEF PipelineTypes, stores, Label
  <2> QED BY <2>1, <2>2, <2>3, HandlersStay, BrokerStepKeepsRecords DEF stores
<1>3. ASSUME NEW c \in Consumer, NEW m \in DOMAIN log, Take(c, m)
      PROVE  PipelineTypes' /\ RecordsAgree'
  <2>1. Carries
    BY <1>3, MovingCarries DEF Take, Deliver, Place
  <2>2. /\ UNCHANGED <<api, stores, found>>
        /\ pc' = [pc EXCEPT ![c] = QueueOf(c)] /\ phase'[c] = "handling"
        /\ \A d \in Consumer : d # c => held'[d] = held[d] /\ phase'[d] = phase[d]
    BY <1>0, <1>3 DEF Take, Deliver, Advance
  <2>3. PipelineTypes'
    BY <2>2 DEF PipelineTypes, stores, Label, Consumer, QueueOf,
      QUEUE_PROCESS, QUEUE_EXTRACT, QUEUE_POSTPROCESS
  <2> QED BY <1>0, <2>1, <2>2, <2>3, HandlersStay, BrokerStepKeepsRecords DEF stores
<1>4. ASSUME NEW c \in Consumer, Return(c) PROVE PipelineTypes' /\ RecordsAgree'
  <2>1. Carries
    BY <1>4, ReleaseCarries DEF Return, HandlerReturns, Holding, Place
  <2>2. /\ UNCHANGED <<api, stores, found>>
        /\ pc' = [pc EXCEPT ![c] = "none"]
        /\ \A d \in Consumer : d # c => held'[d] = held[d] /\ phase'[d] = phase[d]
    BY <1>0, <1>4 DEF Return, HandlerReturns, Release
  <2>3. PipelineTypes'
    BY <2>2 DEF PipelineTypes, stores, Label
  <2> QED BY <1>0, <2>1, <2>2, <2>3, HandlersStay, BrokerStepKeepsRecords DEF stores
<1>5. ASSUME NEW c \in Consumer, Raise(c) PROVE PipelineTypes' /\ RecordsAgree'
  <2>1. Carries
    BY <1>5 DEF Raise, HandlerRaises, Carries
  <2>2. /\ phase[c] = "handling" /\ held' = held
        /\ UNCHANGED <<api, s3, jobs, docs, graph>>
        /\ pc' = [pc EXCEPT ![c] = "none"]
        /\ found' = [found EXCEPT ![c] = NoJob]
        /\ \A d \in Consumer : d # c => phase'[d] = phase[d]
    BY <1>0, <1>5 DEF Raise, HandlerRaises, Advance
  <2>3. PICK j \in Job : JobOf(c) = j
    BY <2>2, JobOfIsJob
  <2>4. /\ chunks \in [Job -> Stored]
        /\ pc[c] = "store" => /\ chunks[j] = "nothing" /\ docs[j] = "processing"
                              /\ \A d \in Consumer : d # c => ~Storer(d, j)
    BY <2>2, <2>3, HandlerFacts DEF HandlerKnows, Storing, PipelineTypes
  <2>5. \A k \in Job :
          \/ chunks'[k] = chunks[k]
          \/ /\ docs[k] = "processing" /\ ~FullyStored(k)
             /\ chunks'[k] = "some"
             /\ \A d \in Consumer : Storer(d, k) => pc'[d] = "none"
    BY <1>0, <1>5, <2>2, <2>3, <2>4 DEF Raise, Insert, FullyStored
  <2>6. PipelineTypes'
    BY <1>5, <2>2, <2>3, <2>4 DEF Raise, Insert, PipelineTypes, Label, Stored
  <2> QED BY <1>0, <2>1, <2>2, <2>5, <2>6, HandlersStay, BrokerStepKeepsRecords
<1>6. ASSUME NEW c \in Consumer, Answer(c) \/ ConsumerFails(c)
      PROVE  PipelineTypes' /\ RecordsAgree'
  <2>1. Carries
    BY <1>6, ReleaseCarries, RepublishCarries DEF Answer, ConsumerFails, AckRetried,
      DropExhausted, RejectCancelled, RepublishFails, Holding, Place
  <2>2. /\ UNCHANGED pipelineVars /\ phase[c] # "handling"
        /\ \A d \in Consumer : d # c => held'[d] = held[d] /\ phase'[d] = phase[d]
    BY <1>0, <1>6 DEF Answer, ConsumerFails, Republish, AckRetried, DropExhausted,
      RejectCancelled, RepublishFails, Release, Advance
  <2>3. PipelineTypes' /\ pc[c] = "none"
    BY <1>0, <2>2 DEF PipelineTypes, pipelineVars
  <2> QED BY <2>1, <2>2, <2>3, HandlersStay, BrokerStepKeepsRecords DEF pipelineVars
<1> QED BY <1>1, <1>2, <1>3, <1>4, <1>5, <1>6

-----------------------------------------------------------------------------
(* The invariant holds initially.                                          *)
LEMMA InitPipelineInv == Init => PipelineInv
<1> SUFFICES ASSUME Init PROVE PipelineInv
  OBVIOUS
<1>1. BrokerInv
  BY InitInv DEF Init
<1>2. PipelineTypes
  BY DEF Init, PipelineTypes, JobRecord, JobStatus, Stage, DocStatus, Stored, Label
<1>3. RecordsAgree
  BY DEF Init, BrokerInit, RecordsAgree, RequestKnows, DocumentAgrees, JobAgrees,
    HandlerKnows, RightQueue, SingleStorer, Storing
<1> QED BY <1>1, <1>2, <1>3 DEF PipelineInv

(* The invariant is inductive.                                             *)
LEMMA NextKeepsPipelineInv == PipelineInv /\ [Next]_vars => PipelineInv'
<1> SUFFICES ASSUME BrokerInv, PipelineTypes, RecordsAgree, [Next]_vars
             PROVE  PipelineInv'
  BY DEF PipelineInv
<1>1. BrokerInv'
  BY NextIsBrokerNext, NextKeepsInv
<1>2. CASE UNCHANGED vars
  BY <1>1, <1>2, IdleKeepsRecords DEF vars, PipelineTypes, PipelineInv
<1>3. ASSUME NEW j \in Job, EnqueueStep(j) \/ EnqueueFails(j) \/ EnqueueUnanswered(j)
      PROVE  PipelineTypes' /\ RecordsAgree'
  BY <1>3, RequestKeepsRecords, PublishersKeepRecords DEF EnqueueStep
<1>4. ASSUME NEW c \in Consumer, HandlerStep(c) PROVE PipelineTypes' /\ RecordsAgree'
  BY <1>4, JobCallsKeepRecords, StoreCallsKeepRecords, PublishersKeepRecords
     DEF HandlerStep, ProcessStep, ExtractStep, FinishStep
<1>5. ASSUME NEW c \in Consumer, RunConsumer(c) \/ ConsumerFails(c)
      PROVE  PipelineTypes' /\ RecordsAgree'
  BY <1>1, <1>4, <1>5, BrokerStepsKeepRecords DEF RunConsumer
<1>6. ASSUME NEW w \in Worker, StartWorker(w) \/ StopWorker(w)
      PROVE  PipelineTypes' /\ RecordsAgree'
  BY <1>1, <1>6, BrokerStepsKeepRecords
<1> QED BY <1>1, <1>2, <1>3, <1>5, <1>6 DEF Next, PipelineInv

(* The invariant holds for good.                                           *)
LEMMA SpecKeepsPipelineInv == Spec => []PipelineInv
BY InitPipelineInv, NextKeepsPipelineInv, PTL DEF Spec

(* The pipeline implements the broker, so what is proved of the broker     *)
(* holds of the pipeline.                                                  *)
THEOREM PipelineImplementsBroker == Spec => ImplementsBroker
<1>1. Init => BrokerInit /\ BrokerInv
  BY InitInv DEF Init
<1>2. BrokerInv /\ [Next]_vars => [BrokerNext]_brokerVars
  BY NextIsBrokerNext
<1>3. BrokerInv /\ [Next]_vars => BrokerInv'
  BY <1>2, NextKeepsInv
<1> QED BY <1>1, <1>2, <1>3, PTL DEF Spec, ImplementsBroker, BrokerSpec

(* Records, requests and handlers keep their types.                        *)
THEOREM PipelineTyping == Spec => []TypeOK
<1>1. PipelineInv => TypeOK
  BY DEF PipelineInv, RecordsAgree, BrokerInv, PipelineTypes, TypeOK
<1> QED BY <1>1, SpecKeepsPipelineInv, PTL

(* No message is ahead of the data its handler needs.                      *)
THEOREM PipelineNeverOvertakes == Spec => []QueuedWorkIsPrepared
<1>1. PipelineInv => QueuedWorkIsPrepared
  BY DEF PipelineInv, RecordsAgree, MessageReady, QueuedWorkIsPrepared
<1> QED BY <1>1, SpecKeepsPipelineInv, PTL

(* However deliveries overlap, one handler at a time stores a document.    *)
THEOREM PipelineHasOneStorer == Spec => []SingleStorer
<1>1. PipelineInv => SingleStorer
  BY DEF PipelineInv, RecordsAgree
<1> QED BY <1>1, SpecKeepsPipelineInv, PTL

(* The chunks of one document are never those of two runs.                 *)
THEOREM PipelineStoresOnce == Spec => []ChunksStoredOnce
<1>1. PipelineInv => ChunksStoredOnce
  BY DEF PipelineInv, RecordsAgree, DocumentAgrees, ChunksStoredOnce
<1> QED BY <1>1, SpecKeepsPipelineInv, PTL

(* A complete document has its content in both stores.                     *)
THEOREM PipelineCompletesStored == Spec => []CompletedDocumentIsStored
<1>1. PipelineInv => CompletedDocumentIsStored
  BY DEF PipelineInv, RecordsAgree, DocumentAgrees, CompletedDocumentIsStored
<1> QED BY <1>1, SpecKeepsPipelineInv, PTL

(* A job that ended says what became of its document.                      *)
THEOREM PipelineJobsAgree == Spec => []JobAgreesWithDocument
<1>1. PipelineInv => JobAgreesWithDocument
  BY DEF PipelineInv, RecordsAgree, JobAgrees, JobAgreesWithDocument
<1> QED BY <1>1, SpecKeepsPipelineInv, PTL

(* A reported stage is never ahead of the work.                            *)
THEOREM PipelineStagesReflectWork == Spec => []StageReflectsWork
<1>1. PipelineInv => StageReflectsWork
  BY DEF PipelineInv, RecordsAgree, JobAgrees, StageReflectsWork
<1> QED BY <1>1, SpecKeepsPipelineInv, PTL

-----------------------------------------------------------------------------
(* A step that, of one document, changes nothing the catalog shows, or     *)
(* registers, fills or closes it, is a step of the catalog.                *)
LEMMA CatalogStep ==
  ASSUME PipelineTypes, docs' \in [Job -> DocStatus], NEW j \in Job,
         \A k \in Job : k # j => docs'[k] = docs[k] /\ (FullyStored(k)' <=> FullyStored(k)),
         \/ docs'[j] = docs[j] /\ (FullyStored(j)' <=> FullyStored(j))
         \/ docs'[j] = docs[j] /\ docs[j] = "processing" /\ FullyStored(j)'
         \/ /\ docs[j] = "absent" /\ docs'[j] = "processing"
            /\ (FullyStored(j)' <=> FullyStored(j))
         \/ /\ docs[j] = "processing" /\ (FullyStored(j)' <=> FullyStored(j))
            /\ docs'[j] = IF FullyStored(j) THEN "completed" ELSE "failed"
  PROVE  [Catalog!Next]_<<docs, Available>>
<1> DEFINE a == Available
           b == Available'
<1>1. docs \in [Job -> DocStatus]
  BY DEF PipelineTypes
<1>2. CASE docs'[j] = docs[j] /\ (FullyStored(j)' <=> FullyStored(j))
  <2>1. docs' = docs /\ b = a
    BY <1>1, <1>2 DEF Available
  <2> QED BY <2>1
<1>3. CASE /\ docs'[j] = docs[j] /\ docs[j] = "processing"
           /\ FullyStored(j)' /\ ~FullyStored(j)
  <2>1. docs' = docs /\ b = a \cup {j} /\ j \notin a
    BY <1>1, <1>3 DEF Available
  <2> QED BY <1>3, <2>1 DEF Catalog!Next, Catalog!Fill
<1>4. CASE /\ docs[j] = "absent" /\ docs'[j] = "processing"
           /\ (FullyStored(j)' <=> FullyStored(j))
  <2>1. docs' = [docs EXCEPT ![j] = "processing"] /\ b = a
    BY <1>1, <1>4 DEF Available
  <2> QED BY <1>4, <2>1 DEF Catalog!Next, Catalog!Register
<1>5. CASE /\ docs[j] = "processing" /\ (FullyStored(j)' <=> FullyStored(j))
           /\ docs'[j] = IF FullyStored(j) THEN "completed" ELSE "failed"
  <2>1. docs' = [docs EXCEPT ![j] = IF j \in a THEN "completed" ELSE "failed"] /\ b = a
    BY <1>1, <1>5 DEF Available
  <2> QED BY <1>5, <2>1 DEF Catalog!Next, Catalog!Close
<1> QED BY <1>2, <1>3, <1>4, <1>5

(* Only these calls, and a raising insertion of chunks, touch what the     *)
(* catalog shows.                                                          *)
LEMMA HandlerIsCatalogStep ==
  ASSUME BrokerInv, PipelineTypes, RecordsAgree, PipelineTypes', NEW c \in Consumer,
         \/ InsertDocument(c) \/ FailDocument(c) \/ InsertChunks(c) \/ UpsertChunks(c)
         \/ UpsertDocumentNode(c) \/ StoreEntities(c) \/ CompleteDocument(c) \/ Raise(c)
  PROVE  [Catalog!Next]_<<docs, Available>>
<1>1. phase[c] = "handling"
  BY DEF InsertDocument, FailDocument, InsertChunks, UpsertChunks, UpsertDocumentNode,
    StoreEntities, CompleteDocument, Raise, HandlerRaises, Advance, Call
<1>2. PICK j \in Job : JobOf(c) = j
  BY <1>1, JobOfIsJob
<1>3. /\ HandlerKnows(c) /\ DocumentAgrees(j)
      /\ QueueOf(c) # QUEUE_PROCESS => FullyStored(j)
  BY <1>1, <1>2, HandlerFacts
<1>4. /\ docs \in [Job -> DocStatus] /\ docs' \in [Job -> DocStatus]
      /\ chunks \in [Job -> Stored]
      /\ graph \in [Job -> SUBSET {"chunks", "document", "entities"}]
  BY DEF PipelineTypes
<1>5. \A k \in Job : k # j => docs'[k] = docs[k] /\ (FullyStored(k)' <=> FullyStored(k))
  BY <1>2, <1>4 DEF InsertDocument, FailDocument, InsertChunks, UpsertChunks,
    UpsertDocumentNode, StoreEntities, CompleteDocument, Raise, Insert,
    UpdateDocumentStatus, FullyStored
<1>6. CASE InsertDocument(c)
  BY <1>2, <1>4, <1>5, <1>6, CatalogStep DEF InsertDocument, UpdateDocumentStatus, FullyStored
<1>7. CASE FailDocument(c)
  <2>1. docs[j] = "processing" /\ ~FullyStored(j)
    BY <1>2, <1>3, <1>7 DEF FailDocument, Call, HandlerKnows, Storing, FullyStored
  <2> QED BY <2>1, <1>2, <1>4, <1>5, <1>7, CatalogStep
          DEF FailDocument, UpdateDocumentStatus, FullyStored
<1>8. CASE InsertChunks(c) \/ UpsertChunks(c) \/ UpsertDocumentNode(c)
  <2>1. docs[j] = "processing" /\ docs'[j] = docs[j]
    BY <1>2, <1>3, <1>8
       DEF InsertChunks, UpsertChunks, UpsertDocumentNode, Call, HandlerKnows, Storing
  <2>2. FullyStored(j) => FullyStored(j)'
    BY <1>2, <1>3, <1>4, <1>8 DEF InsertChunks, UpsertChunks, UpsertDocumentNode, Call,
      Insert, HandlerKnows, FullyStored
  <2> QED BY <2>1, <2>2, <1>4, <1>5, CatalogStep
<1>9. CASE StoreEntities(c)
  BY <1>2, <1>4, <1>5, <1>9, CatalogStep DEF StoreEntities, FullyStored
<1>10. CASE CompleteDocument(c)
  <2>1. FullyStored(j) /\ docs[j] \in {"processing", "completed"}
    BY <1>2, <1>3, <1>4, <1>10 DEF CompleteDocument, Call, HandlerKnows, RightQueue,
      Storing, FullyStored, DocumentAgrees, DocStatus, QUEUE_PROCESS, QUEUE_POSTPROCESS
  <2> QED BY <2>1, <1>2, <1>4, <1>5, <1>10, CatalogStep
          DEF CompleteDocument, UpdateDocumentStatus, FullyStored
<1>11. CASE Raise(c)
  <2>1. docs'[j] = docs[j] /\ (FullyStored(j)' <=> FullyStored(j))
    BY <1>2, <1>3, <1>4, <1>11 DEF Raise, Insert, HandlerKnows, FullyStored
  <2> QED BY <2>1, <1>4, <1>5, CatalogStep
<1> QED BY <1>6, <1>7, <1>8, <1>9, <1>10, <1>11

(* Every other step leaves documents, chunks and graph alone.              *)
LEMMA NextIsCatalogStep ==
  ASSUME PipelineInv, PipelineInv', [Next]_vars
  PROVE  [Catalog!Next]_<<docs, Available>>
<1>1. ASSUME UNCHANGED <<docs, chunks, graph>>
      PROVE  [Catalog!Next]_<<docs, Available>>
  BY <1>1 DEF Available, FullyStored
<1>2. ASSUME NEW c \in Consumer, RunConsumer(c) \/ ConsumerFails(c)
      PROVE  [Catalog!Next]_<<docs, Available>>
  <2>1. CASE \/ InsertDocument(c) \/ FailDocument(c) \/ InsertChunks(c) \/ UpsertChunks(c)
             \/ UpsertDocumentNode(c) \/ StoreEntities(c) \/ CompleteDocument(c) \/ Raise(c)
    BY <2>1, HandlerIsCatalogStep DEF PipelineInv
  <2>2. CASE ~(\/ InsertDocument(c) \/ FailDocument(c) \/ InsertChunks(c)
               \/ UpsertChunks(c) \/ UpsertDocumentNode(c) \/ StoreEntities(c)
               \/ CompleteDocument(c) \/ Raise(c))
    BY <1>1, <1>2, <2>2 DEF RunConsumer, ConsumerFails, HandlerStep, ProcessStep,
      ExtractStep, FinishStep, Take, Return, Answer, MarkProcessing, LookUp, CloseDuplicate,
      Convert, FailJob, ProcessDone, HandOff, MarkExtract, ExtractDone, Forward,
      MarkPostprocess, CompleteJob, stores, pipelineVars
  <2> QED BY <2>1, <2>2
<1>3. CASE \E j \in Job : EnqueueStep(j) \/ EnqueueFails(j) \/ EnqueueUnanswered(j)
  BY <1>1, <1>3 DEF EnqueueStep, UploadFile, CreateJob, Enqueue, EnqueueFails,
    EnqueueUnanswered
<1>4. CASE \E w \in Worker : StartWorker(w) \/ StopWorker(w)
  BY <1>1, <1>4 DEF StartWorker, StopWorker, stores, pipelineVars
<1>5. CASE UNCHANGED vars
  BY <1>1, <1>5 DEF vars
<1> QED BY <1>2, <1>3, <1>4, <1>5 DEF Next

(* What the readers of the stores rely on: each upload is a document that  *)
(* is registered once, filled once, and closed for good with the verdict   *)
(* its content deserves.                                                   *)
THEOREM PipelineImplementsCatalog == Spec => ImplementsCatalog
<1>1. Init => Catalog!Init
  BY DEF Init, Catalog!Init, Available, FullyStored
<1>2. PipelineInv /\ PipelineInv' /\ [Next]_vars
        => [Catalog!Next]_<<docs, Available>>
  BY NextIsCatalogStep
<1> QED BY <1>1, <1>2, InitPipelineInv, NextKeepsPipelineInv, PTL
        DEF Spec, ImplementsCatalog, Catalog!Spec

-----------------------------------------------------------------------------
(* A message on which work will be, or is being done; a handler that only  *)
(* has to return has nothing to do any more.                               *)
Live(m) ==
  \/ log[m].place = "ready"
  \/ \E c \in Consumer : held[c] = m /\ pc[c] \notin {"none", "done"}

LiveOf(j) == {m \in DOMAIN log : log[m].payload = j /\ Live(m)}

(* No fault so far, and no retry of upload j.                              *)
Undisturbed(j) ==
  faults = 0 /\ \A m \in DOMAIN log : log[m].payload = j => log[m].retry = 0

(* There is no message, and no verdict, before the request has asked.      *)
Asked(j) ==
  /\ api[j] \notin {"queued", "failed"} => \A m \in DOMAIN log : log[m].payload # j
  /\ api[j] \in {"new", "uploaded"} => jobs[j].status = "absent"
  /\ api[j] = "created" => jobs[j].status = "pending"

(* While nothing disturbs an upload one message at a time carries its work *)
(* on, and none does once its job has ended.                               *)
Once(j) ==
  Undisturbed(j) =>
    /\ \A m, n \in LiveOf(j) : m = n
    /\ jobs[j].status \in {"completed", "failed"} => LiveOf(j) = {}

(* What was undisturbed stays so in the past: messages keep payload and    *)
(* retry count, and faults are not forgotten.                              *)
Remembers ==
  /\ faults \in Nat /\ faults' \in Nat /\ faults <= faults'
  /\ \A m \in DOMAIN log : /\ m \in DOMAIN log'
                           /\ log'[m].payload = log[m].payload
                           /\ log'[m].retry = log[m].retry

(* An upload is carried on at most once if a step sets no new message of   *)
(* it to work, and ends its job only with its last message.                *)
LEMMA CarriedOnLess ==
  ASSUME NEW j \in Job, Once(j), Remembers,
         Undisturbed(j)' => LiveOf(j)' \subseteq LiveOf(j),
         /\ Undisturbed(j)'
         /\ jobs'[j].status \in {"completed", "failed"}
         => jobs[j].status \in {"completed", "failed"} \/ LiveOf(j)' = {}
  PROVE  Once(j)'
<1>1. Undisturbed(j)' => Undisturbed(j)
  BY DEF Undisturbed, Remembers
<1> QED BY <1>1 DEF Once

(* Faults end what can be said.                                            *)
LEMMA FaultEndsOnce ==
  ASSUME NEW j \in Job, faults \in Nat, faults' = faults + 1 PROVE Once(j)'
BY DEF Once, Undisturbed

(* A call of the handler of c concerns its job only; it publishes only as  *)
(* the last thing, and ends the job only as the last thing.                *)
LEMMA HandlerCalls ==
  ASSUME BrokerInv, PipelineTypes, NEW c \in Consumer, HandlerStep(c)
  PROVE  /\ phase[c] = "handling" /\ pc[c] \notin {"none", "done"}
         /\ UNCHANGED <<phase, held, faults, api>>
         /\ \A d \in Consumer : d # c => pc'[d] = pc[d]
         /\ \/ log' = log
            \/ /\ pc'[c] = "done" /\ jobs' = jobs
               /\ \E q \in Queue : Publish(q, JobOf(c))
         /\ \A k \in Job : jobs'[k].status # jobs[k].status =>
              k = JobOf(c) /\ (jobs'[k].status = "processing" \/ pc'[c] = "done")
<1> USE DEF Call
<1>1. pc \in [Consumer -> Label] /\ jobs \in [Job -> JobRecord]
  BY DEF PipelineTypes
<1>2. /\ phase[c] = "handling" /\ pc[c] \notin {"none", "done"}
      /\ UNCHANGED <<phase, held, faults, api>>
      /\ \A d \in Consumer : d # c => pc'[d] = pc[d]
  BY <1>1 DEF HandlerStep, ProcessStep, ExtractStep, FinishStep, MarkProcessing, LookUp,
    CloseDuplicate, InsertDocument, Convert, FailDocument, FailJob, InsertChunks,
    UpsertChunks, UpsertDocumentNode, ProcessDone, HandOff, MarkExtract, StoreEntities,
    ExtractDone, Forward, MarkPostprocess, CompleteDocument, CompleteJob
<1>3. PICK j \in Job : j = JobOf(c)
  BY <1>2, JobOfIsJob
<1>4. CASE HandOff(c) \/ Forward(c)
  BY <1>1, <1>2, <1>4, PipelineAssumption DEF HandOff, Forward
<1>5. CASE \/ MarkProcessing(c) \/ CloseDuplicate(c) \/ FailJob(c) \/ ProcessDone(c)
           \/ MarkExtract(c) \/ ExtractDone(c) \/ MarkPostprocess(c) \/ CompleteJob(c)
  <2>1. ASSUME NEW ch, UpdateJob(j, ch),
               "status" \in DOMAIN ch => ch.status = "processing" \/ pc'[c] = "done"
        PROVE  \A k \in Job : jobs'[k].status # jobs[k].status =>
                 k = j /\ (jobs'[k].status = "processing" \/ pc'[c] = "done")
    BY <2>1, <1>1, UpdatedJob
  <2>2. log' = log
    BY <1>5 DEF MarkProcessing, CloseDuplicate, FailJob, ProcessDone, MarkExtract,
      ExtractDone, MarkPostprocess, CompleteJob
  <2>3. \A k \in Job : jobs'[k].status # jobs[k].status =>
          k = j /\ (jobs'[k].status = "processing" \/ pc'[c] = "done")
    <3>1. CASE MarkProcessing(c)
      BY <2>1, <3>1, <1>3 DEF MarkProcessing
    <3>2. CASE ProcessDone(c) \/ MarkExtract(c) \/ ExtractDone(c) \/ MarkPostprocess(c)
      BY <2>1, <3>2, <1>3 DEF ProcessDone, MarkExtract, ExtractDone, MarkPostprocess
    <3>3. CASE CloseDuplicate(c) \/ FailJob(c) \/ CompleteJob(c)
      <4>1. pc'[c] = "done" /\ \E ch : UpdateJob(j, ch)
        BY <3>3, <1>1, <1>3 DEF CloseDuplicate, FailJob, CompleteJob
      <4> QED BY <4>1, <2>1
    <3> QED BY <1>5, <3>1, <3>2, <3>3
  <2> QED BY <1>2, <1>3, <2>2, <2>3
<1>6. CASE \/ LookUp(c) \/ InsertDocument(c) \/ Convert(c) \/ FailDocument(c)
           \/ InsertChunks(c) \/ UpsertChunks(c) \/ UpsertDocumentNode(c)
           \/ StoreEntities(c) \/ CompleteDocument(c)
  <2>1. log' = log /\ jobs' = jobs
    BY <1>6 DEF LookUp, InsertDocument, Convert, FailDocument, InsertChunks, UpsertChunks,
      UpsertDocumentNode, StoreEntities, CompleteDocument
  <2> QED BY <1>2, <2>1
<1> QED BY <1>4, <1>5, <1>6 DEF HandlerStep, ProcessStep, ExtractStep, FinishStep

(* While it has calls to make, a handler's message is live, and no other   *)
(* handler has it.                                                         *)
LEMMA HandledIsLive ==
  ASSUME BrokerInv, PipelineTypes, NEW c \in Consumer, phase[c] = "handling"
  PROVE  /\ held[c] \in DOMAIN log /\ log[held[c]].payload = JobOf(c)
         /\ log[held[c]].place = "unacked"
         /\ \A d \in Consumer : held[d] = held[c] => d = c
         /\ pc[c] \notin {"none", "done"} => held[c] \in LiveOf(JobOf(c))
<1>1. held[c] \in DOMAIN log /\ log[held[c]].place = "unacked"
  BY DEF BrokerInv, Ownership, Holding
<1>2. held[c] # 0
  BY <1>1, LenProperties DEF BrokerInv, BrokerTypeOK
<1> QED BY <1>1, <1>2 DEF BrokerInv, Ownership, JobOf, LiveOf, Live

(* The calls of a handler carry its upload on once.                        *)
LEMMA HandlerKeepsOnce ==
  ASSUME BrokerInv, PipelineTypes, NEW c \in Consumer, HandlerStep(c),
         NEW j \in Job, Once(j), Asked(j)
  PROVE  Once(j)' /\ Asked(j)'
<1>1. /\ phase[c] = "handling" /\ pc[c] \notin {"none", "done"}
      /\ UNCHANGED <<phase, held, faults, api>>
      /\ \A d \in Consumer : d # c => pc'[d] = pc[d]
      /\ \A k \in Job : jobs'[k].status # jobs[k].status =>
           k = JobOf(c) /\ (jobs'[k].status = "processing" \/ pc'[c] = "done")
  BY HandlerCalls
<1>2. PICK h \in DOMAIN log : h = held[c]
  BY <1>1, HandledIsLive
<1>3. /\ log[h].payload = JobOf(c) /\ log[h].place = "unacked"
      /\ \A d \in Consumer : held[d] = h => d = c
      /\ h \in LiveOf(JobOf(c))
  BY <1>1, <1>2, HandledIsLive
<1>4. api[j] \notin {"queued", "failed"} => j # JobOf(c)
  BY <1>3 DEF Asked
<1>5. faults \in Nat
  BY BrokerAssumption DEF BrokerInv, BrokerTypeOK
<1>6. CASE log' = log
  <2>1. Remembers
    BY <1>1, <1>5, <1>6 DEF Remembers
  <2>2. LiveOf(j)' \subseteq LiveOf(j)
    BY <1>1, <1>6 DEF LiveOf, Live
  <2>3. Undisturbed(j) <=> Undisturbed(j)'
    BY <1>1, <1>6 DEF Undisturbed
  <2>4. ASSUME jobs'[j].status \in {"completed", "failed"}, Undisturbed(j),
               jobs[j].status \notin {"completed", "failed"}
        PROVE  LiveOf(j)' = {}
    <3>1. j = JobOf(c) /\ pc'[c] = "done"
      BY <1>1, <2>4
    <3>2. \A m \in LiveOf(j) : m = h
      BY <1>3, <2>4, <3>1 DEF Once
    <3>3. ~Live(h)'
      BY <1>1, <1>2, <1>3, <1>6, <3>1 DEF Live
    <3> QED BY <2>2, <3>2, <3>3 DEF LiveOf
  <2>5. Once(j)'
    BY <2>1, <2>2, <2>3, <2>4, CarriedOnLess
  <2>6. Asked(j)'
    BY <1>1, <1>4, <1>6 DEF Asked
  <2> QED BY <2>5, <2>6
<1>7. CASE log' # log
  <2>1. PICK q \in Queue : Publish(q, JobOf(c))
    BY <1>7, HandlerCalls
  <2>2. pc'[c] = "done" /\ jobs' = jobs
    BY <1>7, HandlerCalls
  <2>3. PICK k \in Job : k = JobOf(c)
    BY <1>1, JobOfIsJob
  <2> DEFINE new == Len(log) + 1
  <2>4. /\ DOMAIN log' = DOMAIN log \cup {new}
        /\ log'[new].payload = k
        /\ \A m \in DOMAIN log : log'[m] = log[m]
    BY <2>1, <2>3, PublishedLog
  <2> HIDE DEF new
  <2>5. Remembers
    BY <1>1, <1>5, <2>4 DEF Remembers
  <2>6. Undisturbed(j)' => Undisturbed(j)
    BY <1>1, <2>4 DEF Undisturbed
  <2>7. \A m \in LiveOf(j)' : m \in LiveOf(j) \/ (m = new /\ j = k)
    BY <1>1, <2>4 DEF LiveOf, Live
  <2>8. CASE j = k
    <3> SUFFICES ASSUME Undisturbed(j)'
                 PROVE  /\ \A m, n \in LiveOf(j)' : m = n
                        /\ jobs'[j].status \notin {"completed", "failed"}
      BY <1>1, <1>4, <2>2, <2>3, <2>4, <2>8 DEF Once, Asked
    <3>1. h \in LiveOf(j)
      BY <1>3, <2>3, <2>8
    <3>2. \A m \in LiveOf(j) : m = h
      BY <2>6, <3>1 DEF Once
    <3>3. jobs[j].status \notin {"completed", "failed"}
      BY <2>6, <3>1 DEF Once
    <3>4. h \notin LiveOf(j)'
      BY <1>1, <1>2, <1>3, <2>2, <2>4 DEF LiveOf, Live
    <3> QED BY <2>2, <2>7, <3>2, <3>3, <3>4
  <2>9. CASE j # k
    <3>1. Once(j)'
      BY <2>2, <2>5, <2>7, <2>9, CarriedOnLess
    <3> QED BY <3>1, <1>1, <2>2, <2>4, <2>9 DEF Asked
  <2> QED BY <2>8, <2>9
<1> QED BY <1>6, <1>7

(* A step that neither answers a request nor touches a job keeps Asked.    *)
LEMMA CarryingKeepsAsked ==
  ASSUME NEW j \in Job, Asked(j), Carries, UNCHANGED <<api, jobs>>
  PROVE  Asked(j)'
BY DEF Asked, Carries

(* Answering for a message sets none to work.                              *)
LEMMA ReleaseKeepsOnce ==
  ASSUME BrokerInv, KeepsMessages, NEW c \in Consumer, phase[c] \in Holding,
         NEW p \in Place \ {"ready"}, NEW next, Release(c, p, next),
         \A d \in Consumer : pc'[d] \in {pc[d], "none"}, UNCHANGED <<api, jobs, faults>>,
         NEW j \in Job, Once(j), Asked(j)
  PROVE  Once(j)' /\ Asked(j)'
<1>1. PICK m \in DOMAIN log : m = held[c]
  BY DEF BrokerInv, Ownership
<1>2. log \in Seq(Message) /\ log' = [log EXCEPT ![m].place = p] /\ faults \in Nat
      /\ held \in [Consumer -> Nat] /\ 0 \notin DOMAIN log
  BY <1>1, BrokerAssumption, LenProperties
     DEF Release, Moved, BrokerInv, BrokerTypeOK
<1>3. /\ DOMAIN log' = DOMAIN log
      /\ log'[m].place = p
      /\ \A n \in DOMAIN log : /\ log'[n].payload = log[n].payload
                               /\ n # m => log'[n].place = log[n].place
  BY <1>2, MovedLog
<1>4. Carries
  BY ReleaseCarries
<1>5. Remembers
  BY <1>2, <1>3 DEF Remembers, KeepsMessages
<1>6. \A d \in Consumer : held'[d] = IF d = c THEN 0 ELSE held[d]
  BY <1>2 DEF Release
<1>7. ASSUME NEW n \in LiveOf(j)' PROVE n \in LiveOf(j)
  BY <1>2, <1>3, <1>6 DEF LiveOf, Live
<1> QED BY <1>4, <1>5, <1>7, CarriedOnLess, CarryingKeepsAsked

(* A copy is a retry: its upload is not undisturbed any more.              *)
LEMMA RepublishKeepsOnce ==
  ASSUME BrokerInv, NEW c \in Consumer, Republish(c), UNCHANGED pipelineVars,
         NEW j \in Job, Once(j), Asked(j)
  PROVE  Once(j)' /\ Asked(j)'
<1>1. PICK m \in DOMAIN log : m = held[c]
  BY DEF Republish, Advance, BrokerInv, Ownership, Holding
<1>2. log[m] \in Message
  BY <1>1, LenProperties, ElementOfSeq DEF BrokerInv, BrokerTypeOK
<1>3. PICK e \in Message : /\ log' = Append(log, e)
                           /\ e.payload = log[m].payload /\ e.retry = log[m].retry + 1
  <2> DEFINE e == NextAttempt(m)
  <2>1. /\ e \in Message /\ log' = Append(log, e)
        /\ e.payload = log[m].payload /\ e.retry = log[m].retry + 1
    BY <1>1, <1>2, BrokerAssumption DEF Republish, NextAttempt, Fresh, Message, Place
  <2> HIDE DEF e
  <2> QED BY <2>1
<1>4. PICK new : /\ DOMAIN log' = DOMAIN log \cup {new}
                 /\ log'[new] = e
                 /\ \A n \in DOMAIN log : log'[n] = log[n]
  BY <1>3, AppendedLog DEF BrokerInv, BrokerTypeOK
<1>5. Carries
  BY RepublishCarries
<1>6. Remembers
  BY <1>4, BrokerAssumption DEF Republish, Remembers, BrokerInv, BrokerTypeOK
<1>7. e.retry # 0
  BY <1>2, <1>3, BrokerAssumption DEF Message
<1>8. Undisturbed(j)' => e.payload # j
  BY <1>4, <1>7 DEF Undisturbed
<1>9. Undisturbed(j)' => LiveOf(j)' \subseteq LiveOf(j)
  BY <1>4, <1>8 DEF LiveOf, Live, Republish, pipelineVars
<1> QED BY <1>5, <1>6, <1>9, CarriedOnLess, CarryingKeepsAsked DEF pipelineVars

(* The consumers outside their handlers.                                   *)
LEMMA ConsumerKeepsOnce ==
  ASSUME BrokerInv, PipelineTypes, RecordsAgree, KeepsMessages, NEW c \in Consumer,
         \/ \E m \in DOMAIN log : Take(c, m)
         \/ Return(c) \/ Raise(c) \/ Answer(c) \/ ConsumerFails(c),
         NEW j \in Job, Once(j), Asked(j)
  PROVE  Once(j)' /\ Asked(j)'
<1>0. /\ pc \in [Consumer -> Label] /\ held \in [Consumer -> Nat]
      /\ log \in Seq(Message) /\ faults \in Nat
  BY BrokerAssumption DEF PipelineTypes, BrokerInv, BrokerTypeOK
<1>1. ASSUME NEW m \in DOMAIN log, Take(c, m) PROVE Once(j)' /\ Asked(j)'
  <2>0. "unacked" \in Place
    BY DEF Place
  <2>1. log' = [log EXCEPT ![m].place = "unacked"] /\ log[m].place = "ready"
        /\ Carries /\ UNCHANGED <<api, jobs, faults>>
    BY <1>1, <2>0, MovingCarries DEF Take, Deliver, Moved, stores
  <2>2. /\ DOMAIN log' = DOMAIN log /\ log'[m].place = "unacked"
        /\ \A n \in DOMAIN log : /\ log'[n].payload = log[n].payload
                                 /\ n # m => log'[n].place = log[n].place
    BY <1>0, <2>0, <2>1, MovedLog
  <2>3. \A d \in Consumer : d # c => held'[d] = held[d] /\ pc'[d] = pc[d]
    BY <1>0, <1>1 DEF Take, Deliver
  <2>4. held'[c] = m
    BY <1>0, <1>1 DEF Take, Deliver
  <2>5. Remembers
    BY <1>0, <2>1, <2>2 DEF Remembers, KeepsMessages
  <2>6. LiveOf(j)' \subseteq LiveOf(j)
    BY <2>1, <2>2, <2>3, <2>4 DEF LiveOf, Live
  <2> QED BY <2>1, <2>5, <2>6, CarriedOnLess, CarryingKeepsAsked
<1>2. CASE Return(c)
  <2>1. \A d \in Consumer : pc'[d] \in {pc[d], "none"}
    BY <1>0, <1>2 DEF Return
  <2> QED BY <1>2, <2>1, ReleaseKeepsOnce DEF Return, HandlerReturns, stores, Holding, Place
<1>3. CASE Raise(c)
  <2>1. log' = log /\ held' = held /\ UNCHANGED <<api, jobs, faults>>
        /\ \A d \in Consumer : pc'[d] \in {pc[d], "none"}
    BY <1>0, <1>3 DEF Raise, HandlerRaises
  <2>2. Remembers /\ Carries
    BY <1>0, <2>1 DEF Remembers, Carries
  <2>3. LiveOf(j)' \subseteq LiveOf(j)
    BY <2>1 DEF LiveOf, Live
  <2> QED BY <2>1, <2>2, <2>3, CarriedOnLess, CarryingKeepsAsked
<1>4. CASE Answer(c)
  <2>1. CASE Republish(c)
    BY <1>4, <2>1, RepublishKeepsOnce DEF Answer
  <2>2. CASE AckRetried(c) \/ DropExhausted(c) \/ RejectCancelled(c)
    BY <1>4, <2>2, ReleaseKeepsOnce
       DEF Answer, AckRetried, DropExhausted, RejectCancelled, pipelineVars, Holding, Place
  <2> QED BY <1>4, <2>1, <2>2 DEF Answer
<1>5. CASE ConsumerFails(c)
  <2>1. Carries
    BY <1>5, ReleaseCarries DEF ConsumerFails, RepublishFails, Holding, Place
  <2>2. faults' = faults + 1 /\ UNCHANGED <<api, jobs>>
    BY <1>5 DEF ConsumerFails, RepublishFails, Fault, pipelineVars
  <2> QED BY <1>0, <2>1, <2>2, FaultEndsOnce, CarryingKeepsAsked
<1> QED BY <1>1, <1>2, <1>3, <1>4, <1>5

(* The worker processes.                                                   *)
LEMMA WorkerKeepsOnce ==
  ASSUME BrokerInv, NEW w \in Worker, StartWorker(w) \/ StopWorker(w),
         NEW j \in Job, Once(j), Asked(j)
  PROVE  Once(j)' /\ Asked(j)'
<1>0. faults \in Nat
  BY BrokerAssumption DEF BrokerInv, BrokerTypeOK
<1>1. CASE StartWorker(w)
  <2>1. log' = log /\ held' = held /\ pc' = pc /\ UNCHANGED <<api, jobs, faults>>
    BY <1>1 DEF StartWorker, Start, pipelineVars
  <2>2. Remembers /\ Carries
    BY <1>0, <2>1 DEF Remembers, Carries
  <2>3. LiveOf(j)' \subseteq LiveOf(j)
    BY <2>1 DEF LiveOf, Live
  <2> QED BY <2>1, <2>2, <2>3, CarriedOnLess, CarryingKeepsAsked
<1>2. CASE StopWorker(w)
  <2>1. Carries
    <3>1. CASE Crash(w)
      BY <3>1, CrashCarries
    <3>2. CASE Shutdown(w)
      BY <3>2 DEF Shutdown, Carries
    <3> QED BY <1>2, <3>1, <3>2 DEF StopWorker
  <2>2. faults' = faults + 1 /\ UNCHANGED <<api, jobs>>
    BY <1>2 DEF StopWorker, Crash, Shutdown, Fault, stores
  <2> QED BY <1>0, <2>1, <2>2, FaultEndsOnce, CarryingKeepsAsked
<1> QED BY <1>1, <1>2

(* The requests.  The only message a request sends is the first one.       *)
LEMMA RequestKeepsOnce ==
  ASSUME BrokerInv, PipelineTypes, NEW k \in Job,
         EnqueueStep(k) \/ EnqueueFails(k) \/ EnqueueUnanswered(k),
         NEW j \in Job, Once(j), Asked(j)
  PROVE  Once(j)' /\ Asked(j)'
<1>0. /\ faults \in Nat /\ jobs \in [Job -> JobRecord]
      /\ api \in [Job -> {"new", "uploaded", "created", "queued", "failed"}]
  BY BrokerAssumption DEF BrokerInv, BrokerTypeOK, PipelineTypes
<1>1. CASE UploadFile(k) \/ CreateJob(k) \/ EnqueueFails(k)
  <2>1. log' = log /\ held' = held /\ pc' = pc /\ faults' = faults
    BY <1>1 DEF UploadFile, CreateJob, EnqueueFails
  <2>2. Remembers
    BY <1>0, <2>1 DEF Remembers
  <2>3. LiveOf(j)' \subseteq LiveOf(j)
    BY <2>1 DEF LiveOf, Live
  <2>4. jobs'[j].status = jobs[j].status \/ jobs'[j].status = "pending"
    BY <1>0, <1>1 DEF UploadFile, CreateJob, EnqueueFails
  <2>5. Asked(j)'
    BY <1>0, <1>1, <2>1 DEF Asked, UploadFile, CreateJob, EnqueueFails
  <2> QED BY <2>2, <2>3, <2>4, <2>5, CarriedOnLess
<1>2. CASE Enqueue(k) \/ EnqueueUnanswered(k)
  <2>1. Publish(QUEUE_PROCESS, k) /\ QUEUE_PROCESS \in Queue
        /\ UNCHANGED <<held, pc, faults, jobs>>
    BY <1>2, PipelineAssumption DEF Enqueue, EnqueueUnanswered
  <2>2. PICK new : /\ DOMAIN log' = DOMAIN log \cup {new}
                   /\ log'[new].payload = k
                   /\ \A n \in DOMAIN log : log'[n] = log[n]
    BY <2>1, PublishedLog
  <2>3. Remembers
    BY <1>0, <2>1, <2>2 DEF Remembers
  <2>4. \A m \in LiveOf(j)' : m \in LiveOf(j) \/ (m = new /\ j = k)
    BY <2>1, <2>2 DEF LiveOf, Live
  <2>5. CASE j = k
    <3>1. LiveOf(j) = {} /\ jobs'[j].status = "pending"
          /\ api'[j] \in {"queued", "failed"}
      BY <1>0, <1>2, <2>1, <2>5 DEF Enqueue, EnqueueUnanswered, Asked, LiveOf
    <3> QED BY <2>4, <3>1 DEF Once, Asked
  <2>6. CASE j # k
    <3>1. Once(j)'
      BY <2>1, <2>3, <2>4, <2>6, CarriedOnLess
    <3>2. api'[j] = api[j]
      BY <1>0, <1>2, <2>6 DEF Enqueue, EnqueueUnanswered
    <3> QED BY <2>1, <2>2, <2>6, <3>1, <3>2 DEF Asked
  <2> QED BY <2>5, <2>6
<1> QED BY <1>1, <1>2 DEF EnqueueStep

CarriedOnOnce == \A j \in Job : Once(j) /\ Asked(j)

LEMMA NextKeepsOnce == PipelineInv /\ CarriedOnOnce /\ [Next]_vars => CarriedOnOnce'
<1> SUFFICES ASSUME BrokerInv, PipelineTypes, RecordsAgree, [Next]_vars,
                    NEW j \in Job, Once(j), Asked(j)
             PROVE  Once(j)' /\ Asked(j)'
  BY DEF PipelineInv, CarriedOnOnce
<1>1. KeepsMessages
  BY NextIsBrokerNext, NextOnLog DEF LogStep
<1>2. CASE UNCHANGED vars
  BY <1>2 DEF vars, Once, Asked, Undisturbed, LiveOf, Live
<1>3. ASSUME NEW k \in Job, EnqueueStep(k) \/ EnqueueFails(k) \/ EnqueueUnanswered(k)
      PROVE  Once(j)' /\ Asked(j)'
  BY <1>3, RequestKeepsOnce
<1>4. ASSUME NEW w \in Worker, StartWorker(w) \/ StopWorker(w)
      PROVE  Once(j)' /\ Asked(j)'
  BY <1>4, WorkerKeepsOnce
<1>5. ASSUME NEW c \in Consumer, RunConsumer(c) \/ ConsumerFails(c)
      PROVE  Once(j)' /\ Asked(j)'
  BY <1>1, <1>5, HandlerKeepsOnce, ConsumerKeepsOnce DEF RunConsumer
<1> QED BY <1>2, <1>3, <1>4, <1>5 DEF Next

(* The end of a job is final unless a fault or a retry repeats its stages: *)
(* no call that could change it is made without a live message.            *)
THEOREM PipelineReopensOnlyInRepeat == Spec => EndedJobReopensOnlyInRepeat
<1> DEFINE Final == \A j \in Job :
             /\ jobs[j].status \in {"completed", "failed"}
             /\ jobs'[j].status # jobs[j].status
             => \/ faults > 0
                \/ \E m \in DOMAIN log : log[m].payload = j /\ log[m].retry > 0
<1>1. ASSUME PipelineInv, CarriedOnOnce, [Next]_vars PROVE Final
  <2> SUFFICES ASSUME NEW j \in Job, Undisturbed(j),
                      jobs[j].status \in {"completed", "failed"},
                      jobs'[j].status # jobs[j].status
               PROVE  FALSE
    <3>1. faults \in Nat /\ \A m \in DOMAIN log : log[m].retry \in Nat
      <4>1. \A m \in DOMAIN log : log[m] \in Message
        BY <1>1, LenProperties, ElementOfSeq DEF PipelineInv, BrokerInv, BrokerTypeOK
      <4> QED BY <1>1, <4>1, BrokerAssumption
              DEF PipelineInv, BrokerInv, BrokerTypeOK, Message
    <3> QED BY <3>1 DEF Undisturbed
  <2>1. LiveOf(j) = {} /\ Asked(j)
    BY <1>1 DEF CarriedOnOnce, Once
  <2>2. jobs \in [Job -> JobRecord]
    BY <1>1 DEF PipelineInv, PipelineTypes
  <2>3. ASSUME NEW c \in Consumer, HandlerStep(c) PROVE FALSE
    <3>1. phase[c] = "handling" /\ pc[c] \notin {"none", "done"} /\ j = JobOf(c)
      BY <1>1, <2>3, HandlerCalls DEF PipelineInv
    <3> QED BY <1>1, <2>1, <3>1, HandledIsLive DEF PipelineInv
  <2>4. ASSUME NEW k \in Job, EnqueueStep(k) \/ EnqueueFails(k) \/ EnqueueUnanswered(k)
        PROVE  FALSE
    BY <2>1, <2>2, <2>4
       DEF Asked, EnqueueStep, UploadFile, CreateJob, Enqueue, EnqueueFails,
           EnqueueUnanswered
  <2>5. jobs' # jobs
    OBVIOUS
  <2>6. ASSUME NEW c \in Consumer, RunConsumer(c) \/ ConsumerFails(c) PROVE FALSE
    BY <2>3, <2>5, <2>6
       DEF RunConsumer, Take, Return, Raise, Answer, ConsumerFails, stores, pipelineVars
  <2>7. ASSUME NEW w \in Worker, StartWorker(w) \/ StopWorker(w) PROVE FALSE
    BY <2>5, <2>7 DEF StartWorker, StopWorker, stores, pipelineVars
  <2>8. ~UNCHANGED vars
    BY <2>5 DEF vars
  <2> QED BY <1>1, <2>4, <2>6, <2>7, <2>8 DEF Next
<1>2. Init => PipelineInv /\ CarriedOnOnce
  <2>1. Init => CarriedOnOnce
    BY DEF Init, BrokerInit, CarriedOnOnce, Once, Asked, LiveOf
  <2> QED BY <2>1, InitPipelineInv
<1>3. PipelineInv /\ CarriedOnOnce /\ [Next]_vars => (PipelineInv /\ CarriedOnOnce)'
  BY NextKeepsPipelineInv, NextKeepsOnce
<1>4. PipelineInv /\ CarriedOnOnce /\ [Next]_vars => [Final]_vars
  BY <1>1
<1> QED BY <1>2, <1>3, <1>4, PTL DEF Spec, EndedJobReopensOnlyInRepeat
=============================================================================
