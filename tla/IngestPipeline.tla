--------------------------- MODULE IngestPipeline ---------------------------
(***************************************************************************)
(* Asynchronous document ingestion: the enqueueing half of the ingest API  *)
(* (api/routes/ingest.py), the three stage handlers (ingestion/stages.py)  *)
(* run by the workers of TaskBroker, and the job, document and chunk       *)
(* records they keep in MongoDB, Neo4j and S3 (stores/).                   *)
(*                                                                         *)
(* A handler is a sequence of awaited store calls.  pc[c] names the next   *)
(* call of the handler that consumer c runs; between two calls any other   *)
(* consumer may run, any call may raise (before or after its effect), and  *)
(* the process may be killed or cancelled.  Computation without an effect  *)
(* on the stores (conversion, chunking, embedding, LLM calls, entity       *)
(* deduplication) is part of the step of the store call that follows it.   *)
(*                                                                         *)
(* An upload is identified with its job; the job id and the document id    *)
(* are both drawn fresh for it, so a document is named by its job too.     *)
(***************************************************************************)
EXTENDS TaskBroker

CONSTANTS
  Job,                \* uploads, each with its job and its document
  NoJob,              \* not a job
  Content,            \* Content[j]: file content and engagement of upload j
  ExtractionEnabled,  \* settings.entity_extraction_enabled
  ConnectedServices   \* the services a worker process has connected to

QUEUE_PROCESS == "process"
QUEUE_EXTRACT == "extract"
QUEUE_POSTPROCESS == "postprocess"

(* What run_worker() connects to before it starts its consumers.           *)
WorkerServices == {"neo4j", "mongodb", "rabbitmq"}

ASSUME PipelineAssumption ==
  /\ Queue = {QUEUE_PROCESS, QUEUE_EXTRACT, QUEUE_POSTPROCESS}
  /\ Payload = Job
  /\ NoJob \notin Job
  /\ ExtractionEnabled \in BOOLEAN
  /\ ConnectedServices \subseteq WorkerServices \cup {"s3"}

VARIABLES
  api,     \* progress of each upload through _enqueue_document
  s3,      \* uploads whose file is in the object store
  jobs,    \* ingestion_jobs
  docs,    \* processing_status of the documents collection
  chunks,  \* what the chunks collection holds of each document
  graph,   \* what Neo4j holds of each document
  pc,      \* the next call of the handler each consumer runs
  found    \* the duplicate each consumer's handler has found

stores == <<s3, jobs, docs, chunks, graph>>
pipelineVars == <<api, s3, jobs, docs, chunks, graph, pc, found>>
vars == <<log, phase, held, faults, api, s3, jobs, docs, chunks, graph, pc, found>>

DocStatus == {"absent", "processing", "completed", "failed"}
JobStatus == {"absent", "pending", "processing", "completed", "failed"}
Stage == {"none", "queued", "process", "process_done", "extract",
          "extract_done", "postprocess", "complete"}

JobRecord == [status : JobStatus, stage : Stage, dupOf : Job \cup {NoJob}]

(* "mixed": the chunks of more than one run, under fresh chunk ids.        *)
Stored == {"nothing", "some", "all", "mixed"}

Label == {"none", "process", "lookup", "duplicate", "insert", "convert",
          "nochunks", "store", "graph", "node", "processed", "handoff",
          "extract", "entities", "extracted", "forward",
          "postprocess", "finish", "complete", "done"}

JobOf(c) == log[held[c]].payload

(* The handler of consumer c makes its next call, named here, and then has *)
(* `to` to make.                                                           *)
Call(c, here, to) ==
  /\ phase[c] = "handling"
  /\ pc[c] = here
  /\ pc' = [pc EXCEPT ![c] = to]

UpdateJob(j, changes) ==
  jobs' = [jobs EXCEPT ![j] = [f \in DOMAIN @ |->
                                 IF f \in DOMAIN changes THEN changes[f] ELSE @[f]]]

UpdateDocumentStatus(j, status) == docs' = [docs EXCEPT ![j] = status]

-----------------------------------------------------------------------------
(* The enqueueing API                                                      *)

UploadFile(j) ==
  /\ api[j] = "new"
  /\ api' = [api EXCEPT ![j] = "uploaded"]
  /\ s3' = s3 \cup {j}
  /\ UNCHANGED <<log, phase, held, faults, jobs, docs, chunks, graph, pc, found>>

CreateJob(j) ==
  /\ api[j] = "uploaded"
  /\ api' = [api EXCEPT ![j] = "created"]
  /\ jobs' = [jobs EXCEPT ![j] = [status |-> "pending", stage |-> "queued", dupOf |-> NoJob]]
  /\ UNCHANGED <<log, phase, held, faults, s3, docs, chunks, graph, pc, found>>

(* Mutant: the task is published before the job record is written.         *)
EnqueueFirst(j) ==
  /\ api[j] \in {"uploaded", "created"}
  /\ api' = [api EXCEPT ![j] = "queued"]
  /\ Publish(QUEUE_PROCESS, j)
  /\ UNCHANGED <<phase, held, faults, s3, jobs, docs, chunks, graph, pc, found>>

Enqueue(j) ==
  /\ api[j] = "created"
  /\ api' = [api EXCEPT ![j] = "queued"]
  /\ Publish(QUEUE_PROCESS, j)
  /\ UNCHANGED <<phase, held, faults, s3, jobs, docs, chunks, graph, pc, found>>

(* A call raises before its effect, or the API process dies: the client    *)
(* gets an error and what was written so far stays.                        *)
EnqueueFails(j) ==
  /\ api[j] \in {"new", "uploaded", "created"}
  /\ api' = [api EXCEPT ![j] = "failed"]
  /\ UNCHANGED <<log, phase, held, faults, s3, jobs, docs, chunks, graph, pc, found>>

(* publish() raises, or the process dies, once the broker has the message: *)
(* the upload fails for the client and is ingested all the same.           *)
EnqueueUnanswered(j) ==
  /\ api[j] = "created"
  /\ api' = [api EXCEPT ![j] = "failed"]
  /\ Publish(QUEUE_PROCESS, j)
  /\ UNCHANGED <<phase, held, faults, s3, jobs, docs, chunks, graph, pc, found>>

-----------------------------------------------------------------------------
(* process_handler                                                         *)

MarkProcessing(c) ==
  /\ Call(c, "process", "lookup")
  /\ UpdateJob(JobOf(c), [status |-> "processing", stage |-> "process"])
  /\ UNCHANGED <<log, phase, held, faults, api, s3, docs, chunks, graph, found>>

SameContent(j) == {k \in Job : docs[k] # "absent" /\ Content[k] = Content[j]}

(* Download, hash and look for a document with the same hash, whatever its *)
(* status; without a connected S3 client the download can only raise.      *)
LookUp(c) ==
  /\ "s3" \in ConnectedServices
  /\ \/ /\ Call(c, "lookup", "insert")
        /\ JobOf(c) \in s3
        /\ SameContent(JobOf(c)) = {}
        /\ UNCHANGED found
     \/ /\ Call(c, "lookup", "duplicate")
        /\ JobOf(c) \in s3
        /\ \E k \in SameContent(JobOf(c)) : found' = [found EXCEPT ![c] = k]
  /\ UNCHANGED <<log, phase, held, faults, api, s3, jobs, docs, chunks, graph>>

(* Mutants: the original is not recorded; it is declared complete.         *)
CloseDuplicateUnnamed(c) ==
  /\ Call(c, "duplicate", "done")
  /\ UpdateJob(JobOf(c), [status |-> "completed"])
  /\ found' = [found EXCEPT ![c] = NoJob]
  /\ UNCHANGED <<log, phase, held, faults, api, s3, docs, chunks, graph>>

CloseDuplicateAndOriginal(c) ==
  /\ Call(c, "duplicate", "done")
  /\ UpdateJob(JobOf(c), [status |-> "completed", dupOf |-> found[c]])
  /\ UpdateDocumentStatus(found[c], "completed")
  /\ found' = [found EXCEPT ![c] = NoJob]
  /\ UNCHANGED <<log, phase, held, faults, api, s3, chunks, graph>>

CloseDuplicate(c) ==
  /\ Call(c, "duplicate", "done")
  /\ UpdateJob(JobOf(c), [status |-> "completed", dupOf |-> found[c]])
  /\ found' = [found EXCEPT ![c] = NoJob]
  /\ UNCHANGED <<log, phase, held, faults, api, s3, docs, chunks, graph>>

(* Mutant: the record of an earlier attempt is replaced.                   *)
InsertDocumentAgain(c) ==
  /\ Call(c, "insert", "convert")
  /\ UpdateDocumentStatus(JobOf(c), "processing")
  /\ UNCHANGED <<log, phase, held, faults, api, s3, jobs, chunks, graph, found>>

(* The document id is the _id of the record: inserting it twice raises.    *)
InsertDocument(c) ==
  /\ Call(c, "insert", "convert")
  /\ docs[JobOf(c)] = "absent"
  /\ UpdateDocumentStatus(JobOf(c), "processing")
  /\ UNCHANGED <<log, phase, held, faults, api, s3, jobs, chunks, graph, found>>

(* Conversion and embedding succeed.                                       *)
Convert(c) ==
  /\ Call(c, "convert", "store")
  /\ UNCHANGED <<log, phase, held, faults, api, s3, jobs, docs, chunks, graph, found>>

(* Conversion yields no chunks: document and job fail, without an error.   *)
FailDocument(c) ==
  /\ Call(c, "convert", "nochunks")
  /\ UpdateDocumentStatus(JobOf(c), "failed")
  /\ UNCHANGED <<log, phase, held, faults, api, s3, jobs, chunks, graph, found>>

FailJob(c) ==
  /\ Call(c, "nochunks", "done")
  /\ UpdateJob(JobOf(c), [status |-> "failed"])
  /\ UNCHANGED <<log, phase, held, faults, api, s3, docs, chunks, graph, found>>

Insert(j, part) ==
  chunks' = [chunks EXCEPT ![j] = IF @ = "nothing" THEN part ELSE "mixed"]

InsertChunks(c) ==
  /\ Call(c, "store", "graph")
  /\ Insert(JobOf(c), "all")
  /\ UNCHANGED <<log, phase, held, faults, api, s3, jobs, docs, graph, found>>

UpsertChunks(c) ==
  /\ Call(c, "graph", "node")
  /\ graph' = [graph EXCEPT ![JobOf(c)] = @ \cup {"chunks"}]
  /\ UNCHANGED <<log, phase, held, faults, api, s3, jobs, docs, chunks, found>>

UpsertDocumentNode(c) ==
  /\ Call(c, "node", "processed")
  /\ graph' = [graph EXCEPT ![JobOf(c)] = @ \cup {"document"}]
  /\ UNCHANGED <<log, phase, held, faults, api, s3, jobs, docs, chunks, found>>

ProcessDone(c) ==
  /\ Call(c, "processed", "handoff")
  /\ UpdateJob(JobOf(c), [stage |-> "process_done"])
  /\ UNCHANGED <<log, phase, held, faults, api, s3, docs, chunks, graph, found>>

(* Mutants: the next stage is queued before the document node is written;  *)
(* it is not queued at all.                                                *)
HandOffEarly(c) ==
  /\ ExtractionEnabled
  /\ Call(c, "node", "done")
  /\ Publish(QUEUE_EXTRACT, JobOf(c))
  /\ UNCHANGED <<phase, held, faults, api, s3, jobs, docs, chunks, graph, found>>

HandOffForgotten(c) ==
  /\ ExtractionEnabled
  /\ Call(c, "handoff", "done")
  /\ UNCHANGED <<log, phase, held, faults, api, s3, jobs, docs, chunks, graph, found>>

HandOff(c) ==
  /\ ExtractionEnabled
  /\ Call(c, "handoff", "done")
  /\ Publish(QUEUE_EXTRACT, JobOf(c))
  /\ UNCHANGED <<phase, held, faults, api, s3, jobs, docs, chunks, graph, found>>

-----------------------------------------------------------------------------
(* extract_handler                                                         *)

MarkExtract(c) ==
  /\ Call(c, "extract", "entities")
  /\ UpdateJob(JobOf(c), [stage |-> "extract"])
  /\ UNCHANGED <<log, phase, held, faults, api, s3, docs, chunks, graph, found>>

(* Entities, relationships and their links to chunks, if any were found.   *)
(* Which entities is not told apart here: they have fresh ids in each run. *)
StoreEntities(c) ==
  /\ Call(c, "entities", "extracted")
  /\ \/ graph' = [graph EXCEPT ![JobOf(c)] = @ \cup {"entities"}]
     \/ UNCHANGED graph
  /\ UNCHANGED <<log, phase, held, faults, api, s3, jobs, docs, chunks, found>>

ExtractDone(c) ==
  /\ Call(c, "extracted", "forward")
  /\ UpdateJob(JobOf(c), [stage |-> "extract_done"])
  /\ UNCHANGED <<log, phase, held, faults, api, s3, docs, chunks, graph, found>>

Forward(c) ==
  /\ Call(c, "forward", "done")
  /\ Publish(QUEUE_POSTPROCESS, JobOf(c))
  /\ UNCHANGED <<phase, held, faults, api, s3, jobs, docs, chunks, graph, found>>

-----------------------------------------------------------------------------
(* postprocess_handler, and the end of process_handler without extraction  *)

MarkPostprocess(c) ==
  /\ Call(c, "postprocess", "finish")
  /\ UpdateJob(JobOf(c), [stage |-> "postprocess"])
  /\ UNCHANGED <<log, phase, held, faults, api, s3, docs, chunks, graph, found>>

CompleteDocument(c) ==
  /\ \/ Call(c, "finish", "complete")
     \/ Call(c, "handoff", "complete") /\ ~ExtractionEnabled
  /\ UpdateDocumentStatus(JobOf(c), "completed")
  /\ UNCHANGED <<log, phase, held, faults, api, s3, jobs, chunks, graph, found>>

CompleteJob(c) ==
  /\ Call(c, "complete", "done")
  /\ IF QueueOf(c) = QUEUE_POSTPROCESS
       THEN UpdateJob(JobOf(c), [status |-> "completed", stage |-> "complete"])
       ELSE UpdateJob(JobOf(c), [status |-> "completed"])
  /\ UNCHANGED <<log, phase, held, faults, api, s3, docs, chunks, graph, found>>

-----------------------------------------------------------------------------
(* The handlers as the broker runs them                                    *)

(* The first call of the handler of a queue is named like the queue.       *)
Take(c, m) ==
  /\ Deliver(c, m)
  /\ pc' = [pc EXCEPT ![c] = QueueOf(c)]
  /\ UNCHANGED <<api, stores, found>>

(* Mutant: the message of a handler that returned is requeued.             *)
ReturnRequeues(c) ==
  /\ phase[c] = "handling"
  /\ pc[c] = "done"
  /\ Release(c, "ready", "idle")
  /\ pc' = [pc EXCEPT ![c] = "none"]
  /\ UNCHANGED <<faults, api, stores, found>>

Return(c) ==
  /\ pc[c] = "done"
  /\ HandlerReturns(c)
  /\ pc' = [pc EXCEPT ![c] = "none"]
  /\ UNCHANGED <<api, stores, found>>

(* A call raises; at "done", the last call, after its effect.  A raising   *)
(* insert_many may leave some of the chunks behind.                        *)
Raise(c) ==
  /\ HandlerRaises(c)
  /\ \/ UNCHANGED chunks
     \/ pc[c] = "store" /\ Insert(JobOf(c), "some")
  /\ pc' = [pc EXCEPT ![c] = "none"]
  /\ found' = [found EXCEPT ![c] = NoJob]
  /\ UNCHANGED <<api, s3, jobs, docs, graph>>

(* The broker's part, in which no handler runs.                            *)
Answer(c) ==
  /\ Republish(c) \/ AckRetried(c) \/ DropExhausted(c) \/ RejectCancelled(c)
  /\ UNCHANGED pipelineVars

ConsumerFails(c) ==
  /\ RepublishFails(c)
  /\ UNCHANGED pipelineVars

StartWorker(w) == Start(w) /\ UNCHANGED pipelineVars

(* The handlers of the process end where they are.                         *)
StopWorker(w) ==
  /\ Crash(w) \/ Shutdown(w)
  /\ pc' = [c \in Consumer |-> IF c[1] = w THEN "none" ELSE pc[c]]
  /\ found' = [c \in Consumer |-> IF c[1] = w THEN NoJob ELSE found[c]]
  /\ UNCHANGED <<api, stores>>

ProcessStep(c) ==
  \/ MarkProcessing(c) \/ LookUp(c) \/ CloseDuplicate(c) \/ InsertDocument(c)
  \/ Convert(c) \/ FailDocument(c) \/ FailJob(c)
  \/ InsertChunks(c) \/ UpsertChunks(c) \/ UpsertDocumentNode(c)
  \/ ProcessDone(c) \/ HandOff(c)

ExtractStep(c) ==
  MarkExtract(c) \/ StoreEntities(c) \/ ExtractDone(c) \/ Forward(c)

FinishStep(c) ==
  MarkPostprocess(c) \/ CompleteDocument(c) \/ CompleteJob(c)

HandlerStep(c) == ProcessStep(c) \/ ExtractStep(c) \/ FinishStep(c)

RunConsumer(c) ==
  \/ \E m \in DOMAIN log : Take(c, m)
  \/ HandlerStep(c)
  \/ Return(c)
  \/ Raise(c)
  \/ Answer(c)

EnqueueStep(j) == UploadFile(j) \/ CreateJob(j) \/ Enqueue(j)

Init ==
  /\ BrokerInit
  /\ api = [j \in Job |-> "new"]
  /\ s3 = {}
  /\ jobs = [j \in Job |-> [status |-> "absent", stage |-> "none", dupOf |-> NoJob]]
  /\ docs = [j \in Job |-> "absent"]
  /\ chunks = [j \in Job |-> "nothing"]
  /\ graph = [j \in Job |-> {}]
  /\ pc = [c \in Consumer |-> "none"]
  /\ found = [c \in Consumer |-> NoJob]

Next ==
  \/ \E j \in Job : EnqueueStep(j) \/ EnqueueFails(j) \/ EnqueueUnanswered(j)
  \/ \E w \in Worker : StartWorker(w) \/ StopWorker(w)
  \/ \E c \in Consumer : RunConsumer(c) \/ ConsumerFails(c)

Spec == Init /\ [][Next]_vars

(* Running consumers and requests keep going; workers are started.         *)
Fairness ==
  /\ \A j \in Job : WF_vars(EnqueueStep(j))
  /\ \A w \in Worker : WF_vars(StartWorker(w))
  /\ \A c \in Consumer : WF_vars(RunConsumer(c))

FairSpec == Spec /\ Fairness

-----------------------------------------------------------------------------
TypeOK ==
  /\ BrokerTypeOK
  /\ api \in [Job -> {"new", "uploaded", "created", "queued", "failed"}]
  /\ s3 \subseteq Job
  /\ jobs \in [Job -> JobRecord]
  /\ docs \in [Job -> DocStatus]
  /\ chunks \in [Job -> Stored]
  /\ graph \in [Job -> SUBSET {"chunks", "document", "entities"}]
  /\ pc \in [Consumer -> Label]
  /\ found \in [Consumer -> Job \cup {NoJob}]

(* The content of the document is in MongoDB and, linked, in Neo4j.        *)
FullyStored(j) == chunks[j] = "all" /\ {"chunks", "document"} \subseteq graph[j]

(* A message never overtakes the data its handler needs: what is on the    *)
(* process queue has its file and job record, and what is on a later queue *)
(* has its chunks and document node, however often stage 1 was retried.    *)
QueuedWorkIsPrepared ==
  \A m \in DOMAIN log :
    IF log[m].queue = QUEUE_PROCESS
      THEN log[m].payload \in s3 /\ jobs[log[m].payload].status # "absent"
      ELSE FullyStored(log[m].payload)

(* The calls of stage 1 that follow the insertion of the document record.  *)
Storing == {"convert", "store", "graph", "node", "processed", "handoff"}

(* At most one handler at a time fills in a document, though redelivery    *)
(* and retries may run stage 1 of one upload in two workers at once: the   *)
(* unique _id of the document record decides who.                          *)
SingleStorer ==
  \A c, d \in Consumer :
    /\ pc[c] \in Storing
    /\ pc[d] \in Storing
    /\ JobOf(c) = JobOf(d)
    => c = d

(* Chunk ids are drawn afresh in each run, so a second run of insert_chunks*)
(* for one document would duplicate its content: it never happens.         *)
ChunksStoredOnce == \A j \in Job : chunks[j] # "mixed"

(* A document is declared complete only when all of its content is stored, *)
(* across three queues, partial insertions, crashes and repeated stages.   *)
CompletedDocumentIsStored ==
  \A j \in Job : docs[j] = "completed" => FullyStored(j)

(* What the status endpoint reports agrees with the document: a job that   *)
(* ended without being a duplicate has a document that ended the same way. *)
JobAgreesWithDocument ==
  \A j \in Job :
    /\ jobs[j].status = "completed" /\ jobs[j].dupOf = NoJob => docs[j] = "completed"
    /\ jobs[j].status = "failed" => docs[j] = "failed"

(* The stage of a job never runs ahead of the work: from "process_done" on *)
(* the content is stored, at "complete" the document is complete.          *)
StageReflectsWork ==
  \A j \in Job :
    /\ jobs[j].stage \notin {"none", "queued", "process"} => FullyStored(j)
    /\ jobs[j].stage = "complete" => docs[j] = "completed"

(* The end of a job is final, except that stage 1 run again (a retry, or a *)
(* redelivery after a fault) takes the job back to "processing".           *)
EndedJobReopensOnlyInRepeat ==
  [][\A j \in Job :
       /\ jobs[j].status \in {"completed", "failed"}
       /\ jobs'[j].status # jobs[j].status
       => \/ faults > 0
          \/ \E m \in DOMAIN log : log[m].payload = j /\ log[m].retry > 0]_vars

(* Seen from the queues alone, the pipeline is a task broker: its handlers *)
(* touch no message but by returning, raising and publishing.              *)
ImplementsBroker == BrokerSpec

Available == {j \in Job : FullyStored(j)}

Catalog == INSTANCE DocumentCatalog
             WITH Document <- Job, status <- docs, available <- Available

(* Seen from the stores, each upload is a document that is filled at most  *)
(* once and closed for good.                                               *)
ImplementsCatalog == Catalog!Spec

(* An upload whose request succeeded, or failed with its message sent,     *)
(* does not stay in flight for ever: its job ends, or one of its messages  *)
(* is given up (dead or dropped), or one waits at a queue all of whose     *)
(* consumers have died.                                                    *)
Resolved(j) ==
  \/ jobs[j].status \in {"completed", "failed"}
  \/ \E m \in DOMAIN log :
       /\ log[m].payload = j
       /\ \/ log[m].place \in {"dead", "dropped"}
          \/ /\ log[m].place = "ready"
             /\ \A w \in Worker : phase[<<w, log[m].queue>>] = "dead"

EveryUploadIsResolved ==
  \A j \in Job :
    <>[](\/ api[j] = "failed" /\ \A m \in DOMAIN log : log[m].payload # j
         \/ Resolved(j))

(* worker.py, line 3: the worker "Connects to RabbitMQ, Neo4j, MongoDB, S3 *)
(* and spawns consumers": a handler that is to download finds S3 connected.*)
WorkerReachesS3 ==
  \A c \in Consumer : pc[c] = "lookup" => "s3" \in ConnectedServices

(* task_broker.py, line 118: "If it raises, the message is retried"; the   *)
(* retry is to do the work, not to find the document record its own first  *)
(* attempt left behind and report the upload as a duplicate of itself.     *)
RetryIsNotADuplicate == \A j \in Job : jobs[j].dupOf # j

(* document_store.py, line 73: "Find a document by content hash within an  *)
(* engagement (dedup)"; worker.py, line 4: "Can be scaled horizontally".   *)
(* The same content is ingested as one document, however many workers run. *)
OneDocumentPerContent ==
  \A j, k \in Job :
    docs[j] # "absent" /\ docs[k] # "absent" /\ Content[j] = Content[k] => j = k
=============================================================================
