---------------------------- MODULE SyncPipeline ----------------------------
(***************************************************************************)
(* Synchronous ingestion (ingestion/pipeline.py): one call stores, fills   *)
(* and closes a document while its caller waits.  The callers are the      *)
(* sync=true branch of the ingest API and the sync manager, in any number  *)
(* of processes at once.                                                   *)
(*                                                                         *)
(* Every call draws a fresh job id and a fresh document id, so job and     *)
(* document are both named by the call.  pc[c] names the next store call   *)
(* of call c.  Calls meet in one place only: the lookup of the content     *)
(* hash.  A store call that raises, before or after its effect, leads to   *)
(* the except branch (FailDocument, FailJob), which makes two store calls  *)
(* of its own; what these raise goes to the caller.  A process may die     *)
(* between any two calls.                                                  *)
(***************************************************************************)
CONSTANTS
  Call,       \* calls of run_ingestion_pipeline
  NoCall,     \* not a call
  Content     \* Content[c]: file content and engagement of call c

ASSUME SyncAssumption ==
  /\ NoCall \notin Call
  /\ Content \in [Call -> {Content[c] : c \in Call}]
  /\ \A c \in Call : Content[c] # NoCall

VARIABLES
  pc,         \* the next store call of each call
  s3,         \* calls whose file is in the object store
  jobs,       \* ingestion_jobs
  docs,       \* processing_status of the documents collection
  chunks,     \* what the chunks collection holds of each document
  graph,      \* what Neo4j holds of each document
  found,      \* the document each call was found to duplicate
  answer      \* what each caller got

vars == <<pc, s3, jobs, docs, chunks, graph, found, answer>>

JobRecord == [status : {"absent", "processing", "completed", "failed"},
              dupOf : Call \cup {NoCall}]

(* The labels inside the try block, of the except branch, and the rest.    *)
Try == {"lookup", "duplicate", "tell_duplicate", "upload", "insert", "convert",
        "nochunks", "tell_failed", "store", "graph", "node",
        "complete", "finish", "tell_completed"}
Except == {"fail_document", "fail_job", "tell_error"}
Label == {"create", "end"} \cup Try \cup Except

Step(c, here, to) == pc[c] = here /\ pc' = [pc EXCEPT ![c] = to]

Tell(c, here, a) ==
  /\ Step(c, here, "end")
  /\ answer' = [answer EXCEPT ![c] = a]
  /\ UNCHANGED <<s3, jobs, docs, chunks, graph, found>>

UpdateJob(c, status, original) ==
  jobs' = [jobs EXCEPT ![c] = [status |-> status, dupOf |-> original]]

(* update_one finds no record to update when the document was not inserted.*)
UpdateDocumentStatus(c, status) ==
  docs' = [docs EXCEPT ![c] = IF @ = "absent" THEN @ ELSE status]

-----------------------------------------------------------------------------
Init ==
  /\ pc = [c \in Call |-> "create"]
  /\ s3 = {}
  /\ jobs = [c \in Call |-> [status |-> "absent", dupOf |-> NoCall]]
  /\ docs = [c \in Call |-> "absent"]
  /\ chunks = [c \in Call |-> "nothing"]
  /\ graph = [c \in Call |-> {}]
  /\ found = [c \in Call |-> NoCall]
  /\ answer = [c \in Call |-> "none"]

CreateJob(c) ==
  /\ Step(c, "create", "lookup")
  /\ UpdateJob(c, "processing", NoCall)
  /\ UNCHANGED <<s3, docs, chunks, graph, found, answer>>

(* Mutant: the duplicate is looked for among the jobs.                     *)
SameContentByJob(c) ==
  {d \in Call : jobs[d].status # "absent" /\ Content[d] = Content[c]}

SameContent(c) == {d \in Call : docs[d] # "absent" /\ Content[d] = Content[c]}

(* get_document_by_hash() returns any document of the content, whatever    *)
(* its status.                                                             *)
LookUp(c) ==
  /\ \/ /\ Step(c, "lookup", "upload")
        /\ SameContent(c) = {}
        /\ UNCHANGED found
     \/ /\ Step(c, "lookup", "duplicate")
        /\ \E d \in SameContent(c) : found' = [found EXCEPT ![c] = d]
  /\ UNCHANGED <<s3, jobs, docs, chunks, graph, answer>>

CloseDuplicate(c) ==
  /\ Step(c, "duplicate", "tell_duplicate")
  /\ UpdateJob(c, "completed", found[c])
  /\ UNCHANGED <<s3, docs, chunks, graph, found, answer>>

(* Mutant: a duplicate is reported as completed.                           *)
TellDuplicateCompleted(c) == Tell(c, "tell_duplicate", "completed")

TellDuplicate(c) == Tell(c, "tell_duplicate", "duplicate")

UploadFile(c) ==
  /\ Step(c, "upload", "insert")
  /\ s3' = s3 \cup {c}
  /\ UNCHANGED <<jobs, docs, chunks, graph, found, answer>>

InsertDocument(c) ==
  /\ Step(c, "insert", "convert")
  /\ docs' = [docs EXCEPT ![c] = "processing"]
  /\ UNCHANGED <<s3, jobs, chunks, graph, found, answer>>

(* Conversion, which stores its result beside the status "processing",     *)
(* chunking and embedding succeed.                                         *)
Convert(c) ==
  /\ Step(c, "convert", "store")
  /\ UNCHANGED <<s3, jobs, docs, chunks, graph, found, answer>>

(* Chunking yields nothing.                                                *)
NoChunks(c) ==
  /\ Step(c, "convert", "nochunks")
  /\ UpdateDocumentStatus(c, "failed")
  /\ UNCHANGED <<s3, jobs, chunks, graph, found, answer>>

NoChunksJob(c) ==
  /\ Step(c, "nochunks", "tell_failed")
  /\ UpdateJob(c, "failed", NoCall)
  /\ UNCHANGED <<s3, docs, chunks, graph, found, answer>>

TellFailed(c) == Tell(c, "tell_failed", "failed")

InsertChunks(c) ==
  /\ Step(c, "store", "graph")
  /\ chunks' = [chunks EXCEPT ![c] = "all"]
  /\ UNCHANGED <<s3, jobs, docs, graph, found, answer>>

UpsertChunks(c) ==
  /\ Step(c, "graph", "node")
  /\ graph' = [graph EXCEPT ![c] = @ \cup {"chunks"}]
  /\ UNCHANGED <<s3, jobs, docs, chunks, found, answer>>

UpsertDocumentNode(c) ==
  /\ Step(c, "node", "complete")
  /\ graph' = [graph EXCEPT ![c] = @ \cup {"document"}]
  /\ UNCHANGED <<s3, jobs, docs, chunks, found, answer>>

CompleteDocument(c) ==
  /\ Step(c, "complete", "finish")
  /\ UpdateDocumentStatus(c, "completed")
  /\ UNCHANGED <<s3, jobs, chunks, graph, found, answer>>

CompleteJob(c) ==
  /\ Step(c, "finish", "tell_completed")
  /\ UpdateJob(c, "completed", NoCall)
  /\ UNCHANGED <<s3, docs, chunks, graph, found, answer>>

TellCompleted(c) == Tell(c, "tell_completed", "completed")

-----------------------------------------------------------------------------
(* A store call in the try block raises: before its effect at its own      *)
(* label, after it at the next one.  insert_many may have stored a part.   *)
Raise(c) ==
  /\ pc[c] \in Try
  /\ pc' = [pc EXCEPT ![c] = "fail_document"]
  /\ \/ UNCHANGED chunks
     \/ pc[c] = "store" /\ chunks' = [chunks EXCEPT ![c] = "some"]
  /\ UNCHANGED <<s3, jobs, docs, graph, found, answer>>

(* Mutant: the except branch fails the job only.                           *)
FailJobOnly(c) ==
  /\ Step(c, "fail_document", "fail_job")
  /\ UNCHANGED <<s3, jobs, docs, chunks, graph, found, answer>>

FailDocument(c) ==
  /\ Step(c, "fail_document", "fail_job")
  /\ UpdateDocumentStatus(c, "failed")
  /\ UNCHANGED <<s3, jobs, chunks, graph, found, answer>>

FailJob(c) ==
  /\ Step(c, "fail_job", "tell_error")
  /\ UpdateJob(c, "failed", jobs[c].dupOf)
  /\ UNCHANGED <<s3, docs, chunks, graph, found, answer>>

TellError(c) == Tell(c, "tell_error", "failed")

(* create_job() or a call of the except branch raises: that reaches the    *)
(* caller.                                                                 *)
Escape(c) ==
  /\ pc[c] \in {"create"} \cup Except
  /\ pc' = [pc EXCEPT ![c] = "end"]
  /\ answer' = [answer EXCEPT ![c] = "raised"]
  /\ \/ UNCHANGED jobs
     \/ pc[c] = "create" /\ UpdateJob(c, "processing", NoCall)
  /\ UNCHANGED <<s3, docs, chunks, graph, found>>

(* The process dies: nobody gets an answer.                                *)
Die(c) ==
  /\ pc[c] # "end"
  /\ pc' = [pc EXCEPT ![c] = "end"]
  /\ UNCHANGED <<s3, jobs, docs, chunks, graph, found, answer>>

TryStep(c) ==
  \/ LookUp(c) \/ CloseDuplicate(c) \/ TellDuplicate(c)
  \/ UploadFile(c) \/ InsertDocument(c)
  \/ Convert(c) \/ NoChunks(c) \/ NoChunksJob(c) \/ TellFailed(c)
  \/ InsertChunks(c) \/ UpsertChunks(c) \/ UpsertDocumentNode(c)
  \/ CompleteDocument(c) \/ CompleteJob(c) \/ TellCompleted(c)

CallStep(c) ==
  \/ CreateJob(c) \/ TryStep(c) \/ Raise(c)
  \/ FailDocument(c) \/ FailJob(c) \/ TellError(c)
  \/ Escape(c) \/ Die(c)

Next == \E c \in Call : CallStep(c)

Spec == Init /\ [][Next]_vars

-----------------------------------------------------------------------------
TypeOK ==
  /\ pc \in [Call -> Label]
  /\ s3 \subseteq Call
  /\ jobs \in [Call -> JobRecord]
  /\ docs \in [Call -> {"absent", "processing", "completed", "failed"}]
  /\ chunks \in [Call -> {"nothing", "some", "all"}]
  /\ graph \in [Call -> SUBSET {"chunks", "document"}]
  /\ found \in [Call -> Call \cup {NoCall}]
  /\ answer \in [Call -> {"none", "completed", "duplicate", "failed", "raised"}]

FullyStored(c) ==
  chunks[c] = "all" /\ {"chunks", "document"} \subseteq graph[c] /\ c \in s3

AnswerAgrees(c) ==
  /\ answer[c] = "completed" =>
       docs[c] = "completed" /\ jobs[c].status = "completed" /\ FullyStored(c)
  /\ answer[c] = "failed" =>
       docs[c] \in {"absent", "failed"} /\ jobs[c].status = "failed"
  /\ answer[c] = "duplicate" =>
       /\ jobs[c].status = "completed"
       /\ docs[c] = "absent" /\ chunks[c] = "nothing" /\ c \notin s3
       /\ jobs[c].dupOf \in SameContent(c) \ {c}

(* A caller is never told what the records deny, whichever store call      *)
(* raised on the way: after "completed" the document is complete and all   *)
(* of its content stored; after "failed" neither job nor document is left  *)
(* in flight or complete; after "duplicate" another call has the document  *)
(* of this content on record and this call has stored nothing.             *)
AnswerAgreesWithRecords == \A c \in Call : AnswerAgrees(c)

(* Uploads of one content do not take each other for the original until    *)
(* nobody has ingested it: when every call of a content was answered       *)
(* "completed" or "duplicate", one of them was answered "completed".       *)
SomebodyIngests ==
  \A c \in Call :
    (\A d \in Call : Content[d] = Content[c] => answer[d] \in {"completed", "duplicate"})
      => \E d \in Call : Content[d] = Content[c] /\ answer[d] = "completed"

RecordsAgree(c) ==
  /\ docs[c] = "completed" => FullyStored(c)
  /\ jobs[c].status = "completed" /\ jobs[c].dupOf = NoCall =>
       \/ docs[c] = "completed"
       \/ answer[c] = "raised"
       \/ pc[c] \in {"fail_job", "end"} /\ answer[c] = "none"

(* What is on record as complete, for a reader of the stores, is stored,   *)
(* and a complete job has its document, unless the except branch that was  *)
(* to take the completion back raised itself (or is still to do so).       *)
CompleteIsStored == \A c \in Call : RecordsAgree(c)

Contents == {Content[c] : c \in Call}
Known == {Content[c] : c \in {d \in Call : docs[d] # "absent"}}
Available == {Content[c] : c \in {d \in Call : FullyStored(d)}}

Intake == INSTANCE DocumentIntake
            WITH NoContent <- NoCall, asked <- Content,
                 known <- Known, available <- Available

(* The synchronous pipeline keeps what DocumentIntake promises to callers, *)
(* though a document is filled in four calls to three stores.              *)
ImplementsIntake == Intake!IntakeSpec

(* pipeline.py, line 102: "Document already ingested", the answer to a     *)
(* duplicate: the content can then be retrieved.                           *)
DuplicateIsIngested ==
  \A c \in Call :
    answer[c] = "duplicate" =>
      \E d \in Call : Content[d] = Content[c] /\ FullyStored(d)
=============================================================================
