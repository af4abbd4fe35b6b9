------------------------ MODULE SyncPipeline_proofs ------------------------
(***************************************************************************)
(* Proofs about SyncPipeline, for any calls and contents.                  *)
(*                                                                         *)
(* What a caller is told is right because of what the call knows at each   *)
(* label it has reached without a raise (CallKnows): the records of a call *)
(* are written by itself alone, so they are as it left them.  The one fact *)
(* about others it relies on, that the duplicate it found is on record, is *)
(* stable because no step removes a record.                                *)
(***************************************************************************)
EXTENDS SyncPipeline, TLAPS

(* The labels before the document is inserted, and before it is closed.    *)
Unrecorded == {"create", "lookup", "duplicate", "tell_duplicate", "upload", "insert"}
InProgress == {"convert", "store", "graph", "node", "complete"}

DocumentKnown(c) ==
  /\ pc[c] \in Unrecorded => docs[c] = "absent"
  /\ pc[c] \in InProgress => docs[c] = "processing"
  /\ pc[c] \in {"nochunks", "tell_failed"} => docs[c] = "failed"
  /\ pc[c] \in {"finish", "tell_completed"} => docs[c] = "completed"
  /\ pc[c] \in {"fail_job", "tell_error"} => docs[c] \in {"absent", "failed"}
  /\ docs[c] = "absent" => chunks[c] = "nothing"

ContentKnown(c) ==
  /\ pc[c] \in Unrecorded \ {"insert"} => c \notin s3
  /\ pc[c] \in InProgress \cup {"insert"} => c \in s3
  /\ pc[c] \in {"convert", "store"} => chunks[c] = "nothing"
  /\ pc[c] \in {"graph", "node", "complete"} => chunks[c] = "all"
  /\ pc[c] \in Unrecorded \cup {"convert", "store", "graph"} => graph[c] = {}
  /\ pc[c] = "node" => graph[c] = {"chunks"}
  /\ pc[c] = "complete" => graph[c] = {"chunks", "document"}

JobKnown(c) ==
  /\ pc[c] \in {"lookup", "duplicate", "upload", "insert"} \cup InProgress =>
       jobs[c] = [status |-> "processing", dupOf |-> NoCall]
  /\ pc[c] = "create" => jobs[c].status = "absent"
  /\ pc[c] = "tell_duplicate" => jobs[c] = [status |-> "completed", dupOf |-> found[c]]
  /\ pc[c] = "tell_completed" => jobs[c].status = "completed"
  /\ pc[c] \in {"tell_failed", "tell_error"} => jobs[c].status = "failed"

CallKnows(c) ==
  /\ DocumentKnown(c) /\ ContentKnown(c) /\ JobKnown(c)
  /\ pc[c] \in {"duplicate", "tell_duplicate"} => found[c] \in SameContent(c) \ {c}
  /\ pc[c] # "end" => answer[c] = "none"

SyncInv ==
  /\ TypeOK
  /\ \A c \in Call : CallKnows(c) /\ AnswerAgrees(c) /\ RecordsAgree(c)

-----------------------------------------------------------------------------
(* A call writes its own records only, and removes none.                   *)
LEMMA StepIsLocal ==
  ASSUME TypeOK, NEW c \in Call, CallStep(c)
  PROVE  /\ \A d \in Call : d # c =>
              /\ pc'[d] = pc[d] /\ (d \in s3' <=> d \in s3) /\ jobs'[d] = jobs[d]
              /\ docs'[d] = docs[d] /\ chunks'[d] = chunks[d] /\ graph'[d] = graph[d]
              /\ found'[d] = found[d] /\ answer'[d] = answer[d]
         /\ \A d \in Call : docs[d] # "absent" => docs'[d] # "absent"
<1>1. CASE CreateJob(c) \/ LookUp(c) \/ CloseDuplicate(c) \/ UploadFile(c) \/ InsertDocument(c)
  BY <1>1 DEF TypeOK, CreateJob, LookUp, CloseDuplicate, UploadFile, InsertDocument, Step, UpdateJob
<1>2. CASE TellDuplicate(c) \/ TellFailed(c) \/ TellCompleted(c) \/ TellError(c)
  BY <1>2 DEF TypeOK, TellDuplicate, TellFailed, TellCompleted, TellError, Tell, Step
<1>3. CASE Convert(c) \/ NoChunks(c) \/ NoChunksJob(c) \/ InsertChunks(c) \/ UpsertChunks(c)
  BY <1>3 DEF TypeOK, Convert, NoChunks, NoChunksJob, InsertChunks, UpsertChunks, Step,
     UpdateJob, UpdateDocumentStatus
<1>4. CASE UpsertDocumentNode(c) \/ CompleteDocument(c) \/ CompleteJob(c) \/ FailDocument(c)
             \/ FailJob(c)
  BY <1>4 DEF TypeOK, UpsertDocumentNode, CompleteDocument, CompleteJob, FailDocument, FailJob,
     Step, UpdateJob, UpdateDocumentStatus
<1>5. CASE Raise(c) \/ Escape(c) \/ Die(c)
  BY <1>5 DEF TypeOK, Raise, Escape, Die, UpdateJob
<1> QED BY <1>1, <1>2, <1>3, <1>4, <1>5 DEF CallStep, TryStep

(* So what holds of the other calls goes on to hold.                       *)
LEMMA OthersKeep ==
  ASSUME SyncInv, NEW c \in Call, CallStep(c), NEW d \in Call, d # c
  PROVE  (CallKnows(d) /\ AnswerAgrees(d) /\ RecordsAgree(d))'
<1>1. CallKnows(d) /\ AnswerAgrees(d) /\ RecordsAgree(d)
  BY DEF SyncInv
<1>2. /\ pc'[d] = pc[d] /\ (d \in s3' <=> d \in s3) /\ jobs'[d] = jobs[d]
      /\ docs'[d] = docs[d] /\ chunks'[d] = chunks[d] /\ graph'[d] = graph[d]
      /\ found'[d] = found[d] /\ answer'[d] = answer[d]
  BY StepIsLocal DEF SyncInv
<1>3. SameContent(d) \subseteq SameContent(d)'
  BY StepIsLocal DEF SyncInv, SameContent
<1>4. CallKnows(d)'
  BY <1>1, <1>2, <1>3 DEF CallKnows, DocumentKnown, ContentKnown, JobKnown
<1>5. AnswerAgrees(d)' /\ RecordsAgree(d)'
  BY <1>1, <1>2, <1>3 DEF AnswerAgrees, RecordsAgree, FullyStored
<1> QED BY <1>4, <1>5

LEMMA StepKeepsTypes ==
  ASSUME TypeOK, NEW c \in Call, CallStep(c) PROVE TypeOK'
<1> USE DEF Label, Try, Except
<1>1. CASE CreateJob(c) \/ CloseDuplicate(c) \/ UploadFile(c) \/ InsertDocument(c)
  BY <1>1 DEF TypeOK, CreateJob, CloseDuplicate, UploadFile, InsertDocument, Step, UpdateJob,
     JobRecord
<1>2. CASE LookUp(c)
  BY <1>2 DEF TypeOK, LookUp, SameContent, Step
<1>3. CASE TellDuplicate(c) \/ TellFailed(c) \/ TellCompleted(c) \/ TellError(c)
  BY <1>3 DEF TypeOK, TellDuplicate, TellFailed, TellCompleted, TellError, Tell, Step
<1>4. CASE Convert(c) \/ NoChunks(c) \/ NoChunksJob(c) \/ InsertChunks(c) \/ UpsertChunks(c)
  BY <1>4 DEF TypeOK, Convert, NoChunks, NoChunksJob, InsertChunks, UpsertChunks, Step,
     UpdateJob, UpdateDocumentStatus, JobRecord
<1>5. CASE UpsertDocumentNode(c) \/ CompleteDocument(c) \/ CompleteJob(c) \/ FailDocument(c)
  BY <1>5 DEF TypeOK, UpsertDocumentNode, CompleteDocument, CompleteJob, FailDocument,
     Step, UpdateJob, UpdateDocumentStatus, JobRecord
<1>6. CASE FailJob(c)
  <2>1. [status |-> "failed", dupOf |-> jobs[c].dupOf] \in JobRecord
    BY DEF TypeOK, JobRecord
  <2> QED BY <1>6, <2>1 DEF TypeOK, FailJob, Step, UpdateJob
<1>7. CASE Raise(c) \/ Escape(c) \/ Die(c)
  BY <1>7 DEF TypeOK, Raise, Escape, Die, UpdateJob, JobRecord
<1> QED BY <1>1, <1>2, <1>3, <1>4, <1>5, <1>6, <1>7 DEF CallStep, TryStep

(* What the stepping call knows, one case per action.                      *)
LEMMA CallerKeeps ==
  ASSUME SyncInv, NEW c \in Call, CallStep(c)
  PROVE  (CallKnows(c) /\ AnswerAgrees(c) /\ RecordsAgree(c))'
<1> DEFINE Mine == CallKnows(c) /\ AnswerAgrees(c) /\ RecordsAgree(c)
<1> USE SyncAssumption DEF CallKnows, DocumentKnown, ContentKnown, JobKnown, AnswerAgrees,
        RecordsAgree, Unrecorded, InProgress
<1>0. TypeOK /\ Mine /\ SameContent(c) \subseteq SameContent(c)'
  BY StepIsLocal DEF SyncInv, SameContent
<1>1. CASE CreateJob(c)
  BY <1>0, <1>1 DEF TypeOK, CreateJob, Step, UpdateJob
<1>2. CASE LookUp(c)
  <2>1. c \notin SameContent(c)
    BY <1>0, <1>2 DEF LookUp, Step, SameContent
  <2> QED BY <1>0, <1>2, <2>1 DEF TypeOK, LookUp, Step, SameContent
<1>3. CASE CloseDuplicate(c)
  BY <1>0, <1>3 DEF TypeOK, CloseDuplicate, Step, UpdateJob, SameContent
<1>4. CASE TellDuplicate(c)
  BY <1>0, <1>4 DEF TypeOK, TellDuplicate, Tell, Step, SameContent
<1>5. CASE UploadFile(c)
  BY <1>0, <1>5 DEF TypeOK, UploadFile, Step
<1>6. CASE InsertDocument(c)
  BY <1>0, <1>6 DEF TypeOK, InsertDocument, Step
<1>7. CASE Convert(c)
  BY <1>0, <1>7 DEF TypeOK, Convert, Step
<1>8. CASE NoChunks(c)
  BY <1>0, <1>8 DEF TypeOK, NoChunks, Step, UpdateDocumentStatus
<1>9. CASE NoChunksJob(c)
  BY <1>0, <1>9 DEF TypeOK, NoChunksJob, Step, UpdateJob
<1>10. CASE TellFailed(c)
  BY <1>0, <1>10 DEF TypeOK, TellFailed, Tell, Step
<1>11. CASE InsertChunks(c)
  BY <1>0, <1>11 DEF TypeOK, InsertChunks, Step
<1>12. CASE UpsertChunks(c)
  BY <1>0, <1>12 DEF TypeOK, UpsertChunks, Step
<1>13. CASE UpsertDocumentNode(c)
  BY <1>0, <1>13 DEF TypeOK, UpsertDocumentNode, Step
<1>14. CASE CompleteDocument(c)
  BY <1>0, <1>14 DEF TypeOK, CompleteDocument, Step, UpdateDocumentStatus, FullyStored
<1>15. CASE CompleteJob(c)
  BY <1>0, <1>15 DEF TypeOK, CompleteJob, Step, UpdateJob, FullyStored
<1>16. CASE TellCompleted(c)
  BY <1>0, <1>16 DEF TypeOK, TellCompleted, Tell, Step, FullyStored
<1>17. CASE Raise(c)
  BY <1>0, <1>17 DEF TypeOK, Raise, Try, FullyStored
<1>18. CASE FailDocument(c)
  BY <1>0, <1>18 DEF TypeOK, FailDocument, Step, UpdateDocumentStatus
<1>19. CASE FailJob(c)
  BY <1>0, <1>19 DEF TypeOK, FailJob, Step, UpdateJob
<1>20. CASE TellError(c)
  BY <1>0, <1>20 DEF TypeOK, TellError, Tell, Step
<1>21. CASE Escape(c)
  BY <1>0, <1>21 DEF TypeOK, Escape, Except, UpdateJob, FullyStored
<1>22. CASE Die(c)
  BY <1>0, <1>22 DEF TypeOK, Die, FullyStored
<1> QED BY <1>1, <1>2, <1>3, <1>4, <1>5, <1>6, <1>7, <1>8, <1>9, <1>10, <1>11, <1>12,
           <1>13, <1>14, <1>15, <1>16, <1>17, <1>18, <1>19, <1>20, <1>21, <1>22
        DEF CallStep, TryStep

(* SyncInv is inductive.                                                   *)
LEMMA SyncKeepsInv == Spec => []SyncInv
<1>1. Init => SyncInv
  BY DEF Init, SyncInv, TypeOK, Label, JobRecord, CallKnows, DocumentKnown, ContentKnown,
     JobKnown, AnswerAgrees, RecordsAgree, Unrecorded, InProgress
<1>2. SyncInv /\ [Next]_vars => SyncInv'
  <2> SUFFICES ASSUME SyncInv, [Next]_vars PROVE SyncInv'
    OBVIOUS
  <2>1. ASSUME NEW c \in Call, CallStep(c) PROVE SyncInv'
    <3>1. TypeOK'
      BY <2>1, StepKeepsTypes DEF SyncInv
    <3>2. ASSUME NEW d \in Call
          PROVE  (CallKnows(d) /\ AnswerAgrees(d) /\ RecordsAgree(d))'
      BY <2>1, <3>2, CallerKeeps, OthersKeep
    <3> QED BY <3>1, <3>2 DEF SyncInv
  <2>2. CASE UNCHANGED vars
    BY <2>2 DEF vars, SyncInv, TypeOK, CallKnows, DocumentKnown, ContentKnown, JobKnown,
       AnswerAgrees, RecordsAgree, FullyStored, SameContent
  <2> QED BY <2>1, <2>2 DEF Next
<1> QED BY <1>1, <1>2, PTL DEF Spec
-----------------------------------------------------------------------------
(* Types of the records, for all the calls of ingestion/pipeline.py.       *)
THEOREM SyncTyping == Spec => []TypeOK
<1>1. SyncInv => TypeOK
  BY DEF SyncInv
<1> QED BY <1>1, SyncKeepsInv, PTL

(* However many calls, raises and deaths: an answer of                     *)
(* run_ingestion_pipeline() agrees with the stores.                        *)
THEOREM SyncAnswersAgree == Spec => []AnswerAgreesWithRecords
<1>1. SyncInv => AnswerAgreesWithRecords
  BY DEF SyncInv, AnswerAgreesWithRecords
<1> QED BY <1>1, SyncKeepsInv, PTL

(* What is on record as complete is in all the stores.                     *)
THEOREM SyncCompletesStored == Spec => []CompleteIsStored
<1>1. SyncInv => CompleteIsStored
  BY DEF SyncInv, CompleteIsStored
<1> QED BY <1>1, SyncKeepsInv, PTL

(* Calls of one content do not all take another for the original: a call   *)
(* answered "duplicate" has no document, so the one it names was not       *)
(* answered "duplicate" itself.                                            *)
THEOREM SyncSomebodyIngests == Spec => []SomebodyIngests
<1>1. SyncInv => SomebodyIngests
  <2> SUFFICES ASSUME SyncInv, NEW c \in Call,
                      \A d \in Call : Content[d] = Content[c] =>
                         answer[d] \in {"completed", "duplicate"}
               PROVE  \E d \in Call : Content[d] = Content[c] /\ answer[d] = "completed"
    BY DEF SomebodyIngests
  <2>1. CASE answer[c] = "completed"
    BY <2>1
  <2>2. CASE answer[c] = "duplicate"
    <3>1. PICK d \in Call : Content[d] = Content[c] /\ docs[d] # "absent"
      BY <2>2 DEF SyncInv, AnswerAgrees, SameContent
    <3>2. answer[d] # "duplicate"
      BY <3>1 DEF SyncInv, AnswerAgrees
    <3> QED BY <3>1, <3>2
  <2> QED BY <2>1, <2>2
<1> QED BY <1>1, SyncKeepsInv, PTL

-----------------------------------------------------------------------------
(* The contents on record and retrievable, before and after steps that     *)
(* leave the records alone.                                                *)
LEMMA SameRecords ==
  ASSUME \A d \in Call : (docs'[d] = "absent" <=> docs[d] = "absent"),
         \A d \in Call : (FullyStored(d)' <=> FullyStored(d))
  PROVE  Known' = Known /\ Available' = Available
BY DEF Known, Available

(* Every step of the calls is a step of DocumentIntake or changes nothing  *)
(* there: the insertion registers the content, the last upsert makes it    *)
(* available.                                                              *)
LEMMA NextIsIntakeNext ==
  ASSUME SyncInv, [Next]_vars PROVE [Intake!IntakeNext]_(Intake!intakeVars)
<1> USE SyncAssumption
<1>1. ASSUME NEW c \in Call, CallStep(c), UNCHANGED docs, UNCHANGED answer,
             \A d \in Call : (FullyStored(d)' <=> FullyStored(d))
      PROVE  UNCHANGED Intake!intakeVars
  BY <1>1, SameRecords DEF Intake!intakeVars
<1>2. ASSUME NEW c \in Call, CallStep(c) PROVE [Intake!IntakeNext]_(Intake!intakeVars)
  <2>0. CallKnows(c) /\ TypeOK /\ (pc[c] # "end" => Intake!UnderWay(c))
    BY DEF SyncInv, CallKnows, Intake!UnderWay
  <2>1. CASE UNCHANGED <<docs, answer, chunks, graph, s3>>
    BY <1>1, <1>2, <2>1 DEF FullyStored
  <2>2. CASE UploadFile(c) \/ InsertChunks(c) \/ UpsertChunks(c) \/ Raise(c)
    <3>1. UNCHANGED <<docs, answer>>
      BY <2>2 DEF UploadFile, InsertChunks, UpsertChunks, Raise
    <3>2. FullyStored(c)' <=> FullyStored(c)
      BY <2>0, <2>2 DEF TypeOK, UploadFile, InsertChunks, UpsertChunks, Raise, Step,
         FullyStored, CallKnows, ContentKnown, DocumentKnown, Unrecorded, InProgress
    <3>3. \A d \in Call : (FullyStored(d)' <=> FullyStored(d))
      BY <3>2, <1>2, StepIsLocal DEF SyncInv, FullyStored
    <3> QED BY <1>1, <1>2, <3>1, <3>3
  <2>3. CASE InsertDocument(c)
    <3>1. Known' = Known \cup {Content[c]}
      BY <2>0, <2>3 DEF InsertDocument, TypeOK, Known
    <3>2. Available' = Available /\ UNCHANGED answer
      BY <2>3 DEF InsertDocument, Available, FullyStored
    <3>3. Intake!Register(c)
      BY <2>0, <2>3, <3>1, <3>2 DEF Intake!Register, InsertDocument, Step
    <3> QED BY <3>3 DEF Intake!IntakeNext
  <2>4. CASE UpsertDocumentNode(c)
    <3>1. FullyStored(c)'
      BY <2>0, <2>4 DEF UpsertDocumentNode, Step, TypeOK, FullyStored, CallKnows, ContentKnown,
         InProgress
    <3>2. \A d \in Call : d # c => (FullyStored(d)' <=> FullyStored(d))
      BY <1>2, StepIsLocal DEF SyncInv, FullyStored
    <3>3. Available' = Available \cup {Content[c]}
      BY <3>1, <3>2 DEF Available
    <3>4. Content[c] \in Known
      BY <2>0, <2>4 DEF UpsertDocumentNode, Step, Known, CallKnows, DocumentKnown, InProgress
    <3>5. Known' = Known /\ UNCHANGED answer
      BY <2>4 DEF UpsertDocumentNode, Known
    <3>6. Intake!Fill(c)
      BY <2>0, <2>4, <3>3, <3>4, <3>5 DEF Intake!Fill, UpsertDocumentNode, Step
    <3> QED BY <3>6 DEF Intake!IntakeNext
  <2>5. CASE NoChunks(c) \/ CompleteDocument(c) \/ FailDocument(c)
    <3>1. \A d \in Call : (docs'[d] = "absent" <=> docs[d] = "absent")
      BY <2>0, <2>5 DEF TypeOK, NoChunks, CompleteDocument, FailDocument, UpdateDocumentStatus
    <3>2. UNCHANGED <<answer, chunks, graph, s3>>
      BY <2>5 DEF NoChunks, CompleteDocument, FailDocument
    <3> QED BY <3>1, <3>2, SameRecords DEF Intake!intakeVars, FullyStored
  <2>6. CASE TellDuplicate(c) \/ TellFailed(c) \/ TellCompleted(c) \/ TellError(c) \/ Escape(c)
    <3>1. UNCHANGED <<docs, chunks, graph, s3>>
      BY <2>6 DEF TellDuplicate, TellFailed, TellCompleted, TellError, Escape, Tell
    <3>2. Known' = Known /\ Available' = Available
      BY <3>1, SameRecords DEF FullyStored
    <3>3. PICK a \in {"completed", "duplicate", "failed", "raised"} :
            answer' = [answer EXCEPT ![c] = a]
            /\ (a = "completed" => pc[c] = "tell_completed")
            /\ (a = "duplicate" => pc[c] = "tell_duplicate")
      BY <2>6 DEF TellDuplicate, TellFailed, TellCompleted, TellError, Escape, Tell, Step
    <3>4. a = "completed" => Content[c] \in Available
      <4>1. pc[c] = "tell_completed" => FullyStored(c)
        BY <2>0 DEF SyncInv, RecordsAgree, CallKnows, DocumentKnown
      <4> QED BY <3>3, <4>1 DEF Available
    <3>5. a = "duplicate" => Content[c] \in Known
      <4>1. pc[c] = "tell_duplicate" => found[c] \in SameContent(c)
        BY <2>0 DEF CallKnows
      <4> QED BY <3>3, <4>1 DEF Known, SameContent
    <3>6. pc[c] # "end"
      BY <2>6 DEF TellDuplicate, TellFailed, TellCompleted, TellError, Escape, Tell, Step, Except
    <3>7. Intake!Answer(c)
      BY <2>0, <3>2, <3>3, <3>4, <3>5, <3>6 DEF Intake!Answer
    <3> QED BY <3>7 DEF Intake!IntakeNext
  <2>7. CASE CreateJob(c) \/ LookUp(c) \/ CloseDuplicate(c) \/ Convert(c) \/ NoChunksJob(c)
               \/ CompleteJob(c) \/ FailJob(c) \/ Die(c)
    BY <2>1, <2>7 DEF CreateJob, LookUp, CloseDuplicate, Convert, NoChunksJob, CompleteJob,
       FailJob, Die
  <2> QED BY <1>2, <2>2, <2>3, <2>4, <2>5, <2>6, <2>7 DEF CallStep, TryStep
<1>3. CASE UNCHANGED vars
  BY <1>3, SameRecords DEF vars, Intake!intakeVars, FullyStored
<1> QED BY <1>2, <1>3 DEF Next

(* run_ingestion_pipeline() keeps the promise of DocumentIntake to all of  *)
(* its callers, whatever raises and whoever dies.                          *)
THEOREM SyncImplementsIntake == Spec => ImplementsIntake
<1>1. Init => Intake!IntakeInit
  BY SyncAssumption DEF Init, Intake!IntakeInit, Contents, Known, Available, FullyStored
<1>2. SyncInv /\ [Next]_vars => [Intake!IntakeNext]_(Intake!intakeVars)
  BY NextIsIntakeNext
<1> QED BY <1>1, <1>2, SyncKeepsInv, PTL DEF Spec, ImplementsIntake, Intake!IntakeSpec
=============================================================================
