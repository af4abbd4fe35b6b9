------------------------- MODULE EntityGraph_proofs -------------------------
(***************************************************************************)
(* Proofs about EntityGraph, for any number of documents, attempts and     *)
(* faults and whatever the LLM finds in a chunk.                           *)
(*                                                                         *)
(* A node carries no trace of the mentions and relations that were made    *)
(* and deleted, so the induction speaks of the extraction a node comes     *)
(* from: its id leads back to it, since every attempt names its entities   *)
(* anew and what an attempt has found is never changed.                    *)
(***************************************************************************)
EXTENDS EntityGraph, SequenceTheorems, TLAPS

(* The attempt in which an entity was extracted.                           *)
TaskOf(e) == <<e[1], e[2]>>

(* What the handlers of a document know, and where they are.               *)
Tasks ==
  /\ task \in [Task -> [at : At, found : {Idle.found} \cup Extraction,
                        next : Nat, relating : SUBSET (Name \X Name)]]
  /\ \A t \in Task :
       /\ task[t].relating \subseteq task[t].found.related
       /\ task[t].at \in {"upsert", "relate", "link", "embed"} =>
            task[t].next \in 1..Len(Entities(t))
  /\ faults \in 0..MaxFaults

(* An attempt begins when the one before it is past publishing.            *)
InTurn ==
  \A t \in Task :
    t[2] < MaxAttempts /\ task[<<t[1], t[2] + 1>>].at # "absent" =>
      task[t].at \in {"failed", "postprocess", "embed", "dedupe", "done"}

(* Every node is an entity of an attempt that has stored what it found,    *)
(* under the name it was found with.                                       *)
Named ==
  \A e \in DOMAIN node :
    /\ e \in Id
    /\ node[e] \in [name : Name, type : Type \cup {""}]
    /\ task[TaskOf(e)].at \notin {"absent", "extract", "upsert"}
    /\ e[3] \in DOMAIN Entities(TaskOf(e))
    /\ node[e].name = Entities(TaskOf(e))[e[3]].name

Edges ==
  /\ mention \subseteq (DOMAIN node) \X Doc
  /\ relation \subseteq (DOMAIN node) \X (DOMAIN node)
  /\ linked \subseteq Name \X Doc

(* The two ways in which an entity is in use.                              *)
Related(e) ==
  \E r \in task[TaskOf(e)].found.related :
    e \in {NameToId(TaskOf(e), r[1]), NameToId(TaskOf(e), r[2])}

Mentioned(e) ==
  \E l \in linked : l[1] = Entities(TaskOf(e))[e[3]].name

(* What links an entity comes from its own extraction, or from a mention   *)
(* of its name; and an entity that was stored is there or was in use.      *)
InUse ==
  /\ \A q \in relation : Related(q[1]) /\ Related(q[2])
  /\ \A m \in mention : Mentioned(m[1])
  /\ \A t \in Task : task[t].at \in {"relate", "link"} =>
       \A i \in DOMAIN Entities(t) :
         LET e == IdOf(t, i) IN e \in DOMAIN node \/ Related(e) \/ Mentioned(e)
  /\ \A e \in missed :
       /\ e \in Id /\ task[TaskOf(e)].at \notin {"absent", "extract"}
       /\ Related(e) \/ Mentioned(e)

GraphInv == Tasks /\ InTurn /\ Named /\ Edges /\ InUse /\ MentionsSurvive

-----------------------------------------------------------------------------
LEMMA BoundsType == MaxAttempts \in Nat \ {0} /\ MaxFaults \in Nat
BY EntityGraphAssumption

(* What an attempt has found.                                              *)
LEMMA FoundType ==
  ASSUME Tasks, NEW t \in Task
  PROVE  /\ Entities(t) \in Seq([name : Name, type : Type])
         /\ DOMAIN Entities(t) = 1..Len(Entities(t)) /\ Len(Entities(t)) \in Nat
         /\ DOMAIN Entities(t) \subseteq Nat
         /\ \A i \in DOMAIN Entities(t) : Entities(t)[i] \in [name : Name, type : Type]
         /\ task[t].found.related \subseteq Name \X Name
<1>1. task[t].found \in {Idle.found} \cup Extraction
  BY DEF Tasks
<1>2. Entities(t) \in Seq([name : Name, type : Type])
  <2>1. CASE task[t].found = Idle.found
    <3>1. Entities(t) = << >>
      BY <2>1 DEF Idle, Entities
    <3> QED BY <3>1
  <2>2. CASE task[t].found \in Extraction
    BY <2>2, EntityGraphAssumption DEF Entities
  <2> QED BY <1>1, <2>1, <2>2
<1>3. task[t].found.related \subseteq Name \X Name
  <2>1. CASE task[t].found = Idle.found
    BY <2>1 DEF Idle
  <2>2. CASE task[t].found \in Extraction
    BY <2>2, EntityGraphAssumption
  <2> QED BY <1>1, <2>1, <2>2
<1>4. DOMAIN Entities(t) = 1..Len(Entities(t)) /\ Len(Entities(t)) \in Nat
  BY <1>2, LenProperties
<1>5. \A i \in DOMAIN Entities(t) : Entities(t)[i] \in [name : Name, type : Type]
  BY <1>2, <1>4, ElementOfSeq
<1> QED
  BY <1>2, <1>3, <1>4, <1>5

(* Ids lead back to the attempt that made them.                            *)
LEMMA IdsOfTask ==
  ASSUME NEW t \in Task, NEW i \in Nat
  PROVE  /\ IdOf(t, i) \in Id /\ TaskOf(IdOf(t, i)) = t /\ IdOf(t, i)[3] = i
         /\ t = <<t[1], t[2]>> /\ t[1] \in Doc /\ t[2] \in Attempt
BY DEF Task, IdOf, TaskOf, Id

LEMMA TaskOfId ==
  ASSUME NEW e \in Id
  PROVE  /\ TaskOf(e) \in Task /\ e[3] \in Nat /\ e = IdOf(TaskOf(e), e[3])
BY DEF Task, IdOf, TaskOf, Id

(* The attempt that follows another.                                       *)
LEMMA NextAttempt ==
  ASSUME NEW t \in Task, t[2] < MaxAttempts
  PROVE  <<t[1], t[2] + 1>> \in Task /\ <<t[1], t[2] + 1>> # t
<1>1. t = <<t[1], t[2]>> /\ t[1] \in Doc /\ t[2] \in 1..MaxAttempts
  BY DEF Task, Attempt
<1>2. t[2] + 1 \in 1..MaxAttempts /\ t[2] + 1 # t[2]
  BY <1>1, BoundsType
<1> QED
  BY <1>1, <1>2 DEF Task, Attempt

-----------------------------------------------------------------------------
(* How a step moves the handlers: forward, keeping what they have found.   *)
Forward(t) ==
  \A u \in Task :
    /\ task[u].at \notin {"absent", "extract"} =>
         /\ task'[u].found = task[u].found
         /\ task'[u].at \notin {"absent", "extract"}
    /\ task[u].at \notin {"absent", "extract", "upsert"} =>
         task'[u].at \notin {"absent", "extract", "upsert"}
    /\ task'[u].at \in {"relate", "link"} =>
         task[u].at \in {"relate", "link"} \/ (u = t /\ task[t].at = "upsert")

(* A handler that goes on without a loop.                                  *)
LEMMA GotoForward ==
  ASSUME Tasks, InTurn, NEW t \in Task, NEW from \in At \ {"absent", "extract"},
         NEW to \in At \ {"absent", "extract", "upsert"}, Goto(t, from, to),
         to \in {"relate", "link"} => from = "upsert",
         to \in {"relate", "link", "embed"} => Entities(t) # <<>>,
         from \in {"failed", "postprocess", "embed", "dedupe", "done"} =>
           to \in {"failed", "postprocess", "embed", "dedupe", "done"},
         faults' \in 0..MaxFaults
  PROVE  Tasks' /\ InTurn' /\ Forward(t)
<1>1. /\ \A u \in Task : u # t => task'[u] = task[u]
      /\ task'[t].found = task[t].found /\ task'[t].relating = task[t].relating
      /\ task'[t].at = to /\ task'[t].next = 1 /\ task[t].at = from
  BY DEF Goto, Tasks
<1>2. task' \in [Task -> [at : At, found : {Idle.found} \cup Extraction,
                          next : Nat, relating : SUBSET (Name \X Name)]]
  BY DEF Goto, Tasks
<1>3. \A u \in Task : Entities(u)' = Entities(u)
  BY <1>1 DEF Entities
<1>4. Entities(t) # <<>> => 1 \in 1..Len(Entities(t))
  BY FoundType
<1>5. Tasks'
  BY <1>1, <1>2, <1>3, <1>4 DEF Tasks
<1>6. InTurn'
  BY <1>1, NextAttempt DEF InTurn
<1>7. Forward(t)
  BY <1>1 DEF Forward
<1> QED
  BY <1>5, <1>6, <1>7

(* A handler in a loop over its entities.                                  *)
LEMMA NextEntityForward ==
  ASSUME Tasks, InTurn, NEW t \in Task,
         NEW at, NEW after,
         <<at, after>> \in {<<"link", "publish">>, <<"embed", "dedupe">>},
         NextEntity(t, at, after), faults' = faults
  PROVE  /\ Tasks' /\ InTurn' /\ Forward(t)
         /\ task[t].next \in DOMAIN Entities(t)
<1>1. /\ \A u \in Task : u # t => task'[u] = task[u]
      /\ task'[t].found = task[t].found /\ task'[t].relating = task[t].relating
      /\ task[t].at = at /\ task'[t].at = (IF Last(t) THEN after ELSE at)
      /\ task'[t].next = (IF Last(t) THEN 1 ELSE task[t].next + 1)
  BY DEF NextEntity, Tasks
<1>2. task' \in [Task -> [at : At, found : {Idle.found} \cup Extraction,
                          next : Nat, relating : SUBSET (Name \X Name)]]
  <2>1. task[t].next + 1 \in Nat /\ after \in At
    BY DEF Tasks, At
  <2> QED
    BY <2>1 DEF NextEntity, Tasks
<1>3. \A u \in Task : Entities(u)' = Entities(u)
  BY <1>1 DEF Entities
<1>4. /\ task[t].next \in 1..Len(Entities(t)) /\ Len(Entities(t)) \in Nat
      /\ DOMAIN Entities(t) = 1..Len(Entities(t))
  BY <1>1, FoundType DEF Tasks
<1>5. ~Last(t) => task[t].next + 1 \in 1..Len(Entities(t))
  BY <1>4 DEF Last
<1>6. Tasks'
  BY <1>1, <1>2, <1>3, <1>5 DEF Tasks
<1>7. InTurn'
  BY <1>1, NextAttempt DEF InTurn
<1>8. Forward(t)
  BY <1>1 DEF Forward
<1> QED
  BY <1>4, <1>6, <1>7, <1>8

(* The steps of the handlers, one by one, on the handlers.                 *)
LEMMA ExtractForward ==
  ASSUME Tasks, InTurn, NEW t \in Task, Extract(t)
  PROVE  Tasks' /\ InTurn' /\ Forward(t)
<1>1. PICK x \in Extraction :
        task' = [task EXCEPT ![t] =
                   [at |-> IF x.entities = <<>> THEN "publish" ELSE "upsert",
                    found |-> x, next |-> 1, relating |-> x.related]]
  BY DEF Extract
<1>2. x.related \subseteq Name \X Name /\ x.entities \in Seq([name : Name, type : Type])
  BY EntityGraphAssumption
<1>3. x.entities # <<>> => 1 \in 1..Len(x.entities)
  BY <1>2, LenProperties, EmptySeq
<1>4. /\ \A u \in Task : u # t => task'[u] = task[u]
      /\ task'[t].found = x /\ task'[t].relating = x.related /\ task'[t].next = 1
      /\ task'[t].at = (IF x.entities = <<>> THEN "publish" ELSE "upsert")
      /\ task[t].at = "extract"
  BY <1>1 DEF Extract, Tasks
<1>5. task' \in [Task -> [at : At, found : {Idle.found} \cup Extraction,
                          next : Nat, relating : SUBSET (Name \X Name)]]
  BY <1>1, <1>2 DEF Tasks, At
<1>6. /\ Entities(t)' = x.entities
      /\ \A u \in Task : u # t => Entities(u)' = Entities(u)
  BY <1>4 DEF Entities
<1>7. Tasks'
  BY <1>3, <1>4, <1>5, <1>6 DEF Tasks, Extract
<1>8. InTurn'
  BY <1>4, NextAttempt DEF InTurn
<1>9. Forward(t)
  BY <1>4 DEF Forward
<1> QED
  BY <1>7, <1>8, <1>9

LEMMA RelateForward ==
  ASSUME Tasks, InTurn, NEW t \in Task, UpsertRelationship(t)
  PROVE  Tasks' /\ InTurn' /\ Forward(t)
<1>1. PICK r \in task[t].relating :
        task' = [task EXCEPT ![t].relating = task[t].relating \ {r},
                             ![t].at = IF task[t].relating \ {r} = {} THEN "link" ELSE @]
  BY DEF UpsertRelationship
<1>2. /\ \A u \in Task : u # t => task'[u] = task[u]
      /\ task'[t].found = task[t].found /\ task'[t].next = task[t].next
      /\ task'[t].relating = task[t].relating \ {r}
      /\ task[t].at = "relate" /\ task'[t].at \in {"relate", "link"}
  BY <1>1 DEF UpsertRelationship, Tasks
<1>3. task' \in [Task -> [at : At, found : {Idle.found} \cup Extraction,
                          next : Nat, relating : SUBSET (Name \X Name)]]
  <2>1. task[t].relating \ {r} \in SUBSET (Name \X Name) /\ "link" \in At
    BY DEF Tasks, At
  <2> QED
    BY <1>1, <2>1 DEF Tasks
<1>4. \A u \in Task : Entities(u)' = Entities(u)
  BY <1>2 DEF Entities
<1>5. Tasks'
  BY <1>2, <1>3, <1>4 DEF Tasks, UpsertRelationship
<1>6. InTurn'
  BY <1>2, NextAttempt DEF InTurn
<1>7. Forward(t)
  BY <1>2 DEF Forward
<1> QED
  BY <1>5, <1>6, <1>7

(* The next attempt has not begun: this one is not past publishing.        *)
LEMMA ExtractAgainForward ==
  ASSUME Tasks, InTurn, NEW t \in Task, ExtractAgain(t)
  PROVE  Tasks' /\ InTurn' /\ Forward(t)
<1> DEFINE u == <<t[1], t[2] + 1>>
<1>1. u \in Task /\ u # t
  BY NextAttempt DEF ExtractAgain
<1>2. task[t].at \in {"upsert", "relate", "link", "publish"} /\ task[u].at = "absent"
  BY DEF ExtractAgain, InTurn
<1>3. PICK at \in {"failed", "postprocess"} :
        task' = [task EXCEPT ![t].at = at, ![t].next = 1, ![u].at = "extract"]
  BY DEF ExtractAgain
<1> HIDE DEF u
<1>4. /\ \A v \in Task : v # t /\ v # u => task'[v] = task[v]
      /\ \A v \in Task : task'[v].found = task[v].found /\ task'[v].relating = task[v].relating
      /\ task'[t].at = at /\ task'[u].at = "extract"
  BY <1>1, <1>3 DEF Tasks
<1>5. task' \in [Task -> [at : At, found : {Idle.found} \cup Extraction,
                          next : Nat, relating : SUBSET (Name \X Name)]]
  <2>1. at \in At /\ "extract" \in At
    BY DEF At
  <2>2. \A v \in Task : task'[v] \in [at : At, found : {Idle.found} \cup Extraction,
                                      next : Nat, relating : SUBSET (Name \X Name)]
    BY <1>1, <1>3, <2>1 DEF Tasks
  <2> QED
    BY <1>3, <2>2 DEF Tasks
<1>6. faults' \in 0..MaxFaults
  BY BoundsType DEF ExtractAgain, Tasks
<1>7. \A v \in Task : Entities(v)' = Entities(v)
  BY <1>4 DEF Entities
<1>8. Tasks'
  BY <1>4, <1>5, <1>6, <1>7 DEF Tasks
<1>9. InTurn'
  <2> SUFFICES ASSUME NEW v \in Task, v[2] < MaxAttempts,
                      task'[<<v[1], v[2] + 1>>].at # "absent"
               PROVE  task'[v].at \in {"failed", "postprocess", "embed", "dedupe", "done"}
    BY DEF InTurn
  <2> DEFINE w == <<v[1], v[2] + 1>>
  <2>1. w \in Task /\ w # v
    BY NextAttempt
  <2>2. CASE v = t
    BY <1>3, <1>4, <2>2
  <2>3. CASE v # t
    <3>1. w # u
      <4>1. /\ v = <<v[1], v[2]>> /\ v[2] \in Nat /\ t = <<t[1], t[2]>> /\ t[2] \in Nat
        BY DEF Task, Attempt
      <4> QED BY <2>3, <4>1 DEF u
    <3>2. task[w].at # "absent"
      BY <1>2, <1>4, <2>1, <3>1
    <3>3. task[v].at \in {"failed", "postprocess", "embed", "dedupe", "done"}
      BY <3>2 DEF InTurn
    <3>4. v # u
      BY <1>2, <3>3
    <3> QED BY <1>4, <2>3, <3>3, <3>4
  <2> QED BY <2>2, <2>3
<1>10. Forward(t)
  BY <1>2, <1>4 DEF Forward
<1> QED
  BY <1>8, <1>9, <1>10

LEMMA StepForward ==
  ASSUME Tasks, InTurn, NEW t \in Task,
         \/ Extract(t) \/ UpsertEntitiesBatch(t) \/ UpsertRelationship(t)
         \/ CreateEntityChunkLinks(t) \/ Publish(t)
         \/ Postprocess(t) \/ UpsertEntity(t) \/ DeduplicateEntities(t)
         \/ ExtractAgain(t) \/ PostprocessAgain(t)
  PROVE  Tasks' /\ InTurn' /\ Forward(t)
<1>1. CASE UpsertEntitiesBatch(t)
  <2>1. Entities(t) # <<>>
    <3>1. task[t].at = "upsert"
      BY <1>1 DEF UpsertEntitiesBatch, Goto
    <3>2. task[t].next \in 1..Len(Entities(t))
      BY <3>1 DEF Tasks
    <3> QED BY <3>2, EmptySeq
  <2> QED
    BY <1>1, <2>1, GotoForward DEF UpsertEntitiesBatch, At, Tasks
<1>2. CASE Publish(t)
  BY <1>2, GotoForward DEF Publish, At, Tasks
<1>3. CASE Postprocess(t)
  BY <1>3, GotoForward DEF Postprocess, At, Tasks
<1>4. CASE DeduplicateEntities(t)
  BY <1>4, GotoForward DEF DeduplicateEntities, At, Tasks
<1>5. CASE PostprocessAgain(t)
  <2>1. faults' \in 0..MaxFaults
    BY <1>5, BoundsType DEF PostprocessAgain, Tasks
  <2> QED
    <3>1. PICK at \in {"embed", "dedupe", "done"} : Goto(t, at, "postprocess")
      BY <1>5 DEF PostprocessAgain
    <3> QED
      BY <2>1, <3>1, GotoForward DEF At
<1>6. CASE CreateEntityChunkLinks(t)
  <2>1. NextEntity(t, "link", "publish") /\ faults' = faults
    BY <1>6 DEF CreateEntityChunkLinks
  <2> QED
    BY <2>1, NextEntityForward
<1>7. CASE UpsertEntity(t)
  <2>1. NextEntity(t, "embed", "dedupe") /\ faults' = faults
    BY <1>7 DEF UpsertEntity
  <2> QED
    BY <2>1, NextEntityForward
<1>8. CASE Extract(t)
  BY <1>8, ExtractForward
<1>9. CASE UpsertRelationship(t)
  BY <1>9, RelateForward
<1>10. CASE ExtractAgain(t)
  BY <1>10, ExtractAgainForward
<1> QED
  BY <1>1, <1>2, <1>3, <1>4, <1>5, <1>6, <1>7, <1>8, <1>9, <1>10

-----------------------------------------------------------------------------
(* What is said of an extraction stays true once it is made.               *)
LEMMA UseIsKept ==
  ASSUME NEW t, Forward(t), linked \subseteq linked', NEW e \in Id,
         task[TaskOf(e)].at \notin {"absent", "extract"}
  PROVE  /\ Entities(TaskOf(e))' = Entities(TaskOf(e))
         /\ Related(e) => Related(e)'
         /\ Mentioned(e) => Mentioned(e)'
         /\ task'[TaskOf(e)].at \notin {"absent", "extract"}
<1> DEFINE u == TaskOf(e)
<1>1. u \in Task
  BY TaskOfId
<1>2. task'[u].found = task[u].found /\ task'[u].at \notin {"absent", "extract"}
  BY <1>1 DEF Forward
<1>3. Entities(u)' = Entities(u)
  BY <1>2 DEF Entities
<1>4. \A name : NameToId(u, name)' = NameToId(u, name)
  BY <1>3 DEF NameToId
<1>5. Related(e) => Related(e)'
  BY <1>2, <1>4 DEF Related
<1>6. Mentioned(e) => Mentioned(e)'
  BY <1>3 DEF Mentioned
<1> QED
  BY <1>2, <1>3, <1>5, <1>6

(* An entity that was stored and is not linked yet is there, or was in use *)
(* when another document's merge deleted it.                               *)
LEMMA StoredStays ==
  ASSUME GraphInv, NEW t \in Task, Forward(t), linked \subseteq linked',
         \A e \in DOMAIN node : e \in DOMAIN node' \/ Related(e) \/ Mentioned(e),
         task[t].at = "upsert" /\ task'[t].at \in {"relate", "link"} =>
           \A i \in DOMAIN Entities(t) : IdOf(t, i) \in DOMAIN node',
         NEW u \in Task, task'[u].at \in {"relate", "link"},
         NEW i \in DOMAIN Entities(u)'
  PROVE  \/ IdOf(u, i) \in DOMAIN node'
         \/ Related(IdOf(u, i))' \/ Mentioned(IdOf(u, i))'
<1>1. task[u].at \in {"relate", "link"} \/ (u = t /\ task[t].at = "upsert")
  BY DEF Forward
<1>2. Entities(u)' = Entities(u)
  BY <1>1 DEF Forward, Entities
<1>3. IdOf(u, i) \in Id /\ TaskOf(IdOf(u, i)) = u
  <2>1. i \in DOMAIN Entities(u)
    BY <1>2
  <2>2. i \in Nat
    BY <2>1, FoundType DEF GraphInv
  <2> QED BY <2>2, IdsOfTask
<1>4. CASE u = t /\ task[t].at = "upsert"
  BY <1>2, <1>4
<1>5. CASE task[u].at \in {"relate", "link"}
  <2>1. IdOf(u, i) \in DOMAIN node \/ Related(IdOf(u, i)) \/ Mentioned(IdOf(u, i))
    BY <1>2, <1>5 DEF GraphInv, InUse
  <2> QED
    BY <1>3, <1>5, <2>1, UseIsKept
<1> QED BY <1>1, <1>4, <1>5

(* A step that adds no link and deletes nothing, but may add nodes or set  *)
(* the types of some: it keeps every name.                                 *)
LEMMA NodesKeepGraph ==
  ASSUME GraphInv, NEW t \in Task, Forward(t),
         UNCHANGED <<mention, relation, linked, missed>>,
         DOMAIN node \subseteq DOMAIN node',
         \A e \in DOMAIN node : /\ node'[e] \in [name : Name, type : Type \cup {""}]
                                /\ node'[e].name = node[e].name,
         \A e \in DOMAIN node' : e \notin DOMAIN node =>
           /\ e \in Id /\ TaskOf(e) = t
           /\ node'[e] \in [name : Name, type : Type \cup {""}]
           /\ task'[t].at \notin {"absent", "extract", "upsert"}
           /\ task'[t].found = task[t].found
           /\ e[3] \in DOMAIN Entities(t)
           /\ node'[e].name = Entities(t)[e[3]].name,
         task[t].at = "upsert" /\ task'[t].at \in {"relate", "link"} =>
           \A i \in DOMAIN Entities(t) : IdOf(t, i) \in DOMAIN node'
  PROVE  Named' /\ Edges' /\ InUse' /\ MentionsSurvive'
<1>1. Named'
  <2> SUFFICES ASSUME NEW e \in DOMAIN node'
               PROVE  /\ e \in Id
                      /\ node'[e] \in [name : Name, type : Type \cup {""}]
                      /\ task'[TaskOf(e)].at \notin {"absent", "extract", "upsert"}
                      /\ e[3] \in DOMAIN Entities(TaskOf(e))'
                      /\ node'[e].name = Entities(TaskOf(e))'[e[3]].name
    BY DEF Named
  <2>1. CASE e \in DOMAIN node
    <3>1. e \in Id /\ task[TaskOf(e)].at \notin {"absent", "extract", "upsert"}
      BY <2>1 DEF GraphInv, Named
    <3>2. task'[TaskOf(e)].at \notin {"absent", "extract", "upsert"}
      BY <3>1, TaskOfId DEF Forward
    <3>3. Entities(TaskOf(e))' = Entities(TaskOf(e))
      BY <3>1, UseIsKept
    <3> QED
      BY <2>1, <3>1, <3>2, <3>3 DEF GraphInv, Named
  <2>2. CASE e \notin DOMAIN node
    <3>1. Entities(TaskOf(e))' = Entities(t)
      BY <2>2 DEF Entities
    <3> QED
      BY <2>2, <3>1
  <2> QED BY <2>1, <2>2
<1>2. Edges'
  BY DEF GraphInv, Edges
<1>3. \A e \in DOMAIN node : /\ e \in Id
                             /\ Related(e) => Related(e)'
                             /\ Mentioned(e) => Mentioned(e)'
  BY UseIsKept DEF GraphInv, Named
<1>4. ASSUME NEW u \in Task, task'[u].at \in {"relate", "link"},
             NEW i \in DOMAIN Entities(u)'
      PROVE  \/ IdOf(u, i) \in DOMAIN node'
             \/ Related(IdOf(u, i))' \/ Mentioned(IdOf(u, i))'
  BY <1>4, StoredStays
<1>5. \A e \in missed : /\ e \in Id /\ task'[TaskOf(e)].at \notin {"absent", "extract"}
                        /\ Related(e)' \/ Mentioned(e)'
  BY UseIsKept DEF GraphInv, InUse
<1>6. InUse'
  BY <1>3, <1>4, <1>5 DEF GraphInv, InUse, Edges
<1>7. MentionsSurvive'
  <2> SUFFICES ASSUME NEW l \in linked
               PROVE  \E m \in mention : node'[m[1]].name = l[1] /\ m[2] = l[2]
    BY DEF MentionsSurvive
  <2>1. PICK m \in mention : node[m[1]].name = l[1] /\ m[2] = l[2]
    BY DEF GraphInv, MentionsSurvive
  <2>2. m[1] \in DOMAIN node
    BY DEF GraphInv, Edges
  <2> QED
    BY <2>1, <2>2
<1> QED
  BY <1>1, <1>2, <1>6, <1>7

(* The three steps that add a node, a relation or a mention.               *)
LEMMA UpsertBatchKeepsGraph ==
  ASSUME GraphInv, NEW t \in Task, Forward(t), UpsertEntitiesBatch(t)
  PROVE  Named' /\ Edges' /\ InUse' /\ MentionsSurvive'
<1> DEFINE new == {IdOf(t, i) : i \in DOMAIN Entities(t)}
<1>1. /\ task[t].at = "upsert" /\ task'[t].at \in {"relate", "link"}
      /\ task'[t].found = task[t].found
      /\ node' = [e \in DOMAIN node \cup new |->
                    IF e \in new THEN Entities(t)[e[3]] ELSE node[e]]
      /\ UNCHANGED <<mention, relation, linked, missed>>
  BY DEF UpsertEntitiesBatch, Goto, GraphInv, Tasks
<1>2. ASSUME NEW i \in DOMAIN Entities(t)
      PROVE  /\ IdOf(t, i) \in Id /\ TaskOf(IdOf(t, i)) = t /\ IdOf(t, i)[3] = i
             /\ Entities(t)[i] \in [name : Name, type : Type]
  <2>1. i \in Nat /\ Entities(t)[i] \in [name : Name, type : Type]
    BY FoundType DEF GraphInv
  <2> QED BY <2>1, IdsOfTask
<1>3. ASSUME NEW e \in DOMAIN node PROVE e \notin new
  <2>1. task[TaskOf(e)].at # "upsert"
    BY DEF GraphInv, Named
  <2> QED
    BY <1>1, <1>2, <2>1
<1>4. \A e \in new : /\ e \in Id /\ TaskOf(e) = t /\ e[3] \in DOMAIN Entities(t)
                     /\ node'[e] = Entities(t)[e[3]]
                     /\ node'[e] \in [name : Name, type : Type]
  BY <1>1, <1>2
<1>5. \A e \in DOMAIN node : node'[e] = node[e]
  BY <1>1, <1>3
<1>6. /\ DOMAIN node' = DOMAIN node \cup new
      /\ \A i \in DOMAIN Entities(t) : IdOf(t, i) \in DOMAIN node'
  BY <1>1
<1> HIDE DEF new
<1>7. /\ DOMAIN node \subseteq DOMAIN node'
      /\ \A e \in DOMAIN node : /\ node'[e] \in [name : Name, type : Type \cup {""}]
                                /\ node'[e].name = node[e].name
  BY <1>5, <1>6 DEF GraphInv, Named
<1>8. \A e \in DOMAIN node' : e \notin DOMAIN node =>
           /\ e \in Id /\ TaskOf(e) = t
           /\ node'[e] \in [name : Name, type : Type \cup {""}]
           /\ task'[t].at \notin {"absent", "extract", "upsert"}
           /\ task'[t].found = task[t].found
           /\ e[3] \in DOMAIN Entities(t)
           /\ node'[e].name = Entities(t)[e[3]].name
  BY <1>1, <1>4, <1>6
<1> QED
  BY <1>1, <1>6, <1>7, <1>8, NodesKeepGraph

(* The rewritten entity keeps the name that it was extracted with.         *)
LEMMA UpsertKeepsGraph ==
  ASSUME GraphInv, NEW t \in Task, Forward(t), UpsertEntity(t)
  PROVE  Named' /\ Edges' /\ InUse' /\ MentionsSurvive'
<1> DEFINE e == IdOf(t, task[t].next)
<1>1. /\ task[t].at = "embed" /\ task'[t].at \in {"embed", "dedupe"}
      /\ task'[t].found = task[t].found
      /\ node' = [x \in DOMAIN node \cup {e} |->
                    IF x = e THEN [name |-> Entity(t).name, type |-> ""] ELSE node[x]]
      /\ UNCHANGED <<mention, relation, linked, missed>>
  BY DEF UpsertEntity, NextEntity, GraphInv, Tasks
<1>2. /\ task[t].next \in DOMAIN Entities(t) /\ task[t].next \in Nat
      /\ Entity(t) = Entities(t)[task[t].next]
      /\ Entity(t).name \in Name
  BY <1>1, FoundType DEF GraphInv, Tasks, Entity
<1>3. e \in Id /\ TaskOf(e) = t /\ e[3] = task[t].next
  BY <1>2, IdsOfTask
<1>4. e \in DOMAIN node => node[e].name = Entity(t).name
  BY <1>2, <1>3 DEF GraphInv, Named
<1>5. /\ DOMAIN node' = DOMAIN node \cup {e}
      /\ node'[e] = [name |-> Entity(t).name, type |-> ""]
      /\ \A x \in DOMAIN node : x # e => node'[x] = node[x]
  BY <1>1
<1> HIDE DEF e
<1>6. /\ DOMAIN node \subseteq DOMAIN node'
      /\ \A x \in DOMAIN node : /\ node'[x] \in [name : Name, type : Type \cup {""}]
                                /\ node'[x].name = node[x].name
  <2>1. node'[e] \in [name : Name, type : Type \cup {""}] /\ node'[e].name = Entity(t).name
    <3>1. PICK x : x = node'[e]
      OBVIOUS
    <3>2. x = [name |-> Entity(t).name, type |-> ""]
      BY <1>5, <3>1, Zenon
    <3>3. x \in [name : Name, type : Type \cup {""}] /\ x.name = Entity(t).name
      BY <1>2, <3>2
    <3> QED BY <3>1, <3>3, Zenon
  <2>2. \A x \in DOMAIN node : node[x] \in [name : Name, type : Type \cup {""}]
    BY DEF GraphInv, Named
  <2> QED
    BY <1>4, <1>5, <2>1, <2>2
<1>7. \A x \in DOMAIN node' : x \notin DOMAIN node =>
           /\ x \in Id /\ TaskOf(x) = t
           /\ node'[x] \in [name : Name, type : Type \cup {""}]
           /\ task'[t].at \notin {"absent", "extract", "upsert"}
           /\ task'[t].found = task[t].found
           /\ x[3] \in DOMAIN Entities(t)
           /\ node'[x].name = Entities(t)[x[3]].name
  BY <1>1, <1>2, <1>3, <1>5
<1> QED
  BY <1>1, <1>6, <1>7, NodesKeepGraph

(* Steps that leave the graph alone.                                       *)
LEMMA QuietKeepsGraph ==
  ASSUME GraphInv, NEW t \in Task, Forward(t), UNCHANGED <<graph, linked, missed>>,
         task[t].at = "upsert" => task'[t].at \notin {"relate", "link"}
  PROVE  Named' /\ Edges' /\ InUse' /\ MentionsSurvive'
<1>1. /\ node' = node
      /\ UNCHANGED <<mention, relation, linked, missed>>
      /\ \A e \in DOMAIN node : node[e] \in [name : Name, type : Type \cup {""}]
  BY DEF graph, GraphInv, Named
<1> QED
  BY <1>1, NodesKeepGraph

(* A step that adds relations, mentions or missed entities to the graph,   *)
(* for entities that are in use for it.                                    *)
LEMMA LinksKeepGraph ==
  ASSUME GraphInv, NEW t \in Task, Forward(t), task[t].at \in {"relate", "link"},
         node' = node, linked \subseteq linked', linked' \subseteq Name \X Doc,
         mention \subseteq mention', missed \subseteq missed',
         \A q \in relation' : q \notin relation =>
           /\ q \in (DOMAIN node) \X (DOMAIN node)
           /\ Related(q[1]) /\ Related(q[2]),
         \A m \in mention' : m \notin mention =>
           /\ m \in (DOMAIN node) \X Doc
           /\ Mentioned(m[1])',
         \A e \in missed' : e \notin missed =>
           /\ e \in Id /\ task[TaskOf(e)].at \notin {"absent", "extract"}
           /\ Related(e) \/ Mentioned(e),
         \A l \in linked' : l \notin linked =>
           \E m \in mention' : node[m[1]].name = l[1] /\ m[2] = l[2]
  PROVE  Named' /\ Edges' /\ InUse' /\ MentionsSurvive'
<1>1. ASSUME NEW e \in DOMAIN node
      PROVE  /\ e \in Id
             /\ node[e] \in [name : Name, type : Type \cup {""}]
             /\ task'[TaskOf(e)].at \notin {"absent", "extract", "upsert"}
             /\ Entities(TaskOf(e))' = Entities(TaskOf(e))
             /\ e[3] \in DOMAIN Entities(TaskOf(e))
             /\ node[e].name = Entities(TaskOf(e))[e[3]].name
             /\ Related(e) => Related(e)'
             /\ Mentioned(e) => Mentioned(e)'
  <2>1. /\ e \in Id /\ task[TaskOf(e)].at \notin {"absent", "extract", "upsert"}
        /\ node[e] \in [name : Name, type : Type \cup {""}]
        /\ e[3] \in DOMAIN Entities(TaskOf(e))
        /\ node[e].name = Entities(TaskOf(e))[e[3]].name
    BY DEF GraphInv, Named
  <2>2. task'[TaskOf(e)].at \notin {"absent", "extract", "upsert"}
    BY <2>1, TaskOfId DEF Forward
  <2> QED BY <2>1, <2>2, UseIsKept
<1>2. Named'
  BY <1>1 DEF Named
<1>3. Edges'
  BY DEF GraphInv, Edges
<1>4. \A q \in relation' : Related(q[1])' /\ Related(q[2])'
  <2> SUFFICES ASSUME NEW q \in relation' PROVE Related(q[1])' /\ Related(q[2])'
    OBVIOUS
  <2>1. q \in (DOMAIN node) \X (DOMAIN node) /\ Related(q[1]) /\ Related(q[2])
    BY DEF GraphInv, Edges, InUse
  <2> QED BY <1>1, <2>1
<1>5. \A m \in mention' : Mentioned(m[1])'
  <2> SUFFICES ASSUME NEW m \in mention, Mentioned(m[1]) PROVE Mentioned(m[1])'
    BY DEF GraphInv, InUse
  <2>1. m[1] \in DOMAIN node
    BY DEF GraphInv, Edges
  <2> QED BY <1>1, <2>1
<1>6. ASSUME NEW u \in Task, task'[u].at \in {"relate", "link"},
             NEW i \in DOMAIN Entities(u)'
      PROVE  \/ IdOf(u, i) \in DOMAIN node'
             \/ Related(IdOf(u, i))' \/ Mentioned(IdOf(u, i))'
  BY <1>6, StoredStays
<1>7. \A e \in missed' : /\ e \in Id /\ task'[TaskOf(e)].at \notin {"absent", "extract"}
                         /\ Related(e)' \/ Mentioned(e)'
  <2> SUFFICES ASSUME NEW e \in missed'
               PROVE  /\ e \in Id /\ task'[TaskOf(e)].at \notin {"absent", "extract"}
                      /\ Related(e)' \/ Mentioned(e)'
    OBVIOUS
  <2>1. /\ e \in Id /\ task[TaskOf(e)].at \notin {"absent", "extract"}
        /\ Related(e) \/ Mentioned(e)
    BY DEF GraphInv, InUse
  <2> QED BY <2>1, UseIsKept
<1>8. InUse'
  BY <1>4, <1>5, <1>6, <1>7 DEF InUse
<1>9. MentionsSurvive'
  <2> SUFFICES ASSUME NEW l \in linked'
               PROVE  \E m \in mention' : node[m[1]].name = l[1] /\ m[2] = l[2]
    BY DEF MentionsSurvive
  <2> QED
    BY DEF GraphInv, MentionsSurvive
<1> QED
  BY <1>2, <1>3, <1>8, <1>9

(* Both ends of a new relation are named by the extraction's own.          *)
LEMMA RelateKeepsGraph ==
  ASSUME GraphInv, NEW t \in Task, Forward(t), UpsertRelationship(t)
  PROVE  Named' /\ Edges' /\ InUse' /\ MentionsSurvive'
<1>1. PICK r \in task[t].relating :
        relation' = IF {NameToId(t, r[1]), NameToId(t, r[2])} \subseteq DOMAIN node
                    THEN relation \cup {<<NameToId(t, r[1]), NameToId(t, r[2])>>}
                    ELSE relation
  BY DEF UpsertRelationship
<1>2. /\ node' = node /\ mention' = mention /\ linked' = linked /\ missed' = missed
      /\ task[t].at = "relate" /\ linked \subseteq Name \X Doc
  BY DEF UpsertRelationship, GraphInv, Edges
<1>3. r \in task[t].found.related
  BY DEF GraphInv, Tasks
<1>4. \A name : NameToId(t, name) = <<t[1], t[2], LastNamed(Entities(t), name)>>
  BY DEF NameToId, IdOf
<1>5. \A name : TaskOf(NameToId(t, name)) = t
  BY <1>4 DEF TaskOf, Task
<1>6. Related(NameToId(t, r[1])) /\ Related(NameToId(t, r[2]))
  BY <1>3, <1>5 DEF Related
<1>7. ASSUME NEW q \in relation', q \notin relation
      PROVE  q \in (DOMAIN node) \X (DOMAIN node) /\ Related(q[1]) /\ Related(q[2])
  <2>1. /\ {NameToId(t, r[1]), NameToId(t, r[2])} \subseteq DOMAIN node
        /\ q = <<NameToId(t, r[1]), NameToId(t, r[2])>>
    BY <1>1, <1>7
  <2>2. q[1] = NameToId(t, r[1]) /\ q[2] = NameToId(t, r[2])
    BY <2>1
  <2> QED BY <1>6, <2>1, <2>2
<1> QED
  BY <1>2, <1>7, LinksKeepGraph

(* The name of a new mention is recorded with it; an entity that is gone   *)
(* was in use.                                                             *)
LEMMA LinkKeepsGraph ==
  ASSUME GraphInv, NEW t \in Task, Forward(t), CreateEntityChunkLinks(t)
  PROVE  Named' /\ Edges' /\ InUse' /\ MentionsSurvive'
<1>1. PICK e : e = IdOf(t, task[t].next)
  OBVIOUS
<1>2. PICK name : name = Entity(t).name
  OBVIOUS
<1>3. /\ task[t].at = "link" /\ node' = node /\ relation' = relation
      /\ IF e \in DOMAIN node
         THEN /\ mention' = mention \cup {<<e, t[1]>>}
              /\ linked' = linked \cup {<<name, t[1]>>} /\ missed' = missed
         ELSE /\ missed' = missed \cup {e}
              /\ mention' = mention /\ linked' = linked
  BY <1>1, <1>2 DEF CreateEntityChunkLinks, NextEntity
<1>4. /\ task[t].next \in DOMAIN Entities(t) /\ task[t].next \in Nat
      /\ name = Entities(t)[task[t].next].name /\ name \in Name
  BY <1>2, <1>3, FoundType DEF GraphInv, Tasks, Entity
<1>5. e \in Id /\ TaskOf(e) = t /\ e[3] = task[t].next /\ t[1] \in Doc
  BY <1>1, <1>4, IdsOfTask
<1>6. linked \subseteq Name \X Doc /\ <<name, t[1]>> \in Name \X Doc
  BY <1>4, <1>5 DEF GraphInv, Edges
<1>7. linked \subseteq linked' /\ linked' \subseteq Name \X Doc
  BY <1>3, <1>6
<1>8. CASE e \in DOMAIN node
  <2>1. Entities(TaskOf(e))' = Entities(t)
    BY <1>3, <1>5, <1>7, UseIsKept
  <2>2. Mentioned(e)'
    <3>1. <<name, t[1]>> \in linked'
      BY <1>3, <1>8
    <3> QED
      BY <1>4, <1>5, <2>1, <3>1 DEF Mentioned
  <2>3. node[e].name = name
    BY <1>4, <1>5, <1>8 DEF GraphInv, Named
  <2>4. \A m \in mention' : m \notin mention =>
           m \in (DOMAIN node) \X Doc /\ Mentioned(m[1])'
    BY <1>3, <1>5, <1>8, <2>2
  <2>5. \A k \in linked' : k \notin linked =>
           \E m \in mention' : node[m[1]].name = k[1] /\ m[2] = k[2]
    <3>1. PICK m : m = <<e, t[1]>>
      OBVIOUS
    <3>2. m \in mention' /\ node[m[1]].name = name /\ m[2] = t[1]
      BY <1>3, <1>8, <2>3, <3>1
    <3> QED
      BY <1>3, <1>8, <3>2
  <2>6. mention \subseteq mention' /\ missed' = missed
    BY <1>3, <1>8
  <2> QED
    BY <1>3, <1>7, <2>4, <2>5, <2>6, LinksKeepGraph
<1>9. CASE e \notin DOMAIN node
  <2>1. Related(e) \/ Mentioned(e)
    BY <1>1, <1>3, <1>4, <1>9 DEF GraphInv, InUse
  <2>2. \A d \in missed' : d \notin missed =>
           /\ d \in Id /\ task[TaskOf(d)].at \notin {"absent", "extract"}
           /\ Related(d) \/ Mentioned(d)
    BY <1>3, <1>5, <1>9, <2>1
  <2>3. mention' = mention /\ linked' = linked /\ missed \subseteq missed'
    BY <1>3, <1>9
  <2> QED
    BY <1>3, <1>7, <2>2, <2>3, LinksKeepGraph
<1> QED BY <1>8, <1>9

-----------------------------------------------------------------------------
(* What a merge does: every group has a keeper, and a node that goes had a *)
(* relation.                                                               *)
Dups(keepers) == {e \in DOMAIN node \ keepers : HasRelation(e)}
Kept(keepers, e) ==
  IF e \in Dups(keepers) THEN CHOOSE k \in keepers : Duplicates(k, e) ELSE e

LEMMA MergeEffect ==
  ASSUME NEW t, DeduplicateEntities(t),
         \A m \in mention : m[1] \in DOMAIN node
  PROVE  \E keepers \in SUBSET DOMAIN node :
           /\ \A k, l \in keepers : node[k] = node[l] => k = l
           /\ DOMAIN node' = DOMAIN node \ Dups(keepers)
           /\ \A e \in DOMAIN node' : node'[e] = node[e]
           /\ mention' = {<<Kept(keepers, m[1]), m[2]>> : m \in mention}
           /\ \A m \in mention : /\ Kept(keepers, m[1]) \in DOMAIN node'
                                 /\ node[Kept(keepers, m[1])] = node[m[1]]
                                 /\ \/ Kept(keepers, m[1]) \in keepers
                                    \/ Kept(keepers, m[1]) = m[1]
           /\ relation' = {r \in relation : {r[1], r[2]} \cap Dups(keepers) = {}}
<1>1. PICK keepers \in Keepers : Merge(keepers, {e \in DOMAIN node \ keepers : HasRelation(e)})
  BY DEF DeduplicateEntities
<1>2. /\ keepers \subseteq DOMAIN node
      /\ \A k, l \in keepers : node[k] = node[l] => k = l
      /\ \A e \in DOMAIN node : \E k \in keepers : Duplicates(k, e)
  BY <1>1 DEF Keepers, Duplicates
<1>3. /\ node' = [e \in DOMAIN node \ Dups(keepers) |-> node[e]]
      /\ mention' = {<<Kept(keepers, m[1]), m[2]>> : m \in mention}
      /\ relation' = {r \in relation : {r[1], r[2]} \cap Dups(keepers) = {}}
  BY <1>1 DEF Merge, Dups, Kept
<1>4. keepers \cap Dups(keepers) = {}
  BY DEF Dups
<1>5. \A m \in mention : /\ Kept(keepers, m[1]) \in DOMAIN node'
                         /\ node[Kept(keepers, m[1])] = node[m[1]]
                         /\ \/ Kept(keepers, m[1]) \in keepers
                            \/ Kept(keepers, m[1]) = m[1]
  <2> SUFFICES ASSUME NEW m \in mention
               PROVE  /\ Kept(keepers, m[1]) \in DOMAIN node'
                      /\ node[Kept(keepers, m[1])] = node[m[1]]
                      /\ \/ Kept(keepers, m[1]) \in keepers
                         \/ Kept(keepers, m[1]) = m[1]
    OBVIOUS
  <2>1. m[1] \in DOMAIN node
    OBVIOUS
  <2>2. CASE m[1] \notin Dups(keepers)
    BY <1>3, <2>1, <2>2 DEF Kept
  <2>3. CASE m[1] \in Dups(keepers)
    <3>1. Kept(keepers, m[1]) \in keepers /\ Duplicates(Kept(keepers, m[1]), m[1])
      BY <1>2, <2>1, <2>3 DEF Kept
    <3> QED
      BY <1>2, <1>3, <1>4, <3>1 DEF Duplicates
  <2> QED BY <2>2, <2>3
<1> QED
  BY <1>2, <1>3, <1>5

LEMMA DedupeKeepsGraph ==
  ASSUME GraphInv, NEW t \in Task, Forward(t), DeduplicateEntities(t)
  PROVE  Named' /\ Edges' /\ InUse' /\ MentionsSurvive'
<1>1. /\ task[t].at = "dedupe" /\ linked' = linked /\ missed' = missed
      /\ \A m \in mention : m[1] \in DOMAIN node /\ m[2] \in Doc /\ Mentioned(m[1])
      /\ \A q \in relation : /\ q = <<q[1], q[2]>> /\ Related(q[1]) /\ Related(q[2])
                             /\ q[1] \in DOMAIN node /\ q[2] \in DOMAIN node
  BY DEF DeduplicateEntities, Goto, GraphInv, Edges, InUse
<1>2. PICK keepers \in SUBSET DOMAIN node :
           /\ DOMAIN node' = DOMAIN node \ Dups(keepers)
           /\ \A e \in DOMAIN node' : node'[e] = node[e]
           /\ mention' = {<<Kept(keepers, m[1]), m[2]>> : m \in mention}
           /\ \A m \in mention : /\ Kept(keepers, m[1]) \in DOMAIN node'
                                 /\ node[Kept(keepers, m[1])] = node[m[1]]
           /\ relation' = {r \in relation : {r[1], r[2]} \cap Dups(keepers) = {}}
  BY <1>1, MergeEffect
<1>3. ASSUME NEW e \in DOMAIN node
      PROVE  /\ e \in Id
             /\ node[e] \in [name : Name, type : Type \cup {""}]
             /\ task[TaskOf(e)].at \notin {"absent", "extract", "upsert"}
             /\ task'[TaskOf(e)].at \notin {"absent", "extract", "upsert"}
             /\ Entities(TaskOf(e))' = Entities(TaskOf(e))
             /\ e[3] \in DOMAIN Entities(TaskOf(e))
             /\ node[e].name = Entities(TaskOf(e))[e[3]].name
             /\ Related(e) => Related(e)'
             /\ Mentioned(e) => Mentioned(e)'
  <2>1. /\ e \in Id /\ task[TaskOf(e)].at \notin {"absent", "extract", "upsert"}
        /\ node[e] \in [name : Name, type : Type \cup {""}]
        /\ e[3] \in DOMAIN Entities(TaskOf(e))
        /\ node[e].name = Entities(TaskOf(e))[e[3]].name
    BY DEF GraphInv, Named
  <2>2. task'[TaskOf(e)].at \notin {"absent", "extract", "upsert"}
    BY <2>1, TaskOfId DEF Forward
  <2> QED BY <1>1, <2>1, <2>2, UseIsKept
<1>4. Named'
  <2> SUFFICES ASSUME NEW e \in DOMAIN node'
               PROVE  /\ e \in Id
                      /\ node'[e] \in [name : Name, type : Type \cup {""}]
                      /\ task'[TaskOf(e)].at \notin {"absent", "extract", "upsert"}
                      /\ e[3] \in DOMAIN Entities(TaskOf(e))'
                      /\ node'[e].name = Entities(TaskOf(e))'[e[3]].name
    BY DEF Named
  <2>1. e \in DOMAIN node /\ node'[e] = node[e]
    BY <1>2
  <2> QED BY <1>3, <2>1
<1>5. Edges'
  <2>1. mention' \subseteq (DOMAIN node') \X Doc
    BY <1>1, <1>2
  <2>2. relation' \subseteq (DOMAIN node') \X (DOMAIN node')
    BY <1>1, <1>2
  <2> QED BY <1>1, <2>1, <2>2 DEF GraphInv, Edges
<1>6. \A q \in relation' : Related(q[1])' /\ Related(q[2])'
  BY <1>1, <1>2, <1>3
<1>7. ASSUME NEW m \in mention PROVE Mentioned(Kept(keepers, m[1]))
  <2>1. PICK k : k = Kept(keepers, m[1])
    OBVIOUS
  <2>2. k \in DOMAIN node /\ node[k] = node[m[1]] /\ m[1] \in DOMAIN node
    BY <1>1, <1>2, <2>1
  <2>3. Entities(TaskOf(k))[k[3]].name = Entities(TaskOf(m[1]))[m[1][3]].name
    BY <1>3, <2>2
  <2>4. Mentioned(m[1])
    BY <1>1
  <2>5. Mentioned(k)
    BY <2>3, <2>4 DEF Mentioned
  <2> QED BY <2>1, <2>5
<1>8. \A m \in mention' : Mentioned(m[1])'
  <2> SUFFICES ASSUME NEW m \in mention' PROVE Mentioned(m[1])'
    OBVIOUS
  <2>1. m[1] \in DOMAIN node /\ Mentioned(m[1])
    BY <1>2, <1>7
  <2> QED BY <1>3, <2>1
<1>9. \A e \in DOMAIN node : e \in DOMAIN node' \/ Related(e) \/ Mentioned(e)
  BY <1>1, <1>2 DEF Dups, HasRelation
<1>10. ASSUME NEW u \in Task, task'[u].at \in {"relate", "link"},
              NEW i \in DOMAIN Entities(u)'
       PROVE  \/ IdOf(u, i) \in DOMAIN node'
              \/ Related(IdOf(u, i))' \/ Mentioned(IdOf(u, i))'
  BY <1>1, <1>9, <1>10, StoredStays
<1>11. \A e \in missed' : /\ e \in Id /\ task'[TaskOf(e)].at \notin {"absent", "extract"}
                          /\ Related(e)' \/ Mentioned(e)'
  <2> SUFFICES ASSUME NEW e \in missed
               PROVE  /\ e \in Id /\ task'[TaskOf(e)].at \notin {"absent", "extract"}
                      /\ Related(e)' \/ Mentioned(e)'
    BY <1>1
  <2>1. /\ e \in Id /\ task[TaskOf(e)].at \notin {"absent", "extract"}
        /\ Related(e) \/ Mentioned(e)
    BY DEF GraphInv, InUse
  <2> QED BY <1>1, <2>1, UseIsKept
<1>12. InUse'
  BY <1>6, <1>8, <1>10, <1>11 DEF InUse
<1>13. MentionsSurvive'
  <2> SUFFICES ASSUME NEW l \in linked
               PROVE  \E m \in mention' : node'[m[1]].name = l[1] /\ m[2] = l[2]
    BY <1>1 DEF MentionsSurvive
  <2>1. PICK m \in mention : node[m[1]].name = l[1] /\ m[2] = l[2]
    BY DEF GraphInv, MentionsSurvive
  <2>2. /\ <<Kept(keepers, m[1]), m[2]>> \in mention'
        /\ node'[Kept(keepers, m[1])] = node[m[1]]
    BY <1>2
  <2> QED BY <2>1, <2>2
<1> QED
  BY <1>4, <1>5, <1>12, <1>13

-----------------------------------------------------------------------------
LEMMA InitGraphInv ==
  ASSUME Init
  PROVE  GraphInv /\ MergedAtRest
<1>1. /\ \A t \in Task : task[t].at \in {"absent", "extract"} /\ task[t].found = Idle.found
                       /\ task[t].relating = {} /\ task[t].next = 1
      /\ task \in [Task -> [at : At, found : {Idle.found} \cup Extraction,
                            next : Nat, relating : SUBSET (Name \X Name)]]
  BY DEF Init, Idle, At
<1>2. Tasks
  BY <1>1, BoundsType DEF Init, Tasks
<1>3. InTurn
  <2> SUFFICES ASSUME NEW t \in Task, t[2] < MaxAttempts
               PROVE  task[<<t[1], t[2] + 1>>].at = "absent"
    BY DEF InTurn
  <2>1. <<t[1], t[2] + 1>> \in Task /\ t[2] + 1 # 1
    BY NextAttempt, BoundsType DEF Task, Attempt
  <2> QED
    BY <2>1 DEF Init, Idle
<1>4. DOMAIN node = {} /\ mention = {} /\ relation = {} /\ linked = {} /\ missed = {}
  BY DEF Init
<1>5. Named /\ Edges /\ InUse /\ MentionsSurvive
  BY <1>1, <1>4 DEF Named, Edges, InUse, MentionsSurvive
<1>6. MergedAtRest
  BY <1>4 DEF MergedAtRest
<1> QED
  BY <1>2, <1>3, <1>5, <1>6 DEF GraphInv

(* The merge at the end of the last handler leaves no two keepers alike;   *)
(* after any other step some handler has still to come to it.              *)
LEMMA MergeSettles ==
  ASSUME GraphInv, NEW t \in Task, DeduplicateEntities(t)
  PROVE  MergedAtRest'
<1>1. \A m \in mention : m[1] \in DOMAIN node
  BY DEF GraphInv, Edges
<1>2. PICK keepers \in SUBSET DOMAIN node :
           /\ \A k, l \in keepers : node[k] = node[l] => k = l
           /\ DOMAIN node' = DOMAIN node \ Dups(keepers)
           /\ \A e \in DOMAIN node' : node'[e] = node[e]
           /\ mention' = {<<Kept(keepers, m[1]), m[2]>> : m \in mention}
           /\ \A m \in mention : \/ Kept(keepers, m[1]) \in keepers
                                 \/ Kept(keepers, m[1]) = m[1]
           /\ relation' \subseteq relation
  BY <1>1, MergeEffect
<1>3. ASSUME NEW e \in DOMAIN node', HasRelation(e)' PROVE e \in keepers
  <2> SUFFICES ASSUME e \notin keepers PROVE HasRelation(e)
    BY <1>2 DEF Dups
  <2>1. CASE \E m \in mention' : m[1] = e
    <3>1. PICK m \in mention : Kept(keepers, m[1]) = e
      BY <1>2, <2>1
    <3>2. m[1] = e
      BY <1>2, <3>1
    <3> QED BY <3>2 DEF HasRelation
  <2>2. CASE \E r \in relation' : e \in {r[1], r[2]}
    BY <1>2, <2>2 DEF HasRelation
  <2> QED BY <1>3, <2>1, <2>2 DEF HasRelation
<1> QED
  BY <1>2, <1>3 DEF MergedAtRest

LEMMA OthersAreUnderWay ==
  ASSUME Tasks, NEW t \in Task,
         \/ Extract(t) \/ UpsertEntitiesBatch(t) \/ UpsertRelationship(t)
         \/ CreateEntityChunkLinks(t) \/ Publish(t)
         \/ Postprocess(t) \/ UpsertEntity(t)
         \/ ExtractAgain(t) \/ PostprocessAgain(t)
  PROVE  \E u \in Task : task'[u].at \notin {"absent", "done", "failed"}
<1>1. CASE ExtractAgain(t)
  <2>1. <<t[1], t[2] + 1>> \in Task /\ <<t[1], t[2] + 1>> # t
    BY <1>1, NextAttempt DEF ExtractAgain
  <2>2. task'[<<t[1], t[2] + 1>>].at = "extract"
    BY <1>1, <2>1 DEF ExtractAgain, Tasks
  <2> QED BY <2>1, <2>2
<1>2. CASE CreateEntityChunkLinks(t) \/ UpsertEntity(t)
  <2>1. task'[t].at \in {"link", "publish", "embed", "dedupe"}
    BY <1>2 DEF CreateEntityChunkLinks, UpsertEntity, NextEntity, Tasks
  <2> QED BY <2>1
<1>3. CASE Extract(t)
  <2>1. task'[t].at \in {"publish", "upsert"}
    BY <1>3 DEF Extract, Tasks
  <2> QED BY <2>1
<1>4. CASE UpsertRelationship(t)
  <2>1. task'[t].at \in {"relate", "link"}
    BY <1>4 DEF UpsertRelationship, Tasks
  <2> QED BY <2>1
<1>5. CASE UpsertEntitiesBatch(t) \/ Publish(t) \/ Postprocess(t) \/ PostprocessAgain(t)
  <2>1. task'[t].at \in {"relate", "link", "postprocess", "embed", "dedupe"}
    BY <1>5 DEF UpsertEntitiesBatch, Publish, Postprocess, PostprocessAgain, Goto, Tasks
  <2> QED BY <2>1
<1> QED
  BY <1>1, <1>2, <1>3, <1>4, <1>5

LEMMA NextKeepsGraphInv ==
  ASSUME GraphInv, MergedAtRest, [Next]_vars
  PROVE  GraphInv' /\ MergedAtRest'
<1>1. CASE UNCHANGED vars
  <2>1. /\ task' = task /\ node' = node /\ mention' = mention /\ relation' = relation
        /\ faults' = faults /\ linked' = linked /\ missed' = missed
    BY <1>1 DEF vars
  <2>2. /\ \A t : Entities(t)' = Entities(t)
        /\ \A t, name : NameToId(t, name)' = NameToId(t, name)
    BY <2>1 DEF Entities, NameToId
  <2>3. \A e : /\ Related(e)' <=> Related(e)
               /\ Mentioned(e)' <=> Mentioned(e)
               /\ HasRelation(e)' <=> HasRelation(e)
    BY <2>1, <2>2 DEF Related, Mentioned, HasRelation
  <2>4. Tasks' /\ InTurn'
    BY <2>1, <2>2 DEF GraphInv, Tasks, InTurn
  <2>5. Named' /\ Edges' /\ MentionsSurvive'
    BY <2>1, <2>2 DEF GraphInv, Named, Edges, MentionsSurvive
  <2>6. InUse'
    BY <2>1, <2>2, <2>3 DEF GraphInv, InUse
  <2>7. MergedAtRest'
    BY <2>1, <2>3 DEF MergedAtRest
  <2> QED BY <2>4, <2>5, <2>6, <2>7 DEF GraphInv
<1>2. CASE Next
  <2>1. PICK t \in Task :
          \/ Extract(t) \/ UpsertEntitiesBatch(t) \/ UpsertRelationship(t)
          \/ CreateEntityChunkLinks(t) \/ Publish(t)
          \/ Postprocess(t) \/ UpsertEntity(t) \/ DeduplicateEntities(t)
          \/ ExtractAgain(t) \/ PostprocessAgain(t)
    BY <1>2 DEF Next
  <2>2. Tasks' /\ InTurn' /\ Forward(t)
    BY <2>1, StepForward DEF GraphInv
  <2>3. Named' /\ Edges' /\ InUse' /\ MentionsSurvive'
    <3>1. CASE UpsertEntitiesBatch(t)
      BY <2>2, <3>1, UpsertBatchKeepsGraph
    <3>2. CASE UpsertRelationship(t)
      BY <2>2, <3>2, RelateKeepsGraph
    <3>3. CASE CreateEntityChunkLinks(t)
      BY <2>2, <3>3, LinkKeepsGraph
    <3>4. CASE UpsertEntity(t)
      BY <2>2, <3>4, UpsertKeepsGraph
    <3>5. CASE DeduplicateEntities(t)
      BY <2>2, <3>5, DedupeKeepsGraph
    <3>6. CASE Extract(t) \/ Publish(t) \/ Postprocess(t) \/ ExtractAgain(t) \/ PostprocessAgain(t)
      <4>1. UNCHANGED <<graph, linked, missed>>
        BY <3>6 DEF Extract, Publish, Postprocess, ExtractAgain, PostprocessAgain
      <4>2. task[t].at = "upsert" => task'[t].at \notin {"relate", "link"}
        <5>1. CASE ExtractAgain(t)
          <6>1. <<t[1], t[2] + 1>> # t
            BY <5>1, NextAttempt DEF ExtractAgain
          <6> QED
            BY <5>1, <6>1 DEF ExtractAgain, GraphInv, Tasks
        <5>2. CASE ~ExtractAgain(t)
          BY <3>6, <5>2 DEF Extract, Publish, Postprocess, PostprocessAgain, Goto
        <5> QED BY <5>1, <5>2
      <4> QED
        BY <2>2, <4>1, <4>2, QuietKeepsGraph
    <3> QED
      BY <2>1, <3>1, <3>2, <3>3, <3>4, <3>5, <3>6
  <2>4. MergedAtRest'
    <3>1. CASE DeduplicateEntities(t)
      BY <3>1, MergeSettles
    <3>2. CASE ~DeduplicateEntities(t)
      <4>1. \E u \in Task : task'[u].at \notin {"absent", "done", "failed"}
        BY <2>1, <3>2, OthersAreUnderWay DEF GraphInv
      <4> QED
        BY <4>1 DEF MergedAtRest
    <3> QED BY <3>1, <3>2
  <2> QED
    BY <2>2, <2>3, <2>4 DEF GraphInv
<1> QED BY <1>1, <1>2

LEMMA GraphInvariance == Spec => [](GraphInv /\ MergedAtRest)
BY InitGraphInv, NextKeepsGraphInv, PTL DEF Spec

-----------------------------------------------------------------------------
(* Whatever is stored, rewritten and merged in whatever order, nodes,      *)
(* mentions and relations have their types, and every end of a mention or  *)
(* relation exists (stores/neo4j_store.py: MATCH, MERGE, DETACH DELETE).   *)
THEOREM GraphTyped == Spec => []TypeOK
<1>1. ASSUME GraphInv PROVE TypeOK
  <2>1. DOMAIN node \subseteq Id /\ missed \subseteq Id
    BY <1>1 DEF GraphInv, Named, InUse
  <2>2. \A e \in DOMAIN node : node[e] \in [name : Name, type : Type \cup {""}]
    BY <1>1 DEF GraphInv, Named
  <2>3. \A t \in Task : /\ task[t].at \in At /\ task[t].next \in Nat
                        /\ task[t].found = Idle.found \/ task[t].found \in Extraction
                        /\ task[t].relating \subseteq task[t].found.related
    BY <1>1 DEF GraphInv, Tasks
  <2>4. faults \in 0..MaxFaults
    BY <1>1 DEF GraphInv, Tasks
  <2> QED
    BY <1>1, <2>1, <2>2, <2>3, <2>4 DEF GraphInv, Edges, TypeOK
<1> QED
  BY <1>1, GraphInvariance, PTL

(* A mention that was linked is never lost again: every merge moves the    *)
(* mentions of what it deletes to an entity of the same name, and a late   *)
(* rewrite keeps the name (neo4j_store.py, deduplicate_entities).          *)
THEOREM GraphKeepsMentions == Spec => []MentionsSurvive
<1>1. ASSUME GraphInv PROVE MentionsSurvive
  BY <1>1 DEF GraphInv
<1> QED
  BY <1>1, GraphInvariance, PTL

(* What create_entity_chunk_links misses without an error was in use when  *)
(* another document's merge deleted it.                                    *)
THEOREM GraphMissesOnlyUsed == Spec => []OnlyUsedAreMissed
<1>1. ASSUME GraphInv PROVE OnlyUsedAreMissed
  <2> SUFFICES ASSUME NEW e \in missed
               PROVE  \/ \E r \in task[TaskOf(e)].found.related :
                            e \in {NameToId(TaskOf(e), r[1]), NameToId(TaskOf(e), r[2])}
                      \/ \E l \in linked : l[1] = Entities(TaskOf(e))[e[3]].name
    BY DEF OnlyUsedAreMissed, TaskOf
  <2> QED
    BY <1>1 DEF GraphInv, InUse, Related, Mentioned
<1> QED
  BY <1>1, GraphInvariance, PTL

(* When every document is through, no two entities of one name and type    *)
(* are both in use: the last merge has seen every statement of the others. *)
THEOREM GraphMergedAtRest == Spec => []MergedAtRest
BY GraphInvariance, PTL
=============================================================================
