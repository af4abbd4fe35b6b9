---------------------------- MODULE EntityGraph ----------------------------
(***************************************************************************)
(* The entities of one engagement in Neo4j: what extract_handler stores    *)
(* and postprocess_handler rewrites and merges (ingestion/stages.py,       *)
(* graph/extractor.py, stores/neo4j_store.py), statement by statement, for *)
(* several documents whose messages are handled at once, fail, and are     *)
(* delivered again.  IngestPipeline.tla has the rest of both handlers.     *)
(***************************************************************************)
EXTENDS Integers, Sequences, FiniteSets

CONSTANTS
  Doc,              \* documents of one engagement, of one chunk each
  Name, Type,       \* of entities; "" is no Type
  Extraction,       \* what the LLM may find in a chunk
  EntityEmbedding,  \* settings.entity_embedding_enabled
  MaxAttempts,      \* times a document is extracted  (these two bound the
  MaxFaults         \* handlers that raise or die      exploration)

ASSUME EntityGraphAssumption ==
  /\ "" \notin Type
  /\ EntityEmbedding \in BOOLEAN
  /\ MaxAttempts \in Nat \ {0} /\ MaxFaults \in Nat
  /\ \A x \in Extraction :
       /\ x.entities \in Seq([name : Name, type : Type])
       /\ x.related \subseteq Name \X Name

VARIABLES
  node,      \* entity id -> name and type of the node
  mention,   \* MENTIONED_IN: pairs of an entity and the document of the chunk
  relation,  \* RELATES_TO: pairs of entities
  task,      \* delivery of a document -> where its handlers are
  faults,
  linked,    \* history: names and documents for which a link was made
  missed     \* history: entities that were gone when they were to be linked

graph == <<node, mention, relation>>
vars == <<node, mention, relation, task, faults, linked, missed>>

Attempt == 1..MaxAttempts
Task == Doc \X Attempt

\* Every extraction names its entities anew: uuid4().
Id == Doc \X Attempt \X Nat
IdOf(t, i) == <<t[1], t[2], i>>

\* extract_handler up to "publish", then the message, then postprocess_handler.
At == {"absent", "extract", "upsert", "relate", "link", "publish",
       "postprocess", "embed", "dedupe", "done", "failed"}

Idle == [at |-> "absent", found |-> [entities |-> <<>>, related |-> {}],
         next |-> 1, relating |-> {}]

TypeOK ==
  /\ DOMAIN node \subseteq Id
  /\ \A e \in DOMAIN node : node[e] \in [name : Name, type : Type \cup {""}]
  /\ mention \subseteq (DOMAIN node) \X Doc
  /\ relation \subseteq (DOMAIN node) \X (DOMAIN node)
  /\ \A t \in Task : /\ task[t].at \in At /\ task[t].next \in Nat
                     /\ task[t].found = Idle.found \/ task[t].found \in Extraction
                     /\ task[t].relating \subseteq task[t].found.related
  /\ faults \in 0..MaxFaults
  /\ linked \subseteq Name \X Doc /\ missed \subseteq Id

Init ==
  /\ node = <<>> /\ mention = {} /\ relation = {}
  /\ task = [t \in Task |-> IF t[2] = 1 THEN [Idle EXCEPT !.at = "extract"] ELSE Idle]
  /\ faults = 0 /\ linked = {} /\ missed = {}

-----------------------------------------------------------------------------
Entities(t) == task[t].found.entities
Entity(t) == Entities(t)[task[t].next]
Last(t) == task[t].next = Len(Entities(t))

\* entity_name_to_id: the last entity of that name, whatever its type.
LastNamed(entities, name) ==
  CHOOSE i \in DOMAIN entities :
    /\ entities[i].name = name
    /\ \A j \in DOMAIN entities : entities[j].name = name => j <= i

NameToId(t, name) == IdOf(t, LastNamed(Entities(t), name))

Goto(t, from, to) ==
  /\ task[t].at = from
  /\ task' = [task EXCEPT ![t].at = to, ![t].next = 1]

\* One entity is done, or the last one, and the handler goes on.
NextEntity(t, at, after) ==
  /\ task[t].at = at
  /\ task' = IF Last(t) THEN [task EXCEPT ![t].at = after, ![t].next = 1]
             ELSE [task EXCEPT ![t].next = @ + 1]

\* extract_entities_and_relationships: an open breaker and a failing LLM find
\* nothing.
Extract(t) ==
  /\ task[t].at = "extract"
  /\ \E x \in Extraction :
       task' = [task EXCEPT ![t] =
                  [at |-> IF x.entities = <<>> THEN "publish" ELSE "upsert",
                   found |-> x, next |-> 1, relating |-> x.related]]
  /\ UNCHANGED <<graph, faults, linked, missed>>

UpsertEntitiesBatch(t) ==
  /\ Goto(t, "upsert", IF task[t].relating = {} THEN "link" ELSE "relate")
  /\ LET new == {IdOf(t, i) : i \in DOMAIN Entities(t)}
     IN  node' = [e \in DOMAIN node \cup new |->
                    IF e \in new THEN Entities(t)[e[3]] ELSE node[e]]
  /\ UNCHANGED <<mention, relation, faults, linked, missed>>

\* Mutant: MERGE in the place of MATCH.
UpsertRelationshipAnyway(t) ==
  /\ task[t].at = "relate"
  /\ \E r \in task[t].relating :
       LET rest == task[t].relating \ {r}
       IN  /\ relation' = relation \cup {<<NameToId(t, r[1]), NameToId(t, r[2])>>}
           /\ task' = [task EXCEPT ![t].relating = rest,
                                   ![t].at = IF rest = {} THEN "link" ELSE @]
  /\ UNCHANGED <<node, mention, faults, linked, missed>>

\* Both MATCH clauses must find their entity, or nothing is created.
UpsertRelationship(t) ==
  /\ task[t].at = "relate"
  /\ \E r \in task[t].relating :
       LET from == NameToId(t, r[1])
           to == NameToId(t, r[2])
           rest == task[t].relating \ {r}
       IN  /\ relation' = IF {from, to} \subseteq DOMAIN node
                          THEN relation \cup {<<from, to>>} ELSE relation
           /\ task' = [task EXCEPT ![t].relating = rest,
                                   ![t].at = IF rest = {} THEN "link" ELSE @]
  /\ UNCHANGED <<node, mention, faults, linked, missed>>

\* The entity is matched, then its chunk; a missing one is no error.
CreateEntityChunkLinks(t) ==
  /\ NextEntity(t, "link", "publish")
  /\ LET e == IdOf(t, task[t].next)
     IN  IF e \in DOMAIN node
         THEN /\ mention' = mention \cup {<<e, t[1]>>}
              /\ linked' = linked \cup {<<Entity(t).name, t[1]>>}
              /\ UNCHANGED missed
         ELSE /\ missed' = missed \cup {e}
              /\ UNCHANGED <<mention, linked>>
  /\ UNCHANGED <<node, relation, faults>>

Publish(t) ==
  /\ Goto(t, "publish", "postprocess")
  /\ UNCHANGED <<graph, faults, linked, missed>>

-----------------------------------------------------------------------------
Postprocess(t) ==
  /\ Goto(t, "postprocess",
          IF EntityEmbedding /\ Entities(t) # <<>> THEN "embed" ELSE "dedupe")
  /\ UNCHANGED <<graph, faults, linked, missed>>

\* MERGE creates the entity if it is gone; SET replaces every property, and the
\* message carries no type.
UpsertEntity(t) ==
  /\ NextEntity(t, "embed", "dedupe")
  /\ LET e == IdOf(t, task[t].next)
     IN  node' = [x \in DOMAIN node \cup {e} |->
                    IF x = e THEN [name |-> Entity(t).name, type |-> ""] ELSE node[x]]
  /\ UNCHANGED <<mention, relation, faults, linked, missed>>

\* Mutant: any node may be dropped for one of its group.
HasRelationOrNone(e) == TRUE

\* MATCH (dup)-[r_in]-()
HasRelation(e) ==
  \/ \E m \in mention : m[1] = e
  \/ \E r \in relation : e \in {r[1], r[2]}

\* Mutant: entities are told apart by the document they were found in.
DuplicatesInDocument(e, f) == node[e] = node[f] /\ e[1] = f[1]

\* WITH e.name AS name, e.type AS type, collect(e)
Duplicates(e, f) == node[e] = node[f]

\* The ways to choose dupes[0] of every group; collect(e) has no order.
Keepers ==
  {K \in SUBSET DOMAIN node :
     /\ \A e \in DOMAIN node : \E k \in K : Duplicates(k, e)
     /\ \A k, l \in K : Duplicates(k, l) => k = l}

\* Mutant: the mentions of a duplicate go with it.
MergeDropping(keepers, dups) ==
  /\ mention' = {m \in mention : m[1] \notin dups}
  /\ relation' = {r \in relation : {r[1], r[2]} \cap dups = {}}
  /\ node' = [e \in DOMAIN node \ dups |-> node[e]]

\* Every duplicate's mentions go to the keeper; DETACH DELETE takes its
\* relations along.
Merge(keepers, dups) ==
  /\ mention' = {<<IF m[1] \in dups THEN CHOOSE k \in keepers : Duplicates(k, m[1])
                   ELSE m[1], m[2]>> : m \in mention}
  /\ relation' = {r \in relation : {r[1], r[2]} \cap dups = {}}
  /\ node' = [e \in DOMAIN node \ dups |-> node[e]]

\* A duplicate without any relation yields no row, and stays.  Then the document
\* and its job are completed.
DeduplicateEntities(t) ==
  /\ Goto(t, "dedupe", "done")
  /\ \E keepers \in Keepers :
       Merge(keepers, {e \in DOMAIN node \ keepers : HasRelation(e)})
  /\ UNCHANGED <<faults, linked, missed>>

-----------------------------------------------------------------------------
(* Handlers that raise or die: the message is delivered again.             *)

\* The statements made so far stay; the next delivery extracts anew.
ExtractAgain(t) ==
  /\ faults < MaxFaults /\ faults' = faults + 1
  /\ t[2] < MaxAttempts
  /\ task[t].at \in {"upsert", "relate", "link", "publish"}
  /\ \E at \in IF task[t].at = "publish" THEN {"failed", "postprocess"} ELSE {"failed"} :
       task' = [task EXCEPT ![t].at = at, ![t].next = 1,
                            ![<<t[1], t[2] + 1>>].at = "extract"]
  /\ UNCHANGED <<graph, linked, missed>>

\* Also after the last call, before the message is acknowledged.
PostprocessAgain(t) ==
  /\ faults < MaxFaults /\ faults' = faults + 1
  /\ \E at \in {"embed", "dedupe", "done"} : Goto(t, at, "postprocess")
  /\ UNCHANGED <<graph, linked, missed>>

Next ==
  \E t \in Task :
    \/ Extract(t) \/ UpsertEntitiesBatch(t) \/ UpsertRelationship(t)
    \/ CreateEntityChunkLinks(t) \/ Publish(t)
    \/ Postprocess(t) \/ UpsertEntity(t) \/ DeduplicateEntities(t)
    \/ ExtractAgain(t) \/ PostprocessAgain(t)

Spec == Init /\ [][Next]_vars

-----------------------------------------------------------------------------
\* A mention that was linked is never lost again: whatever other documents'
\* merges delete, and late rewrites create anew, some entity of that name stays
\* linked to the document's chunk.
MentionsSurvive ==
  \A l \in linked : \E m \in mention : node[m[1]].name = l[1] /\ m[2] = l[2]

\* An entity that another document's merge deletes before it is linked, and
\* whose mention is lost without an error, was in use already: by a relationship
\* of its own extraction, or by mentions of its name that a merge gave it.
OnlyUsedAreMissed ==
  \A e \in missed :
    LET t == <<e[1], e[2]>>
    IN  \/ \E r \in task[t].found.related : e \in {NameToId(t, r[1]), NameToId(t, r[2])}
        \/ \E l \in linked : l[1] = Entities(t)[e[3]].name

\* When every document is through, no two entities of one name and type are both
\* in use, in whatever order their extractions and merges came.
MergedAtRest ==
  (\A t \in Task : task[t].at \in {"absent", "done", "failed"}) =>
    \A e, f \in DOMAIN node :
      e # f /\ node[e] = node[f] => ~(HasRelation(e) /\ HasRelation(f))

\* "won't overwrite existing since MERGE uses id" (stages.py:382): an entity
\* keeps the type it was extracted with.
TypesAreKept ==
  [][\A e \in DOMAIN node \cap DOMAIN node' : node'[e].type = node[e].type]_vars
=============================================================================
