----------------------------- MODULE Retrieval -----------------------------
(***************************************************************************)
(* The retrieval modes: the Cypher queries of stores/neo4j_store.py over   *)
(* the chunks and entities of all engagements, the parsing of their        *)
(* records in retrieval/*.py, the router and the reranker, as the          *)
(* endpoints of api/routes/retrieve.py and generate.py put them together;  *)
(* and the search for evidence (retrieval/evidence.py) of workflow.py.     *)
(*                                                                         *)
(* One question is asked, by one engagement at a time, of a growing index. *)
(* A node carries the score each index gives it for that question; ties,   *)
(* and the order Cypher leaves open, are broken in every way.              *)
(***************************************************************************)
EXTENDS Integers, Sequences, FiniteSets, SequencesExt, FiniteSetsExt

CONSTANTS
  Chunk, Entity,   \* nodes that may be added to the graph
  Engagement,
  DocType,         \* doc_type of a chunk
  EntityType,      \* type the extraction gives an entity
  Control,         \* the one of controls
  Near,            \* scores the vector indexes give, in tenths
  Hit,             \* scores the fulltext indexes give, in tenths; 0: no match
  Text,            \* what a chunk's text may be: how it matches the question,
                   \* and which of the terms filtered by it holds
  Name,            \* what an entity's name may be: how it matches, and whether
                   \* it is the entity filtered by
  Filters,         \* the filters an evidence search is given, together
  TopK,
  Kept,            \* the top_k of a search for evidence, and the chunks
  Fetched,         \* that it reads: in the code three times as many
  MaxNodes         \* chunks and entities in all (bounds the exploration)

\* What an evidence search may filter by.
Filter == {"control", "entity", "period"}

ASSUME RetrievalAssumption ==
  /\ TopK \in Nat \ {0} /\ Kept \in Nat \ {0} /\ Fetched \in Nat
  /\ Kept <= Fetched /\ MaxNodes \in Nat
  /\ Near \subseteq Nat \ {0} /\ Hit \subseteq Nat
  /\ Control \in EntityType /\ Filters \subseteq SUBSET Filter
  /\ Text \subseteq [hit : Hit, says : SUBSET Filter]
  /\ Name \subseteq [hit : Hit, named : BOOLEAN]

VARIABLES
  chunk,    \* the chunks in the graph, with engagement, type and scores
  entity,   \* the entities, and the chunks each is MENTIONED_IN
  answer    \* the last question and what it was answered, or none

vars == <<chunk, entity, answer>>

Mode == {"vector", "fulltext", "graph", "entity_vector",
         "graph_vector_fulltext", "hybrid"}

\* The modes that pass doc_types on to the store.
TypedMode == (Mode \ {"graph", "entity_vector"}) \cup {"evidence"}

\* What the endpoints pass on of the types a request names.
AskedTypes(mode) == IF mode = "entity_vector" THEN EntityType ELSE DocType

Result == [id : Chunk, score : Nat]

Unasked == [mode |-> "none"]

TypeOK ==
  /\ DOMAIN chunk \subseteq Chunk /\ DOMAIN entity \subseteq Entity
  /\ \A c \in DOMAIN chunk :
       chunk[c] \in [engagement : Engagement, type : DocType, near : Near,
                     hit : Hit, says : SUBSET Filter]
  /\ \A e \in DOMAIN entity :
       entity[e] \in [engagement : Engagement, type : EntityType \cup {""},
                      near : Near \cup {0}, hit : Hit, named : BOOLEAN,
                      chunks : SUBSET DOMAIN chunk]
  /\ \/ answer = Unasked
     \/ /\ answer.mode \in Mode \cup {"evidence"} /\ answer.filter \subseteq Filter
        /\ answer.control \in DOMAIN entity \cup {"none"}
        /\ answer.types \subseteq AskedTypes(answer.mode)
        /\ answer.engagement \in Engagement /\ answer.reranked \in BOOLEAN
        /\ answer.raised \in BOOLEAN /\ answer.chunks \in Seq(Result)

Init == chunk = <<>> /\ entity = <<>> /\ answer = Unasked

-----------------------------------------------------------------------------
(* The graph grows: first the chunks, then the entities found in them,     *)
(* which are embedded later or never.                                      *)

Room == Cardinality(DOMAIN chunk) + Cardinality(DOMAIN entity) < MaxNodes

AddChunk(c) ==
  /\ Room /\ entity = <<>>
  /\ c \notin DOMAIN chunk
  /\ \E g \in Engagement, t \in DocType, n \in Near, w \in Text :
       chunk' = [x \in DOMAIN chunk \cup {c} |->
                   IF x = c THEN [engagement |-> g, type |-> t, near |-> n,
                                  hit |-> w.hit, says |-> w.says]
                   ELSE chunk[x]]
  /\ answer' = Unasked
  /\ UNCHANGED entity

\* Stage 2 stores an entity with an empty embedding, which the vector index
\* leaves out, and links it to chunks of the engagement it was extracted in.
AddEntity(e) ==
  /\ Room
  /\ e \notin DOMAIN entity
  /\ \E g \in Engagement, t \in EntityType, w \in Name :
     \E m \in SUBSET {c \in DOMAIN chunk : chunk[c].engagement = g} :
       entity' = [x \in DOMAIN entity \cup {e} |->
                    IF x = e THEN [engagement |-> g, type |-> t, near |-> 0,
                                   hit |-> w.hit, named |-> w.named, chunks |-> m]
                    ELSE entity[x]]
  /\ answer' = Unasked
  /\ UNCHANGED chunk

\* Stage 3, if it embeds entities: it writes the record again, without its type.
EmbedEntity(e) ==
  /\ e \in DOMAIN entity /\ entity[e].near = 0
  /\ \E n \in Near :
       entity' = [entity EXCEPT ![e] = [@ EXCEPT !.near = n, !.type = ""]]
  /\ answer' = Unasked
  /\ UNCHANGED chunk

-----------------------------------------------------------------------------
(* Indexes, as Cypher sees them: sets of records [node, score].            *)

\* ORDER BY score DESC
Ranked(S) ==
  {s \in SetToSeqs(S) : \A i, j \in DOMAIN s : i < j => s[i].score >= s[j].score}

First(s, k) == SubSeq(s, 1, Min({Len(s), k}))
FirstK(s) == First(s, TopK)

\* db.index.vector.queryNodes(index, k, ...): k nearest of all nodes.
Nearest(S, k) ==
  {T \in SUBSET S : /\ Cardinality(T) = Min({k, Cardinality(S)})
                    /\ \A x \in T, y \in S \ T : x.score >= y.score}

\* db.index.fulltext.queryNodes: every node that matches.
Matches(S) == {x \in S : x.score > 0}

NearChunks == {[node |-> c, score |-> chunk[c].near] : c \in DOMAIN chunk}
HitChunks == {[node |-> c, score |-> chunk[c].hit] : c \in DOMAIN chunk}
Embedded == {e \in DOMAIN entity : entity[e].near > 0}
NearEntities == {[node |-> e, score |-> entity[e].near] : e \in Embedded}
HitEntities == {[node |-> e, score |-> entity[e].hit] : e \in DOMAIN entity}

\* WHERE n.engagement_id = $engagement_id AND n.type IN $types, where an empty
\* list of types asks for no such condition.
InScope(node, g, types) ==
  node.engagement = g /\ (types # {} => node.type \in types)

ChunksInScope(S, g, types) == {x \in S : InScope(chunk[x.node], g, types)}
EntitiesInScope(S, g, types) == {x \in S : InScope(entity[x.node], g, types)}

-----------------------------------------------------------------------------
(* Neo4jStore: the sequences of records each query may return.             *)

VectorRecords(g, types) ==
  UNION {Ranked(ChunksInScope(T, g, types)) : T \in Nearest(NearChunks, TopK)}

\* Mutant: the limit applies before the engagement is looked at.
FulltextRecordsLimitedFirst(g, types) ==
  {SelectSeq(FirstK(s), LAMBDA x : InScope(chunk[x.node], g, types)) :
     s \in Ranked(Matches(HitChunks))}

FulltextRecords(g, types) ==
  {FirstK(s) : s \in Ranked(ChunksInScope(Matches(HitChunks), g, types))}

\* The nearest chunks, each with its entities and theirs, which are left out
\* here.  query_text is not used.
HybridRecords(g, types) ==
  {FirstK(s) : s \in
     UNION {Ranked(ChunksInScope(T, g, types)) : T \in Nearest(NearChunks, TopK)}}

\* max(hit.score) by chunk.
MergeHits(V, F) ==
  {[node |-> c, score |-> Max({x.score : x \in {y \in V \cup F : y.node = c}})] :
     c \in {x.node : x \in V \cup F}}

\* Without doc_types.  Fulltext scores count for eight tenths.  When the fulltext
\* part yields no row, "WITH vector_hits, collect(...)" has none to group, and
\* the query returns no record.
MergedRecords(g) ==
  LET F == {[node |-> x.node, score |-> (8 * x.score) \div 10] :
              x \in ChunksInScope(Matches(HitChunks), g, {})}
      V == {ChunksInScope(T, g, {}) : T \in Nearest(NearChunks, TopK)}
  IN  IF F = {} THEN {<<>>}
      ELSE {FirstK(s) : s \in UNION {Ranked(MergeHits(hits, F)) : hits \in V}}

\* With doc_types its fulltext part names the variable chunk, which the WITH
\* before has left out of scope: the query does not compile.
Compiles(mode, types) == mode = "graph_vector_fulltext" => types = {}

\* The aggregation after ORDER BY and LIMIT leaves the order of entities open.
GraphRecords(g) ==
  UNION {SetToSeqs(ToSet(FirstK(s))) :
           s \in Ranked(EntitiesInScope(Matches(HitEntities), g, {}))}

\* Mutant: the nearest entities of all engagements are expanded.
EntityVectorRecordsAnywhere(g, types) ==
  UNION {SetToSeqs(T) : T \in Nearest(NearEntities, TopK)}

EntityVectorRecords(g, types) ==
  UNION {SetToSeqs(EntitiesInScope(T, g, types)) : T \in Nearest(NearEntities, TopK)}

\* The records an evidence search reads, of which the Python code takes some in
\* the order of their scores.
EvidenceHits(g, types) ==
  {ChunksInScope(T, g, types) : T \in Nearest(NearChunks, Fetched)}

-----------------------------------------------------------------------------
(* retrieval/*.py: the answers those records are parsed into.              *)

\* Mutant: scores stay negated, as an ascending sort needs them.
ParseChunksNegated(records) ==
  [i \in DOMAIN records |-> [id |-> records[i].node, score |-> 0 - records[i].score]]

\* A record of a chunk: _parse_chunk_records and its like.
ParseChunks(records) ==
  [i \in DOMAIN records |-> [id |-> records[i].node, score |-> records[i].score]]

\* Mutant: a chunk that several entities mention comes once for each.
ParseEntitiesRepeated(records) ==
  LET rows == {row \in (DOMAIN records) \X DOMAIN chunk :
                 row[2] \in entity[records[row[1]].node].chunks}
  IN  {[k \in DOMAIN s |-> [id |-> s[k][2], score |-> records[s[k][1]].score]] :
         s \in {s \in SetToSeqs(rows) :
                  \A i, j \in DOMAIN s : i < j => s[i][1] <= s[j][1]}}

\* Records of entities, with the chunks each is mentioned in, in any order: a
\* chunk is taken from the first record that gives it, and seen in the later
\* ones (_parse_graph_records, _parse_entity_vector_records).
ParseEntities(records) ==
  LET mentioned(i) == entity[records[i].node].chunks
      found == UNION {mentioned(i) : i \in DOMAIN records}
      first(c) == Min({i \in DOMAIN records : c \in mentioned(i)})
  IN  {[k \in DOMAIN s |-> [id |-> s[k], score |-> records[first(s[k])].score]] :
         s \in {s \in SetToSeqs(found) :
                  \A i, j \in DOMAIN s : i < j => first(s[i]) <= first(s[j])}}

VectorSearch(g, types) == {ParseChunks(s) : s \in VectorRecords(g, types)}

FulltextSearch(g, types) == {ParseChunks(s) : s \in FulltextRecords(g, types)}

HybridSearch(g, types) == {ParseChunks(s) : s \in HybridRecords(g, types)}

GraphVectorFulltextSearch(g) == {ParseChunks(s) : s \in MergedRecords(g)}

GraphSearch(g) == UNION {ParseEntities(s) : s \in GraphRecords(g)}

EntityVectorSearch(g, types) ==
  UNION {ParseEntities(s) : s \in EntityVectorRecords(g, types)}

\* Each filter looks for its term in the text; that of a control, which asks for
\* the id of an entity or for another reference ("none" is the id of no entity),
\* also among the ids of the chunk's controls, that of an entity among the names.
PassesFilter(c, filter, control) ==
  LET mentioned == {e \in DOMAIN entity : c \in entity[e].chunks}
  IN  \A f \in filter :
        \/ f \in chunk[c].says
        \/ f = "control" /\ control \in mentioned /\ entity[control].type = Control
        \/ f = "entity" /\ \E e \in mentioned : entity[e].named

\* The first of the records that pass, in the order of the index.
EvidenceSearch(filter, control, g, types) ==
  {ParseChunks(First(s, Kept)) : s \in
     UNION {Ranked({x \in S : PassesFilter(x.node, filter, control)}) :
              S \in EvidenceHits(g, types)}}

-----------------------------------------------------------------------------
(* The endpoints.                                                          *)

\* classify_query, of what its three groups of patterns and the length say.
Classify(fulltext, graph, ofEntities, short) ==
  CASE ofEntities -> "entity_vector"
    [] ~ofEntities /\ fulltext /\ graph -> "graph_vector_fulltext"
    [] ~ofEntities /\ fulltext /\ ~graph -> "fulltext"
    [] ~ofEntities /\ ~fulltext /\ graph -> "graph"
    [] OTHER -> IF short THEN "hybrid" ELSE "vector"

Search(mode, g, types) ==
  CASE mode = "vector" -> VectorSearch(g, types)
    [] mode = "hybrid" -> HybridSearch(g, types)
    [] mode = "fulltext" -> FulltextSearch(g, types)
    [] mode = "graph" -> GraphSearch(g)
    [] mode = "entity_vector" -> EntityVectorSearch(g, types)
    [] mode = "graph_vector_fulltext" -> GraphVectorFulltextSearch(g)

\* sorted(..., reverse=True)[:top_k]; the sort is stable, so there is one result.
Rerank(s) ==
  LET before(i, j) == \/ s[i].score > s[j].score
                      \/ s[i].score = s[j].score /\ i < j
  IN  {FirstK([i \in DOMAIN p |-> s[p[i]]]) :
         p \in {p \in SetToSeqs(DOMAIN s) :
                  \A i, j \in DOMAIN p : i < j => before(p[i], p[j])}}

\* retrieve_auto, and generate_answer.  The endpoints of one mode do the same,
\* but /vector, /fulltext, /graph and /entity-vector never rerank.
Ask(mode, g, types) ==
  /\ Compiles(mode, types)
  /\ \E s \in Search(mode, g, types), reranked \in BOOLEAN :
     \E t \in IF reranked THEN Rerank(s) ELSE {s} :
       answer' = [mode |-> mode, filter |-> {}, control |-> "none", engagement |-> g,
                  types |-> types, reranked |-> reranked, raised |-> FALSE, chunks |-> t]
  /\ UNCHANGED <<chunk, entity>>

AskInVain(mode, g, types) ==
  /\ ~Compiles(mode, types)
  /\ answer' = [mode |-> mode, filter |-> {}, control |-> "none", engagement |-> g,
                types |-> types, reranked |-> FALSE, raised |-> TRUE, chunks |-> <<>>]
  /\ UNCHANGED <<chunk, entity>>

\* search_evidence, and the checks of detect_missing_evidence and
\* generate_traceability_matrix.
AskForEvidence(filter, control, g, types) ==
  /\ "control" \in filter \/ control = "none"
  /\ \E s \in EvidenceSearch(filter, control, g, types) :
       answer' = [mode |-> "evidence", filter |-> filter, control |-> control,
                  engagement |-> g, types |-> types, reranked |-> FALSE,
                  raised |-> FALSE, chunks |-> s]
  /\ UNCHANGED <<chunk, entity>>

\* The modes a request may name, or the router find.
Routed == {Classify(f, g, e, s) : f, g, e, s \in BOOLEAN}

\* One question is asked of each graph.
Next ==
  \/ \E c \in Chunk : AddChunk(c)
  \/ \E e \in Entity : AddEntity(e) \/ EmbedEntity(e)
  \/ \E mode \in Routed, g \in Engagement : \E types \in SUBSET AskedTypes(mode) :
       answer = Unasked /\ (Ask(mode, g, types) \/ AskInVain(mode, g, types))
  \/ \E filter \in Filters, control \in DOMAIN entity \cup {"none"},
        g \in Engagement, types \in SUBSET DocType :
       answer = Unasked /\ AskForEvidence(filter, control, g, types)

Spec == Init /\ [][Next]_vars
-----------------------------------------------------------------------------
(* Properties of the last answer.                                          *)

Asked == answer # Unasked /\ ~answer.raised
Found == {x.id : x \in ToSet(answer.chunks)}
Asks == IF answer.mode = "evidence" THEN Kept ELSE TopK
Full == Len(answer.chunks) = Asks

\* No answer holds a chunk of another engagement, whatever nodes of others
\* crowd the indexes, nor, in the modes that take doc_types, one of another
\* type; with entity_types, each chunk is mentioned by an entity of a type, and
\* evidence is what the filters ask for.
AnswerStaysInScope ==
  Asked => \A c \in Found :
    /\ chunk[c].engagement = answer.engagement
    /\ answer.mode \in TypedMode =>
         InScope(chunk[c], answer.engagement, answer.types)
    /\ PassesFilter(c, answer.filter, answer.control)
    /\ answer.mode = "entity_vector" =>
         \E e \in DOMAIN entity : /\ c \in entity[e].chunks
                                 /\ InScope(entity[e], answer.engagement, answer.types)

\* An answer names no chunk twice, though two hits or entities may lead to it;
\* it is sorted and holds as many chunks as asked at most, but for the
\* unreranked chunks of TopK entities.
AnswerIsARanking ==
  Asked =>
    /\ IsInjective([i \in DOMAIN answer.chunks |-> answer.chunks[i].id])
    /\ (answer.mode \in TypedMode \/ answer.reranked) =>
         /\ Len(answer.chunks) <= Asks
         /\ \A i, j \in DOMAIN answer.chunks :
              i < j => answer.chunks[i].score >= answer.chunks[j].score

Worst == Min({x.score : x \in ToSet(answer.chunks)})

\* k other nodes, of any engagement, stand at least as near as this one: what
\* the vector index returns before the engagement is looked at leaves it out.
Crowded(node, n, k) ==
  Cardinality({m \in DOMAIN node \ {n} : node[m].near >= node[n].near}) >= k

\* TopK other entities of the engagement match at least as well as this one.
Outmatched(e, g) ==
  Cardinality({f \in DOMAIN entity \ {e} :
    entity[f].engagement = g /\ entity[f].hit >= entity[e].hit}) >= TopK

\* A chunk of the engagement that is left out had to give way: to TopK better
\* ones in the answer, or to as many in the vector index (to Fetched, if it is
\* evidence); in the merged search also to a fulltext part without any hit; or
\* the entities that lead to it are not embedded yet.
LeftOutForBetter ==
  Asked => \A c \in DOMAIN chunk \ Found :
    LET n == chunk[c]
        inScope == InScope(n, answer.engagement,
                     IF answer.mode \in TypedMode THEN answer.types ELSE {})
        outranked(score) == Full /\ Worst >= score
        anyHit == \E d \in DOMAIN chunk :
                    chunk[d].engagement = answer.engagement /\ chunk[d].hit > 0
        through(e) == c \in entity[e].chunks /\ entity[e].engagement = answer.engagement
    IN  inScope =>
          /\ answer.mode \in {"vector", "hybrid"} => Crowded(chunk, c, TopK)
          /\ answer.mode = "evidence" /\ PassesFilter(c, answer.filter, answer.control) =>
               outranked(n.near) \/ Crowded(chunk, c, Fetched)
          /\ answer.mode = "fulltext" /\ n.hit > 0 => outranked(n.hit)
          /\ answer.mode = "graph_vector_fulltext" =>
               /\ n.hit > 0 => outranked((8 * n.hit) \div 10)
               /\ outranked(n.near) \/ Crowded(chunk, c, TopK) \/ ~anyHit
          /\ answer.mode = "graph" =>
               \A e \in DOMAIN entity : through(e) /\ entity[e].hit > 0 =>
                 (answer.reranked /\ Full) \/ Outmatched(e, answer.engagement)
          /\ answer.mode = "entity_vector" =>
               \A e \in DOMAIN entity :
                 through(e) /\ InScope(entity[e], answer.engagement, answer.types) =>
                   \/ answer.reranked /\ Full
                   \/ e \notin Embedded \/ Crowded(entity, e, TopK)

\* "vector KNN \cup fulltext hits" (neo4j_store.py:430): a chunk among the nearest
\* of the index is in the merged answer unless TopK chunks outrank it.
UnionOfHits ==
  Asked /\ answer.mode = "graph_vector_fulltext" =>
    \A c \in DOMAIN chunk \ Found :
      InScope(chunk[c], answer.engagement, answer.types) =>
        Full \/ Crowded(chunk, c, TopK)
=============================================================================
