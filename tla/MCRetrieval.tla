---------------------------- MODULE MCRetrieval ----------------------------
\* Retrieval over interchangeable nodes, engagements and types of documents.
EXTENDS Retrieval, TLC

\* A text that matches names the control and the entity, another the period.
MCText == {[hit |-> 0, says |-> {"period"}], [hit |-> 10, says |-> {"control", "entity"}]}

\* The question is about the entity that is filtered by.
MCName == {[hit |-> 0, named |-> FALSE], [hit |-> 10, named |-> TRUE]}

\* detect_missing_evidence gives a control and a period together.
MCFilters == {{}, {"entity"}, {"control"}, {"control", "period"}}

MCSymmetry == Permutations(Chunk) \cup Permutations(Entity)
                \cup Permutations(Engagement) \cup Permutations(DocType)
=============================================================================
