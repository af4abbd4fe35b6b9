--------------------------- MODULE MCEntityGraph ---------------------------
\* EntityGraph with three things the LLM may find in a chunk.
EXTENDS EntityGraph, TLC

Found(entities, related) == [entities |-> entities, related |-> related]
E(name, type) == [name |-> name, type |-> type]

\* Nothing; one entity; or two others with a relationship.
MCExtraction ==
  {Found(<<>>, {}),
   Found(<<E("x", "t1")>>, {}),
   Found(<<E("y", "t1"), E("z", "t2")>>, {<<"y", "z">>})}

MCSymmetry == Permutations(Doc)
=============================================================================
