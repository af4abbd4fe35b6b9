-------------------------- MODULE Retrieval_proofs --------------------------
(***************************************************************************)
(* Proofs about the answers of the retrieval modes.  The graph is kept     *)
(* well-formed and finite, and no entity is linked out of its engagement   *)
(* (Inv); given that, everything follows from what one question does:      *)
(* which hits it takes from an index (Nearest), how it ranks and cuts them *)
(* (BestOf), expands entities to chunks (Expands) and reranks (Rerank).    *)
(***************************************************************************)
EXTENDS Retrieval, FiniteSetTheorems, NaturalsInduction, TLAPS

Finite == IsFiniteSet(DOMAIN chunk) /\ IsFiniteSet(DOMAIN entity)

(* An entity is mentioned in chunks of its own engagement only.            *)
LinksWithin ==
  \A e \in DOMAIN entity : \A c \in entity[e].chunks :
    chunk[c].engagement = entity[e].engagement

Inv == TypeOK /\ Finite /\ LinksWithin

-----------------------------------------------------------------------------
(* Minima and maxima, orderings and prefixes.                              *)

LEMMA MinOfNat ==
  ASSUME NEW S \in SUBSET Nat, S # {}
  PROVE  Min(S) \in S /\ \A y \in S : Min(S) <= y
<1>1. PICK m \in S : \A y \in S : ~(<<y, m>> \in OpToRel(<, Nat))
  BY NatLessThanWellFounded, WFMin
<1>2. ASSUME NEW y \in S PROVE m <= y
  <2>1. y \in Nat /\ m \in Nat
    OBVIOUS
  <2>2. <<y, m>> \in OpToRel(<, Nat) <=> y < m
    BY <2>1 DEF OpToRel
  <2>3. ~(y < m)
    BY <1>1, <2>2, Zenon
  <2> QED
    BY <2>1, <2>3
<1> QED BY <1>2 DEF Min

LEMMA MinOfTwo ==
  ASSUME NEW a \in Nat, NEW b \in Nat
  PROVE  Min({a, b}) = IF a <= b THEN a ELSE b
<1>1. Min({a, b}) \in {a, b} /\ \A y \in {a, b} : Min({a, b}) <= y
  BY MinOfNat
<1> QED BY <1>1

LEMMA MaxOfTwo ==
  ASSUME NEW a \in Nat, NEW b \in Nat
  PROVE  Max({a, b}) = IF a >= b THEN a ELSE b
<1>1. Max({a, b}) \in {a, b} /\ \A y \in {a, b} : Max({a, b}) >= y
  BY DEF Max
<1> QED BY <1>1

(* A sequence of all elements of a set holds each of them once.            *)
LEMMA Orderings ==
  ASSUME NEW S, IsFiniteSet(S), NEW s \in SetToSeqs(S)
  PROVE  /\ s \in Seq(S) /\ Len(s) = Cardinality(S)
         /\ \A i, j \in DOMAIN s : s[i] = s[j] => i = j
         /\ ToSet(s) = S
<1>1. Cardinality(S) \in Nat
  BY FS_CardinalityType
<1>2. s \in [1..Cardinality(S) -> S] /\ \A i, j \in 1..Cardinality(S) : i # j => s[i] # s[j]
  BY DEF SetToSeqs
<1>3. s \in Seq(S) /\ Len(s) = Cardinality(S)
  BY <1>1, <1>2
<1>4. s \in Injection(1..Cardinality(S), S)
  BY <1>2 DEF Injection, IsInjective
<1>5. Cardinality(1..Cardinality(S)) = Cardinality(S)
  BY <1>1, FS_Interval
<1>6. s \in Surjection(1..Cardinality(S), S)
  BY <1>4, <1>5, FS_Injection
<1>7. ToSet(s) = S
  BY <1>2, <1>6 DEF Surjection, ToSet
<1> QED BY <1>2, <1>3, <1>7

LEMMA FirstOf ==
  ASSUME NEW S, NEW s \in Seq(S), NEW k \in Nat
  PROVE  /\ First(s, k) \in Seq(S)
         /\ Len(First(s, k)) = IF Len(s) <= k THEN Len(s) ELSE k
         /\ \A i \in DOMAIN First(s, k) : i \in DOMAIN s /\ First(s, k)[i] = s[i]
<1>1. Min({Len(s), k}) = IF Len(s) <= k THEN Len(s) ELSE k
  BY MinOfTwo
<1>2. First(s, k) = SubSeq(s, 1, IF Len(s) <= k THEN Len(s) ELSE k)
  BY <1>1 DEF First
<1> QED BY <1>2

-----------------------------------------------------------------------------
(* What a mode may answer.                                                 *)

Ids(t) == {x.id : x \in ToSet(t)}
Distinct(t) == \A i, j \in DOMAIN t : t[i].id = t[j].id => i = j
Sorted(t) == \A i, j \in DOMAIN t : i < j => t[i].score >= t[j].score

(* The answer is full, of chunks with at least this score.                 *)
FullAbove(t, k, score) == Len(t) = k /\ \A x \in ToSet(t) : x.score >= score

(* Hits: records of chunks, one of each.                                   *)
Hits(S) ==
  /\ IsFiniteSet(S)
  /\ \A x \in S : x.node \in Chunk /\ x.score \in Nat
  /\ \A x, y \in S : x.node = y.node => x = y

(* t ranks the k best of the hits S.                                       *)
BestOf(t, S, k) ==
  /\ t \in Seq(Result) /\ Distinct(t) /\ Sorted(t) /\ Len(t) <= k
  /\ \A c \in Ids(t) : \E x \in S : x.node = c
  /\ \A x \in S : x.node \in Ids(t) \/ FullAbove(t, k, x.score)

(* t lists, once each, the chunks that the entities E are mentioned in.    *)
Expands(t, E) ==
  /\ t \in Seq(Result) /\ Distinct(t)
  /\ Ids(t) = UNION {entity[e].chunks : e \in E}

LEMMA BestOfRanked ==
  ASSUME NEW S, Hits(S), NEW s \in Ranked(S), NEW k \in Nat \ {0}
  PROVE  BestOf(ParseChunks(First(s, k)), S, k)
<1> DEFINE p == First(s, k)
           t == ParseChunks(p)
<1>1. /\ s \in Seq(S) /\ ToSet(s) = S
      /\ \A i, j \in DOMAIN s : s[i] = s[j] => i = j
      /\ \A i, j \in DOMAIN s : i < j => s[i].score >= s[j].score
  BY Orderings DEF Ranked, Hits
<1>2. /\ p \in Seq(S)
      /\ Len(p) = IF Len(s) <= k THEN Len(s) ELSE k
      /\ \A i \in DOMAIN p : i \in DOMAIN s /\ p[i] = s[i]
  BY <1>1, FirstOf
<1>0. t = [i \in DOMAIN p |-> [id |-> p[i].node, score |-> p[i].score]]
  BY DEF ParseChunks
<1> HIDE DEF p, t
<1>3. /\ DOMAIN t = 1..Len(p) /\ DOMAIN p = 1..Len(p)
      /\ \A i \in DOMAIN t : t[i] = [id |-> s[i].node, score |-> s[i].score] /\ s[i] \in S
  BY <1>0, <1>1, <1>2
<1>4. t \in Seq(Result) /\ Len(t) = Len(p)
  <2>1. \A i \in DOMAIN p : [id |-> p[i].node, score |-> p[i].score] \in Result
    BY <1>2, <1>3 DEF Hits, Result
  <2>2. t \in [1..Len(p) -> Result] /\ Len(p) \in Nat
    BY <1>0, <1>2, <1>3, <2>1
  <2> QED BY <2>2
<1>5. Distinct(t)
  <2> SUFFICES ASSUME NEW i \in DOMAIN t, NEW j \in DOMAIN t, t[i].id = t[j].id
               PROVE  i = j
    BY DEF Distinct
  <2>1. s[i].node = s[j].node /\ s[i] \in S /\ s[j] \in S
    BY <1>3
  <2>2. s[i] = s[j]
    BY <2>1 DEF Hits
  <2> QED BY <1>1, <1>2, <1>3, <2>2
<1>6. Sorted(t)
  <2> SUFFICES ASSUME NEW i \in DOMAIN t, NEW j \in DOMAIN t, i < j
               PROVE  t[i].score >= t[j].score
    BY DEF Sorted
  <2>1. i \in DOMAIN s /\ j \in DOMAIN s
    BY <1>2, <1>3
  <2>2. t[i].score = s[i].score /\ t[j].score = s[j].score
    BY <1>3
  <2> QED BY <1>1, <2>1, <2>2
<1>7. Len(t) <= k
  BY <1>1, <1>2, <1>4
<1>8. \A c \in Ids(t) : \E x \in S : x.node = c
  BY <1>3 DEF Ids, ToSet
<1>9. ASSUME NEW x \in S, x.node \notin Ids(t)
      PROVE  FullAbove(t, k, x.score)
  <2>1. PICK j \in DOMAIN s : s[j] = x
    BY <1>1 DEF ToSet
  <2>2. j \notin DOMAIN t
    <3>1. ASSUME j \in DOMAIN t PROVE FALSE
      <4>1. t[j].id = x.node /\ t[j] \in ToSet(t)
        BY <1>3, <2>1, <3>1 DEF ToSet
      <4> QED BY <1>9, <4>1 DEF Ids
    <3> QED BY <3>1
  <2>3. Len(s) > k /\ Len(p) = k /\ k < j
    BY <1>1, <1>2, <1>3, <2>1, <2>2
  <2>4. ASSUME NEW i \in DOMAIN t PROVE t[i].score >= x.score
    <3>1. i \in DOMAIN s /\ i < j
      BY <1>2, <1>3, <2>3
    <3> QED BY <1>1, <1>3, <2>1, <3>1
  <2> QED BY <1>4, <2>3, <2>4 DEF FullAbove, ToSet
<1> QED
  BY <1>4, <1>5, <1>6, <1>7, <1>8, <1>9 DEF BestOf, p, t
-----------------------------------------------------------------------------
(* The indexes.                                                            *)

LEMMA ImageIsFinite ==
  ASSUME NEW D, IsFiniteSet(D), NEW R, NEW f \in [D -> R],
         \A r \in R : \E x \in D : f[x] = r
  PROVE  IsFiniteSet(R) /\ Cardinality(R) <= Cardinality(D)
<1>1. f \in Surjection(D, R)
  BY DEF Surjection
<1> QED BY <1>1, FS_Surjection

LEMMA SomeHits ==
  ASSUME NEW S, Hits(S), NEW T \in SUBSET S
  PROVE  Hits(T)
BY FS_Subset DEF Hits

LEMMA ChunkHits ==
  ASSUME Inv
  PROVE  /\ Hits(NearChunks) /\ Hits(HitChunks)
         /\ \A x \in NearChunks \cup HitChunks : x.node \in DOMAIN chunk
<1>1. \A c \in DOMAIN chunk : c \in Chunk /\ chunk[c].near \in Nat /\ chunk[c].hit \in Nat
  BY RetrievalAssumption DEF Inv, TypeOK
<1>2. IsFiniteSet(NearChunks)
  <2> DEFINE f == [c \in DOMAIN chunk |-> [node |-> c, score |-> chunk[c].near]]
  <2>1. f \in [DOMAIN chunk -> NearChunks] /\ \A r \in NearChunks : \E x \in DOMAIN chunk : f[x] = r
    BY DEF NearChunks
  <2> HIDE DEF f
  <2> QED BY <2>1, ImageIsFinite DEF Inv, Finite
<1>3. IsFiniteSet(HitChunks)
  <2> DEFINE f == [c \in DOMAIN chunk |-> [node |-> c, score |-> chunk[c].hit]]
  <2>1. f \in [DOMAIN chunk -> HitChunks] /\ \A r \in HitChunks : \E x \in DOMAIN chunk : f[x] = r
    BY DEF HitChunks
  <2> HIDE DEF f
  <2> QED BY <2>1, ImageIsFinite DEF Inv, Finite
<1> QED
  BY <1>1, <1>2, <1>3 DEF Hits, NearChunks, HitChunks

LEMMA EntityRecordsAreFinite ==
  ASSUME Inv
  PROVE  IsFiniteSet(NearEntities) /\ IsFiniteSet(HitEntities)
<1>1. IsFiniteSet(NearEntities)
  <2> DEFINE f == [e \in Embedded |-> [node |-> e, score |-> entity[e].near]]
  <2>1. f \in [Embedded -> NearEntities] /\ \A r \in NearEntities : \E x \in Embedded : f[x] = r
    BY DEF NearEntities
  <2>2. IsFiniteSet(Embedded)
    BY FS_Subset DEF Inv, Finite, Embedded
  <2> HIDE DEF f
  <2> QED BY <2>1, <2>2, ImageIsFinite
<1>2. IsFiniteSet(HitEntities)
  <2> DEFINE f == [e \in DOMAIN entity |-> [node |-> e, score |-> entity[e].hit]]
  <2>1. f \in [DOMAIN entity -> HitEntities] /\ \A r \in HitEntities : \E x \in DOMAIN entity : f[x] = r
    BY DEF HitEntities
  <2> HIDE DEF f
  <2> QED BY <2>1, ImageIsFinite DEF Inv, Finite
<1> QED BY <1>1, <1>2

LEMMA NearestOf ==
  ASSUME NEW S, IsFiniteSet(S), NEW k \in Nat, NEW T \in Nearest(S, k)
  PROVE  /\ T \subseteq S /\ IsFiniteSet(T)
         /\ Cardinality(T) \in Nat /\ Cardinality(T) <= k
         /\ \A x \in S \ T : /\ Cardinality(T) = k
                             /\ \A y \in T : y.score >= x.score
<1>1. /\ T \in SUBSET S /\ Cardinality(T) = Min({k, Cardinality(S)})
      /\ \A x \in T, y \in S \ T : x.score >= y.score
  BY DEF Nearest
<1>2. IsFiniteSet(T) /\ Cardinality(T) \in Nat /\ Cardinality(S) \in Nat
  BY <1>1, FS_Subset, FS_CardinalityType
<1>3. Cardinality(T) = IF k <= Cardinality(S) THEN k ELSE Cardinality(S)
  BY <1>1, <1>2, MinOfTwo
<1>4. ASSUME NEW x \in S \ T PROVE Cardinality(T) = k
  <2>1. Cardinality(T) # Cardinality(S)
    BY <1>1, <1>4, FS_Subset
  <2> QED BY <1>3, <2>1
<1>5. Cardinality(T) <= k
  BY <1>2, <1>3
<1>6. \A x \in S \ T : \A y \in T : y.score >= x.score
  BY <1>1, Zenon
<1> QED BY <1>1, <1>2, <1>4, <1>5, <1>6

(* A node in a vector index that does not return it is crowded out.        *)
LEMMA NearestCrowds ==
  ASSUME NEW f, IsFiniteSet(DOMAIN f), \A x \in DOMAIN f : f[x].near \in Nat,
         NEW D \in SUBSET DOMAIN f,
         NEW S, S = {[node |-> x, score |-> f[x].near] : x \in D}, IsFiniteSet(S),
         NEW k \in Nat, NEW T \in Nearest(S, k),
         NEW n \in D, [node |-> n, score |-> f[n].near] \notin T
  PROVE  Crowded(f, n, k)
<1> DEFINE C == {m \in DOMAIN f \ {n} : f[m].near >= f[n].near}
           g == [x \in T |-> x.node]
<1>1. /\ T \subseteq S /\ Cardinality(T) = k
      /\ \A y \in T : y.score >= f[n].near
  BY NearestOf
<1>2. ASSUME NEW x \in T
      PROVE  /\ x.node \in D /\ x.score = f[x.node].near
             /\ x = [node |-> x.node, score |-> f[x.node].near]
  BY <1>1
<1>3. ASSUME NEW x \in T PROVE x.node \in C
  BY <1>1, <1>2
<1>4. IsFiniteSet(C) /\ Cardinality(C) \in Nat
  <2>1. C \in SUBSET (DOMAIN f)
    OBVIOUS
  <2> QED BY <2>1, FS_Subset, FS_CardinalityType
<1> HIDE DEF C
<1>5. g \in Injection(T, C)
  <2>1. \A x, y \in T : x.node = y.node => x = y
    BY <1>2
  <2> QED BY <1>3, <2>1 DEF Injection, IsInjective
<1> HIDE DEF g
<1>6. Cardinality(T) <= Cardinality(C)
  BY <1>4, <1>5, FS_Injection
<1> QED BY <1>1, <1>4, <1>6 DEF Crowded, C
(* Two sets of hits merge to one, of the better score of each chunk.       *)
LEMMA MergedHits ==
  ASSUME NEW V, Hits(V), NEW F, Hits(F)
  PROVE  /\ Hits(MergeHits(V, F))
         /\ \A x \in MergeHits(V, F) : \E y \in V \cup F : y.node = x.node
         /\ \A y \in V \cup F : \E x \in MergeHits(V, F) :
              x.node = y.node /\ x.score >= y.score
<1> DEFINE scores(c) == {x.score : x \in {y \in V \cup F : y.node = c}}
           N == {x.node : x \in V \cup F}
           M == {[node |-> c, score |-> Max(scores(c))] : c \in N}
<1>1. MergeHits(V, F) = M
  BY DEF MergeHits
<1>2. ASSUME NEW z \in V \cup F
      PROVE  /\ Max(scores(z.node)) \in Nat
             /\ \A y \in V \cup F : y.node = z.node => Max(scores(z.node)) >= y.score
  <2>1. PICK v \in V \cup F, f \in V \cup F :
          /\ v.node = z.node /\ f.node = z.node
          /\ \A y \in V \cup F : y.node = z.node => y = v \/ y = f
    <3>1. CASE \E v \in V, f \in F : v.node = z.node /\ f.node = z.node
      BY <3>1 DEF Hits
    <3>2. CASE ~\E v \in V, f \in F : v.node = z.node /\ f.node = z.node
      BY <3>2 DEF Hits
    <3> QED BY <3>1, <3>2
  <2>2. scores(z.node) = {v.score, f.score}
    BY <2>1
  <2>3. v.score \in Nat /\ f.score \in Nat
    BY DEF Hits
  <2>4. Max(scores(z.node)) = IF v.score >= f.score THEN v.score ELSE f.score
    BY <2>2, <2>3, MaxOfTwo
  <2> HIDE DEF scores
  <2> QED BY <2>1, <2>3, <2>4
<1>3. IsFiniteSet(M)
  <2>1. IsFiniteSet(V \cup F)
    BY FS_Union DEF Hits
  <2> DEFINE f == [x \in V \cup F |-> x.node]
             h == [c \in N |-> [node |-> c, score |-> Max(scores(c))]]
  <2>2. f \in [V \cup F -> N] /\ \A r \in N : \E x \in V \cup F : f[x] = r
    OBVIOUS
  <2>3. h \in [N -> M] /\ \A r \in M : \E x \in N : h[x] = r
    OBVIOUS
  <2> HIDE DEF f, h, N, M
  <2>4. IsFiniteSet(N)
    BY <2>1, <2>2, ImageIsFinite
  <2> QED BY <2>3, <2>4, ImageIsFinite
<1> HIDE DEF scores
<1>4. \A x \in M : /\ \E y \in V \cup F : y.node = x.node
                   /\ x.node \in Chunk /\ x.score \in Nat
                   /\ x.score = Max(scores(x.node))
                   /\ x = [node |-> x.node, score |-> Max(scores(x.node))]
  BY <1>2 DEF Hits
<1>5. \A y \in V \cup F : \E x \in M : x.node = y.node /\ x.score >= y.score
  <2> TAKE y \in V \cup F
  <2>1. [node |-> y.node, score |-> Max(scores(y.node))] \in M
    OBVIOUS
  <2> QED BY <1>2, <2>1
<1>6. \A x, y \in M : x.node = y.node => x = y
  BY <1>4
<1>7. Hits(M)
  BY <1>3, <1>4, <1>6 DEF Hits
<1> QED BY <1>1, <1>4, <1>5, <1>7
-----------------------------------------------------------------------------
(* The modes that rank chunks.                                             *)

(* t ranks chunks of the engagement and the types only, k at most.         *)
Scoped(t, g, types, k) ==
  /\ t \in Seq(Result) /\ Distinct(t) /\ Sorted(t) /\ Len(t) <= k
  /\ \A c \in Ids(t) : c \in DOMAIN chunk /\ InScope(chunk[c], g, types)

LEMMA BestInScope ==
  ASSUME NEW t, NEW S, NEW k, BestOf(t, S, k), NEW g, NEW types,
         \A x \in S : x.node \in DOMAIN chunk /\ InScope(chunk[x.node], g, types)
  PROVE  Scoped(t, g, types, k)
BY DEF BestOf, Scoped

(* What is no longer than the limit is not cut.                            *)
LEMMA WholeOf ==
  ASSUME NEW S, IsFiniteSet(S), NEW s \in Ranked(S), NEW k \in Nat,
         Cardinality(S) <= k
  PROVE  First(s, k) = s
<1>1. s \in Seq(S) /\ Len(s) = Cardinality(S)
  BY Orderings DEF Ranked
<1>2. /\ First(s, k) \in Seq(S) /\ Len(First(s, k)) = Len(s)
      /\ \A i \in DOMAIN First(s, k) : First(s, k)[i] = s[i]
  BY <1>1, FirstOf
<1> QED BY <1>1, <1>2

(* The nearest chunks of the index, in scope.                              *)
LEMMA NearestInScope ==
  ASSUME Inv, NEW g, NEW types, NEW k \in Nat, NEW T \in Nearest(NearChunks, k)
  PROVE  LET S == ChunksInScope(T, g, types) IN
         /\ Hits(S) /\ Cardinality(S) \in Nat /\ Cardinality(S) <= k
         /\ \A x \in S : x.node \in DOMAIN chunk /\ InScope(chunk[x.node], g, types)
         /\ \A c \in DOMAIN chunk : InScope(chunk[c], g, types) =>
              \/ [node |-> c, score |-> chunk[c].near] \in S
              \/ Crowded(chunk, c, k)
<1> DEFINE S == ChunksInScope(T, g, types)
<1>1. /\ T \subseteq NearChunks /\ IsFiniteSet(T)
      /\ Cardinality(T) \in Nat /\ Cardinality(T) <= k
  BY ChunkHits, NearestOf DEF Hits
<1>2. S \in SUBSET T /\ S \in SUBSET NearChunks
  BY <1>1 DEF ChunksInScope
<1>3. Cardinality(S) \in Nat /\ Cardinality(S) <= k
  <2>1. IsFiniteSet(S) /\ Cardinality(S) <= Cardinality(T)
    BY <1>1, <1>2, FS_Subset
  <2>2. Cardinality(S) \in Nat
    BY <2>1, FS_CardinalityType
  <2> QED BY <1>1, <2>1, <2>2
<1>4. Hits(S)
  BY <1>2, ChunkHits, SomeHits
<1>5. ASSUME NEW x \in S
      PROVE  x.node \in DOMAIN chunk /\ InScope(chunk[x.node], g, types)
  BY <1>2, ChunkHits DEF ChunksInScope
<1>6. ASSUME NEW c \in DOMAIN chunk, InScope(chunk[c], g, types),
             [node |-> c, score |-> chunk[c].near] \notin S
      PROVE  Crowded(chunk, c, k)
  <2>1. [node |-> c, score |-> chunk[c].near] \notin T
    BY <1>6 DEF ChunksInScope
  <2>2. /\ IsFiniteSet(DOMAIN chunk) /\ IsFiniteSet(NearChunks)
        /\ \A x \in DOMAIN chunk : chunk[x].near \in Nat
    BY ChunkHits, RetrievalAssumption DEF Inv, Finite, TypeOK, Hits
  <2> QED BY <2>1, <2>2, NearestCrowds DEF NearChunks
<1> QED BY <1>3, <1>4, <1>5, <1>6

LEMMA VectorAnswers ==
  ASSUME Inv, NEW g, NEW types,
         NEW t \in VectorSearch(g, types) \cup HybridSearch(g, types)
  PROVE  /\ Scoped(t, g, types, TopK)
         /\ \A c \in DOMAIN chunk : InScope(chunk[c], g, types) =>
              c \in Ids(t) \/ Crowded(chunk, c, TopK)
<1>1. PICK T \in Nearest(NearChunks, TopK) :
        \E s \in Ranked(ChunksInScope(T, g, types)) :
          t = ParseChunks(s) \/ t = ParseChunks(FirstK(s))
  BY DEF VectorSearch, VectorRecords, HybridSearch, HybridRecords
<1> DEFINE S == ChunksInScope(T, g, types)
<1>2. /\ Hits(S) /\ Cardinality(S) \in Nat /\ Cardinality(S) <= TopK
      /\ \A x \in S : x.node \in DOMAIN chunk /\ InScope(chunk[x.node], g, types)
      /\ \A c \in DOMAIN chunk : InScope(chunk[c], g, types) =>
           \/ [node |-> c, score |-> chunk[c].near] \in S
           \/ Crowded(chunk, c, TopK)
  BY NearestInScope, RetrievalAssumption
<1>3. PICK s \in Ranked(S) : t = ParseChunks(s) \/ t = ParseChunks(FirstK(s))
  BY <1>1
<1> HIDE DEF S
<1>4. First(s, TopK) = s
  BY <1>2, WholeOf, RetrievalAssumption DEF Hits
<1>5. t = ParseChunks(First(s, TopK))
  BY <1>3, <1>4 DEF FirstK
<1>6. BestOf(t, S, TopK)
  BY <1>2, <1>5, BestOfRanked, RetrievalAssumption
<1>7. \A x \in S : x.node \in Ids(t)
  <2> SUFFICES ASSUME NEW x \in S, x.node \notin Ids(t) PROVE FALSE
    OBVIOUS
  <2>1. s \in Seq(S) /\ ToSet(s) = S
    BY <1>2, Orderings DEF Ranked, Hits
  <2>2. PICK i \in DOMAIN s : s[i] = x
    BY <2>1 DEF ToSet
  <2>3. t = [j \in DOMAIN s |-> [id |-> s[j].node, score |-> s[j].score]]
    BY <1>4, <1>5 DEF ParseChunks
  <2>4. t[i] \in ToSet(t) /\ t[i].id = x.node
    BY <2>2, <2>3 DEF ToSet
  <2> QED BY <2>4 DEF Ids
<1>8. Scoped(t, g, types, TopK)
  BY <1>2, <1>6, BestInScope
<1> QED BY <1>2, <1>7, <1>8
(* The matches of the fulltext index, in scope.                            *)
LEMMA MatchesInScope ==
  ASSUME Inv, NEW g, NEW types
  PROVE  LET S == ChunksInScope(Matches(HitChunks), g, types) IN
         /\ Hits(S)
         /\ \A x \in S : x.node \in DOMAIN chunk /\ InScope(chunk[x.node], g, types)
         /\ \A c \in DOMAIN chunk : InScope(chunk[c], g, types) /\ chunk[c].hit > 0 =>
              [node |-> c, score |-> chunk[c].hit] \in S
         /\ \A x \in S : x.score = chunk[x.node].hit /\ x.score > 0
<1> DEFINE S == ChunksInScope(Matches(HitChunks), g, types)
<1>1. S \in SUBSET HitChunks
  BY DEF ChunksInScope, Matches
<1>2. Hits(S)
  BY <1>1, ChunkHits, SomeHits
<1>3. \A x \in S : x.node \in DOMAIN chunk /\ InScope(chunk[x.node], g, types)
  BY <1>1, ChunkHits DEF ChunksInScope
<1>4. \A x \in S : x.score = chunk[x.node].hit /\ x.score > 0
  BY DEF ChunksInScope, Matches, HitChunks
<1>5. \A c \in DOMAIN chunk : InScope(chunk[c], g, types) /\ chunk[c].hit > 0 =>
        [node |-> c, score |-> chunk[c].hit] \in S
  BY DEF ChunksInScope, Matches, HitChunks
<1> QED BY <1>2, <1>3, <1>4, <1>5

LEMMA FulltextAnswers ==
  ASSUME Inv, NEW g, NEW types, NEW t \in FulltextSearch(g, types)
  PROVE  /\ Scoped(t, g, types, TopK)
         /\ \A c \in DOMAIN chunk : InScope(chunk[c], g, types) /\ chunk[c].hit > 0 =>
              c \in Ids(t) \/ FullAbove(t, TopK, chunk[c].hit)
<1> DEFINE S == ChunksInScope(Matches(HitChunks), g, types)
<1>1. PICK s \in Ranked(S) : t = ParseChunks(First(s, TopK))
  BY DEF FulltextSearch, FulltextRecords, FirstK
<1>2. /\ Hits(S)
      /\ \A x \in S : x.node \in DOMAIN chunk /\ InScope(chunk[x.node], g, types)
      /\ \A c \in DOMAIN chunk : InScope(chunk[c], g, types) /\ chunk[c].hit > 0 =>
           [node |-> c, score |-> chunk[c].hit] \in S
  BY MatchesInScope
<1> HIDE DEF S
<1>3. BestOf(t, S, TopK)
  BY <1>1, <1>2, BestOfRanked, RetrievalAssumption
<1>4. Scoped(t, g, types, TopK)
  BY <1>2, <1>3, BestInScope
<1>5. ASSUME NEW c \in DOMAIN chunk, InScope(chunk[c], g, types), chunk[c].hit > 0
      PROVE  c \in Ids(t) \/ FullAbove(t, TopK, chunk[c].hit)
  <2> DEFINE x == [node |-> c, score |-> chunk[c].hit]
  <2>1. x \in S /\ x.node = c /\ x.score = chunk[c].hit
    BY <1>2, <1>5
  <2> HIDE DEF x
  <2> QED BY <1>3, <2>1 DEF BestOf
<1> QED BY <1>4, <1>5

LEMMA EvidenceAnswers ==
  ASSUME Inv, NEW filter, NEW control, NEW g, NEW types,
         NEW t \in EvidenceSearch(filter, control, g, types)
  PROVE  /\ Scoped(t, g, types, Kept)
         /\ \A c \in Ids(t) : PassesFilter(c, filter, control)
         /\ \A c \in DOMAIN chunk :
              InScope(chunk[c], g, types) /\ PassesFilter(c, filter, control) =>
              \/ c \in Ids(t) \/ FullAbove(t, Kept, chunk[c].near)
              \/ Crowded(chunk, c, Fetched)
<1>1. PICK T \in Nearest(NearChunks, Fetched) :
        \E s \in Ranked({x \in ChunksInScope(T, g, types) :
                           PassesFilter(x.node, filter, control)}) :
          t = ParseChunks(First(s, Kept))
  BY DEF EvidenceSearch, EvidenceHits
<1> DEFINE S == ChunksInScope(T, g, types)
           P == {x \in S : PassesFilter(x.node, filter, control)}
<1>2. PICK s \in Ranked(P) : t = ParseChunks(First(s, Kept))
  BY <1>1
<1>3. /\ Hits(S)
      /\ \A x \in S : x.node \in DOMAIN chunk /\ InScope(chunk[x.node], g, types)
      /\ \A c \in DOMAIN chunk : InScope(chunk[c], g, types) =>
           \/ [node |-> c, score |-> chunk[c].near] \in S
           \/ Crowded(chunk, c, Fetched)
  BY NearestInScope, RetrievalAssumption
<1> HIDE DEF S
<1>4. P \in SUBSET S /\ \A x \in P : PassesFilter(x.node, filter, control)
  OBVIOUS
<1>5. Hits(P)
  BY <1>3, <1>4, SomeHits
<1>6. ASSUME NEW c \in DOMAIN chunk, PassesFilter(c, filter, control),
             [node |-> c, score |-> chunk[c].near] \in S
      PROVE  [node |-> c, score |-> chunk[c].near] \in P
  BY <1>6
<1> HIDE DEF P
<1>7. BestOf(t, P, Kept)
  BY <1>2, <1>5, BestOfRanked, RetrievalAssumption
<1>8. Scoped(t, g, types, Kept)
  BY <1>3, <1>4, <1>7, BestInScope
<1>9. \A c \in Ids(t) : PassesFilter(c, filter, control)
  BY <1>4, <1>7 DEF BestOf
<1>10. ASSUME NEW c \in DOMAIN chunk, InScope(chunk[c], g, types),
              PassesFilter(c, filter, control), ~Crowded(chunk, c, Fetched)
       PROVE  c \in Ids(t) \/ FullAbove(t, Kept, chunk[c].near)
  <2> DEFINE x == [node |-> c, score |-> chunk[c].near]
  <2>1. x \in P /\ x.node = c /\ x.score = chunk[c].near
    BY <1>3, <1>6, <1>10
  <2> HIDE DEF x
  <2> QED BY <1>7, <2>1 DEF BestOf
<1> QED BY <1>8, <1>9, <1>10

(* The merged search, of chunks of any type: without a hit of the fulltext *)
(* index it answers nothing.                                               *)
LEMMA MergedAnswers ==
  ASSUME Inv, NEW g, NEW t \in GraphVectorFulltextSearch(g)
  PROVE  /\ Scoped(t, g, {}, TopK)
         /\ \A c \in DOMAIN chunk : chunk[c].engagement = g => c \in Ids(t) \/
              /\ chunk[c].hit > 0 => FullAbove(t, TopK, (8 * chunk[c].hit) \div 10)
              /\ \/ FullAbove(t, TopK, chunk[c].near) \/ Crowded(chunk, c, TopK)
                 \/ ~\E d \in DOMAIN chunk : chunk[d].engagement = g /\ chunk[d].hit > 0
<1> DEFINE W == ChunksInScope(Matches(HitChunks), g, {})
           F == {[node |-> x.node, score |-> (8 * x.score) \div 10] : x \in W}
<1>1. /\ Hits(W)
      /\ \A x \in W : x.node \in DOMAIN chunk /\ InScope(chunk[x.node], g, {})
      /\ \A c \in DOMAIN chunk : InScope(chunk[c], g, {}) /\ chunk[c].hit > 0 =>
           [node |-> c, score |-> chunk[c].hit] \in W
  BY MatchesInScope
<1>2. \A c : InScope(chunk[c], g, {}) <=> chunk[c].engagement = g
  BY DEF InScope
<1>3. \/ F = {} /\ t = ParseChunks(<<>>)
      \/ /\ F # {}
         /\ \E T \in Nearest(NearChunks, TopK) :
            \E s \in Ranked(MergeHits(ChunksInScope(T, g, {}), F)) :
              t = ParseChunks(First(s, TopK))
  BY DEF GraphVectorFulltextSearch, MergedRecords, FirstK
<1> HIDE DEF W
<1>4. /\ \A c \in DOMAIN chunk : chunk[c].engagement = g /\ chunk[c].hit > 0 =>
           [node |-> c, score |-> (8 * chunk[c].hit) \div 10] \in F
      /\ \A y \in F : \E x \in W : y = [node |-> x.node, score |-> (8 * x.score) \div 10]
  <2>1. ASSUME NEW c \in DOMAIN chunk, chunk[c].engagement = g, chunk[c].hit > 0
        PROVE  [node |-> c, score |-> (8 * chunk[c].hit) \div 10] \in F
    <3> DEFINE x == [node |-> c, score |-> chunk[c].hit]
    <3>1. x \in W
      BY <1>1, <1>2, <2>1
    <3> QED BY <3>1
  <2> QED BY <2>1
<1>5. Hits(F)
  <2>1. IsFiniteSet(F)
    <3> DEFINE f == [x \in W |-> [node |-> x.node, score |-> (8 * x.score) \div 10]]
    <3>1. f \in [W -> F] /\ \A r \in F : \E x \in W : f[x] = r
      OBVIOUS
    <3> HIDE DEF f, F
    <3> QED BY <1>1, <3>1, ImageIsFinite DEF Hits
  <2>2. \A y \in F : y.node \in Chunk /\ y.score \in Nat
    BY <1>1, <1>4 DEF Hits
  <2>3. \A x, y \in F : x.node = y.node => x = y
    BY <1>1, <1>4 DEF Hits
  <2> QED BY <2>1, <2>2, <2>3 DEF Hits
<1>6. \A y \in F : y.node \in DOMAIN chunk /\ InScope(chunk[y.node], g, {})
  BY <1>1, <1>4
<1> HIDE DEF F
<1>7. CASE F = {} /\ t = ParseChunks(<<>>)
  <2>1. t = <<>>
    BY <1>7 DEF ParseChunks
  <2>2. Scoped(t, g, {}, TopK)
    BY <2>1, RetrievalAssumption DEF Scoped, Distinct, Sorted, Ids, ToSet
  <2>3. ~\E d \in DOMAIN chunk : chunk[d].engagement = g /\ chunk[d].hit > 0
    BY <1>4, <1>7
  <2> QED BY <2>2, <2>3
<1>8. CASE F # {}
  <2>1. PICK T \in Nearest(NearChunks, TopK) :
          \E s \in Ranked(MergeHits(ChunksInScope(T, g, {}), F)) :
            t = ParseChunks(First(s, TopK))
    BY <1>3, <1>8
  <2> DEFINE V == ChunksInScope(T, g, {})
             M == MergeHits(V, F)
  <2>2. /\ Hits(V)
        /\ \A x \in V : x.node \in DOMAIN chunk /\ InScope(chunk[x.node], g, {})
        /\ \A c \in DOMAIN chunk : InScope(chunk[c], g, {}) =>
             \/ [node |-> c, score |-> chunk[c].near] \in V
             \/ Crowded(chunk, c, TopK)
    BY NearestInScope, RetrievalAssumption
  <2>3. PICK s \in Ranked(M) : t = ParseChunks(First(s, TopK))
    BY <2>1
  <2> HIDE DEF V
  <2>4. /\ Hits(M)
        /\ \A x \in M : \E y \in V \cup F : y.node = x.node
        /\ \A y \in V \cup F : \E x \in M : x.node = y.node /\ x.score >= y.score
    BY <1>5, <2>2, MergedHits
  <2> HIDE DEF M
  <2>5. BestOf(t, M, TopK)
    BY <2>3, <2>4, BestOfRanked, RetrievalAssumption
  <2>6. Scoped(t, g, {}, TopK)
    BY <1>6, <2>2, <2>4, <2>5, BestInScope
  <2>7. ASSUME NEW y \in V \cup F, y.node \notin Ids(t)
        PROVE  FullAbove(t, TopK, y.score)
    <3>1. PICK x \in M : x.node = y.node /\ x.score >= y.score
      BY <2>4
    <3>2. FullAbove(t, TopK, x.score)
      BY <2>5, <2>7, <3>1 DEF BestOf
    <3>3. x.score \in Nat /\ y.score \in Nat /\ \A z \in ToSet(t) : z.score \in Nat
      <4>1. x.score \in Nat /\ y.score \in Nat
        BY <1>5, <2>2, <2>4 DEF Hits
      <4>2. \A i \in DOMAIN t : t[i] \in Result
        BY <2>6 DEF Scoped
      <4> QED BY <4>1, <4>2 DEF ToSet, Result
    <3> QED BY <3>1, <3>2, <3>3 DEF FullAbove
  <2>8. ASSUME NEW c \in DOMAIN chunk, chunk[c].engagement = g, c \notin Ids(t)
        PROVE  /\ chunk[c].hit > 0 => FullAbove(t, TopK, (8 * chunk[c].hit) \div 10)
               /\ FullAbove(t, TopK, chunk[c].near) \/ Crowded(chunk, c, TopK)
    <3>1. ASSUME NEW score, [node |-> c, score |-> score] \in V \cup F
          PROVE  FullAbove(t, TopK, score)
      <4> DEFINE y == [node |-> c, score |-> score]
      <4>1. y \in V \cup F /\ y.node = c /\ y.score = score
        BY <3>1
      <4> HIDE DEF y
      <4> QED BY <2>7, <2>8, <4>1
    <3> QED BY <1>2, <1>4, <2>2, <2>8, <3>1
  <2> QED BY <2>6, <2>8
<1> QED BY <1>3, <1>7, <1>8
-----------------------------------------------------------------------------
(* The modes that find chunks through entities.                            *)

LEMMA EntityTyped ==
  ASSUME Inv, NEW e \in DOMAIN entity
  PROVE  /\ entity[e].near \in Nat
         /\ entity[e].chunks \subseteq DOMAIN chunk
<1>1. entity[e] \in [engagement : Engagement, type : EntityType \cup {""},
                    near : Near \cup {0}, hit : Hit, named : BOOLEAN,
                    chunks : SUBSET DOMAIN chunk]
  BY DEF Inv, TypeOK
<1>2. /\ entity[e].near \in Near \cup {0}
      /\ entity[e].chunks \in SUBSET DOMAIN chunk
  BY <1>1
<1>3. Near \subseteq Nat
  BY RetrievalAssumption
<1>4. entity[e].near \in Nat
  <2>1. CASE entity[e].near \in Near
    BY <1>3, <2>1
  <2>2. CASE entity[e].near = 0
    BY <2>2
  <2> QED BY <1>2, <2>1, <2>2, Zenon
<1>5. entity[e].chunks \subseteq DOMAIN chunk
  BY <1>2
<1> QED BY <1>4, <1>5

LEMMA ParsedEntities ==
  ASSUME Inv, NEW R, IsFiniteSet(R),
         \A x \in R : x.node \in DOMAIN entity /\ x.score \in Nat,
         NEW records \in SetToSeqs(R), NEW t \in ParseEntities(records)
  PROVE  Expands(t, {x.node : x \in R})
<1> DEFINE mentioned(i) == entity[records[i].node].chunks
           found == UNION {mentioned(i) : i \in DOMAIN records}
           first(c) == Min({i \in DOMAIN records : c \in mentioned(i)})
<1>1. records \in Seq(R) /\ ToSet(records) = R
  BY Orderings
<1>2. \A i \in DOMAIN records : /\ i \in Nat /\ records[i].node \in DOMAIN entity
                                /\ records[i].score \in Nat
  BY <1>1
<1>3. PICK s \in SetToSeqs(found) :
        t = [k \in DOMAIN s |-> [id |-> s[k], score |-> records[first(s[k])].score]]
  BY DEF ParseEntities
<1>4. ASSUME NEW c \in found PROVE first(c) \in DOMAIN records
  <2>1. {i \in DOMAIN records : c \in mentioned(i)} \in SUBSET Nat
    BY <1>2
  <2>2. {i \in DOMAIN records : c \in mentioned(i)} # {}
    BY <1>4
  <2>3. first(c) \in {i \in DOMAIN records : c \in mentioned(i)}
    BY <2>1, <2>2, MinOfNat
  <2> QED BY <2>3
<1>5. found = UNION {entity[e].chunks : e \in {x.node : x \in R}}
  BY <1>1 DEF ToSet
<1>6. found \subseteq DOMAIN chunk /\ found \subseteq Chunk
  <2>1. found \subseteq DOMAIN chunk
    BY <1>2, EntityTyped
  <2> QED BY <2>1 DEF Inv, TypeOK
<1>7. IsFiniteSet(found)
  BY <1>6, FS_Subset DEF Inv, Finite
<1> HIDE DEF found, first
<1>8. /\ s \in Seq(found) /\ ToSet(s) = found
      /\ \A i, j \in DOMAIN s : s[i] = s[j] => i = j
  BY <1>7, Orderings
<1>9. ASSUME NEW k \in DOMAIN s
      PROVE  [id |-> s[k], score |-> records[first(s[k])].score] \in Result
  <2>1. s[k] \in found
    BY <1>8
  <2> QED BY <1>2, <1>4, <1>6, <2>1 DEF Result
<1>10. t \in Seq(Result)
  <2>1. t \in [DOMAIN s -> Result] /\ DOMAIN s = 1..Len(s) /\ Len(s) \in Nat
    BY <1>3, <1>8, <1>9
  <2> QED BY <2>1
<1>11. DOMAIN t = DOMAIN s /\ \A k \in DOMAIN s : t[k].id = s[k]
  BY <1>3
<1>12. Distinct(t)
  BY <1>8, <1>11 DEF Distinct
<1>13. Ids(t) = found
  BY <1>8, <1>11 DEF Ids, ToSet
<1> QED BY <1>5, <1>10, <1>12, <1>13 DEF Expands

(* An entity of the engagement that matches is expanded, but for TopK      *)
(* others that match as well.                                              *)
GraphExpands(g, E) ==
  /\ E \subseteq DOMAIN entity
  /\ \A e \in E : entity[e].engagement = g
  /\ \A e \in DOMAIN entity \ E :
       entity[e].engagement = g /\ entity[e].hit > 0 => Outmatched(e, g)

LEMMA GraphAnswers ==
  ASSUME Inv, NEW g, NEW t \in GraphSearch(g)
  PROVE  \E E : Expands(t, E) /\ GraphExpands(g, E)
<1> DEFINE S == EntitiesInScope(Matches(HitEntities), g, {})
<1>1. \E s \in Ranked(S) : \E records \in SetToSeqs(ToSet(First(s, TopK))) :
        t \in ParseEntities(records)
  BY DEF GraphSearch, GraphRecords, FirstK
<1>2. S \in SUBSET HitEntities
  BY DEF EntitiesInScope, Matches
<1>3. IsFiniteSet(S)
  BY <1>2, EntityRecordsAreFinite, FS_Subset
<1>4. \A e \in DOMAIN entity : entity[e].hit \in Nat
  BY RetrievalAssumption DEF Inv, TypeOK
<1>5. ASSUME NEW x \in S
      PROVE  /\ x.node \in DOMAIN entity /\ entity[x.node].engagement = g
             /\ x.score = entity[x.node].hit /\ x.score \in Nat
             /\ x = [node |-> x.node, score |-> entity[x.node].hit]
  BY <1>4 DEF EntitiesInScope, Matches, HitEntities, InScope
<1>6. \A e \in DOMAIN entity : entity[e].engagement = g /\ entity[e].hit > 0 =>
        [node |-> e, score |-> entity[e].hit] \in S
  BY DEF EntitiesInScope, Matches, HitEntities, InScope
<1> HIDE DEF S
<1>7. PICK s \in Ranked(S) : \E records \in SetToSeqs(ToSet(First(s, TopK))) :
        t \in ParseEntities(records)
  BY <1>1
<1> DEFINE p == First(s, TopK)
           E == {x.node : x \in ToSet(p)}
<1>8. /\ s \in Seq(S) /\ ToSet(s) = S
      /\ \A i, j \in DOMAIN s : s[i] = s[j] => i = j
      /\ \A i, j \in DOMAIN s : i < j => s[i].score >= s[j].score
  BY <1>3, Orderings DEF Ranked
<1>9. /\ p \in Seq(S)
      /\ Len(p) = IF Len(s) <= TopK THEN Len(s) ELSE TopK
      /\ \A i \in DOMAIN p : i \in DOMAIN s /\ p[i] = s[i]
  BY <1>8, FirstOf, RetrievalAssumption
<1>10. PICK records \in SetToSeqs(ToSet(p)) : t \in ParseEntities(records)
  BY <1>7
<1> HIDE DEF p
<1>11. ToSet(p) \in SUBSET S
  BY <1>9 DEF ToSet
<1>12. IsFiniteSet(ToSet(p))
  BY <1>3, <1>11, FS_Subset
<1>13. Expands(t, E)
  BY <1>5, <1>10, <1>11, <1>12, ParsedEntities
<1>14. E \subseteq DOMAIN entity /\ \A e \in E : entity[e].engagement = g
  BY <1>5, <1>11
<1>15. ASSUME NEW e \in DOMAIN entity \ E, entity[e].engagement = g, entity[e].hit > 0
       PROVE  Outmatched(e, g)
  <2> DEFINE C == {f \in DOMAIN entity \ {e} :
                     entity[f].engagement = g /\ entity[f].hit >= entity[e].hit}
             h == [i \in 1..TopK |-> s[i].node]
  <2>1. PICK j \in DOMAIN s : s[j] = [node |-> e, score |-> entity[e].hit]
    BY <1>6, <1>8, <1>15 DEF ToSet
  <2>2. j \notin DOMAIN p
    <3>1. ASSUME j \in DOMAIN p PROVE FALSE
      <4>1. s[j] \in ToSet(p) /\ s[j].node = e
        BY <1>9, <2>1, <3>1 DEF ToSet
      <4> QED BY <1>15, <4>1
    <3> QED BY <3>1
  <2>3. Len(p) = TopK /\ TopK < j /\ TopK \in Nat
    BY <1>8, <1>9, <2>1, <2>2, RetrievalAssumption
  <2>4. ASSUME NEW i \in 1..TopK
        PROVE  i \in DOMAIN s /\ s[i] \in S /\ s[i].node \in C
    <3>1. i \in DOMAIN s /\ i < j /\ s[i] \in S
      BY <1>8, <2>1, <2>3
    <3>2. s[i].score >= entity[e].hit /\ s[i] # s[j]
      BY <1>8, <2>1, <3>1
    <3>3. s[i].node # e
      BY <1>5, <2>1, <3>1, <3>2
    <3> QED BY <1>5, <3>1, <3>2, <3>3
  <2>5. C \in SUBSET (DOMAIN entity)
    OBVIOUS
  <2>6. IsFiniteSet(C) /\ Cardinality(C) \in Nat
    BY <2>5, FS_Subset, FS_CardinalityType DEF Inv, Finite
  <2> HIDE DEF C
  <2>7. h \in Injection(1..TopK, C)
    <3>1. ASSUME NEW i \in 1..TopK, NEW k \in 1..TopK, s[i].node = s[k].node
          PROVE  i = k
      <4>1. s[i] = s[k]
        BY <1>5, <2>4, <3>1
      <4> QED BY <1>8, <2>4, <4>1
    <3> QED BY <2>4, <3>1 DEF Injection, IsInjective
  <2> HIDE DEF h
  <2>8. Cardinality(1..TopK) <= Cardinality(C)
    BY <2>6, <2>7, FS_Injection
  <2>9. Cardinality(1..TopK) = TopK
    BY <2>3, FS_Interval
  <2> QED BY <2>8, <2>9 DEF C, Outmatched
<1>16. GraphExpands(g, E)
  BY <1>14, <1>15 DEF GraphExpands
<1> QED BY <1>13, <1>16

(* An entity of the engagement and the types is expanded if it is embedded *)
(* and not crowded out by TopK others as near.                             *)
NearestExpands(g, types, E) ==
  /\ E \subseteq DOMAIN entity
  /\ \A e \in E : InScope(entity[e], g, types)
  /\ \A e \in Embedded \ E : InScope(entity[e], g, types) => Crowded(entity, e, TopK)

LEMMA EntityVectorAnswers ==
  ASSUME Inv, NEW g, NEW types, NEW t \in EntityVectorSearch(g, types)
  PROVE  \E E : Expands(t, E) /\ NearestExpands(g, types, E)
<1>1. PICK T \in Nearest(NearEntities, TopK) :
        \E records \in SetToSeqs(EntitiesInScope(T, g, types)) :
          t \in ParseEntities(records)
  BY DEF EntityVectorSearch, EntityVectorRecords
<1> DEFINE S == EntitiesInScope(T, g, types)
           E == {x.node : x \in S}
<1>2. \A e \in DOMAIN entity : entity[e].near \in Nat
  BY EntityTyped
<1>3. T \in SUBSET NearEntities /\ IsFiniteSet(T)
  BY EntityRecordsAreFinite, NearestOf, RetrievalAssumption
<1>4. S \in SUBSET T /\ \A x \in S : InScope(entity[x.node], g, types)
  BY DEF EntitiesInScope
<1>5. IsFiniteSet(S)
  BY <1>3, <1>4, FS_Subset
<1>6. \A x \in S : x.node \in DOMAIN entity /\ x.score \in Nat
  BY <1>2, <1>3, <1>4 DEF NearEntities, Embedded
<1>7. ASSUME NEW e \in Embedded \ E, InScope(entity[e], g, types)
      PROVE  Crowded(entity, e, TopK)
  <2>1. [node |-> e, score |-> entity[e].near] \notin T
    <3>1. ASSUME [node |-> e, score |-> entity[e].near] \in T
          PROVE  FALSE
      <4>1. [node |-> e, score |-> entity[e].near] \in S
        BY <1>7, <3>1 DEF EntitiesInScope
      <4> QED BY <1>7, <4>1
    <3> QED BY <3>1
  <2>2. /\ IsFiniteSet(DOMAIN entity) /\ IsFiniteSet(NearEntities) /\ TopK \in Nat
        /\ Embedded \in SUBSET DOMAIN entity
    BY EntityRecordsAreFinite, RetrievalAssumption DEF Inv, Finite, Embedded
  <2> QED BY <1>2, <2>1, <2>2, NearestCrowds DEF NearEntities
<1>8. PICK records \in SetToSeqs(S) : t \in ParseEntities(records)
  BY <1>1
<1> HIDE DEF S
<1>9. Expands(t, E)
  BY <1>5, <1>6, <1>8, ParsedEntities
<1>10. NearestExpands(g, types, E)
  BY <1>4, <1>6, <1>7 DEF NearestExpands
<1> QED BY <1>9, <1>10
-----------------------------------------------------------------------------
(* Reranking: the same chunks, sorted and cut.                             *)

LEMMA Reranked ==
  ASSUME NEW s \in Seq(Result), Distinct(s), NEW t \in Rerank(s)
  PROVE  /\ t \in Seq(Result) /\ Distinct(t) /\ Sorted(t) /\ Len(t) <= TopK
         /\ Ids(t) \subseteq Ids(s)
         /\ Len(s) <= TopK => ToSet(t) = ToSet(s) /\ Len(t) = Len(s)
         /\ Len(s) > TopK => Len(t) = TopK
<1>1. PICK p \in SetToSeqs(DOMAIN s) :
        /\ t = First([i \in DOMAIN p |-> s[p[i]]], TopK)
        /\ \A i, j \in DOMAIN p : i < j =>
             \/ s[p[i]].score > s[p[j]].score
             \/ s[p[i]].score = s[p[j]].score /\ p[i] < p[j]
  BY DEF Rerank, FirstK
<1> DEFINE r == [i \in DOMAIN p |-> s[p[i]]]
<1>2. /\ DOMAIN s = 1..Len(s) /\ Len(s) \in Nat
      /\ IsFiniteSet(DOMAIN s) /\ Cardinality(DOMAIN s) = Len(s)
  <2>1. DOMAIN s = 1..Len(s) /\ Len(s) \in Nat
    OBVIOUS
  <2>2. /\ IsFiniteSet(1..Len(s))
        /\ Cardinality(1..Len(s)) = IF 1 > Len(s) THEN 0 ELSE Len(s) - 1 + 1
    BY <2>1, FS_Interval
  <2> QED BY <2>1, <2>2
<1>3. /\ p \in Seq(DOMAIN s) /\ Len(p) = Len(s) /\ ToSet(p) = DOMAIN s
      /\ \A i, j \in DOMAIN p : p[i] = p[j] => i = j
  BY <1>2, Orderings
<1>4. /\ DOMAIN p = 1..Len(s)
      /\ \A i \in DOMAIN p : p[i] \in DOMAIN s /\ s[p[i]] \in Result
  BY <1>2, <1>3
<1>5. r \in Seq(Result) /\ Len(r) = Len(s) /\ DOMAIN r = DOMAIN p
  <2>1. r \in [1..Len(s) -> Result]
    BY <1>4
  <2> QED BY <1>2, <1>4, <2>1
<1>6. \A i \in DOMAIN p : r[i] = s[p[i]]
  OBVIOUS
<1>7. t = First(r, TopK)
  BY <1>1
<1> HIDE DEF r
<1>8. /\ t \in Seq(Result)
      /\ Len(t) = IF Len(s) <= TopK THEN Len(s) ELSE TopK
      /\ \A i \in DOMAIN t : i \in DOMAIN r /\ t[i] = r[i]
  BY <1>5, <1>7, FirstOf, RetrievalAssumption
<1>9. \A i \in DOMAIN t : i \in DOMAIN p /\ t[i] = s[p[i]] /\ t[i] \in Result
  BY <1>4, <1>5, <1>6, <1>8
<1>10. Distinct(t)
  BY <1>3, <1>4, <1>9 DEF Distinct
<1>11. Sorted(t)
  <2> SUFFICES ASSUME NEW i \in DOMAIN t, NEW j \in DOMAIN t, i < j
               PROVE  t[i].score >= t[j].score
    BY DEF Sorted
  <2>1. \/ t[i].score > t[j].score
        \/ t[i].score = t[j].score
    BY <1>1, <1>9
  <2>2. t[i].score \in Nat /\ t[j].score \in Nat
    BY <1>9 DEF Result
  <2> QED BY <2>1, <2>2
<1>12. ToSet(t) \subseteq ToSet(s)
  BY <1>4, <1>9 DEF ToSet
<1>13. Ids(t) \subseteq Ids(s)
  BY <1>12 DEF Ids
<1>14. ASSUME Len(s) <= TopK PROVE ToSet(s) \subseteq ToSet(t) /\ Len(t) = Len(s)
  <2>1. Len(t) = Len(s)
    BY <1>8, <1>14
  <2>2. DOMAIN t = DOMAIN p
    BY <1>4, <1>8, <2>1
  <2>3. ASSUME NEW j \in DOMAIN s PROVE s[j] \in ToSet(t)
    <3>1. PICK i \in DOMAIN p : p[i] = j
      BY <1>3 DEF ToSet
    <3> QED BY <1>9, <2>2, <3>1 DEF ToSet
  <2> QED BY <2>1, <2>3 DEF ToSet
<1>15. Len(t) <= TopK /\ (Len(s) > TopK => Len(t) = TopK)
  <2>1. Len(t) = IF Len(s) <= TopK THEN Len(s) ELSE TopK
    BY <1>8
  <2>2. Len(s) \in Nat /\ TopK \in Nat
    BY <1>2, RetrievalAssumption
  <2> QED BY <2>1, <2>2
<1> QED
  BY <1>8, <1>10, <1>11, <1>12, <1>13, <1>14, <1>15

LEMMA RerankedInScope ==
  ASSUME NEW g, NEW types, NEW s, Scoped(s, g, types, TopK), NEW t \in Rerank(s)
  PROVE  /\ Scoped(t, g, types, TopK) /\ Ids(t) = Ids(s)
         /\ \A score : FullAbove(s, TopK, score) => FullAbove(t, TopK, score)
<1>1. /\ t \in Seq(Result) /\ Distinct(t) /\ Sorted(t) /\ Len(t) <= TopK
      /\ ToSet(t) = ToSet(s) /\ Len(t) = Len(s)
  BY Reranked DEF Scoped
<1>2. Ids(t) = Ids(s)
  BY <1>1 DEF Ids
<1> QED
  BY <1>1, <1>2 DEF Scoped, FullAbove

LEMMA Outranks ==
  ASSUME NEW t \in Seq(Result), NEW k \in Nat \ {0}, NEW score, FullAbove(t, k, score)
  PROVE  Len(t) = k /\ Min({x.score : x \in ToSet(t)}) >= score
<1> DEFINE S == {x.score : x \in ToSet(t)}
<1>1. Len(t) = k /\ \A x \in ToSet(t) : x.score >= score
  BY DEF FullAbove
<1>2. t[1] \in ToSet(t)
  BY <1>1 DEF ToSet
<1>3. \A x \in ToSet(t) : x.score \in Nat
  <2>1. \A i \in DOMAIN t : t[i] \in Result
    OBVIOUS
  <2> QED BY <2>1 DEF ToSet, Result
<1>4. S \in SUBSET Nat /\ S # {} /\ \A y \in S : y >= score
  BY <1>1, <1>2, <1>3
<1> HIDE DEF S
<1>5. Min(S) \in S
  BY <1>4, MinOfNat
<1> QED BY <1>1, <1>4, <1>5 DEF S

-----------------------------------------------------------------------------
(* What the endpoints answer.                                              *)

(* Why a chunk in scope is not in the answer of a mode that ranks chunks.  *)
GaveWay(mode, g, t, c) ==
  /\ mode \in {"vector", "hybrid"} => Crowded(chunk, c, TopK)
  /\ mode = "fulltext" /\ chunk[c].hit > 0 => FullAbove(t, TopK, chunk[c].hit)
  /\ mode = "graph_vector_fulltext" =>
       /\ chunk[c].hit > 0 => FullAbove(t, TopK, (8 * chunk[c].hit) \div 10)
       /\ \/ FullAbove(t, TopK, chunk[c].near) \/ Crowded(chunk, c, TopK)
          \/ ~\E d \in DOMAIN chunk : chunk[d].engagement = g /\ chunk[d].hit > 0

LEMMA RankedAnswer ==
  ASSUME Inv, NEW mode \in {"vector", "hybrid", "fulltext", "graph_vector_fulltext"},
         NEW g, NEW types, Compiles(mode, types),
         NEW s \in Search(mode, g, types), NEW reranked \in BOOLEAN,
         NEW t \in IF reranked THEN Rerank(s) ELSE {s}
  PROVE  /\ Scoped(t, g, types, TopK)
         /\ \A c \in DOMAIN chunk : InScope(chunk[c], g, types) =>
              c \in Ids(t) \/ GaveWay(mode, g, t, c)
<1>1. /\ Scoped(s, g, types, TopK)
      /\ \A c \in DOMAIN chunk : InScope(chunk[c], g, types) =>
           c \in Ids(s) \/ GaveWay(mode, g, s, c)
  <2>1. CASE mode = "vector"
    <3>1. s \in VectorSearch(g, types)
      BY <2>1 DEF Search
    <3> QED BY <2>1, <3>1, VectorAnswers DEF GaveWay
  <2>2. CASE mode = "hybrid"
    <3>1. s \in HybridSearch(g, types)
      BY <2>2 DEF Search
    <3> QED BY <2>2, <3>1, VectorAnswers DEF GaveWay
  <2>3. CASE mode = "fulltext"
    <3>1. s \in FulltextSearch(g, types)
      BY <2>3 DEF Search
    <3> QED BY <2>3, <3>1, FulltextAnswers DEF GaveWay
  <2>4. CASE mode = "graph_vector_fulltext"
    <3>1. s \in GraphVectorFulltextSearch(g) /\ types = {}
      BY <2>4 DEF Search, Compiles
    <3>2. \A c \in DOMAIN chunk : InScope(chunk[c], g, types) => chunk[c].engagement = g
      BY DEF InScope
    <3> QED BY <2>4, <3>1, <3>2, MergedAnswers DEF GaveWay
  <2> QED BY <2>1, <2>2, <2>3, <2>4
<1>2. CASE ~reranked
  BY <1>1, <1>2
<1>3. CASE reranked
  <2>1. t \in Rerank(s)
    BY <1>3
  <2>2. /\ Scoped(t, g, types, TopK) /\ Ids(t) = Ids(s)
        /\ \A score : FullAbove(s, TopK, score) => FullAbove(t, TopK, score)
    BY <1>1, <2>1, RerankedInScope
  <2>3. \A c : GaveWay(mode, g, s, c) => GaveWay(mode, g, t, c)
    BY <2>2 DEF GaveWay
  <2> QED BY <1>1, <2>2, <2>3
<1> QED BY <1>2, <1>3

(* t holds chunks of the entities E, of which only reranking leaves any out. *)
FoundThrough(E, mode, g, types, reranked, t) ==
  /\ t \in Seq(Result) /\ Distinct(t)
  /\ reranked => Sorted(t) /\ Len(t) <= TopK
  /\ mode = "graph" => GraphExpands(g, E)
  /\ mode = "entity_vector" => NearestExpands(g, types, E)
  /\ Ids(t) \subseteq UNION {entity[e].chunks : e \in E}
  /\ \/ UNION {entity[e].chunks : e \in E} \subseteq Ids(t)
     \/ reranked /\ Len(t) = TopK

LEMMA ExpandedAnswer ==
  ASSUME Inv, NEW mode \in {"graph", "entity_vector"}, NEW g, NEW types,
         NEW s \in Search(mode, g, types), NEW reranked \in BOOLEAN,
         NEW t \in IF reranked THEN Rerank(s) ELSE {s}
  PROVE  \E E : FoundThrough(E, mode, g, types, reranked, t)
<1>1. PICK E : /\ Expands(s, E)
               /\ mode = "graph" => GraphExpands(g, E)
               /\ mode = "entity_vector" => NearestExpands(g, types, E)
  <2>1. CASE mode = "graph"
    <3>1. s \in GraphSearch(g)
      BY <2>1 DEF Search
    <3> QED BY <2>1, <3>1, GraphAnswers
  <2>2. CASE mode = "entity_vector"
    <3>1. s \in EntityVectorSearch(g, types)
      BY <2>2 DEF Search
    <3> QED BY <2>2, <3>1, EntityVectorAnswers
  <2> QED BY <2>1, <2>2
<1>2. CASE ~reranked
  BY <1>1, <1>2 DEF Expands, FoundThrough
<1>3. CASE reranked
  <2>1. t \in Rerank(s) /\ s \in Seq(Result) /\ Distinct(s)
    BY <1>1, <1>3 DEF Expands
  <2>2. /\ t \in Seq(Result) /\ Distinct(t) /\ Sorted(t) /\ Len(t) <= TopK
        /\ Ids(t) \subseteq Ids(s)
        /\ Len(s) <= TopK => Ids(t) = Ids(s)
        /\ Len(s) > TopK => Len(t) = TopK
    BY <2>1, Reranked DEF Ids
  <2>3. Ids(t) = Ids(s) \/ Len(t) = TopK
    BY <2>1, <2>2, RetrievalAssumption
  <2> QED BY <1>1, <1>3, <2>2, <2>3 DEF Expands, FoundThrough
<1> QED BY <1>2, <1>3
-----------------------------------------------------------------------------
(* The graph grows.                                                        *)

AnswerOK == AnswerStaysInScope /\ AnswerIsARanking /\ LeftOutForBetter

LEMMA InitKeeps ==
  Init => Inv /\ AnswerOK
<1> SUFFICES ASSUME Init PROVE Inv /\ AnswerOK
  OBVIOUS
<1>1. DOMAIN chunk = {} /\ DOMAIN entity = {} /\ answer = Unasked
  BY DEF Init
<1>2. IsFiniteSet({})
  BY FS_EmptySet
<1> QED
  BY <1>1, <1>2 DEF Inv, TypeOK, Finite, LinksWithin, AnswerOK, AnswerStaysInScope,
                    AnswerIsARanking, LeftOutForBetter, Asked

LEMMA UnaskedKeeps ==
  answer' = Unasked => AnswerOK'
BY DEF AnswerOK, AnswerStaysInScope, AnswerIsARanking, LeftOutForBetter, Asked

LEMMA AddChunkKeeps ==
  ASSUME Inv, NEW c \in Chunk, AddChunk(c)
  PROVE  Inv' /\ AnswerOK'
<1>1. PICK g \in Engagement, t \in DocType, n \in Near, w \in Text :
        chunk' = [x \in DOMAIN chunk \cup {c} |->
                    IF x = c THEN [engagement |-> g, type |-> t, near |-> n,
                                   hit |-> w.hit, says |-> w.says]
                    ELSE chunk[x]]
  BY DEF AddChunk
<1>2. DOMAIN entity = {} /\ entity' = entity /\ answer' = Unasked
  BY DEF AddChunk
<1>3. DOMAIN chunk' = DOMAIN chunk \cup {c}
  BY <1>1
<1>4. IsFiniteSet(DOMAIN chunk')
  BY <1>3, FS_AddElement DEF Inv, Finite
<1>5. ASSUME NEW x \in DOMAIN chunk'
      PROVE  chunk'[x] \in [engagement : Engagement, type : DocType, near : Near,
                            hit : Hit, says : SUBSET Filter]
  <2>1. w.hit \in Hit /\ w.says \in SUBSET Filter
    BY RetrievalAssumption
  <2> QED BY <1>1, <1>3, <2>1 DEF Inv, TypeOK
<1>6. TypeOK'
  BY <1>2, <1>3, <1>5 DEF Inv, TypeOK
<1> QED
  BY <1>2, <1>4, <1>6, UnaskedKeeps DEF Inv, Finite, LinksWithin

LEMMA AddEntityKeeps ==
  ASSUME Inv, NEW e \in Entity, AddEntity(e)
  PROVE  Inv' /\ AnswerOK'
<1>1. PICK g \in Engagement, t \in EntityType, w \in Name :
      \E m \in SUBSET {c \in DOMAIN chunk : chunk[c].engagement = g} :
        entity' = [x \in DOMAIN entity \cup {e} |->
                     IF x = e THEN [engagement |-> g, type |-> t, near |-> 0,
                                    hit |-> w.hit, named |-> w.named, chunks |-> m]
                     ELSE entity[x]]
  BY DEF AddEntity
<1>2. PICK m \in SUBSET {c \in DOMAIN chunk : chunk[c].engagement = g} :
        entity' = [x \in DOMAIN entity \cup {e} |->
                     IF x = e THEN [engagement |-> g, type |-> t, near |-> 0,
                                    hit |-> w.hit, named |-> w.named, chunks |-> m]
                     ELSE entity[x]]
  BY <1>1
<1>3. chunk' = chunk /\ answer' = Unasked
  BY DEF AddEntity
<1>4. DOMAIN entity' = DOMAIN entity \cup {e}
  BY <1>2
<1>5. IsFiniteSet(DOMAIN entity')
  BY <1>4, FS_AddElement DEF Inv, Finite
<1>6. ASSUME NEW x \in DOMAIN entity'
      PROVE  /\ entity'[x] \in [engagement : Engagement, type : EntityType \cup {""},
                                near : Near \cup {0}, hit : Hit, named : BOOLEAN,
                                chunks : SUBSET DOMAIN chunk]
             /\ \A c \in entity'[x].chunks : chunk[c].engagement = entity'[x].engagement
  <2>1. CASE x = e
    <3>1. w.hit \in Hit /\ w.named \in BOOLEAN
      BY RetrievalAssumption
    <3> QED BY <1>2, <1>4, <2>1, <3>1
  <2>2. CASE x # e
    <3>1. x \in DOMAIN entity /\ entity'[x] = entity[x]
      BY <1>2, <1>4, <2>2
    <3> QED BY <3>1 DEF Inv, TypeOK, LinksWithin
  <2> QED BY <2>1, <2>2
<1>7. TypeOK'
  BY <1>3, <1>4, <1>6 DEF Inv, TypeOK
<1>8. LinksWithin'
  BY <1>3, <1>6 DEF LinksWithin
<1> QED
  BY <1>3, <1>5, <1>7, <1>8, UnaskedKeeps DEF Inv, Finite

LEMMA EmbedEntityKeeps ==
  ASSUME Inv, NEW e \in Entity, EmbedEntity(e)
  PROVE  Inv' /\ AnswerOK'
<1>1. PICK n \in Near :
        entity' = [entity EXCEPT ![e] = [@ EXCEPT !.near = n, !.type = ""]]
  BY DEF EmbedEntity
<1>2. chunk' = chunk /\ answer' = Unasked /\ e \in DOMAIN entity
  BY DEF EmbedEntity
<1>3. DOMAIN entity' = DOMAIN entity
  BY <1>1
<1>4. ASSUME NEW x \in DOMAIN entity
      PROVE  /\ entity'[x] \in [engagement : Engagement, type : EntityType \cup {""},
                                near : Near \cup {0}, hit : Hit, named : BOOLEAN,
                                chunks : SUBSET DOMAIN chunk]
             /\ \A c \in entity'[x].chunks : chunk[c].engagement = entity'[x].engagement
  <2>1. /\ entity[x] \in [engagement : Engagement, type : EntityType \cup {""},
                          near : Near \cup {0}, hit : Hit, named : BOOLEAN,
                          chunks : SUBSET DOMAIN chunk]
        /\ \A c \in entity[x].chunks : chunk[c].engagement = entity[x].engagement
    BY DEF Inv, TypeOK, LinksWithin
  <2>2. CASE x = e
    <3>1. entity'[x] = [entity[x] EXCEPT !.near = n, !.type = ""]
      BY <1>1, <2>2
    <3> QED BY <2>1, <3>1
  <2>3. CASE x # e
    BY <1>1, <2>1, <2>3
  <2> QED BY <2>2, <2>3
<1>5. TypeOK'
  BY <1>2, <1>3, <1>4 DEF Inv, TypeOK
<1>6. LinksWithin'
  BY <1>2, <1>3, <1>4 DEF LinksWithin
<1> QED
  BY <1>2, <1>3, <1>5, <1>6, UnaskedKeeps DEF Inv, Finite

LEMMA RoutedIsMode ==
  Routed \subseteq Mode
BY DEF Routed, Classify, Mode

-----------------------------------------------------------------------------
(* A question is answered.                                                 *)

LEMMA Injective ==
  ASSUME NEW t, Distinct(t)
  PROVE  IsInjective([i \in DOMAIN t |-> t[i].id])
BY DEF Distinct, IsInjective

LEMMA AskKeeps ==
  ASSUME Inv, NEW mode \in Mode, NEW g \in Engagement, NEW types \in SUBSET AskedTypes(mode),
         Ask(mode, g, types)
  PROVE  Inv' /\ AnswerOK'
<1>1. PICK s \in Search(mode, g, types), reranked \in BOOLEAN :
      \E t \in IF reranked THEN Rerank(s) ELSE {s} :
        answer' = [mode |-> mode, filter |-> {}, control |-> "none", engagement |-> g,
                   types |-> types, reranked |-> reranked, raised |-> FALSE, chunks |-> t]
  BY DEF Ask
<1>2. PICK t \in IF reranked THEN Rerank(s) ELSE {s} :
        answer' = [mode |-> mode, filter |-> {}, control |-> "none", engagement |-> g,
                   types |-> types, reranked |-> reranked, raised |-> FALSE, chunks |-> t]
  BY <1>1
<1>3. chunk' = chunk /\ entity' = entity /\ Compiles(mode, types)
  BY DEF Ask
<1>4. /\ answer'.mode = mode /\ answer'.filter = {} /\ answer'.engagement = g
      /\ answer'.control = "none"
      /\ answer'.types = types /\ answer'.reranked = reranked
      /\ answer'.raised = FALSE /\ answer'.chunks = t /\ mode # "evidence"
  BY <1>2 DEF Mode
<1>5. /\ Found' = Ids(t) /\ Asks' = TopK
      /\ Full' <=> Len(t) = TopK
      /\ Worst' = Min({x.score : x \in ToSet(t)})
  BY <1>4 DEF Found, Ids, Asks, Full, Worst
<1>6. \A n, k : /\ Crowded(chunk, n, k)' <=> Crowded(chunk, n, k)
                /\ Crowded(entity, n, k)' <=> Crowded(entity, n, k)
  BY <1>3
<1>7. CASE mode \in {"vector", "hybrid", "fulltext", "graph_vector_fulltext"}
  <2>1. /\ Scoped(t, g, types, TopK)
        /\ \A c \in DOMAIN chunk : InScope(chunk[c], g, types) =>
             c \in Ids(t) \/ GaveWay(mode, g, t, c)
    BY <1>2, <1>3, <1>7, RankedAnswer
  <2>2. TypeOK'
    BY <1>3, <1>4, <2>1 DEF Inv, TypeOK, Scoped, Filter
  <2>3. AnswerStaysInScope'
    <3>1. ASSUME NEW c \in Ids(t)
          PROVE  chunk[c].engagement = g /\ InScope(chunk[c], g, types)
      BY <2>1 DEF Scoped, InScope
    <3>2. ASSUME NEW c \in Found'
          PROVE  /\ chunk'[c].engagement = answer'.engagement
                 /\ InScope(chunk'[c], answer'.engagement, answer'.types)
                 /\ PassesFilter(c, answer.filter, answer.control)'
                 /\ answer'.mode # "entity_vector"
      BY <1>3, <1>4, <1>5, <1>7, <3>1, <3>2 DEF PassesFilter
    <3> QED
      BY <3>2 DEF AnswerStaysInScope
  <2>4. AnswerIsARanking'
    <3>1. IsInjective([i \in DOMAIN answer'.chunks |-> answer'.chunks[i].id])
      BY <1>4, <2>1, Injective DEF Scoped
    <3>2. Len(answer'.chunks) <= Asks'
      BY <1>4, <1>5, <2>1 DEF Scoped
    <3>3. \A i, j \in DOMAIN answer'.chunks :
            i < j => answer'.chunks[i].score >= answer'.chunks[j].score
      BY <1>4, <2>1 DEF Scoped, Sorted
    <3> QED BY <3>1, <3>2, <3>3 DEF AnswerIsARanking
  <2>5. LeftOutForBetter'
    <3>1. \A score : FullAbove(t, TopK, score) => Full' /\ Worst' >= score
      BY <1>5, <2>1, Outranks, RetrievalAssumption DEF Scoped
    <3>2. mode \in TypedMode
      BY <1>7 DEF TypedMode, Mode
    <3>3. ASSUME NEW c \in DOMAIN chunk \ Ids(t), InScope(chunk[c], g, types)
          PROVE  GaveWay(mode, g, t, c)
      BY <2>1, <3>3
    <3> SUFFICES ASSUME NEW c \in DOMAIN chunk \ Ids(t), InScope(chunk[c], g, types)
                 PROVE  /\ mode \in {"vector", "hybrid"} => Crowded(chunk, c, TopK)
                        /\ mode = "fulltext" /\ chunk[c].hit > 0 =>
                             Full' /\ Worst' >= chunk[c].hit
                        /\ mode = "graph_vector_fulltext" =>
                             /\ chunk[c].hit > 0 =>
                                  Full' /\ Worst' >= (8 * chunk[c].hit) \div 10
                             /\ \/ Full' /\ Worst' >= chunk[c].near
                                \/ Crowded(chunk, c, TopK)
                                \/ ~\E d \in DOMAIN chunk :
                                     chunk[d].engagement = g /\ chunk[d].hit > 0
      BY <1>3, <1>4, <1>5, <1>6, <1>7, <3>2 DEF LeftOutForBetter
    <3> QED
      BY <3>1, <3>3 DEF GaveWay
  <2> QED BY <1>3, <2>2, <2>3, <2>4, <2>5 DEF Inv, Finite, LinksWithin, AnswerOK
<1>8. CASE mode \in {"graph", "entity_vector"}
  <2>1. PICK E : FoundThrough(E, mode, g, types, reranked, t)
    BY <1>2, <1>8, ExpandedAnswer
  <2>2. /\ t \in Seq(Result) /\ Distinct(t)
        /\ reranked => Sorted(t) /\ Len(t) <= TopK
        /\ mode = "graph" => GraphExpands(g, E)
        /\ mode = "entity_vector" => NearestExpands(g, types, E)
        /\ Ids(t) \subseteq UNION {entity[e].chunks : e \in E}
        /\ \/ UNION {entity[e].chunks : e \in E} \subseteq Ids(t)
           \/ reranked /\ Len(t) = TopK
    BY <2>1 DEF FoundThrough
  <2>3. TypeOK'
    BY <1>3, <1>4, <2>2 DEF Inv, TypeOK, Filter
  <2>4. AnswerStaysInScope'
    <3>1. ASSUME NEW c \in Ids(t)
          PROVE  \E e \in E : e \in DOMAIN entity /\ c \in entity[e].chunks
      BY <2>2, <1>8 DEF GraphExpands, NearestExpands
    <3>2. ASSUME NEW c \in Ids(t) PROVE chunk[c].engagement = g
      BY <1>8, <2>2, <3>1 DEF GraphExpands, NearestExpands, InScope, Inv, LinksWithin
    <3>3. ASSUME NEW c \in Ids(t), mode = "entity_vector"
          PROVE  \E e \in DOMAIN entity : c \in entity[e].chunks /\ InScope(entity[e], g, types)
      BY <2>2, <3>1, <3>3 DEF NearestExpands
    <3>4. mode \notin TypedMode
      BY <1>8 DEF TypedMode
    <3> QED
      BY <1>3, <1>4, <1>5, <3>2, <3>3, <3>4 DEF AnswerStaysInScope, PassesFilter
  <2>5. AnswerIsARanking'
    <3>1. mode \notin TypedMode
      BY <1>8 DEF TypedMode
    <3> QED
      BY <1>4, <1>5, <2>2, <3>1, Injective DEF AnswerIsARanking, Sorted
  <2>6. LeftOutForBetter'
    <3>1. mode \notin TypedMode
      BY <1>8 DEF TypedMode
    <3>2. \A c, e : c \in entity[e].chunks /\ c \notin Ids(t) =>
            e \notin E \/ (reranked /\ Full')
      BY <1>5, <2>2
    <3>3. \A e : Outmatched(e, answer.engagement)' <=> Outmatched(e, g)
      BY <1>3, <1>4 DEF Outmatched
    <3>4. Embedded' = Embedded
      BY <1>3 DEF Embedded
    <3> SUFFICES ASSUME NEW c \in DOMAIN chunk \ Ids(t), NEW e \in DOMAIN entity,
                        c \in entity[e].chunks, entity[e].engagement = g
                 PROVE  /\ mode = "graph" /\ entity[e].hit > 0 =>
                             (reranked /\ Full') \/ Outmatched(e, g)
                        /\ mode = "entity_vector" /\ InScope(entity[e], g, types) =>
                             \/ reranked /\ Full'
                             \/ e \notin Embedded \/ Crowded(entity, e, TopK)
      BY <1>3, <1>4, <1>5, <1>6, <1>8, <3>1, <3>3, <3>4 DEF LeftOutForBetter
    <3> QED
      BY <2>2, <3>2 DEF GraphExpands, NearestExpands
  <2> QED BY <1>3, <2>3, <2>4, <2>5, <2>6 DEF Inv, Finite, LinksWithin, AnswerOK
<1> QED BY <1>7, <1>8 DEF Mode
(* A query that does not compile is answered with an error.                *)
LEMMA AskInVainKeeps ==
  ASSUME Inv, NEW mode \in Mode, NEW g \in Engagement, NEW types \in SUBSET AskedTypes(mode),
         AskInVain(mode, g, types)
  PROVE  Inv' /\ AnswerOK'
<1>1. /\ chunk' = chunk /\ entity' = entity
      /\ answer' = [mode |-> mode, filter |-> {}, control |-> "none", engagement |-> g,
                    types |-> types, reranked |-> FALSE, raised |-> TRUE, chunks |-> <<>>]
  BY DEF AskInVain
<1>2. AnswerOK'
  BY <1>1 DEF AnswerOK, AnswerStaysInScope, AnswerIsARanking, LeftOutForBetter, Asked
<1>3. /\ answer'.mode = mode /\ answer'.filter = {} /\ answer'.control = "none"
      /\ answer'.types = types /\ answer'.engagement = g
      /\ answer'.reranked = FALSE /\ answer'.raised = TRUE /\ answer'.chunks = <<>>
  BY <1>1
<1>4. /\ answer'.filter \subseteq Filter
      /\ answer'.types \subseteq AskedTypes(answer'.mode)
      /\ answer'.chunks \in Seq(Result)
  BY <1>3
<1>5. \/ answer' = Unasked
      \/ /\ answer'.mode \in Mode \cup {"evidence"} /\ answer'.filter \subseteq Filter
         /\ answer'.control \in DOMAIN entity \cup {"none"}
         /\ answer'.types \subseteq AskedTypes(answer'.mode)
         /\ answer'.engagement \in Engagement /\ answer'.reranked \in BOOLEAN
         /\ answer'.raised \in BOOLEAN /\ answer'.chunks \in Seq(Result)
  BY <1>3, <1>4
<1>6. TypeOK'
  BY <1>1, <1>5 DEF Inv, TypeOK, AskedTypes
<1> QED BY <1>1, <1>2, <1>6 DEF Inv, Finite, LinksWithin

LEMMA AskForEvidenceKeeps ==
  ASSUME Inv, NEW filter \in Filters, NEW control \in DOMAIN entity \cup {"none"},
         NEW g \in Engagement, NEW types \in SUBSET DocType,
         AskForEvidence(filter, control, g, types)
  PROVE  Inv' /\ AnswerOK'
<1>1. PICK t \in EvidenceSearch(filter, control, g, types) :
        answer' = [mode |-> "evidence", filter |-> filter, control |-> control,
                   engagement |-> g, types |-> types, reranked |-> FALSE,
                   raised |-> FALSE, chunks |-> t]
  BY DEF AskForEvidence
<1>2. chunk' = chunk /\ entity' = entity
  BY DEF AskForEvidence
<1>3. /\ answer'.mode = "evidence" /\ answer'.filter = filter /\ answer'.engagement = g
      /\ answer'.control = control
      /\ answer'.types = types /\ answer'.reranked = FALSE
      /\ answer'.raised = FALSE /\ answer'.chunks = t
  BY <1>1
<1>4. /\ Found' = Ids(t) /\ Asks' = Kept
      /\ Full' <=> Len(t) = Kept
      /\ Worst' = Min({x.score : x \in ToSet(t)})
  BY <1>3 DEF Found, Ids, Asks, Full, Worst
<1>5. /\ \A n, k : Crowded(chunk, n, k)' <=> Crowded(chunk, n, k)
      /\ \A c : PassesFilter(c, answer.filter, answer.control)' <=> PassesFilter(c, filter, control)
  BY <1>2, <1>3 DEF PassesFilter
<1>6. /\ Scoped(t, g, types, Kept)
      /\ \A c \in Ids(t) : PassesFilter(c, filter, control)
      /\ \A c \in DOMAIN chunk :
           InScope(chunk[c], g, types) /\ PassesFilter(c, filter, control) =>
           \/ c \in Ids(t) \/ FullAbove(t, Kept, chunk[c].near)
           \/ Crowded(chunk, c, Fetched)
  BY EvidenceAnswers
<1>7. TypeOK'
  BY <1>2, <1>3, <1>6, RetrievalAssumption DEF Inv, TypeOK, Scoped, AskedTypes
<1>8. AnswerStaysInScope'
  <2>1. ASSUME NEW c \in Found'
        PROVE  /\ chunk'[c].engagement = answer'.engagement
               /\ InScope(chunk'[c], answer'.engagement, answer'.types)
               /\ PassesFilter(c, answer.filter, answer.control)'
               /\ answer'.mode # "entity_vector"
    BY <1>2, <1>3, <1>4, <1>5, <1>6, <2>1 DEF Scoped, InScope
  <2> QED BY <2>1 DEF AnswerStaysInScope
<1>9. AnswerIsARanking'
  <2>1. IsInjective([i \in DOMAIN answer'.chunks |-> answer'.chunks[i].id])
    BY <1>3, <1>6, Injective DEF Scoped
  <2>2. Len(answer'.chunks) <= Asks'
    BY <1>3, <1>4, <1>6 DEF Scoped
  <2>3. \A i, j \in DOMAIN answer'.chunks :
          i < j => answer'.chunks[i].score >= answer'.chunks[j].score
    BY <1>3, <1>6 DEF Scoped, Sorted
  <2> QED BY <2>1, <2>2, <2>3 DEF AnswerIsARanking
<1>10. LeftOutForBetter'
  <2>1. \A score : FullAbove(t, Kept, score) => Full' /\ Worst' >= score
    BY <1>4, <1>6, Outranks, RetrievalAssumption DEF Scoped
  <2> SUFFICES ASSUME NEW c \in DOMAIN chunk \ Ids(t), InScope(chunk[c], g, types),
                      PassesFilter(c, filter, control)
               PROVE  (Full' /\ Worst' >= chunk[c].near) \/ Crowded(chunk, c, Fetched)
    BY <1>2, <1>3, <1>4, <1>5 DEF LeftOutForBetter, TypedMode
  <2> QED
    BY <1>6, <2>1
<1> QED
  BY <1>2, <1>7, <1>8, <1>9, <1>10 DEF Inv, Finite, LinksWithin, AnswerOK

LEMMA NextKeeps ==
  Inv /\ AnswerOK /\ [Next]_vars => Inv' /\ AnswerOK'
<1> SUFFICES ASSUME Inv, AnswerOK, [Next]_vars PROVE Inv' /\ AnswerOK'
  OBVIOUS
<1>1. CASE \E c \in Chunk : AddChunk(c)
  BY <1>1, AddChunkKeeps
<1>2. CASE \E e \in Entity : AddEntity(e) \/ EmbedEntity(e)
  BY <1>2, AddEntityKeeps, EmbedEntityKeeps
<1>3. CASE \E mode \in Routed, g \in Engagement : \E types \in SUBSET AskedTypes(mode) :
             Ask(mode, g, types) \/ AskInVain(mode, g, types)
  BY <1>3, AskKeeps, AskInVainKeeps, RoutedIsMode
<1>4. CASE \E filter \in Filters, control \in DOMAIN entity \cup {"none"},
             g \in Engagement, types \in SUBSET DocType :
             AskForEvidence(filter, control, g, types)
  BY <1>4, AskForEvidenceKeeps
<1>5. CASE UNCHANGED vars
  <2>1. chunk' = chunk /\ entity' = entity /\ answer' = answer
    BY <1>5 DEF vars
  <2>2. /\ Asked' <=> Asked
        /\ Full' <=> Full
        /\ Found' = Found /\ Asks' = Asks /\ Worst' = Worst
    BY <2>1 DEF Asked, Found, Asks, Full, Worst
  <2>3. /\ \A c : PassesFilter(c, answer.filter, answer.control)' <=>
               PassesFilter(c, answer.filter, answer.control)
        /\ \A e : Outmatched(e, answer.engagement)' <=> Outmatched(e, answer.engagement)
        /\ Embedded' = Embedded
    BY <2>1 DEF PassesFilter, Outmatched, Embedded
  <2>4. Inv'
    BY <2>1 DEF Inv, TypeOK, Finite, LinksWithin
  <2>5. AnswerStaysInScope'
    BY <2>1, <2>2, <2>3 DEF AnswerOK, AnswerStaysInScope
  <2>6. AnswerIsARanking'
    BY <2>1, <2>2 DEF AnswerOK, AnswerIsARanking
  <2>7. LeftOutForBetter'
    BY <2>1, <2>2, <2>3 DEF AnswerOK, LeftOutForBetter
  <2> QED BY <2>4, <2>5, <2>6, <2>7 DEF AnswerOK
<1> QED BY <1>1, <1>2, <1>3, <1>4, <1>5 DEF Next
-----------------------------------------------------------------------------
(* The theorems.                                                           *)

LEMMA RetrievalInductive ==
  Spec => [](Inv /\ AnswerOK)
BY InitKeeps, NextKeeps, PTL DEF Spec

(* The graph and the answer keep their types.                              *)
THEOREM RetrievalTyped ==
  Spec => []TypeOK
<1>1. Inv => TypeOK
  BY DEF Inv
<1> QED BY <1>1, RetrievalInductive, PTL

(* No answer holds a chunk of another engagement, or of a type or a filter *)
(* that was not asked for.                                                 *)
THEOREM RetrievalStaysInScope ==
  Spec => []AnswerStaysInScope
<1>1. AnswerOK => AnswerStaysInScope
  BY DEF AnswerOK
<1> QED BY <1>1, RetrievalInductive, PTL

(* No answer names a chunk twice; it is sorted and cut where the mode does *)
(* that.                                                                   *)
THEOREM RetrievalRanks ==
  Spec => []AnswerIsARanking
<1>1. AnswerOK => AnswerIsARanking
  BY DEF AnswerOK
<1> QED BY <1>1, RetrievalInductive, PTL

(* A chunk of the engagement is left out for better ones only, because     *)
(* nodes of any engagement crowd it out of the vector index, or because    *)
(* the entities that lead to it are not embedded.                          *)
THEOREM RetrievalLeavesOutForBetter ==
  Spec => []LeftOutForBetter
<1>1. AnswerOK => LeftOutForBetter
  BY DEF AnswerOK
<1> QED BY <1>1, RetrievalInductive, PTL
=============================================================================
