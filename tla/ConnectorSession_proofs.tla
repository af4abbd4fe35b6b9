----------------------- MODULE ConnectorSession_proofs -----------------------
(***************************************************************************)
(* Proofs about ConnectorSession, for any documents, tables, page size and *)
(* number of changes at the source, and any lifetime of a token.           *)
(*                                                                         *)
(* A listing by offset is a cursor in an order that moves under it.  What  *)
(* the induction goes by is the rank of a document, the number of those    *)
(* ahead of it in the answer: as long as no document leaves it only grows, *)
(* so one that was left alone is either listed or still to come (Covered). *)
(* While nothing changes, what is listed lies behind the cursor (Exact).   *)
(***************************************************************************)
EXTENDS ConnectorSession, FiniteSetTheorems, TLAPS

Rank(i) == Cardinality(Ahead(Matches, i))
Slot(i) == (i % Len(Table)) + 1

(* The documents a listing is to have, and when it need not.               *)
Due == {i \in atStart \ touched : since = None \/ changed[i] > since}

Excused ==
  \/ shrunk /\ kind # "sharepoint"
  \/ totals = "none" /\ kind \in {"jira", "grc"}

(* The cursor has not passed the document.                                 *)
ToCome(i) ==
  /\ kind = "sharepoint" => i > cursor
  /\ HasTables => Slot(i) >= table
  /\ kind # "sharepoint" /\ (HasTables => Slot(i) = table) => Rank(i) >= cursor

Covered ==
  ~Excused =>
    \A i \in Due :
      /\ HasListed => i \in Listed
      /\ pc = "page" => i \in Listed \/ ToCome(i)

Distinct(s) == \A k, l \in DOMAIN s : s[k] = s[l] => k = l

Exact ==
  touched = {} =>
    /\ Distinct(docs)
    /\ pc = "page" => \A i \in Listed : i \in source /\ Selects(i) /\ ~ToCome(i)

(* What a session has done so far.                                         *)
Steady ==
  /\ \A i \in Item : changed[i] <= now
  /\ atStart \ touched \subseteq source
  /\ pc \in {"idle", "list"} => docs = <<>> /\ table = 1 /\ cursor = 0
  /\ pc \in {"idle", "list", "page"} => fetched = 0
  /\ pc = "sending" => fetched < Len(docs)

(* A token that was looked at outlives the requests sent after it.         *)
TokenLasts ==
  kind = "sharepoint" => denied = {} /\ (pc = "sending" => life + waited > Margin)

-----------------------------------------------------------------------------
(* The order of the source is total, so ranks in it are distinct and a set *)
(* can be listed by them.                                                  *)
LEMMA BeforeIsTotal ==
  ASSUME TypeOK, NEW i \in Item, NEW j \in Item
  PROVE  /\ ~Before(i, i)
         /\ i # j => Before(i, j) \/ Before(j, i)
         /\ \A h \in Item : Before(h, i) /\ Before(i, j) => Before(h, j)
BY SessionAssumption DEF TypeOK, Before

LEMMA RanksCount ==
  ASSUME TypeOK, NEW S \in SUBSET Item
  PROVE  /\ IsFiniteSet(S) /\ Cardinality(S) \in Nat
         /\ \A i \in S : /\ IsFiniteSet(Ahead(S, i))
                         /\ Cardinality(Ahead(S, i)) \in 0..(Cardinality(S) - 1)
         /\ \A i, j \in S : Before(i, j) =>
              Cardinality(Ahead(S, i)) < Cardinality(Ahead(S, j))
<1>1. IsFiniteSet(S) /\ Cardinality(S) \in Nat
  BY SessionAssumption, FS_Subset, FS_CardinalityType
<1>2. ASSUME NEW T \in SUBSET S, NEW U \in SUBSET T, U # T
      PROVE  /\ IsFiniteSet(U) /\ Cardinality(U) \in Nat /\ Cardinality(T) \in Nat
             /\ Cardinality(U) < Cardinality(T)
  <2>1. IsFiniteSet(T)
    BY <1>1, FS_Subset
  <2>2. /\ IsFiniteSet(U) /\ Cardinality(U) <= Cardinality(T)
        /\ Cardinality(T) = Cardinality(U) => T = U
    BY <2>1, FS_Subset
  <2> QED
    BY <1>2, <2>1, <2>2, FS_CardinalityType
<1>3. ASSUME NEW i \in S
      PROVE  /\ IsFiniteSet(Ahead(S, i))
             /\ Cardinality(Ahead(S, i)) \in 0..(Cardinality(S) - 1)
  <2>1. Ahead(S, i) \subseteq S /\ i \notin Ahead(S, i)
    BY BeforeIsTotal DEF Ahead
  <2>2. /\ IsFiniteSet(Ahead(S, i)) /\ Cardinality(Ahead(S, i)) \in Nat
        /\ Cardinality(Ahead(S, i)) < Cardinality(S)
    BY <1>2, <2>1
  <2> QED
    BY <1>1, <2>2
<1>4. ASSUME NEW i \in S, NEW j \in S, Before(i, j)
      PROVE  Cardinality(Ahead(S, i)) < Cardinality(Ahead(S, j))
  <2>1. Ahead(S, i) \subseteq Ahead(S, j)
    BY <1>4, BeforeIsTotal DEF Ahead
  <2>2. i \in Ahead(S, j) /\ i \notin Ahead(S, i) /\ Ahead(S, j) \subseteq S
    BY <1>4, BeforeIsTotal DEF Ahead
  <2> QED
    BY <1>2, <2>1, <2>2
<1> QED
  BY <1>1, <1>3, <1>4

(* A set in order has every member once, at its rank.                      *)
LEMMA InOrderLists ==
  ASSUME TypeOK, NEW S \in SUBSET Item
  PROVE  /\ InOrder(S) \in Seq(S)
         /\ Len(InOrder(S)) = Cardinality(S)
         /\ Cardinality(S) \in Nat
         /\ \A i \in S : /\ Cardinality(Ahead(S, i)) \in 0..(Cardinality(S) - 1)
                         /\ InOrder(S)[Cardinality(Ahead(S, i)) + 1] = i
         /\ \A n \in 1..Cardinality(S) :
              /\ InOrder(S)[n] \in S
              /\ Cardinality(Ahead(S, InOrder(S)[n])) = n - 1
<1> DEFINE N == Cardinality(S)
           rank == [i \in S |-> Cardinality(Ahead(S, i)) + 1]
<1>1. IsFiniteSet(S) /\ N \in Nat
  BY RanksCount
<1>2. rank \in [S -> 1..N]
  BY RanksCount
<1>3. ASSUME NEW i \in S, NEW j \in S, rank[i] = rank[j] PROVE i = j
  <2>1. \A h, k \in S :
          Before(h, k) => Cardinality(Ahead(S, h)) < Cardinality(Ahead(S, k))
    BY RanksCount
  <2>2. \A h \in S : Cardinality(Ahead(S, h)) \in Nat
    BY RanksCount
  <2>3. Cardinality(Ahead(S, i)) = Cardinality(Ahead(S, j))
    BY <1>3, <2>2
  <2>4. ~Before(i, j) /\ ~Before(j, i)
    BY <2>1, <2>2, <2>3
  <2> QED
    BY <2>4, BeforeIsTotal
<1>4. rank \in Surjection(S, 1..N)
  <2>1. rank \in Injection(S, 1..N)
    BY <1>2, <1>3 DEF Injection, IsInjective
  <2>2. IsFiniteSet(1..N) /\ Cardinality(1..N) = N
    BY <1>1, FS_Interval
  <2> HIDE DEF rank
  <2> QED
    BY <1>1, <2>1, <2>2, FS_Injection
<1>5. ASSUME NEW n \in 1..N
      PROVE  /\ InOrder(S)[n] \in S
             /\ Cardinality(Ahead(S, InOrder(S)[n])) = n - 1
  <2>1. PICK i \in S : rank[i] = n
    BY <1>4 DEF Surjection
  <2>2. Cardinality(Ahead(S, i)) = n - 1
    BY <2>1, RanksCount
  <2>3. InOrder(S)[n] = CHOOSE j \in S : Cardinality(Ahead(S, j)) = n - 1
    BY DEF InOrder
  <2> QED
    BY <2>2, <2>3
<1>6. InOrder(S) = [n \in 1..N |-> InOrder(S)[n]]
  BY DEF InOrder
<1>7. InOrder(S) \in Seq(S) /\ Len(InOrder(S)) = N
  BY <1>1, <1>5, <1>6
<1>8. ASSUME NEW i \in S PROVE InOrder(S)[Cardinality(Ahead(S, i)) + 1] = i
  <2>1. rank[i] \in 1..N
    BY <1>2
  <2>2. InOrder(S)[rank[i]] \in S /\ rank[InOrder(S)[rank[i]]] = rank[i]
    BY <1>5, <2>1
  <2> QED
    BY <1>3, <2>2
<1> QED
  BY <1>1, <1>5, <1>7, <1>8, RanksCount

(* A page is a piece of the answer.                                        *)
LEMMA PageIsAPiece ==
  ASSUME NEW S, NEW s \in Seq(S), NEW from \in Nat
  PROVE  /\ Page(s, from) \in Seq(S)
         /\ Len(Page(s, from)) =
              IF from + Limit < Len(s) THEN Limit
              ELSE IF from < Len(s) THEN Len(s) - from ELSE 0
         /\ \A n \in 1..Len(Page(s, from)) : Page(s, from)[n] = s[from + n]
<1> DEFINE last == IF from + Limit < Len(s) THEN from + Limit ELSE Len(s)
<1>1. Limit \in Nat \ {0} /\ Len(s) \in Nat /\ last \in Nat /\ last <= Len(s)
  BY SessionAssumption
<1>2. Page(s, from) = SubSeq(s, from + 1, last)
  BY DEF Page
<1>3. Page(s, from) = [n \in 1..(last - from) |-> s[from + n]]
  BY <1>1, <1>2
<1>4. \A n \in 1..(last - from) : from + n \in 1..Len(s)
  BY <1>1
<1>5. \A n \in 1..(last - from) : s[from + n] \in S
  BY <1>4
<1>6. CASE from <= last
  <2>1. last - from \in Nat
    BY <1>1, <1>6
  <2>2. Page(s, from) \in Seq(S) /\ Len(Page(s, from)) = last - from
    BY <1>3, <1>5, <2>1
  <2> QED
    BY <1>1, <1>3, <1>6, <2>2
<1>7. CASE from > last
  <2>1. from > Len(s)
    BY <1>1, <1>7
  <2>2. Page(s, from) = << >>
    BY <1>1, <1>3, <1>7
  <2> QED
    BY <1>1, <2>1, <2>2
<1> QED
  BY <1>1, <1>6, <1>7

LEMMA InOrderHasAll ==
  ASSUME TypeOK, NEW S \in SUBSET Item
  PROVE  Elements(InOrder(S)) = S /\ Distinct(InOrder(S))
<1> DEFINE s == InOrder(S)
<1>1. DOMAIN s = 1..Cardinality(S) /\ Cardinality(S) \in Nat
  BY InOrderLists
<1>2. \A n \in DOMAIN s : s[n] \in S /\ Cardinality(Ahead(S, s[n])) = n - 1
  BY <1>1, InOrderLists
<1>3. \A i \in S : \E n \in DOMAIN s : s[n] = i
  <2> SUFFICES ASSUME NEW i \in S PROVE \E n \in DOMAIN s : s[n] = i
    OBVIOUS
  <2>1. /\ Cardinality(Ahead(S, i)) \in 0..(Cardinality(S) - 1)
        /\ s[Cardinality(Ahead(S, i)) + 1] = i
    BY InOrderLists
  <2> QED
    BY <1>1, <2>1
<1>4. Distinct(s)
  <2> SUFFICES ASSUME NEW k \in DOMAIN s, NEW l \in DOMAIN s, s[k] = s[l] PROVE k = l
    BY DEF Distinct
  <2>1. k - 1 = l - 1 /\ k \in Nat /\ l \in Nat
    BY <1>1, <1>2
  <2> QED
    BY <2>1
<1> HIDE DEF s
<1>5. Elements(s) = S
  BY <1>2, <1>3 DEF Elements
<1> QED
  BY <1>4, <1>5 DEF s

(* A page of a set in order has the members of some successive ranks; if   *)
(* it is not full, or reaches the length, none has a later one.            *)
LEMMA PageByRank ==
  ASSUME TypeOK, NEW S \in SUBSET Item, NEW from \in Nat,
         NEW found, found = Page(InOrder(S), from)
  PROVE  /\ found \in Seq(S) /\ Elements(found) \subseteq S /\ Distinct(found)
         /\ Len(found) \in 0..Limit
         /\ from + Limit < Cardinality(S) => Len(found) = Limit
         /\ \A n \in 1..Len(found) : Cardinality(Ahead(S, found[n])) = from + n - 1
         /\ \A i \in S :
              i \in Elements(found) <=>
                /\ from <= Cardinality(Ahead(S, i))
                /\ Cardinality(Ahead(S, i)) < from + Len(found)
         /\ Len(found) < Limit \/ from + Len(found) >= Cardinality(S) =>
              \A i \in S : Cardinality(Ahead(S, i)) < from + Len(found)
<1> DEFINE N == Cardinality(S)
           rank(i) == Cardinality(Ahead(S, i))
<1>1. InOrder(S) \in Seq(S) /\ Len(InOrder(S)) = N /\ N \in Nat
  BY InOrderLists
<1>2. /\ found \in Seq(S)
      /\ Len(found) = IF from + Limit < N THEN Limit ELSE IF from < N THEN N - from ELSE 0
      /\ \A n \in 1..Len(found) : found[n] = InOrder(S)[from + n]
  BY <1>1, PageIsAPiece
<1>3. Limit \in Nat \ {0} /\ Len(found) \in 0..Limit
  BY <1>1, <1>2, SessionAssumption
<1>4. \A n \in 1..Len(found) : from + n \in 1..N
  BY <1>1, <1>2, <1>3
<1>5. \A n \in 1..Len(found) : found[n] \in S /\ rank(found[n]) = from + n - 1
  <2> SUFFICES ASSUME NEW n \in 1..Len(found)
               PROVE  found[n] \in S /\ rank(found[n]) = from + n - 1
    OBVIOUS
  <2>1. from + n \in 1..N /\ found[n] = InOrder(S)[from + n]
    BY <1>2, <1>4
  <2>2. \A k \in 1..N : InOrder(S)[k] \in S /\ rank(InOrder(S)[k]) = k - 1
    BY InOrderLists
  <2> QED
    BY <2>1, <2>2
<1>6. \A i \in S : rank(i) \in 0..(N - 1) /\ InOrder(S)[rank(i) + 1] = i
  BY InOrderLists
<1>7. DOMAIN found = 1..Len(found)
  BY <1>2
<1> HIDE DEF rank
<1>8. Distinct(found)
  <2> SUFFICES ASSUME NEW k \in 1..Len(found), NEW l \in 1..Len(found),
                      found[k] = found[l]
               PROVE  k = l
    BY <1>7 DEF Distinct
  <2>1. from + k - 1 = from + l - 1
    BY <1>5
  <2> QED
    BY <1>3, <2>1
<1>9. ASSUME NEW i \in S
      PROVE  i \in Elements(found) <=> from <= rank(i) /\ rank(i) < from + Len(found)
  <2>1. ASSUME i \in Elements(found)
        PROVE  from <= rank(i) /\ rank(i) < from + Len(found)
    <3>1. PICK n \in 1..Len(found) : i = found[n]
      BY <1>7, <2>1 DEF Elements
    <3>2. rank(i) = from + n - 1
      BY <1>5, <3>1
    <3> QED
      BY <1>3, <3>2
  <2>2. ASSUME from <= rank(i), rank(i) < from + Len(found)
        PROVE  i \in Elements(found)
    <3> DEFINE n == rank(i) + 1 - from
    <3>1. n \in 1..Len(found) /\ from + n = rank(i) + 1
      BY <1>3, <1>6, <2>2
    <3>2. found[n] = i
      BY <1>2, <1>6, <3>1
    <3> QED
      BY <1>7, <3>1, <3>2 DEF Elements
  <2> QED
    BY <2>1, <2>2
<1>10. ASSUME Len(found) < Limit \/ from + Len(found) >= N, NEW i \in S
       PROVE  rank(i) < from + Len(found)
  <2>1. N <= from + Len(found)
    BY <1>1, <1>2, <1>3, <1>10
  <2> QED
    BY <1>1, <1>3, <1>6, <2>1
<1>11. Elements(found) \subseteq S
  BY <1>5, <1>7 DEF Elements
<1> QED
  BY <1>1, <1>2, <1>3, <1>5, <1>8, <1>9, <1>10, <1>11 DEF rank

-----------------------------------------------------------------------------
(* What is received is listed behind what was.                             *)
LEMMA Appended ==
  ASSUME NEW S, NEW s \in Seq(S), NEW t \in Seq(S)
  PROVE  /\ s \o t \in Seq(S) /\ Len(s \o t) = Len(s) + Len(t)
         /\ Elements(s \o t) = Elements(s) \cup Elements(t)
         /\ Distinct(s) /\ Distinct(t) /\ Elements(s) \cap Elements(t) = {} =>
              Distinct(s \o t)
<1> DEFINE m == Len(s)
           n == Len(t)
           u == s \o t
<1>1. /\ m \in Nat /\ n \in Nat /\ u \in Seq(S) /\ Len(u) = m + n
      /\ DOMAIN s = 1..m /\ DOMAIN t = 1..n /\ DOMAIN u = 1..(m + n)
  OBVIOUS
<1>2. \A k \in 1..(m + n) : u[k] = IF k <= m THEN s[k] ELSE t[k - m]
  OBVIOUS
<1>3. \A k \in 1..m : k \in 1..(m + n) /\ u[k] = s[k]
  BY <1>1, <1>2
<1>4. \A k \in 1..n : m + k \in 1..(m + n) /\ u[m + k] = t[k]
  BY <1>1, <1>2
<1>5. \A k \in 1..(m + n) : \/ k \in 1..m /\ u[k] = s[k]
                            \/ k - m \in 1..n /\ u[k] = t[k - m]
  BY <1>1, <1>2
<1> HIDE DEF m, n, u
<1>6. Elements(u) = Elements(s) \cup Elements(t)
  <2>1. ASSUME NEW k \in 1..(m + n) PROVE u[k] \in Elements(s) \cup Elements(t)
    BY <1>1, <1>5 DEF Elements
  <2>2. ASSUME NEW k \in 1..m PROVE s[k] \in Elements(u)
    BY <1>1, <1>3 DEF Elements
  <2>3. ASSUME NEW k \in 1..n PROVE t[k] \in Elements(u)
    BY <1>1, <1>4 DEF Elements
  <2>4. Elements(u) \subseteq Elements(s) \cup Elements(t)
    BY <1>1, <2>1 DEF Elements
  <2>5. Elements(s) \subseteq Elements(u) /\ Elements(t) \subseteq Elements(u)
    BY <1>1, <2>2, <2>3 DEF Elements
  <2> QED
    BY <2>4, <2>5
<1>7. ASSUME Distinct(s), Distinct(t), Elements(s) \cap Elements(t) = {}
      PROVE  Distinct(u)
  <2> SUFFICES ASSUME NEW k \in 1..(m + n), NEW l \in 1..(m + n), u[k] = u[l]
               PROVE  k = l
    BY <1>1 DEF Distinct
  <2>1. \A i \in 1..m, j \in 1..n : s[i] # t[j]
    BY <1>1, <1>7 DEF Elements
  <2>2. CASE k \in 1..m /\ u[k] = s[k]
    BY <1>1, <1>5, <1>7, <2>1, <2>2 DEF Distinct
  <2>3. CASE k - m \in 1..n /\ u[k] = t[k - m]
    <3>1. l - m \in 1..n /\ u[l] = t[l - m]
      BY <1>5, <2>1, <2>3
    <3>2. k - m = l - m
      BY <1>1, <1>7, <2>3, <3>1 DEF Distinct
    <3> QED
      BY <1>1, <3>2
  <2> QED
    BY <1>5, <2>2, <2>3
<1> QED
  BY <1>1, <1>6, <1>7 DEF m, n, u

(* The query leaves out nothing that was modified since.                   *)
LEMMA TruncBelow == ASSUME NEW t \in Nat PROVE Trunc(t) \in Nat /\ Trunc(t) <= t
BY SessionAssumption DEF Trunc

LEMMA DueIsSelected ==
  ASSUME TypeOK, Steady, NEW i \in Due
  PROVE  i \in source /\ i \in Item /\ Selects(i)
<1>1. i \in source /\ i \in Item /\ kind \in Kind
  BY DEF Due, Steady, TypeOK
<1>2. CASE since = None
  BY <1>1, <1>2 DEF Selects
<1>3. CASE since # None
  <2>1. since = 1 /\ changed[i] > since /\ changed[i] \in Nat
    BY <1>1, <1>3, SessionAssumption DEF TypeOK, Due
  <2>2. Trunc(since) \in Nat /\ Trunc(since) <= since
    BY <2>1, TruncBelow
  <2> QED
    BY <1>1, <2>1, <2>2 DEF Selects, Kind
<1> QED
  BY <1>1, <1>2, <1>3

LEMMA SlotIsTheTable ==
  ASSUME TypeOK, NEW i \in Item
  PROVE  /\ Slot(i) \in 1..Len(Table) /\ table \in 1..Len(Table)
         /\ TableOf(i) = Table[table] <=> Slot(i) = table
<1>1. i \in Nat /\ Len(Table) \in Nat \ {0} /\ DOMAIN Table = 1..Len(Table)
  BY SessionAssumption
<1>2. i % Len(Table) \in 0..(Len(Table) - 1)
  BY <1>1
<1>3. Slot(i) \in 1..Len(Table) /\ table \in 1..Len(Table)
  BY <1>1, <1>2 DEF Slot, TypeOK
<1>4. TableOf(i) = Table[Slot(i)]
  BY DEF TableOf, Slot
<1> QED
  BY <1>1, <1>3, <1>4, SessionAssumption

LEMMA MatchesBySlot ==
  ASSUME TypeOK
  PROVE  /\ Matches \in SUBSET Item
         /\ \A i \in Item : i \in Matches <=>
              i \in source /\ Selects(i) /\ (HasTables => Slot(i) = table)
BY SlotIsTheTable DEF TypeOK, Matches

-----------------------------------------------------------------------------
(* A request of those that list by offset: the cursor moves past what was  *)
(* received, or, if none is left, to the next table or out of the loop.    *)
OffsetStep(found) ==
  /\ pc = "page" /\ kind # "sharepoint"
  /\ found = Page(Matching, cursor)
  /\ Receive(found)
  /\ \/ cursor' = cursor + Len(found) /\ UNCHANGED <<table, pc>>
     \/ /\ NextTable
        /\ ~Excused => \A i \in Matches : Rank(i) < cursor + Len(found)

(* What the page holds, in terms of ranks.                                 *)
LEMMA OffsetPage ==
  ASSUME TypeOK, NEW found, found = Page(Matching, cursor)
  PROVE  /\ found \in Seq(Item) /\ Elements(found) \subseteq Matches /\ Distinct(found)
         /\ Len(found) \in 0..Limit /\ Len(Matching) \in Nat
         /\ \A i \in Matches : Rank(i) \in Nat
         /\ \A i \in Matches : i \in Elements(found) <=>
              cursor <= Rank(i) /\ Rank(i) < cursor + Len(found)
         /\ Len(found) < Limit \/ cursor + Len(found) >= Len(Matching) =>
              \A i \in Matches : Rank(i) < cursor + Len(found)
<1>1. Matches \in SUBSET Item
  BY MatchesBySlot
<1>2. cursor \in Nat
  BY DEF TypeOK
<1>3. found = Page(InOrder(Matches), cursor)
  BY DEF Matching
<1>4. Len(Matching) = Cardinality(Matches) /\ Cardinality(Matches) \in Nat
  BY <1>1, InOrderLists DEF Matching
<1>5. \A i \in Matches : Rank(i) \in 0..(Cardinality(Matches) - 1)
  BY <1>1, RanksCount DEF Rank
<1>6. /\ found \in Seq(Matches) /\ Elements(found) \subseteq Matches /\ Distinct(found)
      /\ Len(found) \in 0..Limit
  BY <1>1, <1>2, <1>3, PageByRank
<1>7. \A i \in Matches : i \in Elements(found) <=>
        cursor <= Rank(i) /\ Rank(i) < cursor + Len(found)
  BY <1>1, <1>2, <1>3, PageByRank DEF Rank
<1>8. Len(found) < Limit \/ cursor + Len(found) >= Cardinality(Matches) =>
        \A i \in Matches : Rank(i) < cursor + Len(found)
  BY <1>1, <1>2, <1>3, PageByRank DEF Rank
<1>9. found \in Seq(Item)
  BY <1>1, <1>6
<1> QED
  BY <1>4, <1>5, <1>6, <1>7, <1>8, <1>9

LEMMA ListingsByOffset ==
  ASSUME TypeOK, ListConfluence \/ ListServiceNow \/ ListJira \/ ListGrc
  PROVE  \E found : OffsetStep(found)
<1> DEFINE found == Page(Matching, cursor)
           AllSeen == \A i \in Matches : Rank(i) < cursor + Len(found)
           Goes == \/ cursor' = cursor + Len(found) /\ UNCHANGED <<table, pc>>
                   \/ NextTable /\ (~Excused => AllSeen)
<1>1. /\ Len(found) \in 0..Limit /\ Len(Matching) \in Nat /\ cursor \in Nat
      /\ Len(found) < Limit \/ cursor + Len(found) >= Len(Matching) => AllSeen
      /\ Limit \in Nat \ {0}
  BY OffsetPage, SessionAssumption DEF TypeOK
<1> SUFFICES pc = "page" /\ kind # "sharepoint" /\ Receive(found) /\ Goes
  BY DEF OffsetStep
<1> HIDE DEF found, AllSeen
<1>2. ASSUME UntilShort(found) PROVE Goes
  BY <1>1, <1>2 DEF UntilShort
<1>3. ASSUME NEW total, UntilTotal(found, total), Excused \/ total >= Len(Matching), total \in Nat
      PROVE  Goes
  <2>1. CASE cursor + Len(found) >= total
    BY <1>1, <1>3, <2>1 DEF UntilTotal
  <2>2. CASE found = << >>
    <3>1. Len(found) < Limit
      BY <1>1, <2>2
    <3> QED
      BY <1>1, <1>3, <2>2, <3>1 DEF UntilTotal
  <2>3. CASE ~(cursor + Len(found) >= total \/ found = << >>)
    BY <1>3, <2>3 DEF UntilTotal
  <2> QED
    BY <2>1, <2>2, <2>3
<1>4. ASSUME NEW n \in Nat, kind \in {"jira", "grc"}
      PROVE  Total(n) \in Nat /\ (Excused \/ Total(n) >= Len(Matching))
  <2>1. CASE totals = "none"
    BY <1>4, <2>1 DEF Total, Excused
  <2>2. CASE totals = "exact"
    BY <1>1, <2>2 DEF Total
  <2>3. CASE totals = "more"
    BY <1>1, <2>3 DEF Total
  <2> QED
    BY <2>1, <2>2, <2>3 DEF TypeOK
<1>5. CASE ListConfluence
  BY <1>2, <1>5 DEF ListConfluence, found
<1>6. CASE ListServiceNow
  BY <1>2, <1>6 DEF ListServiceNow, found
<1>7. CASE ListJira
  <2>1. pc = "page" /\ kind = "jira" /\ Receive(found) /\ UntilTotal(found, Total(0))
    BY <1>7 DEF ListJira, found
  <2>2. Total(0) \in Nat /\ (Excused \/ Total(0) >= Len(Matching))
    BY <1>4, <2>1
  <2> HIDE DEF Goes
  <2> QED
    BY <1>3, <2>1, <2>2
<1>8. CASE ListGrc
  <2>1. pc = "page" /\ kind = "grc" /\ Receive(found) /\ UntilTotal(found, Total(Len(found)))
    BY <1>8 DEF ListGrc, found
  <2>2. /\ Total(Len(found)) \in Nat
        /\ Excused \/ Total(Len(found)) >= Len(Matching)
    BY <1>1, <1>4, <2>1
  <2> HIDE DEF Goes
  <2> QED
    BY <1>3, <2>1, <2>2
<1> QED
  BY <1>5, <1>6, <1>7, <1>8

(* A page changes neither what is due nor what matches the query.          *)
LEMMA ReceiveKeepsWorld ==
  ASSUME NEW found, Receive(found)
  PROVE  /\ Due' = Due /\ Excused' = Excused /\ source' = source
         /\ touched' = touched /\ kind' = kind /\ HasTables' = HasTables
         /\ docs' = docs \o found
         /\ \A i : Selects(i)' = Selects(i)
BY DEF Receive, world, Due, Excused, HasTables, Selects

LEMMA RankIsNatural ==
  ASSUME NEW S \in SUBSET Item PROVE IsFiniteSet(S) /\ Cardinality(S) \in Nat
BY SessionAssumption, FS_Subset, FS_CardinalityType

(* Where the cursor stands after a request by offset.                      *)
LEMMA OffsetStepMoves ==
  ASSUME TypeOK, NEW found, OffsetStep(found), NEW i \in Item,
         i \in source, Selects(i)
  PROVE  /\ pc' \in {"page", "fetch"}
         /\ i \in Elements(found) => ToCome(i) /\ (pc' = "page" => ~ToCome(i)')
         /\ ~ToCome(i) /\ pc' = "page" => ~ToCome(i)'
         /\ ToCome(i) /\ ~Excused =>
              i \in Elements(found) \/ (pc' = "page" /\ ToCome(i)')
<1> USE DEF HasTables
<1>1. /\ pc = "page" /\ kind # "sharepoint" /\ Receive(found)
      /\ found = Page(Matching, cursor)
  BY DEF OffsetStep
<1>2. /\ Elements(found) \subseteq Matches /\ Len(found) \in Nat
      /\ \A j \in Matches : Rank(j) \in Nat
      /\ \A j \in Matches : j \in Elements(found) <=>
           cursor <= Rank(j) /\ Rank(j) < cursor + Len(found)
  BY <1>1, OffsetPage, SessionAssumption
<1>3. /\ i \in Matches <=> (HasTables => Slot(i) = table)
      /\ Slot(i) \in Nat /\ table \in Nat /\ cursor \in Nat
      /\ Slot(i) <= Len(Table) /\ Len(Table) \in Nat
  <2>1. Len(Table) \in Nat \ {0}
    BY SessionAssumption
  <2>2. Slot(i) \in 1..Len(Table) /\ table \in 1..Len(Table)
    BY SlotIsTheTable
  <2>3. i \in Matches <=> (HasTables => Slot(i) = table)
    BY MatchesBySlot
  <2>4. cursor \in Nat
    BY DEF TypeOK
  <2> QED
    BY <2>1, <2>2, <2>3, <2>4
<1>4. ToCome(i) <=> /\ HasTables => Slot(i) >= table
                    /\ (HasTables => Slot(i) = table) => Rank(i) >= cursor
  BY <1>1 DEF ToCome
<1>5. kind' = kind
  BY <1>1 DEF Receive
<1>6. ToCome(i)' <=> /\ HasTables => Slot(i) >= table'
                     /\ (HasTables => Slot(i) = table') => Rank(i)' >= cursor'
  BY <1>1, <1>5 DEF ToCome, Slot
<1>7. CASE cursor' = cursor + Len(found) /\ UNCHANGED <<table, pc>>
  <2>1. Rank(i)' = Rank(i)
    BY <1>1, <1>7
       DEF Rank, Ahead, Matches, Before, LatestFirst, Selects, TableOf, Receive, world
  <2> QED
    BY <1>1, <1>2, <1>3, <1>4, <1>6, <1>7, <2>1
<1>8. CASE NextTable /\ (~Excused => \A j \in Matches : Rank(j) < cursor + Len(found))
  <2>1. CASE HasTables /\ table < Len(Table)
    <3>1. table' = table + 1 /\ cursor' = 0 /\ pc' = "page"
      BY <1>1, <1>8, <2>1 DEF NextTable
    <3>2. Rank(i)' \in Nat
      <4>1. Ahead(Matches, i)' \subseteq Item
        BY <1>1 DEF Ahead, Matches, Receive, world, TypeOK
      <4> QED
        BY <4>1, RankIsNatural DEF Rank
    <3> QED
      BY <1>2, <1>3, <1>4, <1>6, <1>8, <2>1, <3>1, <3>2
  <2>2. CASE ~(HasTables /\ table < Len(Table))
    <3>1. pc' = "fetch"
      BY <1>8, <2>2 DEF NextTable
    <3>2. ToCome(i) => i \in Matches
      BY <1>3, <1>4, <2>2
    <3> QED
      BY <1>2, <1>3, <1>4, <1>8, <3>1, <3>2
  <2> QED
    BY <2>1, <2>2
<1> QED
  BY <1>7, <1>8 DEF OffsetStep

(* A page keeps what is known of the listing, if its documents were to     *)
(* come and the cursor passes no other that is due.                        *)
LEMMA PageKeepsListing ==
  ASSUME TypeOK, Steady, Covered, Exact, pc = "page", pc' \in {"page", "fetch"},
         NEW found \in Seq(Item), Receive(found), Distinct(found),
         \A i \in Elements(found) :
           /\ i \in source /\ Selects(i) /\ ToCome(i)
           /\ pc' = "page" => ~ToCome(i)',
         \A i \in source : Selects(i) /\ ~ToCome(i) /\ pc' = "page" => ~ToCome(i)',
         \A i \in Due : ToCome(i) /\ ~Excused =>
           i \in Elements(found) \/ (pc' = "page" /\ ToCome(i)')
  PROVE  Covered' /\ Exact'
<1>1. /\ Due' = Due /\ Excused' = Excused /\ source' = source /\ touched' = touched
      /\ docs' = docs \o found /\ \A i : Selects(i)' = Selects(i)
  BY ReceiveKeepsWorld
<1>2. docs \in Seq(Item)
  BY DEF TypeOK
<1>3. Elements(docs)' = Elements(docs) \cup Elements(found)
  <2>1. Elements(docs)' = Elements(docs \o found)
    BY <1>1 DEF Elements
  <2> QED
    BY <1>2, <2>1, Appended
<1>4. ASSUME ~Excused, NEW i \in Due
      PROVE  i \in Elements(docs)' \/ (pc' = "page" /\ ToCome(i)')
  <2>1. i \in Elements(docs) \/ ToCome(i)
    BY <1>4 DEF Covered, Listed
  <2> QED
    BY <1>3, <1>4, <2>1
<1>5. Covered'
  BY <1>1, <1>4 DEF Covered, Listed, HasListed
<1>6. ASSUME touched = {} PROVE Distinct(docs)'
  <2>1. Distinct(docs) /\ \A i \in Elements(docs) : ~ToCome(i)
    BY <1>6 DEF Exact, Listed
  <2>2. Elements(docs) \cap Elements(found) = {}
    BY <2>1
  <2>3. Distinct(docs \o found)
    BY <1>2, <2>1, <2>2, Appended
  <2> QED
    BY <1>1, <2>3 DEF Distinct
<1>7. ASSUME touched = {}, pc' = "page", NEW i \in Elements(docs)'
      PROVE  i \in source /\ Selects(i) /\ ~ToCome(i)'
  <2>1. CASE i \in Elements(found)
    BY <1>7, <2>1
  <2>2. CASE i \in Elements(docs)
    <3>1. i \in source /\ Selects(i) /\ ~ToCome(i)
      BY <1>7, <2>2 DEF Exact, Listed
    <3> QED
      BY <1>7, <3>1
  <2> QED
    BY <1>3, <1>7, <2>1, <2>2
<1>8. Exact'
  BY <1>1, <1>6, <1>7 DEF Exact, Listed
<1> QED
  BY <1>5, <1>8

LEMMA OffsetStepKeepsListing ==
  ASSUME TypeOK, Steady, Covered, Exact, NEW found, OffsetStep(found)
  PROVE  Covered' /\ Exact'
<1>1. pc = "page" /\ Receive(found) /\ found = Page(Matching, cursor)
  BY DEF OffsetStep
<1>2. found \in Seq(Item) /\ Elements(found) \subseteq Matches /\ Distinct(found)
  BY <1>1, OffsetPage
<1>3. \A i \in Matches : i \in Item /\ i \in source /\ Selects(i)
  BY DEF Matches, TypeOK
<1>4. \A i \in source : i \in Item
  BY DEF TypeOK
<1>5. pc' \in {"page", "fetch"}
  BY <1>1 DEF OffsetStep, NextTable
<1>6. \A i \in Elements(found) :
        /\ i \in source /\ Selects(i) /\ ToCome(i)
        /\ pc' = "page" => ~ToCome(i)'
  BY <1>2, <1>3, OffsetStepMoves
<1>7. \A i \in source : Selects(i) /\ ~ToCome(i) /\ pc' = "page" => ~ToCome(i)'
  BY <1>4, OffsetStepMoves
<1>8. \A i \in Due : ToCome(i) /\ ~Excused =>
        i \in Elements(found) \/ (pc' = "page" /\ ToCome(i)')
  BY DueIsSelected, OffsetStepMoves
<1> QED
  BY <1>1, <1>2, <1>5, <1>6, <1>7, <1>8, PageKeepsListing

-----------------------------------------------------------------------------
(* SharePoint's pages are linked: the cursor is the last document seen, so *)
(* a page has the next ones by id, whatever came or left.                  *)
LEMMA LinkedPage ==
  ASSUME TypeOK, kind = "sharepoint", NEW rest, rest = {i \in source : i > cursor},
         NEW found, found = Page(InOrder(rest), 0)
  PROVE  /\ Elements(found) \subseteq rest
         /\ Len(InOrder(rest)) <= Limit => Elements(found) = rest
         /\ Len(InOrder(rest)) > Limit =>
              /\ found[Limit] \in rest
              /\ \A i \in rest : i \in Elements(found) <=> i <= found[Limit]
<1>1. rest \in SUBSET Item /\ Limit \in Nat \ {0} /\ Item \subseteq Nat
  BY SessionAssumption DEF TypeOK
<1>2. Len(InOrder(rest)) = Cardinality(rest) /\ Cardinality(rest) \in Nat
  BY <1>1, InOrderLists
<1> DEFINE rank(i) == Cardinality(Ahead(rest, i))
<1>3. \A i \in rest : rank(i) \in 0..(Cardinality(rest) - 1)
  BY <1>1, RanksCount
<1>4. ASSUME NEW from \in Nat, found = Page(InOrder(rest), from)
      PROVE  /\ found \in Seq(rest) /\ Elements(found) \subseteq rest
             /\ Len(found) \in 0..Limit
             /\ from + Limit < Cardinality(rest) => Len(found) = Limit
             /\ \A n \in 1..Len(found) : rank(found[n]) = from + n - 1
             /\ \A i \in rest : i \in Elements(found) <=>
                  from <= rank(i) /\ rank(i) < from + Len(found)
             /\ Len(found) < Limit \/ from + Len(found) >= Cardinality(rest) =>
                  \A i \in rest : rank(i) < from + Len(found)
  BY <1>1, <1>4, PageByRank
<1> HIDE DEF rank
<1>5. found = Page(InOrder(rest), 0) /\ 0 \in Nat
  OBVIOUS
<1>6. /\ found \in Seq(rest) /\ Elements(found) \subseteq rest /\ Len(found) \in 0..Limit
      /\ Limit < Cardinality(rest) => Len(found) = Limit
  BY <1>1, <1>2, <1>4, <1>5
<1>7. \A n \in 1..Len(found) : rank(found[n]) = n - 1
  BY <1>4, <1>5, <1>6
<1>8. \A i \in rest : i \in Elements(found) <=> rank(i) < Len(found)
  <2>1. \A i \in rest : rank(i) \in Nat
    BY <1>2, <1>3
  <2> QED
    BY <1>4, <1>5, <1>6, <2>1
<1>9. Len(found) < Limit \/ Len(found) >= Cardinality(rest) =>
        \A i \in rest : rank(i) < Len(found)
  BY <1>4, <1>5, <1>6
<1>10. CASE Len(InOrder(rest)) <= Limit
  <2>1. Len(found) < Limit \/ Len(found) >= Cardinality(rest)
    BY <1>1, <1>2, <1>6, <1>10
  <2>2. Elements(found) = rest
    BY <1>6, <1>8, <1>9, <2>1
  <2>3. ~(Len(InOrder(rest)) > Limit)
    BY <1>1, <1>2, <1>10
  <2> QED
    BY <2>2, <2>3
<1>11. CASE Len(InOrder(rest)) > Limit
  <2> DEFINE last == found[Limit]
  <2>1. Len(found) = Limit
    BY <1>1, <1>2, <1>6, <1>11
  <2>2. last \in rest /\ rank(last) = Limit - 1
    BY <1>1, <1>6, <1>7, <2>1
  <2> HIDE DEF last
  <2>3. ASSUME NEW i \in rest PROVE i \in Elements(found) <=> i <= last
    <3>1. CASE i = last
      BY <1>1, <1>8, <2>1, <2>2, <3>1
    <3>2. CASE i < last
      <4>1. Before(i, last)
        BY <3>2 DEF Before, LatestFirst
      <4>2. rank(i) < rank(last)
        BY <1>1, <2>2, <4>1, RanksCount DEF rank
      <4> QED
        BY <1>1, <1>3, <1>8, <2>1, <2>2, <3>2, <4>2
    <3>3. CASE i > last
      <4>1. Before(last, i)
        BY <1>1, <2>2, <3>3 DEF Before, LatestFirst
      <4>2. rank(last) < rank(i)
        BY <1>1, <2>2, <4>1, RanksCount DEF rank
      <4>3. ~(rank(i) < Len(found))
        BY <1>1, <1>2, <1>3, <2>1, <2>2, <4>2
      <4>4. ~(i <= last)
        BY <1>1, <2>2, <3>3
      <4> QED
        BY <1>8, <4>3, <4>4
    <3> QED
      BY <1>1, <2>2, <3>1, <3>2, <3>3
  <2> QED
    BY <1>1, <1>2, <1>6, <1>11, <2>2, <2>3 DEF last
<1> QED
  BY <1>1, <1>2, <1>10, <1>11

LEMMA SharePointKeepsListing ==
  ASSUME TypeOK, Steady, Covered, Exact, ListSharePoint
  PROVE  /\ Covered' /\ Exact'
         /\ cursor' \in Nat /\ pc' \in {"page", "fetch"} /\ table' = table
         /\ \E kept \in Seq(Item) : Receive(kept)
<1> DEFINE rest == {i \in source : i > cursor}
           found == Page(InOrder(rest), 0)
           modified == {i \in Elements(found) : since = None \/ changed[i] > since}
           kept == InOrder(modified)
<1>1. /\ pc = "page" /\ kind = "sharepoint" /\ Receive(kept) /\ table' = table
      /\ IF Len(InOrder(rest)) <= Limit THEN pc' = "fetch" /\ UNCHANGED cursor
         ELSE cursor' = found[Limit] /\ UNCHANGED pc
  BY DEF ListSharePoint
<1>2. source \subseteq Item /\ Item \subseteq Nat /\ cursor \in Nat /\ Limit \in Nat \ {0}
  BY SessionAssumption DEF TypeOK
<1>3. /\ Elements(found) \subseteq rest
      /\ Len(InOrder(rest)) <= Limit => Elements(found) = rest
      /\ Len(InOrder(rest)) > Limit =>
           /\ found[Limit] \in rest
           /\ \A i \in rest : i \in Elements(found) <=> i <= found[Limit]
  BY <1>1, LinkedPage
<1>4. rest \in SUBSET Item /\ Len(InOrder(rest)) \in Nat
  <2>1. rest \in SUBSET Item
    BY <1>2
  <2> QED
    BY <2>1, InOrderLists
<1> HIDE DEF found
<1>5. modified \in SUBSET Item
  BY <1>3, <1>4
<1>6. Elements(kept) = modified /\ Distinct(kept) /\ kept \in Seq(Item)
  <2>1. kept \in Seq(modified)
    BY <1>5, InOrderLists
  <2> QED
    BY <1>5, <2>1, InOrderHasAll
<1> HIDE DEF kept
<1>7. kind' = kind
  BY <1>1 DEF Receive
<1>8. /\ \A i : ToCome(i) <=> i > cursor
      /\ \A i : ToCome(i)' <=> i > cursor'
      /\ \A i : Selects(i)
  BY <1>1, <1>7 DEF ToCome, HasTables, Selects
<1>9. pc' \in {"page", "fetch"} /\ cursor' \in Nat
  <2>1. CASE Len(InOrder(rest)) <= Limit
    BY <1>1, <1>2, <2>1
  <2>2. CASE ~(Len(InOrder(rest)) <= Limit)
    <3>1. found[Limit] \in rest
      BY <1>2, <1>3, <1>4, <2>2
    <3> QED
      BY <1>1, <1>2, <2>2, <3>1
  <2> QED
    BY <2>1, <2>2
<1>10. /\ pc' = "page" => /\ cursor' > cursor
                          /\ \A i \in rest : i \in Elements(found) <=> i <= cursor'
       /\ pc' # "page" => Elements(found) = rest
  BY <1>1, <1>2, <1>3, <1>4
<1>11. \A i \in Elements(kept) :
         /\ i \in source /\ Selects(i) /\ ToCome(i)
         /\ pc' = "page" => ~ToCome(i)'
  <2> SUFFICES ASSUME NEW i \in Elements(kept)
               PROVE  /\ i \in source /\ Selects(i) /\ ToCome(i)
                      /\ pc' = "page" => ~ToCome(i)'
    OBVIOUS
  <2>1. i \in Elements(found) /\ i \in rest
    BY <1>3, <1>6
  <2>2. i \in source /\ i > cursor /\ i \in Nat
    BY <1>2, <2>1
  <2>3. pc' = "page" => i <= cursor'
    BY <1>10, <2>1
  <2> QED
    BY <1>8, <1>9, <2>2, <2>3
<1>12. \A i \in source : Selects(i) /\ ~ToCome(i) /\ pc' = "page" => ~ToCome(i)'
  BY <1>2, <1>8, <1>9, <1>10
<1>13. \A i \in Due : ToCome(i) /\ ~Excused =>
         i \in Elements(kept) \/ (pc' = "page" /\ ToCome(i)')
  <2> SUFFICES ASSUME NEW i \in Due, ToCome(i)
               PROVE  i \in Elements(kept) \/ (pc' = "page" /\ ToCome(i)')
    OBVIOUS
  <2>1. i \in rest /\ (since = None \/ changed[i] > since)
    BY <1>8, DueIsSelected DEF Due
  <2>2. i \in Elements(found) => i \in Elements(kept)
    BY <1>6, <2>1
  <2> QED
    BY <1>2, <1>8, <1>9, <1>10, <2>1, <2>2
<1>14. Covered' /\ Exact'
  BY <1>1, <1>6, <1>9, <1>11, <1>12, <1>13, PageKeepsListing
<1> QED
  BY <1>1, <1>6, <1>9, <1>14

-----------------------------------------------------------------------------
(* Changes at the source.                                                  *)
SourceStep(x) ==
  /\ x \in Item
  /\ \E to : Change(x, to)
  /\ source \ {x} \subseteq source'
  /\ shrunk' \in BOOLEAN
  /\ ~shrunk' => ~shrunk /\ source' = source \cup {x}

LEMMA ChangesAreSourceSteps ==
  ASSUME TypeOK, NEW x \in Item, Edit(x) \/ Leave(x) \/ Join(x)
  PROVE  SourceStep(x) /\ source' \subseteq Item
<1>1. CASE Edit(x)
  BY <1>1 DEF SourceStep, Edit, Change, TypeOK
<1>2. CASE Leave(x)
  BY <1>2 DEF SourceStep, Leave, Change, TypeOK
<1>3. CASE Join(x)
  BY <1>3 DEF SourceStep, Join, Change, TypeOK
<1> QED
  BY <1>1, <1>2, <1>3

(* A document that was left alone keeps or worsens its rank as long as no  *)
(* other leaves: what was ahead of it still is.                            *)
LEMMA RanksGrow ==
  ASSUME TypeOK, Steady, NEW x \in Item, SourceStep(x), ~shrunk',
         NEW i \in Item, i # x
  PROVE  Rank(i) <= Rank(i)' /\ Rank(i) \in Nat /\ Rank(i)' \in Nat
<1>1. /\ source' = source \cup {x} /\ now' = now + 1
      /\ changed' = [changed EXCEPT ![x] = now']
      /\ UNCHANGED <<kind, since, table>>
  BY DEF SourceStep, Change
<1>2. /\ changed \in [Item -> Nat] /\ now \in Nat /\ now >= 2 /\ source \subseteq Item
      /\ since \in {None, 1} /\ kind \in Kind
      /\ \A j \in Item : changed[j] <= now
  BY SessionAssumption DEF TypeOK, Steady
<1>3. /\ \A j \in Item : j # x => changed'[j] = changed[j]
      /\ changed'[x] = now + 1
  BY <1>1, <1>2
<1>4. \A j \in Item : j # x => Selects(j)' = Selects(j)
  BY <1>1, <1>3 DEF Selects
<1>5. Selects(x)'
  <2>1. CASE since = None
    BY <1>1, <2>1 DEF Selects
  <2>2. CASE since # None
    <3>1. since = 1 /\ Trunc(since) \in Nat /\ Trunc(since) <= 1
      BY <1>2, <2>2, TruncBelow
    <3> QED
      BY <1>1, <1>2, <1>3, <3>1 DEF Selects, Kind
  <2> QED
    BY <2>1, <2>2
<1>6. ASSUME NEW j \in Matches PROVE j \in Matches'
  <2>1. j \in source /\ j \in Item /\ Selects(j) /\ (HasTables => TableOf(j) = Table[table])
    BY <1>2 DEF Matches
  <2>2. Selects(j)' /\ j \in source'
    BY <1>1, <1>4, <1>5, <2>1
  <2> QED
    BY <1>1, <2>1, <2>2 DEF Matches, HasTables, TableOf
<1>7. ASSUME NEW j \in Item, Before(j, i) PROVE Before(j, i)'
  <2>1. changed'[i] = changed[i] /\ changed[i] <= now /\ LatestFirst' = LatestFirst
    BY <1>1, <1>2, <1>3 DEF LatestFirst
  <2>2. CASE j # x
    BY <1>1, <1>3, <1>7, <2>1, <2>2 DEF Before
  <2>3. CASE j = x
    BY <1>2, <1>3, <1>7, <2>1, <2>3 DEF Before
  <2> QED
    BY <2>2, <2>3
<1>8. Matches \subseteq Item /\ Matches' \subseteq Item
  BY <1>1, <1>2 DEF Matches
<1>9. /\ Ahead(Matches, i) \subseteq Ahead(Matches, i)'
      /\ Ahead(Matches, i)' \subseteq Item
  BY <1>6, <1>7, <1>8 DEF Ahead
<1>10. /\ IsFiniteSet(Ahead(Matches, i)') /\ Cardinality(Ahead(Matches, i)') \in Nat
       /\ Cardinality(Ahead(Matches, i)) \in Nat
  BY <1>9, RankIsNatural
<1>11. Cardinality(Ahead(Matches, i)) <= Cardinality(Ahead(Matches, i)')
  BY <1>9, <1>10, FS_Subset
<1> QED
  BY <1>10, <1>11 DEF Rank

LEMMA SourceStepKeepsListing ==
  ASSUME TypeOK, Steady, Covered, NEW x \in Item, SourceStep(x)
  PROVE  Covered' /\ Exact'
<1>1. /\ pc = "page" /\ touched' = touched \cup {x}
      /\ changed' = [changed EXCEPT ![x] = now']
      /\ UNCHANGED <<kind, totals, pc, since, table, cursor, docs, atStart>>
  BY DEF SourceStep, Change
<1>2. Exact'
  BY <1>1 DEF Exact
<1>3. ASSUME ~Excused', NEW i \in Due'
      PROVE  i \in Listed \/ ToCome(i)'
  <2>1. i # x /\ i \in Item /\ i \in Due
    BY <1>1 DEF Due, TypeOK
  <2>2. ~Excused /\ (kind # "sharepoint" => ~shrunk')
    BY <1>1, <1>3 DEF Excused, SourceStep
  <2>3. i \in Listed \/ ToCome(i)
    BY <1>1, <2>1, <2>2 DEF Covered
  <2>4. ASSUME ToCome(i) PROVE ToCome(i)'
    <3>1. CASE kind = "sharepoint"
      BY <1>1, <2>4, <3>1 DEF ToCome, HasTables
    <3>2. CASE kind # "sharepoint"
      <4>1. Rank(i) <= Rank(i)' /\ Rank(i) \in Nat /\ Rank(i)' \in Nat /\ cursor \in Nat
        BY <2>1, <2>2, <3>2, RanksGrow DEF TypeOK
      <4> QED
        BY <1>1, <2>4, <3>2, <4>1 DEF ToCome, HasTables, Slot
    <3> QED
      BY <3>1, <3>2
  <2> QED
    BY <2>3, <2>4
<1>4. Covered'
  BY <1>1, <1>3 DEF Covered, HasListed, Listed
<1> QED
  BY <1>2, <1>4

-----------------------------------------------------------------------------
(* Every step keeps the types, what a session has done so far, and, for    *)
(* SharePoint, a token that lasts.                                         *)
Sound == TypeOK /\ Steady /\ TokenLasts
Listing == Covered /\ Exact
SessionInv == Sound /\ Listing

(* A step that is not of the listing leaves what is known of it alone.     *)
LEMMA ElsewhereKeepsListing ==
  ASSUME Listing,
         UNCHANGED <<kind, totals, world, since, table, cursor, docs, atStart>>,
         HasListed' => HasListed, pc' = "page" => pc = "page"
  PROVE  Listing'
<1>1. /\ Due' = Due /\ Excused' = Excused /\ Listed' = Listed
      /\ \A i : Selects(i)' = Selects(i)
  BY DEF world, Due, Excused, Listed, Selects
<1>2. \A i : ToCome(i)' = ToCome(i)
  BY DEF world, ToCome, HasTables, Slot, Rank, Ahead, Matches, Before, LatestFirst,
         Selects, TableOf
<1>3. Distinct(docs)' = Distinct(docs)
  BY DEF Distinct
<1> QED
  BY <1>1, <1>2, <1>3 DEF Listing, Covered, Exact, world

LEMMA InitIsSound == Init => SessionInv
<1> SUFFICES ASSUME Init PROVE SessionInv
  OBVIOUS
<1>1. TypeOK
  <2>1. changed \in [Item -> 1..MaxTime] /\ now \in 2..MaxTime
    BY SessionAssumption DEF Init
  <2>2. source \subseteq Item /\ table \in DOMAIN Table
    BY SessionAssumption DEF Init
  <2>3. life \in 0..TokenLife /\ waited \in 0..Margin
    BY SessionAssumption DEF Init
  <2>4. docs \in Seq(Item) /\ fetched \in 0..Len(docs) /\ cursor \in Nat
    BY DEF Init
  <2> QED
    BY <2>1, <2>2, <2>3, <2>4 DEF Init, TypeOK
<1>2. Steady
  BY SessionAssumption DEF Init, Steady
<1>3. TokenLasts
  BY DEF Init, TokenLasts
<1>4. Listing
  BY DEF Init, Listing, Covered, Exact, Due, Distinct, HasListed
<1> QED
  BY <1>1, <1>2, <1>3, <1>4 DEF SessionInv, Sound

LEMMA SourceIsSound ==
  ASSUME Sound, NEW x \in Item, Edit(x) \/ Leave(x) \/ Join(x)
  PROVE  Sound'
<1>1. SourceStep(x) /\ source' \subseteq Item
  BY ChangesAreSourceSteps DEF Sound
<1>2. /\ pc = "page" /\ now < MaxTime /\ now' = now + 1
      /\ changed' = [changed EXCEPT ![x] = now']
      /\ touched' = touched \cup {x}
      /\ UNCHANGED <<kind, totals, pc, since, table, cursor, docs, fetched, token, atStart, denied>>
  BY <1>1 DEF SourceStep, Change
<1>3. TypeOK'
  BY <1>1, <1>2, SessionAssumption DEF Sound, TypeOK, SourceStep, token
<1>4. Steady'
  BY <1>1, <1>2, SessionAssumption DEF Sound, TypeOK, Steady, SourceStep
<1>5. TokenLasts'
  BY <1>2 DEF Sound, TokenLasts
<1> QED
  BY <1>3, <1>4, <1>5 DEF Sound

LEMMA PageIsSound ==
  ASSUME Sound, pc = "page", NEW found \in Seq(Item), Receive(found),
         cursor' \in Nat, table' \in DOMAIN Table, pc' \in {"page", "fetch"}
  PROVE  Sound'
<1>1. /\ docs' = docs \o found
      /\ UNCHANGED <<kind, totals, world, since, fetched, token, atStart, denied>>
  BY DEF Receive
<1>2. docs' \in Seq(Item) /\ Len(docs') = Len(docs) + Len(found)
  BY <1>1, Appended DEF Sound, TypeOK
<1>3. Len(docs) \in Nat /\ Len(found) \in Nat /\ fetched = 0
  BY DEF Sound, TypeOK, Steady
<1>4. TypeOK'
  BY <1>1, <1>2, <1>3 DEF Sound, TypeOK, world, token
<1>5. Steady'
  BY <1>1 DEF Sound, Steady, world
<1>6. TokenLasts'
  BY <1>1 DEF Sound, TokenLasts, token
<1> QED
  BY <1>4, <1>5, <1>6 DEF Sound

LEMMA OffsetIsSound ==
  ASSUME Sound, NEW found, OffsetStep(found)
  PROVE  Sound'
<1>1. pc = "page" /\ Receive(found) /\ found = Page(Matching, cursor)
  BY DEF OffsetStep
<1>2. found \in Seq(Item) /\ Len(found) \in Nat
  BY <1>1, OffsetPage, SessionAssumption DEF Sound
<1>3. /\ cursor \in Nat /\ table \in DOMAIN Table
      /\ DOMAIN Table = 1..Len(Table) /\ Len(Table) \in Nat
  BY SessionAssumption DEF Sound, TypeOK
<1>4. cursor' \in Nat /\ table' \in DOMAIN Table /\ pc' \in {"page", "fetch"}
  BY <1>1, <1>2, <1>3 DEF OffsetStep, NextTable
<1> QED
  BY <1>1, <1>2, <1>4, PageIsSound

(* The token, when it is looked at.                                        *)
LEMMA RenewedLasts ==
  ASSUME TypeOK PROVE RenewedLife \in 0..TokenLife /\ RenewedLife > Margin
BY SessionAssumption DEF TypeOK, RenewedLife

LEMMA AgeIsSound == ASSUME Sound, Age PROVE Sound'
<1>1. TypeOK'
  BY SessionAssumption DEF Sound, Age, TypeOK, world
<1>2. Steady'
  BY DEF Sound, Age, Steady, world
<1>3. TokenLasts'
  BY SessionAssumption DEF Sound, Age, TokenLasts, TypeOK
<1> QED
  BY <1>1, <1>2, <1>3 DEF Sound

LEMMA ConnectIsSound == ASSUME Sound, Connect PROVE Sound'
<1>1. PICK n \in {0, TokenLife} : Connected(n)
  BY DEF Connect, ConnectSharePoint, ConnectConfluence, ConnectGrc, ConnectJira, ConnectServiceNow
<1>2. TypeOK'
  BY <1>1, SessionAssumption DEF Sound, Connected, TypeOK, world
<1>3. Steady'
  BY <1>1 DEF Sound, Connected, Steady, world
<1>4. TokenLasts'
  BY <1>1 DEF Sound, Connected, TokenLasts
<1> QED
  BY <1>2, <1>3, <1>4 DEF Sound

LEMMA BeginListIsSound == ASSUME Sound, BeginList PROVE Sound'
<1>1. TypeOK'
  BY RenewedLasts DEF Sound, BeginList, TypeOK
<1>2. Steady'
  BY DEF Sound, BeginList, Steady
<1>3. TokenLasts'
  BY DEF Sound, BeginList, TokenLasts
<1> QED
  BY <1>1, <1>2, <1>3 DEF Sound

LEMMA ListEndsIsSound == ASSUME Sound, ListEnds, pc \in {"list", "page"} PROVE Sound'
<1>1. TypeOK'
  BY DEF Sound, ListEnds, TypeOK, world, token
<1>2. Steady'
  BY DEF Sound, ListEnds, Steady, world
<1>3. TokenLasts'
  BY DEF Sound, ListEnds, TokenLasts, token
<1> QED
  BY <1>1, <1>2, <1>3 DEF Sound

LEMMA BeginFetchIsSound == ASSUME Sound, BeginFetch PROVE Sound'
<1>1. TypeOK'
  BY RenewedLasts, SessionAssumption DEF Sound, BeginFetch, TypeOK, world
<1>2. Steady'
  BY DEF Sound, BeginFetch, Steady, world
<1>3. TokenLasts'
  BY RenewedLasts, SessionAssumption DEF Sound, BeginFetch, TokenLasts, TypeOK
<1> QED
  BY <1>1, <1>2, <1>3 DEF Sound

(* A request is answered before the token that was looked at has expired:  *)
(* it had more than the margin left, and waiting takes no longer.          *)
LEMMA FetchIsSound == ASSUME Sound, Fetch PROVE Sound'
<1>1. Fetched
  BY DEF Fetch, FetchSharePoint, FetchConfluence, FetchGrc, FetchJira, FetchServiceNow
<1>2. pc = "sending" /\ fetched \in Nat /\ fetched < Len(docs) /\ docs \in Seq(Item)
  BY <1>1 DEF Fetched, Sound, TypeOK, Steady
<1>3. fetched' = fetched + 1 /\ fetched' \in 1..Len(docs) /\ docs[fetched'] \in Item
  BY <1>1, <1>2 DEF Fetched
<1>4. TypeOK'
  BY <1>1, <1>2, <1>3 DEF Sound, Fetched, TypeOK, world, token
<1>5. Steady'
  BY <1>1 DEF Sound, Fetched, Steady, world
<1>6. kind = "sharepoint" => Authorized
  BY <1>2, SessionAssumption DEF Sound, TokenLasts, TypeOK, Authorized
<1>7. TokenLasts'
  BY <1>1, <1>6 DEF Sound, Fetched, TokenLasts, token
<1> QED
  BY <1>4, <1>5, <1>7 DEF Sound

LEMMA DisconnectIsSound == ASSUME Sound, Disconnect PROVE Sound'
<1>1. TypeOK'
  BY DEF Sound, Disconnect, TypeOK, world, token
<1>2. Steady'
  BY DEF Sound, Disconnect, Steady, world
<1>3. TokenLasts'
  BY DEF Sound, Disconnect, TokenLasts, token
<1> QED
  BY <1>1, <1>2, <1>3 DEF Sound

-----------------------------------------------------------------------------
LEMMA SharePointIsSound == ASSUME Sound, Listing, ListSharePoint PROVE Sound'
<1>1. /\ cursor' \in Nat /\ pc' \in {"page", "fetch"} /\ table' = table
      /\ \E kept \in Seq(Item) : Receive(kept)
  BY SharePointKeepsListing DEF Sound, Listing
<1>2. pc = "page" /\ table \in DOMAIN Table
  BY DEF ListSharePoint, Sound, TypeOK
<1> QED
  BY <1>1, <1>2, PageIsSound

(* With the listing begun everything that is due is still to come.         *)
LEMMA BeginListBeginsListing == ASSUME Sound, BeginList PROVE Listing'
<1>1. /\ pc = "list" /\ pc' = "page" /\ atStart' = source /\ touched' = {} /\ shrunk' = FALSE
      /\ docs = << >> /\ table = 1 /\ cursor = 0
      /\ UNCHANGED <<kind, totals, source, changed, since, table, cursor, docs>>
  BY DEF BeginList, Sound, Steady
<1>2. ASSUME NEW i \in Item PROVE ToCome(i)'
  <2>1. i > 0 /\ i \in Nat
    BY SessionAssumption
  <2>2. Slot(i)' \in Nat /\ Slot(i)' >= 1
    <3>1. Slot(i) \in 1..Len(Table)
      BY SlotIsTheTable DEF Sound
    <3> QED
      BY <3>1, SessionAssumption DEF Slot
  <2>3. Rank(i)' \in Nat
    <3>1. Ahead(Matches, i)' \subseteq Item
      BY <1>1 DEF Ahead, Matches, Sound, TypeOK
    <3> QED
      BY <3>1, RankIsNatural DEF Rank
  <2> QED
    BY <1>1, <2>1, <2>2, <2>3 DEF ToCome
<1>3. Covered'
  BY <1>1, <1>2 DEF Covered, Due, HasListed, Sound, TypeOK
<1>4. Exact'
  BY <1>1 DEF Exact, Distinct, Listed, Elements
<1> QED
  BY <1>3, <1>4 DEF Listing

LEMMA ConnectKeepsListing == ASSUME Listing, Connect PROVE Listing'
<1>1. PICK n : Connected(n)
  BY DEF Connect, ConnectSharePoint, ConnectConfluence, ConnectGrc, ConnectJira, ConnectServiceNow
<1> QED
  BY <1>1, ElsewhereKeepsListing DEF Connected, HasListed

LEMMA FetchKeepsListing == ASSUME Listing, BeginFetch \/ Fetch \/ Disconnect PROVE Listing'
<1>1. Fetch => Fetched
  BY DEF Fetch, FetchSharePoint, FetchConfluence, FetchGrc, FetchJira, FetchServiceNow
<1> QED
  BY <1>1, ElsewhereKeepsListing DEF BeginFetch, Fetched, Disconnect, HasListed

LEMMA NextKeepsInv == SessionInv /\ [Next]_vars => SessionInv'
<1> SUFFICES ASSUME SessionInv, [Next]_vars PROVE SessionInv'
  OBVIOUS
<1>1. Sound /\ Listing /\ TypeOK /\ Steady /\ Covered /\ Exact
  BY DEF SessionInv, Sound, Listing
<1>2. CASE Connect
  BY <1>1, <1>2, ConnectIsSound, ConnectKeepsListing DEF SessionInv
<1>3. CASE BeginList
  BY <1>1, <1>3, BeginListIsSound, BeginListBeginsListing DEF SessionInv
<1>4. CASE ListConfluence \/ ListServiceNow \/ ListJira \/ ListGrc
  <2>1. PICK found : OffsetStep(found)
    BY <1>1, <1>4, ListingsByOffset
  <2> QED
    BY <1>1, <2>1, OffsetIsSound, OffsetStepKeepsListing DEF SessionInv, Listing
<1>5. CASE ListSharePoint
  BY <1>1, <1>5, SharePointIsSound, SharePointKeepsListing DEF SessionInv, Listing
<1>6. CASE ListDenied \/ ListRaises
  <2>1. ListEnds /\ pc \in {"list", "page"}
    BY <1>6 DEF ListDenied, ListRaises
  <2>2. Sound'
    BY <1>1, <2>1, ListEndsIsSound
  <2>3. Listing'
    BY <1>1, <2>1, ElsewhereKeepsListing DEF ListEnds, HasListed
  <2> QED
    BY <2>2, <2>3 DEF SessionInv
<1>7. CASE BeginFetch \/ Fetch \/ Disconnect
  BY <1>1, <1>7, BeginFetchIsSound, FetchIsSound, DisconnectIsSound, FetchKeepsListing
     DEF SessionInv
<1>8. CASE Age
  <2>1. Listing'
    BY <1>1, <1>8, ElsewhereKeepsListing DEF Age, HasListed
  <2> QED
    BY <1>1, <1>8, <2>1, AgeIsSound DEF SessionInv
<1>9. ASSUME NEW x \in Item, Edit(x) \/ Leave(x) \/ Join(x) PROVE SessionInv'
  BY <1>1, <1>9, SourceIsSound, ChangesAreSourceSteps, SourceStepKeepsListing
     DEF SessionInv, Listing
<1>10. CASE UNCHANGED vars
  <2>1. Listing'
    BY <1>1, <1>10, ElsewhereKeepsListing DEF vars, HasListed
  <2>2. Sound'
    BY <1>1, <1>10 DEF vars, world, token, Sound, TypeOK, Steady, TokenLasts
  <2> QED
    BY <2>1, <2>2 DEF SessionInv
<1> QED
  BY <1>2, <1>3, <1>4, <1>5, <1>6, <1>7, <1>8, <1>9, <1>10 DEF Next, SessionStep, ListPage

LEMMA Invariance == Spec => []SessionInv
BY InitIsSound, NextKeepsInv, PTL DEF Spec

-----------------------------------------------------------------------------
(* The variables of a session, of its token and of the source keep their   *)
(* types, however often the token is renewed.                              *)
THEOREM SessionTyped == Spec => []TypeOK
<1>1. SessionInv => TypeOK
  BY DEF SessionInv, Sound
<1> QED
  BY <1>1, Invariance, PTL

(* A listing has every document modified since that was left alone while   *)
(* it ran, for any number of documents, changes and pages, unless one left *)
(* or totals are missing where the loop goes by them.                      *)
THEOREM SessionListsUntouched == Spec => []UntouchedIsListed
<1>1. SessionInv => UntouchedIsListed
  BY DEF SessionInv, Listing, Covered, Due, Excused, UntouchedIsListed
<1> QED
  BY <1>1, Invariance, PTL

(* Nothing is listed twice while nothing changes, wherever the boundaries  *)
(* between pages and between tables lie.                                   *)
THEOREM SessionListsOnce == Spec => []QuietListingIsExact
<1>1. SessionInv => QuietListingIsExact
  BY DEF SessionInv, Listing, Exact, Distinct, QuietListingIsExact
<1> QED
  BY <1>1, Invariance, PTL

(* SharePoint's token outlives the requests of every fetch, for any        *)
(* lifetime longer than the margin.                                        *)
THEOREM SessionStaysAuthorized == Spec => []FetchIsAuthorized
<1>1. SessionInv => FetchIsAuthorized
  BY DEF SessionInv, Sound, TokenLasts, FetchIsAuthorized
<1> QED
  BY <1>1, Invariance, PTL
=============================================================================
