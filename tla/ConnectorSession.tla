-------------------------- MODULE ConnectorSession --------------------------
(***************************************************************************)
(* One session of a connector (connectors/sharepoint.py, confluence.py,    *)
(* grc.py, ticketing.py): connect, list what was modified since a time,    *)
(* page by page, fetch each listed document, disconnect; while the         *)
(* documents at the source change between the requests and the access      *)
(* token ages.  SyncManager takes the listing to be one step; the          *)
(* invariants here say what that step may be.                              *)
(*                                                                         *)
(* The source answers in an order: by time of modification, latest first,  *)
(* where the query asks for it (Confluence, Jira), by id otherwise.  It is *)
(* modelled from the requests the connectors send.                         *)
(***************************************************************************)
EXTENDS Naturals, Sequences, FiniteSets

CONSTANTS
  Item,          \* documents that are or may come at the source, by id
  Stock,         \* bound: the sets of them that may be there at first
  Table,         \* the entity types or tables, a sequence
  Limit,         \* documents per page
  Grain,         \* units of time per day (Confluence), minute, second
  TokenLife, Margin,   \* lifetime of a token, when it is renewed early
  MaxTime,       \* bound on now, and so on changes of the source
  None

ASSUME SessionAssumption ==
  /\ Item \subseteq Nat \ {0} /\ IsFiniteSet(Item) /\ Stock \subseteq SUBSET Item
  /\ DOMAIN Table = 1..Len(Table) /\ Len(Table) \in Nat \ {0}
  /\ \A t, u \in DOMAIN Table : Table[t] = Table[u] => t = u
  /\ Limit \in Nat \ {0} /\ Grain \in Nat \ {0} /\ MaxTime \in Nat \ {0, 1}
  /\ TokenLife \in Nat /\ Margin \in Nat /\ Margin < TokenLife

VARIABLES
  kind,        \* the connector type
  totals,      \* whether the source tells totals, and counts in them what
               \* it does not show
  source,      \* the documents that match the filters
  changed,     \* the time each was last modified
  now,
  pc, since, table, cursor, docs, fetched,   \* the session
  life, waited,                     \* of the token; ticks since it was looked at
  atStart, touched, shrunk,   \* history: matching at the first request; changed
                              \* after it; whether any document left after it
  denied                      \* history: fetches answered 401

world == <<source, changed, now, touched, shrunk>>
token == <<life, waited>>
vars == <<kind, totals, world, pc, since, table, cursor, docs, fetched, token, atStart, denied>>

Kind == {"sharepoint", "confluence", "grc", "jira", "servicenow"}
LatestFirst == kind \in {"confluence", "jira"}
HasTables == kind \in {"grc", "servicenow"}
TableOf(i) == Table[(i % Len(Table)) + 1]
UsesToken == kind \in {"sharepoint", "grc", "servicenow"}

(* What the query text keeps of a time.                                    *)
Trunc(t) == (t \div Grain) * Grain

(* The part of the query that says since when.  SharePoint is not asked;   *)
(* its connector looks at the answers.                                     *)
Selects(i) ==
  \/ since = None \/ kind = "sharepoint"
  \/ kind = "confluence" /\ changed[i] > Trunc(since)
  \/ kind \in {"jira", "servicenow"} /\ changed[i] >= Trunc(since)
  \/ kind = "grc" /\ changed[i] > since

(* The order in which the source answers, and a set in that order.         *)
Before(i, j) ==
  IF LatestFirst /\ changed[i] # changed[j] THEN changed[i] > changed[j] ELSE i < j

Ahead(S, i) == {j \in S : Before(j, i)}

InOrder(S) ==
  [n \in 1..Cardinality(S) |-> CHOOSE i \in S : Cardinality(Ahead(S, i)) = n - 1]

Matches == {i \in source : Selects(i) /\ (HasTables => TableOf(i) = Table[table])}
Matching == InOrder(Matches)

Elements(s) == {s[k] : k \in DOMAIN s}
Page(s, from) == SubSeq(s, from + 1, IF from + Limit < Len(s) THEN from + Limit ELSE Len(s))

-----------------------------------------------------------------------------
Init ==
  /\ kind \in Kind
  /\ totals \in {"none", "exact", "more"}
  /\ totals = "exact" \/ kind \in {"jira", "grc"}
  /\ source \in Stock
  /\ changed \in [Item -> 1..2] /\ \A i \in Item \ source : changed[i] = 1
  /\ now = 2
  /\ since \in {None, 1}
  /\ pc = "idle" /\ table = 1 /\ cursor = 0 /\ docs = <<>> /\ fetched = 0
  /\ life = 0 /\ waited = 0
  /\ atStart = {} /\ touched = {} /\ shrunk = FALSE /\ denied = {}

(* The source changes.  Only changes during the listing matter here.       *)
Change(i, to) ==
  /\ pc = "page"
  /\ now < MaxTime
  /\ now' = now + 1
  /\ source' = to
  /\ changed' = [changed EXCEPT ![i] = now']
  /\ touched' = touched \cup {i}
  /\ UNCHANGED <<kind, totals, pc, since, table, cursor, docs, fetched, token, atStart, denied>>

Edit(i) == i \in source /\ Change(i, source) /\ UNCHANGED shrunk

(* A document is removed, or edited so that the filters leave it out.      *)
Leave(i) == i \in source /\ Change(i, source \ {i}) /\ shrunk' = TRUE

(* A new document, or one that the filters now take in.                    *)
Join(i) == i \notin source /\ Change(i, source \cup {i}) /\ UNCHANGED shrunk

(* The token ages, within one fetch by less than the margin: its requests  *)
(* time out after 30 seconds each, the margin is five minutes.             *)
Age ==
  /\ UsesToken /\ life > 0
  /\ pc = "sending" => waited < Margin
  /\ life' = life - 1
  /\ waited' = IF pc = "sending" THEN waited + 1 ELSE waited
  /\ UNCHANGED <<kind, totals, world, pc, since, table, cursor, docs, fetched, atStart, denied>>

-----------------------------------------------------------------------------
(* connect(), with a token for those that use one: GRC and ServiceNow are  *)
(* taken to be configured for oauth2.                                      *)
Connected(tokenLife) ==
  /\ pc = "idle"
  /\ pc' = "list"
  /\ life' = tokenLife
  /\ UNCHANGED <<kind, totals, world, since, table, cursor, docs, fetched, waited, atStart, denied>>

ConnectSharePoint == kind = "sharepoint" /\ Connected(TokenLife)
ConnectConfluence == kind = "confluence" /\ Connected(0)
ConnectGrc == kind = "grc" /\ Connected(TokenLife)
ConnectJira == kind = "jira" /\ Connected(0)
ConnectServiceNow == kind = "servicenow" /\ Connected(TokenLife)

Connect ==
  \/ ConnectSharePoint \/ ConnectConfluence \/ ConnectGrc
  \/ ConnectJira \/ ConnectServiceNow

(* _ensure_token()                                                         *)
(* Mutant: what was left of the old token is added.                        *)
RenewedLifeAdded == IF life <= Margin THEN TokenLife + life ELSE life

RenewedLife == IF life <= Margin THEN TokenLife ELSE life

(* list_documents() up to its first request; SharePoint renews its token.  *)
BeginList ==
  /\ pc = "list"
  /\ pc' = "page"
  /\ life' = IF kind = "sharepoint" THEN RenewedLife ELSE life
  /\ atStart' = source
  /\ touched' = {} /\ shrunk' = FALSE
  /\ UNCHANGED <<kind, totals, source, changed, now, since, table, cursor, docs, fetched, waited, denied>>

Authorized == UsesToken => life > 0

(* The loop is left, for the next table if there is one.                   *)
NextTable ==
  IF HasTables /\ table < Len(Table)
  THEN table' = table + 1 /\ cursor' = 0 /\ UNCHANGED pc
  ELSE pc' = "fetch" /\ UNCHANGED <<table, cursor>>

Receive(found) ==
  /\ docs' = docs \o found
  /\ UNCHANGED <<kind, totals, world, since, fetched, token, atStart, denied>>

(* Mutant: the page before the last one is taken for the last.             *)
UntilShortSoon(found) ==
  IF Len(found) <= Limit THEN NextTable
  ELSE cursor' = cursor + Len(found) /\ UNCHANGED <<table, pc>>

(* The loop over offsets goes on until a page is not full.                 *)
UntilShort(found) ==
  IF Len(found) < Limit THEN NextTable
  ELSE cursor' = cursor + Len(found) /\ UNCHANGED <<table, pc>>

(* Mutant: the next page begins with the last document of this one.        *)
UntilTotalOverlapping(found, total) ==
  IF cursor + Len(found) >= total \/ found = <<>> THEN NextTable
  ELSE cursor' = cursor + Len(found) - 1 /\ UNCHANGED <<table, pc>>

(* Mutant: an empty page does not end the loop.                            *)
UntilTotalReached(found, total) ==
  IF cursor + Len(found) >= total THEN NextTable
  ELSE cursor' = cursor + Len(found) /\ UNCHANGED <<table, pc>>

(* The loop goes on until the offset reaches the total.                    *)
UntilTotal(found, total) ==
  IF cursor + Len(found) >= total \/ found = <<>> THEN NextTable
  ELSE cursor' = cursor + Len(found) /\ UNCHANGED <<table, pc>>

ListConfluence ==
  /\ pc = "page" /\ kind = "confluence"
  /\ LET found == Page(Matching, cursor) IN Receive(found) /\ UntilShort(found)

ListServiceNow ==
  /\ pc = "page" /\ kind = "servicenow" /\ Authorized
  /\ LET found == Page(Matching, cursor) IN Receive(found) /\ UntilShort(found)

Total(otherwise) ==
  CASE totals = "none" -> otherwise
    [] totals = "exact" -> Len(Matching)
    [] totals = "more" -> Len(Matching) + 1

(* Without a total the loop ends after one page.                           *)
ListJira ==
  /\ pc = "page" /\ kind = "jira"
  /\ LET found == Page(Matching, cursor) IN
       Receive(found) /\ UntilTotal(found, Total(0))

ListGrc ==
  /\ pc = "page" /\ kind = "grc" /\ Authorized
  /\ LET found == Page(Matching, cursor) IN
       Receive(found) /\ UntilTotal(found, Total(Len(found)))

(* The link to the next page goes on after the last document of this one;  *)
(* what was not modified is left out here.                                 *)
ListSharePoint ==
  /\ pc = "page" /\ kind = "sharepoint" /\ Authorized
  /\ LET rest == InOrder({i \in source : i > cursor})
         found == Page(rest, 0)
     IN /\ Receive(InOrder({i \in Elements(found) : since = None \/ changed[i] > since}))
        /\ IF Len(rest) <= Limit THEN pc' = "fetch" /\ UNCHANGED cursor
           ELSE cursor' = found[Limit] /\ UNCHANGED pc
        /\ UNCHANGED table

(* The first refused or lost request ends the session.                     *)
ListEnds ==
  /\ pc' = "failed"
  /\ UNCHANGED <<kind, totals, world, since, table, cursor, docs, fetched, token, atStart, denied>>

ListDenied == pc = "page" /\ ~Authorized /\ ListEnds
ListRaises == pc \in {"list", "page"} /\ ListEnds

ListPage == ListConfluence \/ ListServiceNow \/ ListJira \/ ListGrc \/ ListSharePoint \/ ListDenied

-----------------------------------------------------------------------------
(* Mutant: a token is renewed only when it has expired.                    *)
BeginFetchLate ==
  /\ pc = "fetch" /\ fetched < Len(docs)
  /\ pc' = "sending"
  /\ life' = IF kind = "sharepoint" /\ life = 0 THEN TokenLife ELSE life
  /\ waited' = 0
  /\ UNCHANGED <<kind, totals, world, since, table, cursor, docs, fetched, atStart, denied>>

(* fetch_document() of the next listed document: SharePoint looks at its   *)
(* token, then the requests are sent.                                      *)
BeginFetch ==
  /\ pc = "fetch" /\ fetched < Len(docs)
  /\ pc' = "sending"
  /\ life' = IF kind = "sharepoint" THEN RenewedLife ELSE life
  /\ waited' = 0
  /\ UNCHANGED <<kind, totals, world, since, table, cursor, docs, fetched, atStart, denied>>

Fetched ==
  /\ pc = "sending"
  /\ pc' = "fetch"
  /\ fetched' = fetched + 1
  /\ denied' = IF Authorized THEN denied ELSE denied \cup {docs[fetched']}
  /\ UNCHANGED <<kind, totals, world, since, table, cursor, docs, token, atStart>>

FetchSharePoint == kind = "sharepoint" /\ Fetched
FetchConfluence == kind = "confluence" /\ Fetched
FetchGrc == kind = "grc" /\ Fetched
FetchJira == kind = "jira" /\ Fetched
FetchServiceNow == kind = "servicenow" /\ Fetched

Fetch ==
  \/ FetchSharePoint \/ FetchConfluence \/ FetchGrc
  \/ FetchJira \/ FetchServiceNow

Disconnect ==
  /\ pc = "fetch" /\ fetched = Len(docs)
  /\ pc' = "end"
  /\ UNCHANGED <<kind, totals, world, since, table, cursor, docs, fetched, token, atStart, denied>>

SessionStep ==
  Connect \/ BeginList \/ ListPage \/ BeginFetch \/ Fetch \/ Disconnect

Next == SessionStep \/ ListRaises \/ Age \/ \E i \in Item : Edit(i) \/ Leave(i) \/ Join(i)

Spec == Init /\ [][Next]_vars

(* Answers come.                                                           *)
FairSpec == Spec /\ WF_vars(SessionStep)

-----------------------------------------------------------------------------
TypeOK ==
  /\ kind \in Kind /\ totals \in {"none", "exact", "more"}
  /\ source \subseteq Item /\ changed \in [Item -> 1..MaxTime] /\ now \in 2..MaxTime
  /\ pc \in {"idle", "list", "page", "fetch", "sending", "end", "failed"}
  /\ since \in {None, 1} /\ table \in DOMAIN Table /\ cursor \in Nat
  /\ docs \in Seq(Item) /\ fetched \in 0..Len(docs)
  /\ life \in 0..TokenLife /\ waited \in 0..Margin
  /\ atStart \subseteq Item /\ touched \subseteq Item /\ shrunk \in BOOLEAN
  /\ denied \subseteq Item

HasListed == pc \in {"fetch", "sending", "end"}
Listed == Elements(docs)

(* base.py, line 100, asks for the documents modified after since.  A       *)
(* listing that ends without a raise has every one of them that was left   *)
(* alone while it ran, although others were edited and so moved between    *)
(* pages, or came; but a document that leaves shifts the others over a     *)
(* page boundary, unless pages are linked, and without totals Jira and GRC *)
(* listings end early.                                                     *)
UntouchedIsListed ==
  HasListed =>
    \A i \in atStart \ touched :
      (since = None \/ changed[i] > since) =>
        \/ i \in Listed
        \/ shrunk /\ kind # "sharepoint"
        \/ totals = "none" /\ kind \in {"jira", "grc"}

(* While nothing changes at the source nothing is listed twice, wherever   *)
(* the page boundaries and the boundaries between tables lie.              *)
QuietListingIsExact ==
  HasListed /\ touched = {} =>
    \A k, l \in DOMAIN docs : docs[k] = docs[l] => k = l

(* However long a sync takes, SharePoint never refuses to hand out a       *)
(* document for the age of the token.                                      *)
FetchIsAuthorized == kind = "sharepoint" => denied = {}

(* No listing goes on for ever: every offset is reached once.              *)
ListingEnds == pc = "page" ~> pc # "page"
=============================================================================
