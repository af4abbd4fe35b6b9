------------------------------ MODULE Gateway ------------------------------
(***************************************************************************)
(* The generation gateway: POST /generate (api/routes/generate.py), the    *)
(* kill switch it consults first (security/kill_switch.py), the orders an  *)
(* operator gives through /health/kill-switch, and the usage it records    *)
(* against the daily token budget (security/token_budget.py).              *)
(*                                                                         *)
(* Several API processes share one Redis, which comes and goes, and loses  *)
(* any number of answers when it goes.  Every process keeps a level and a  *)
(* usage of its own for the time it is away.                               *)
(* What the LLM, the retrieval, the query scan, the output guard and the   *)
(* circuit breaker (CircuitBreaker.tla) answer is left open.               *)
(***************************************************************************)
EXTENDS Integers, FiniteSets

CONSTANTS
  Process,      \* API processes, each with its own singletons
  Request,      \* requests of one engagement, to /generate or for a draft
  Order,        \* POST /health/kill-switch requests
  Budget,       \* settings.llm_daily_token_budget, 0 for unlimited
  MaxOutages    \* times Redis goes away (bounds the exploration)

ASSUME GatewayAssumption == Budget \in Nat /\ MaxOutages \in Nat

Level == {"active", "soft_stop", "hard_stop"}

VARIABLES
  up,        \* Redis answers
  stored,    \* the level under KILL_SWITCH_KEY, "none" if never set
  fallback,  \* process -> KillSwitch._fallback_level
  order,     \* order -> where set_level is, in which process, for which level
  request,   \* request -> where generate_answer is, in which process
  shared,    \* the usage hash of the engagement in Redis
  usage,     \* process -> TokenBudget._usage of the engagement
  outages,   \* outages so far
  standing,  \* history: the last order and who can know of it
  bound,     \* history: request -> the level it had to find
  spent,     \* history: tokens the answered requests took
  counted,   \* history: request -> the places where its usage was added
  unanswered \* history: requests whose usage Redis added without answering

switch == <<stored, fallback, order, standing>>
budget == <<shared, usage, spent, counted, unanswered>>
vars == <<up, stored, fallback, order, request, shared, usage, outages,
          standing, bound, spent, counted, unanswered>>

NoUsage == [tokens |-> 0, requests |-> 0]

\* generate_answer has ended once it has one of these outcomes.
Outcome == {"stopped", "no_draft", "refused", "abstained", "failed", "answered"}

TypeOK ==
  /\ up \in BOOLEAN
  /\ stored \in Level \cup {"none"}
  /\ fallback \in [Process -> Level]
  /\ order \in [Order -> [at : {"new", "level", "written", "reason", "lost", "done"},
                          in : Process \cup {"none"}, level : Level]]
  /\ request \in [Request -> [at : {"new", "level", "budget", "retrieve",
                                    "llm", "usage", "taken", "lost"} \cup Outcome,
                              in : Process \cup {"none"}]]
  /\ shared \in [tokens : Nat, requests : Nat]
  /\ usage \in [Process -> [tokens : Nat, requests : Nat]]
  /\ outages \in 0..MaxOutages
  /\ standing \in [by : Order \cup {"none"}, alone : BOOLEAN,
                   redis : BOOLEAN, process : SUBSET Process]
  /\ bound \in [Request -> Level \cup {"none"}]
  /\ spent \in Nat
  /\ counted \in [Request -> SUBSET {"redis", "memory"}]
  /\ unanswered \subseteq Request

Init ==
  /\ up = TRUE /\ stored = "none"
  /\ fallback = [p \in Process |-> "active"]
  /\ order = [o \in Order |-> [at |-> "new", in |-> "none", level |-> "active"]]
  /\ request = [r \in Request |-> [at |-> "new", in |-> "none"]]
  /\ shared = NoUsage /\ usage = [p \in Process |-> NoUsage]
  /\ outages = 0
  /\ standing = [by |-> "none", alone |-> TRUE, redis |-> FALSE, process |-> {}]
  /\ bound = [r \in Request |-> "none"]
  /\ spent = 0 /\ counted = [r \in Request |-> {}] /\ unanswered = {}

-----------------------------------------------------------------------------
\* An order is settled once set_level has returned.
Unsettled == {o \in Order : order[o].at \in {"level", "written", "reason", "lost"}}

\* Redis goes, and with it the connections: whichever of the calls under way
\* have had no answer raise, sooner or later, whether Redis has carried out
\* their command or not.  (Usage it has not carried out raises before it returns:
\* see KeepUsage, which only its own process can notice.)
RedisLeaves ==
  /\ up /\ outages < MaxOutages
  /\ up' = FALSE /\ outages' = outages + 1
  /\ \E O \in SUBSET Unsettled :
       order' = [o \in Order |-> IF o \in O THEN [order[o] EXCEPT !.at = "lost"]
                                            ELSE order[o]]
  /\ \E R \in SUBSET {r \in Request : request[r].at = "taken"} :
       /\ request' = [r \in Request |-> IF r \in R THEN [request[r] EXCEPT !.at = "lost"]
                                                  ELSE request[r]]
       /\ unanswered' = unanswered \cup R
  /\ UNCHANGED <<stored, fallback, standing, shared, usage, spent, counted>>

RedisReturns ==
  /\ ~up /\ up' = TRUE
  /\ UNCHANGED <<switch, request, budget, outages>>

-----------------------------------------------------------------------------
(* The kill switch. *)

Begin(o, p, l) ==
  /\ order[o].at = "new"
  /\ order' = [order EXCEPT ![o] = [at |-> "level", in |-> p, level |-> l]]
  /\ standing' = [by |-> o, alone |-> Unsettled = {}, redis |-> FALSE,
                  process |-> {}]
  /\ UNCHANGED <<up, stored, fallback, request, budget, outages>>

\* What is known of order o once it has reached Redis, or the level that the
\* process keeps for itself.  An order that overlaps another one binds nobody.
Reaches(o, inRedis, inProcess) ==
  standing' = IF standing.by = o
              THEN [standing EXCEPT !.redis = @ \/ inRedis,
                                    !.process = @ \cup inProcess]
              ELSE standing

\* await self._redis.set(KILL_SWITCH_KEY, level): Redis carries it out ...
WriteLevel(o) ==
  /\ order[o].at = "level" /\ up
  /\ stored' = order[o].level
  /\ order' = [order EXCEPT ![o].at = "written"]
  /\ Reaches(o, TRUE, {})
  /\ UNCHANGED <<up, fallback, request, budget, outages>>

\* ... and its answer arrives; a reason, if there is one, is a second command.
LevelWritten(o) ==
  /\ order[o].at = "written"
  /\ \E next \in {"reason", "done"} : order' = [order EXCEPT ![o].at = next]
  /\ UNCHANGED <<up, stored, fallback, standing, request, budget, outages>>

WriteReason(o) ==
  /\ order[o].at = "reason" /\ up
  /\ order' = [order EXCEPT ![o].at = "done"]
  /\ UNCHANGED <<up, stored, fallback, standing, request, budget, outages>>

\* Either command raises: the process keeps the level for itself.
KeepLevel(o) ==
  /\ \/ order[o].at \in {"level", "reason"} /\ ~up
     \/ order[o].at = "lost"
  /\ fallback' = [fallback EXCEPT ![order[o].in] = order[o].level]
  /\ order' = [order EXCEPT ![o].at = "done"]
  /\ Reaches(o, FALSE, {order[o].in})
  /\ UNCHANGED <<up, stored, request, budget, outages>>

\* Mutant: the level kept in an outage is asked before Redis is.
LevelInFallbackFirst(p) ==
  IF fallback[p] # "active" THEN fallback[p]
  ELSE IF ~up \/ stored = "none" THEN "active" ELSE stored

\* KillSwitch.get_level in process p.
LevelIn(p) ==
  IF ~up THEN fallback[p] ELSE IF stored = "none" THEN "active" ELSE stored

IsGenerationAllowed(l) == l = "active"

-----------------------------------------------------------------------------
(* The token budget. *)

\* TokenBudget.get_usage in process p: an empty hash counts as no answer.
UsageIn(p) == IF up /\ shared # NoUsage THEN shared ELSE usage[p]

WithinBudget(p) == Budget = 0 \/ UsageIn(p).tokens < Budget

\* Mutant: usage is given back, not charged.
ChargeBack(u, tokens) == [tokens |-> u.tokens - tokens, requests |-> u.requests - 1]

Charge(u, tokens) == [tokens |-> u.tokens + tokens, requests |-> u.requests + 1]

AddTo(r, place) == counted' = [counted EXCEPT ![r] = @ \cup {place}]

-----------------------------------------------------------------------------
(* generate_answer, from await to await. *)

Goto(r, from, to) ==
  /\ request[r].at = from
  /\ request' = [request EXCEPT ![r].at = to]

Arrive(r, p) ==
  /\ request[r].at = "new"
  /\ request' = [request EXCEPT ![r] = [at |-> "level", in |-> p]]
  /\ UNCHANGED <<up, switch, budget, outages>>

\* draft_workpaper and draft_finding compare the coroutine get_level() itself,
\* which they do not await, with "active": every draft ends here.
RefuseDraft(r, p) ==
  /\ request[r].at = "new"
  /\ request' = [request EXCEPT ![r] = [at |-> "no_draft", in |-> p]]
  /\ UNCHANGED <<up, switch, budget, outages>>

\* The level is read, then the query is scanned.
PassSwitch(r) ==
  /\ \E next \in {"budget", "refused"} : Goto(r, "level", next)
  /\ IsGenerationAllowed(LevelIn(request[r].in))
  /\ UNCHANGED <<up, switch, budget, outages>>

RefuseStopped(r) ==
  /\ Goto(r, "level", "stopped")
  /\ ~IsGenerationAllowed(LevelIn(request[r].in))
  /\ UNCHANGED <<up, switch, budget, outages>>

\* The budget is asked, then the circuit breaker, which refuses or not.
CheckBudget(r) ==
  /\ request[r].at = "budget"
  /\ \E next \in IF WithinBudget(request[r].in) THEN {"retrieve", "refused"}
                                               ELSE {"refused"} :
       Goto(r, "budget", next)
  /\ UNCHANGED <<up, switch, budget, outages>>

\* Chunks are found and the LLM is called; or there are none; or it raises.
Retrieve(r) ==
  /\ \E next \in {"llm", "abstained", "failed"} : Goto(r, "retrieve", next)
  /\ UNCHANGED <<up, switch, budget, outages>>

LlmFails(r) ==
  /\ Goto(r, "llm", "failed")
  /\ UNCHANGED <<up, switch, budget, outages>>

\* The answer passes the output guard or is replaced; its usage is due.
LlmAnswers(r) ==
  /\ Goto(r, "llm", "usage")
  /\ UNCHANGED <<up, switch, budget, outages>>

\* token_budget.record_usage(engagement_id): no token counts are given, the
\* parameters' default is 0.  Redis carries the pipeline out ...
TakeUsage(r) ==
  /\ Goto(r, "usage", "taken")
  /\ up
  /\ shared' = Charge(shared, 0)
  /\ AddTo(r, "redis")
  /\ UNCHANGED <<up, switch, usage, spent, unanswered, outages>>

\* ... and its answer arrives.  The LLM took one token at least.
UsageTaken(r) ==
  /\ Goto(r, "taken", "answered")
  /\ spent' = spent + 1
  /\ UNCHANGED <<up, switch, shared, usage, counted, unanswered, outages>>

\* Mutant: what Redis does not answer for is not kept in memory.
KeepUsageNowhere(r) ==
  /\ Goto(r, "lost", "answered") \/ (~up /\ Goto(r, "usage", "answered"))
  /\ spent' = spent + 1
  /\ UNCHANGED <<up, switch, shared, usage, counted, unanswered, outages>>

\* Or it raises, and the process counts the request in its own memory.
KeepUsage(r) ==
  /\ Goto(r, "lost", "answered") \/ (~up /\ Goto(r, "usage", "answered"))
  /\ usage' = [usage EXCEPT ![request[r].in] = Charge(@, 0)]
  /\ AddTo(r, "memory")
  /\ spent' = spent + 1
  /\ UNCHANGED <<up, switch, shared, unanswered, outages>>

-----------------------------------------------------------------------------
\* The level that a request arriving in process p now has to find: that of the
\* last order, if it began when no other was under way and has reached where p
\* looks; "none" if nothing is certain.
Binding == [p \in Process |->
  IF /\ standing.by # "none" /\ standing.alone
     /\ IF up THEN standing.redis ELSE p \in standing.process
  THEN order[standing.by].level ELSE "none"]

\* A request is bound if it was at every moment before it read the level.
Observe ==
  bound' = [r \in Request |->
    IF request'[r].at # "level" THEN bound[r]
    ELSE LET now == Binding'[request'[r].in]
         IN  IF request[r].at = "new" \/ now = bound[r] THEN now ELSE "none"]

Step ==
  \/ RedisLeaves \/ RedisReturns
  \/ \E o \in Order : \/ \E p \in Process, l \in Level : Begin(o, p, l)
                      \/ WriteLevel(o) \/ LevelWritten(o)
                      \/ WriteReason(o) \/ KeepLevel(o)
  \/ \E r \in Request : \/ \E p \in Process : Arrive(r, p) \/ RefuseDraft(r, p)
                        \/ PassSwitch(r) \/ RefuseStopped(r)
                        \/ CheckBudget(r) \/ Retrieve(r)
                        \/ LlmFails(r) \/ LlmAnswers(r)
                        \/ TakeUsage(r) \/ UsageTaken(r) \/ KeepUsage(r)

Next == Step /\ Observe

Spec == Init /\ [][Next]_vars

-----------------------------------------------------------------------------
\* An order of the kill switch is heeded wherever it can be known: a request
\* that arrives in process p after a stop has reached Redis never calls the LLM
\* while Redis answers, and one that arrives after a release is never refused
\* for a stop, however many outages lie between and whatever level p kept for
\* itself in them; without Redis the same holds of an order that p itself took.
OrdersAreHeeded ==
  \A r \in Request :
    /\ bound[r] \in {"soft_stop", "hard_stop"} =>
         request[r].at \in {"level", "stopped"}
    /\ bound[r] = "active" => request[r].at # "stopped"

CountedBy(place, P) ==
  {r \in Request : place \in counted[r] /\ request[r].in \in P}

\* Every answered request is counted against the engagement, and nothing else
\* but a request whose answer waits for Redis: what Redis and the memories hold
\* are the requests counted there, each memory those of its own process.  A
\* request counts in both just when Redis carried its pipeline out and went
\* before it answered; one outage may do that to any number of requests.
UsageIsCounted ==
  /\ \A r \in Request :
       /\ request[r].at = "answered" => counted[r] # {}
       /\ counted[r] # {} => request[r].at \in {"taken", "lost", "answered"}
       /\ counted[r] = {"redis", "memory"}
            <=> request[r].at = "answered" /\ r \in unanswered
  /\ shared.requests = Cardinality(CountedBy("redis", Process))
  /\ \A p \in Process :
       usage[p].requests = Cardinality(CountedBy("memory", {p}))

\* "Tracks per-engagement daily token usage and enforces budgets"
\* (token_budget.py:3): no request passes the budget check once the answers
\* recorded before have taken the budget.
BudgetIsEnforced ==
  [][\A r \in Request :
       request[r].at = "budget" /\ request'[r].at = "retrieve" =>
         Budget = 0 \/ spent < Budget]_vars

\* The level decides whether a draft is written (workflow.py:137 "kill switch
\* (ASI09)"): one is refused for it only while the level is not active.
DraftsFollowTheSwitch ==
  [][\A r \in Request : \A p \in Process :
       RefuseDraft(r, p) => ~IsGenerationAllowed(LevelIn(p))]_vars
=============================================================================
