--------------------------- MODULE Gateway_proofs ---------------------------
(***************************************************************************)
(* Proofs about the guards of LLM calls: about Gateway, for any number of  *)
(* processes, requests and orders and any outages, and, at the end, about  *)
(* CircuitBreaker, the guard that api/routes/generate.py asks last.  The   *)
(* two share no variable.                                                  *)
(*                                                                         *)
(* OrdersAreHeeded speaks of history only, so its induction goes through   *)
(* what the history stands for: Known ties the last order to the levels in *)
(* Redis and in the processes, and Found ties the level a request is bound *)
(* to find to that order for as long as the request has not looked.        *)
(***************************************************************************)
EXTENDS Gateway, CircuitBreaker, FiniteSetTheorems, TLAPS

(* A request or an order that has begun is in a process.                   *)
Placed ==
  /\ \A r \in Request : request[r].at # "new" => request[r].in \in Process
  /\ \A o \in Order : order[o].at # "new" => order[o].in \in Process

(* While the last order is known to stand alone no other is under way, and *)
(* the places it has reached hold its level.                               *)
Known ==
  standing.by # "none" /\ standing.alone =>
    /\ \A o \in Order : o # standing.by => o \notin Unsettled
    /\ standing.redis => stored = order[standing.by].level
    /\ \A p \in standing.process : fallback[p] = order[standing.by].level

(* A request that has not read the level yet is bound by what is known of  *)
(* the last order now, if it is bound at all; one that has read it, by     *)
(* what it has found.                                                      *)
Found ==
  \A r \in Request :
    /\ request[r].at = "new" => bound[r] = "none"
    /\ request[r].at = "level" => bound[r] \in {"none", Binding[request[r].in]}
    /\ request[r].at = "stopped" => bound[r] # "active"
    /\ request[r].at \notin {"new", "level", "stopped"} =>
         bound[r] \in {"none", "active"}

-----------------------------------------------------------------------------
(* Types.  The steps of orders and of requests are typed apart: an order   *)
(* leaves the requests and the budget alone, a request the kill switch.    *)

SwitchTypes ==
  /\ up \in BOOLEAN
  /\ stored \in Level \cup {"none"}
  /\ fallback \in [Process -> Level]
  /\ order \in [Order -> [at : {"new", "level", "written", "reason", "lost", "done"},
                          in : Process \cup {"none"}, level : Level]]
  /\ standing \in [by : Order \cup {"none"}, alone : BOOLEAN,
                   redis : BOOLEAN, process : SUBSET Process]
  /\ outages \in 0..MaxOutages
  /\ \A o \in Order : order[o].at # "new" => order[o].in \in Process

RequestTypes ==
  /\ request \in [Request -> [at : {"new", "level", "budget", "retrieve",
                                    "llm", "usage", "taken", "lost"} \cup Outcome,
                              in : Process \cup {"none"}]]
  /\ shared \in [tokens : Nat, requests : Nat]
  /\ usage \in [Process -> [tokens : Nat, requests : Nat]]
  /\ spent \in Nat
  /\ counted \in [Request -> SUBSET {"redis", "memory"}]
  /\ unanswered \subseteq Request
  /\ \A r \in Request : request[r].at # "new" => request[r].in \in Process

LEMMA TypesSplit ==
  TypeOK /\ Placed <=> /\ SwitchTypes /\ RequestTypes
                       /\ bound \in [Request -> Level \cup {"none"}]
BY DEF TypeOK, Placed, SwitchTypes, RequestTypes

(* Redis comes and goes.                                                   *)
LEMMA RedisKeepsTypes ==
  ASSUME SwitchTypes, RequestTypes, RedisLeaves \/ RedisReturns
  PROVE  SwitchTypes' /\ RequestTypes'
<1>1. outages' \in 0..MaxOutages
  BY GatewayAssumption DEF RedisLeaves, RedisReturns, SwitchTypes
<1>2. CASE RedisLeaves
  <2>1. PICK O \in SUBSET Unsettled :
          order' = [o \in Order |-> IF o \in O THEN [order[o] EXCEPT !.at = "lost"]
                                               ELSE order[o]]
    BY <1>2 DEF RedisLeaves
  <2>2. PICK R \in SUBSET {r \in Request : request[r].at = "taken"} :
          /\ request' = [r \in Request |->
                IF r \in R THEN [request[r] EXCEPT !.at = "lost"] ELSE request[r]]
          /\ unanswered' = unanswered \cup R
    BY <1>2 DEF RedisLeaves
  <2>3. SwitchTypes'
    <3>1. ASSUME NEW o \in Order
          PROVE  /\ order'[o] \in [at : {"new", "level", "written", "reason", "lost", "done"},
                                   in : Process \cup {"none"}, level : Level]
                 /\ order'[o].at # "new" => order'[o].in \in Process
      <4>1. CASE o \in O
        <5>1. order[o].at # "new"
          BY <4>1 DEF Unsettled
        <5> QED BY <2>1, <4>1, <5>1 DEF SwitchTypes
      <4>2. CASE o \notin O
        BY <2>1, <4>2 DEF SwitchTypes
      <4> QED BY <4>1, <4>2
    <3>2. order' = [o \in Order |-> order'[o]]
      BY <2>1
    <3> QED
      BY <1>1, <1>2, <3>1, <3>2 DEF RedisLeaves, SwitchTypes
  <2>4. RequestTypes'
    BY <1>2, <2>2 DEF RedisLeaves, RequestTypes
  <2> QED BY <2>3, <2>4
<1>3. CASE RedisReturns
  BY <1>1, <1>3 DEF RedisReturns, SwitchTypes, RequestTypes, switch, budget
<1> QED
  BY <1>2, <1>3

Standing == [by : Order \cup {"none"}, alone : BOOLEAN,
             redis : BOOLEAN, process : SUBSET Process]

LEMMA ReachesKeepsType ==
  ASSUME standing \in Standing, NEW o, NEW inRedis \in BOOLEAN,
         NEW inProcess \in SUBSET Process, Reaches(o, inRedis, inProcess)
  PROVE  standing' \in Standing
BY DEF Reaches, Standing

LEMMA OrderKeepsTypes ==
  ASSUME SwitchTypes, RequestTypes, NEW o \in Order,
         \/ \E p \in Process, l \in Level : Begin(o, p, l)
         \/ WriteLevel(o) \/ LevelWritten(o) \/ WriteReason(o) \/ KeepLevel(o)
  PROVE  SwitchTypes' /\ RequestTypes'
<1>1. RequestTypes'
  BY DEF Begin, WriteLevel, LevelWritten, WriteReason, KeepLevel,
         RequestTypes, budget
<1> SUFFICES SwitchTypes'
  BY <1>1
<1>2. ASSUME NEW p \in Process, NEW l \in Level, Begin(o, p, l)
      PROVE  SwitchTypes'
  BY <1>2 DEF Begin, SwitchTypes
<1>3. CASE WriteLevel(o)
  <2>1. stored' \in Level
    BY <1>3 DEF WriteLevel, SwitchTypes
  <2>2. standing' \in Standing
    BY <1>3, ReachesKeepsType DEF WriteLevel, SwitchTypes, Standing
  <2> QED BY <1>3, <2>1, <2>2 DEF WriteLevel, SwitchTypes, Standing
<1>4. CASE LevelWritten(o) \/ WriteReason(o)
  BY <1>4 DEF LevelWritten, WriteReason, SwitchTypes
<1>5. CASE KeepLevel(o)
  <2>1. order[o].in \in Process /\ order[o].level \in Level
    BY <1>5 DEF KeepLevel, SwitchTypes
  <2>2. standing' \in Standing
    BY <1>5, <2>1, ReachesKeepsType DEF KeepLevel, SwitchTypes, Standing
  <2> QED BY <1>5, <2>1, <2>2 DEF KeepLevel, SwitchTypes, Standing
<1> QED
  BY <1>2, <1>3, <1>4, <1>5

(* A request in the middle of generate_answer moves on in its process.     *)
LEMMA GotoKeepsTypes ==
  ASSUME RequestTypes, NEW r \in Request, NEW from, from # "new",
         NEW to \in {"budget", "retrieve", "llm", "usage"} \cup Outcome,
         Goto(r, from, to), UNCHANGED budget
  PROVE  RequestTypes'
BY DEF Goto, RequestTypes, budget, Outcome

LEMMA UsageKeepsTypes ==
  ASSUME SwitchTypes, RequestTypes, NEW r \in Request,
         TakeUsage(r) \/ UsageTaken(r) \/ KeepUsage(r)
  PROVE  SwitchTypes' /\ RequestTypes'
<1>1. SwitchTypes'
  BY DEF TakeUsage, UsageTaken, KeepUsage, SwitchTypes, switch
<1>2. /\ request[r].in \in Process
      /\ \E at \in {"taken", "answered"} : request' = [request EXCEPT ![r].at = at]
      /\ spent' \in Nat /\ unanswered' = unanswered
  BY DEF TakeUsage, UsageTaken, KeepUsage, Goto, RequestTypes
<1>3. /\ Charge(shared, 0) \in [tokens : Nat, requests : Nat]
      /\ Charge(usage[request[r].in], 0) \in [tokens : Nat, requests : Nat]
  BY <1>2 DEF Charge, RequestTypes
<1>4. shared' \in [tokens : Nat, requests : Nat]
  BY <1>3 DEF TakeUsage, UsageTaken, KeepUsage, RequestTypes
<1>5. usage' \in [Process -> [tokens : Nat, requests : Nat]]
  BY <1>2, <1>3 DEF TakeUsage, UsageTaken, KeepUsage, RequestTypes
<1>6. counted' \in [Request -> SUBSET {"redis", "memory"}]
  BY DEF TakeUsage, UsageTaken, KeepUsage, AddTo, RequestTypes
<1>7. /\ request' \in [Request -> [at : {"new", "level", "budget", "retrieve",
                                        "llm", "usage", "taken", "lost"} \cup Outcome,
                                  in : Process \cup {"none"}]]
      /\ \A q \in Request : request'[q].at # "new" => request'[q].in \in Process
  <2>1. ASSUME NEW q \in Request, request'[q].at # "new"
        PROVE  request'[q].in \in Process
    <3>1. CASE q = r
      BY <1>2, <3>1 DEF RequestTypes
    <3>2. CASE q # r
      <4>1. request'[q] = request[q]
        BY <1>2, <3>2 DEF RequestTypes
      <4> QED BY <2>1, <4>1 DEF RequestTypes
    <3> QED BY <3>1, <3>2
  <2> QED BY <1>2, <2>1 DEF RequestTypes, Outcome
<1>8. RequestTypes'
  <2>1. spent' \in Nat /\ unanswered' \subseteq Request
    BY <1>2 DEF RequestTypes
  <2> QED
    BY ONLY <1>4, <1>5, <1>6, <1>7, <2>1 DEF RequestTypes
<1> QED
  BY <1>1, <1>8

LEMMA RequestKeepsTypes ==
  ASSUME SwitchTypes, RequestTypes, NEW r \in Request,
         \/ \E p \in Process : Arrive(r, p) \/ RefuseDraft(r, p)
         \/ PassSwitch(r) \/ RefuseStopped(r) \/ CheckBudget(r) \/ Retrieve(r)
         \/ LlmFails(r) \/ LlmAnswers(r)
         \/ TakeUsage(r) \/ UsageTaken(r) \/ KeepUsage(r)
  PROVE  SwitchTypes' /\ RequestTypes'
<1>1. ASSUME NEW p \in Process, Arrive(r, p) \/ RefuseDraft(r, p)
      PROVE  SwitchTypes' /\ RequestTypes'
  <2>1. SwitchTypes'
    BY <1>1 DEF Arrive, RefuseDraft, SwitchTypes, switch
  <2>2. \E at \in {"level", "no_draft"} :
          request' = [request EXCEPT ![r] = [at |-> at, in |-> p]]
    BY <1>1 DEF Arrive, RefuseDraft
  <2>3. UNCHANGED budget
    BY <1>1 DEF Arrive, RefuseDraft
  <2>4. RequestTypes'
    BY <2>2, <2>3 DEF RequestTypes, budget, Outcome
  <2> QED BY <2>1, <2>4
<1>2. CASE \/ PassSwitch(r) \/ RefuseStopped(r) \/ CheckBudget(r) \/ Retrieve(r)
           \/ LlmFails(r) \/ LlmAnswers(r)
  <2>1. UNCHANGED <<up, switch, budget, outages>>
    BY <1>2 DEF PassSwitch, RefuseStopped, CheckBudget, Retrieve, LlmFails, LlmAnswers
  <2>2. \E from \in {"level", "budget", "retrieve", "llm"},
           to \in {"budget", "retrieve", "llm", "usage"} \cup Outcome : Goto(r, from, to)
    BY <1>2 DEF PassSwitch, RefuseStopped, CheckBudget, Retrieve, LlmFails,
                LlmAnswers, Outcome
  <2>3. RequestTypes'
    BY <2>1, <2>2, GotoKeepsTypes
  <2> QED
    BY <2>1, <2>3 DEF SwitchTypes, switch
<1>3. CASE TakeUsage(r) \/ UsageTaken(r) \/ KeepUsage(r)
  BY <1>3, UsageKeepsTypes
<1> QED
  BY <1>1, <1>2, <1>3

LEMMA StepKeepsTypes ==
  ASSUME SwitchTypes, RequestTypes, Step
  PROVE  SwitchTypes' /\ RequestTypes'
BY RedisKeepsTypes, OrderKeepsTypes, RequestKeepsTypes DEF Step

(* What binds a request is a level.                                        *)
LEMMA BindingType ==
  /\ SwitchTypes => Binding \in [Process -> Level \cup {"none"}]
  /\ SwitchTypes' => Binding' \in [Process -> Level \cup {"none"}]
BY DEF Binding, SwitchTypes

LEMMA ObserveKeepsTypes ==
  ASSUME bound \in [Request -> Level \cup {"none"}], SwitchTypes', RequestTypes', Observe
  PROVE  bound' \in [Request -> Level \cup {"none"}]
<1>1. \A r \in Request : request'[r].at = "level" =>
        Binding'[request'[r].in] \in Level \cup {"none"}
  BY BindingType DEF RequestTypes
<1> QED
  BY <1>1 DEF Observe

LEMMA NextKeepsTypes ==
  TypeOK /\ Placed /\ [Next]_vars => (TypeOK /\ Placed)'
<1>1. CASE TypeOK /\ Placed /\ Next
  BY <1>1, TypesSplit, StepKeepsTypes, ObserveKeepsTypes DEF Next, TypeOK, Placed, SwitchTypes, RequestTypes
<1>2. CASE TypeOK /\ Placed /\ UNCHANGED vars
  BY <1>2 DEF vars, TypeOK, Placed
<1> QED
  BY <1>1, <1>2

(* Whatever Redis does and whoever gives orders, levels, usage, orders and *)
(* requests keep their types.                                              *)
THEOREM GatewayTyped == Spec => []TypeOK
<1>1. Init => TypeOK /\ Placed
  BY GatewayAssumption DEF Init, TypeOK, Placed, Level, NoUsage
<1>2. TypeOK /\ Placed => TypeOK
  OBVIOUS
<1> QED
  BY <1>1, <1>2, NextKeepsTypes, PTL DEF Spec

-----------------------------------------------------------------------------
(* The kill switch.                                                        *)

(* Wherever the last order is known it is what the switch reads there.     *)
LEMMA KnownIsRead ==
  ASSUME TypeOK, Known, NEW p \in Process, Binding[p] # "none"
  PROVE  LevelIn(p) = Binding[p]
<1>1. /\ standing.by # "none" /\ standing.alone
      /\ IF up THEN standing.redis ELSE p \in standing.process
      /\ Binding[p] = order[standing.by].level
  BY DEF Binding
<1>2. IF up THEN stored = Binding[p] ELSE fallback[p] = Binding[p]
  BY <1>1 DEF Known
<1> QED
  BY <1>2 DEF LevelIn

(* An order that is under way and is not the last one is not alone.        *)
LEMMA OrderKeepsKnown ==
  ASSUME TypeOK, Placed, Known, NEW o \in Order,
         \/ \E p \in Process, l \in Level : Begin(o, p, l)
         \/ WriteLevel(o) \/ LevelWritten(o) \/ WriteReason(o) \/ KeepLevel(o)
  PROVE  Known'
<1>1. ASSUME NEW p \in Process, NEW l \in Level, Begin(o, p, l)
      PROVE  Known'
  <2>1. /\ standing'.by = o /\ ~standing'.redis /\ standing'.process = {}
        /\ standing'.alone => Unsettled = {}
        /\ \A x \in Order : x # o => order'[x] = order[x]
    BY <1>1 DEF Begin, TypeOK
  <2> QED
    BY <2>1 DEF Known, Unsettled
<1>2. CASE \/ WriteLevel(o) \/ LevelWritten(o) \/ WriteReason(o) \/ KeepLevel(o)
  <2>1. /\ order[o].at \in {"level", "written", "reason", "lost"}
        /\ \E next \in {"written", "reason", "done"} : order' = [order EXCEPT ![o].at = next]
    BY <1>2 DEF WriteLevel, LevelWritten, WriteReason, KeepLevel
  <2>2. /\ o \in Unsettled
        /\ \A x \in Order : order'[x].level = order[x].level
        /\ \A x \in Order : x # o => order'[x] = order[x]
    BY <2>1 DEF TypeOK, Unsettled
  <2>3. CASE standing.by # o
    <3>1. standing' = standing
      BY <1>2, <2>3 DEF WriteLevel, LevelWritten, WriteReason, KeepLevel, Reaches
    <3>2. ~(standing.by # "none" /\ standing.alone)
      BY <2>2, <2>3 DEF Known
    <3> QED
      BY <3>1, <3>2 DEF Known
  <2>4. CASE standing.by = o
    <3>1. /\ standing'.by = o /\ standing'.alone = standing.alone
          /\ standing'.redis => standing.redis \/ stored' = order[o].level
          /\ \A p \in standing'.process :
               p \in standing.process \/ (p \in Process /\ fallback'[p] = order[o].level)
          /\ stored' \in {stored, order[o].level}
          /\ \A p \in Process : fallback'[p] \in {fallback[p], order[o].level}
      <4>1. order[o].in \in Process
        BY <2>1 DEF Placed
      <4>2. CASE WriteLevel(o)
        BY <2>4, <4>2 DEF WriteLevel, Reaches, TypeOK
      <4>3. CASE LevelWritten(o) \/ WriteReason(o)
        BY <2>4, <4>3 DEF LevelWritten, WriteReason
      <4>4. CASE KeepLevel(o)
        BY <2>4, <4>1, <4>4 DEF KeepLevel, Reaches, TypeOK
      <4> QED BY <1>2, <4>2, <4>3, <4>4
    <3> SUFFICES ASSUME standing'.by # "none", standing'.alone
                 PROVE  /\ \A x \in Order : x # o => x \notin Unsettled'
                        /\ standing'.redis => stored' = order'[o].level
                        /\ \A p \in standing'.process : fallback'[p] = order'[o].level
      BY <3>1 DEF Known
    <3>2. /\ \A x \in Order : x # o => x \notin Unsettled
          /\ standing.redis => stored = order[o].level
          /\ \A p \in standing.process : p \in Process /\ fallback[p] = order[o].level
      BY <2>4, <3>1 DEF Known, TypeOK
    <3>3. \A x \in Order : x # o => x \notin Unsettled'
      BY <2>2, <3>2 DEF Unsettled
    <3> QED
      BY <2>2, <3>1, <3>2, <3>3
  <2> QED BY <2>3, <2>4
<1> QED
  BY <1>1, <1>2

LEMMA StepKeepsKnown ==
  ASSUME TypeOK, Placed, Known, Step
  PROVE  Known'
<1>1. CASE RedisLeaves \/ RedisReturns
  <2>1. /\ UNCHANGED <<standing, stored, fallback>>
        /\ \A o \in Order : order'[o].level = order[o].level
        /\ \A o \in Order : o \in Unsettled' => o \in Unsettled
    <3>1. CASE RedisLeaves
      <4>1. PICK O \in SUBSET Unsettled :
              order' = [o \in Order |-> IF o \in O THEN [order[o] EXCEPT !.at = "lost"]
                                                   ELSE order[o]]
        BY <3>1 DEF RedisLeaves
      <4>2. UNCHANGED <<standing, stored, fallback>>
        BY <3>1 DEF RedisLeaves
      <4>3. \A o \in Order : order'[o].level = order[o].level
        BY <4>1 DEF TypeOK
      <4>4. \A o \in Order : o \in Unsettled' => o \in Unsettled
        BY <4>1 DEF Unsettled
      <4> QED BY <4>2, <4>3, <4>4
    <3>2. CASE RedisReturns
      BY <3>2 DEF RedisReturns, switch, Unsettled
    <3> QED BY <1>1, <3>1, <3>2
  <2>2. standing.by # "none" => standing.by \in Order
    BY DEF TypeOK
  <2> QED BY <2>1, <2>2 DEF Known
<1>2. ASSUME NEW r \in Request,
             \/ \E p \in Process : Arrive(r, p) \/ RefuseDraft(r, p)
             \/ PassSwitch(r) \/ RefuseStopped(r) \/ CheckBudget(r) \/ Retrieve(r)
             \/ LlmFails(r) \/ LlmAnswers(r)
         \/ TakeUsage(r) \/ UsageTaken(r) \/ KeepUsage(r)
      PROVE  Known'
  <2>1. UNCHANGED switch
    BY <1>2 DEF Arrive, RefuseDraft, PassSwitch, RefuseStopped, CheckBudget,
                Retrieve, LlmFails, LlmAnswers, TakeUsage, UsageTaken, KeepUsage
  <2> QED
    BY <2>1 DEF switch, Known, Unsettled
<1> QED
  BY <1>1, <1>2, OrderKeepsKnown DEF Step

(* What a step does to a request: nothing, or what generate_answer does    *)
(* next; the step out of "level" is taken by the level that is read there. *)
RequestMoves(r) ==
  \/ request'[r] = request[r]
  \/ request[r].at = "new" /\ request'[r].at \in {"level", "no_draft"}
  \/ /\ request[r].at = "level" /\ request'[r].at \in {"budget", "refused"}
     /\ LevelIn(request[r].in) = "active"
  \/ /\ request[r].at = "level" /\ request'[r].at = "stopped"
     /\ LevelIn(request[r].in) # "active"
  \/ /\ request[r].at \in {"budget", "retrieve", "llm", "usage", "taken", "lost"}
     /\ request'[r].at \in {"retrieve", "llm", "usage", "taken", "lost", "refused",
                            "abstained", "failed", "answered"}

LEMMA StepOnRequests ==
  ASSUME TypeOK, Step, NEW r \in Request
  PROVE  RequestMoves(r)
<1>1. CASE RedisLeaves \/ RedisReturns
  BY <1>1 DEF RedisLeaves, RedisReturns, RequestMoves, TypeOK
<1>2. ASSUME NEW o \in Order,
             \/ \E p \in Process, l \in Level : Begin(o, p, l)
             \/ WriteLevel(o) \/ LevelWritten(o) \/ WriteReason(o) \/ KeepLevel(o)
      PROVE  RequestMoves(r)
  BY <1>2 DEF Begin, WriteLevel, LevelWritten, WriteReason, KeepLevel, RequestMoves
<1>3. ASSUME NEW q \in Request,
             \/ \E p \in Process : Arrive(q, p) \/ RefuseDraft(q, p)
             \/ PassSwitch(q) \/ RefuseStopped(q) \/ CheckBudget(q) \/ Retrieve(q)
             \/ LlmFails(q) \/ LlmAnswers(q)
             \/ TakeUsage(q) \/ UsageTaken(q) \/ KeepUsage(q)
      PROVE  RequestMoves(r)
  <2>1. CASE r # q
    BY <1>3, <2>1 DEF Arrive, RefuseDraft, PassSwitch, RefuseStopped, CheckBudget,
       Retrieve, LlmFails, LlmAnswers, TakeUsage, UsageTaken, KeepUsage, Goto,
       RequestMoves, TypeOK
  <2>2. CASE r = q
    <3>1. ASSUME NEW p \in Process, Arrive(r, p) \/ RefuseDraft(r, p)
          PROVE  RequestMoves(r)
      BY <3>1 DEF Arrive, RefuseDraft, RequestMoves, TypeOK
    <3>2. CASE PassSwitch(r) \/ RefuseStopped(r)
      BY <3>2 DEF PassSwitch, RefuseStopped, Goto, IsGenerationAllowed, RequestMoves, TypeOK
    <3>3. CASE CheckBudget(r) \/ Retrieve(r)
      BY <3>3 DEF CheckBudget, Retrieve, Goto, RequestMoves, TypeOK
    <3>4. CASE LlmFails(r) \/ LlmAnswers(r)
      BY <3>4 DEF LlmFails, LlmAnswers, Goto, RequestMoves, TypeOK
    <3>5. CASE TakeUsage(r) \/ UsageTaken(r) \/ KeepUsage(r)
      BY <3>5 DEF TakeUsage, UsageTaken, KeepUsage, Goto, RequestMoves, TypeOK
    <3> QED BY <1>3, <2>2, <3>1, <3>2, <3>3, <3>4, <3>5
  <2> QED BY <2>1, <2>2
<1> QED
  BY <1>1, <1>2, <1>3 DEF Step

(* The step by which a request leaves "level" is the one that needs Known. *)
LEMMA NextKeepsFound ==
  ASSUME TypeOK, Placed, Known, Found, Next, TypeOK', Placed'
  PROVE  Found'
<1> SUFFICES ASSUME NEW r \in Request
             PROVE  /\ request'[r].at = "new" => bound'[r] = "none"
                    /\ request'[r].at = "level" =>
                         bound'[r] \in {"none", Binding'[request'[r].in]}
                    /\ request'[r].at = "stopped" => bound'[r] # "active"
                    /\ request'[r].at \notin {"new", "level", "stopped"} =>
                         bound'[r] \in {"none", "active"}
  BY DEF Found
<1>1. RequestMoves(r)
  BY StepOnRequests DEF Next
<1>2. CASE request'[r].at = "level"
  BY <1>2 DEF Next, Observe
<1>3. CASE request'[r].at # "level"
  <2>1. bound'[r] = bound[r]
    BY <1>3 DEF Next, Observe
  <2>2. CASE request[r].at # "level"
    BY <1>1, <1>3, <2>1, <2>2 DEF RequestMoves, Found
  <2>3. CASE request[r].at = "level"
    <3>1. request[r].in \in Process
      BY <2>3 DEF Placed
    <3>2. bound[r] = "none" \/ bound[r] = LevelIn(request[r].in)
      BY <2>3, <3>1, KnownIsRead DEF Found
    <3> QED
      BY <1>1, <1>3, <2>1, <2>3, <3>2 DEF RequestMoves
  <2> QED BY <2>2, <2>3
<1> QED
  BY <1>2, <1>3

(* No order of the kill switch is missed where it has arrived, and none is *)
(* outlived there, whatever outages and other orders lie in between.       *)
THEOREM GatewayHeedsOrders == Spec => []OrdersAreHeeded
<1> DEFINE Inv == TypeOK /\ Placed /\ Known /\ Found
<1>1. Init => Inv
  <2> SUFFICES ASSUME Init PROVE Inv
    OBVIOUS
  <2>1. TypeOK /\ Placed
    BY GatewayAssumption DEF Init, TypeOK, Placed, Level, NoUsage
  <2>2. Known /\ Found
    BY DEF Init, Known, Found
  <2> QED BY <2>1, <2>2
<1>2. Inv /\ [Next]_vars => Inv'
  <2>1. CASE Inv /\ Next
    BY <2>1, NextKeepsTypes, StepKeepsKnown, NextKeepsFound DEF Next
  <2>2. CASE Inv /\ UNCHANGED vars
    BY <2>2 DEF vars, TypeOK, Placed, Known, Found, Unsettled, Binding
  <2> QED BY <2>1, <2>2
<1>3. Inv => OrdersAreHeeded
  BY DEF OrdersAreHeeded, TypeOK, Found
<1> QED
  BY <1>1, <1>2, <1>3, PTL DEF Spec

-----------------------------------------------------------------------------
(* The token budget.  How far record_usage is with a request says where    *)
(* the request is counted, and whether Redis owes it an answer.            *)
CountedWhere(r) ==
  /\ request[r].at \notin {"taken", "lost", "answered"} => counted[r] = {}
  /\ request[r].at \in {"taken", "lost"} => counted[r] = {"redis"}
  /\ request[r].at = "answered" =>
       \/ counted[r] = {"redis", "memory"} /\ r \in unanswered
       \/ counted[r] \in {{"redis"}, {"memory"}} /\ r \notin unanswered
  /\ request[r].at \notin {"lost", "answered"} => r \notin unanswered
  /\ request[r].at = "lost" => r \in unanswered

(* Only finitely many requests are counted at a time, whatever the set of  *)
(* requests: the cardinalities are natural numbers.                        *)
FinitelyCounted == IsFiniteSet({r \in Request : counted[r] # {}})

UsageInv ==
  /\ \A r \in Request : CountedWhere(r)
  /\ shared.requests = Cardinality(CountedBy("redis", Process))
  /\ \A p \in Process :
       usage[p].requests = Cardinality(CountedBy("memory", {p}))
  /\ FinitelyCounted

LEMMA CountsAreFinite ==
  ASSUME FinitelyCounted, NEW place, NEW P
  PROVE  IsFiniteSet(CountedBy(place, P))
<1>1. CountedBy(place, P) \subseteq {r \in Request : counted[r] # {}}
  BY DEF CountedBy
<1> QED
  BY <1>1, FS_Subset DEF FinitelyCounted

(* A step that leaves the counts alone may move requests, but none into or *)
(* out of the states that count.                                           *)
LEMMA OtherMovesKeepUsage ==
  ASSUME TypeOK, UsageInv, UNCHANGED <<shared, usage, counted>>,
         \A q \in Request :
           /\ CountedWhere(q)'
           /\ request'[q].in = request[q].in \/ request[q].at = "new"
  PROVE  UsageInv'
<1>1. \A q \in Request : request[q].at = "new" => counted[q] = {}
  BY DEF UsageInv, CountedWhere
<1>2. ASSUME NEW place, NEW P
      PROVE  CountedBy(place, P)' = CountedBy(place, P)
  BY <1>1 DEF CountedBy
<1>3. /\ CountedBy("redis", Process)' = CountedBy("redis", Process)
      /\ \A p \in Process : CountedBy("memory", {p})' = CountedBy("memory", {p})
  BY <1>2
<1> QED
  BY <1>3 DEF UsageInv, FinitelyCounted

(* Redis leaves: a request that waits for its answer may be left waiting.  *)
LEMMA RedisKeepsUsage ==
  ASSUME TypeOK, UsageInv, RedisLeaves \/ RedisReturns
  PROVE  UsageInv'
<1>1. CASE RedisLeaves
  <2>1. PICK R \in SUBSET {r \in Request : request[r].at = "taken"} :
          /\ request' = [r \in Request |->
                IF r \in R THEN [request[r] EXCEPT !.at = "lost"] ELSE request[r]]
          /\ unanswered' = unanswered \cup R
    BY <1>1 DEF RedisLeaves
  <2>2. UNCHANGED <<shared, usage, counted>>
    BY <1>1 DEF RedisLeaves
  <2>3. ASSUME NEW q \in Request
        PROVE  CountedWhere(q)' /\ request'[q].in = request[q].in
    <3>1. CountedWhere(q)
      BY DEF UsageInv
    <3>2. CASE q \in R
      <4>1. /\ request[q].at = "taken" /\ request'[q].at = "lost"
            /\ request'[q].in = request[q].in /\ q \in unanswered'
        BY <2>1, <3>2 DEF TypeOK
      <4> QED BY <2>2, <3>1, <4>1 DEF CountedWhere
    <3>3. CASE q \notin R
      <4>1. request'[q] = request[q] /\ (q \in unanswered' <=> q \in unanswered)
        BY <2>1, <3>3
      <4> QED BY <2>2, <3>1, <4>1 DEF CountedWhere
    <3> QED BY <3>2, <3>3
  <2> QED BY <2>2, <2>3, OtherMovesKeepUsage
<1>2. CASE RedisReturns
  BY <1>2 DEF RedisReturns, budget, UsageInv, CountedWhere, CountedBy, FinitelyCounted
<1> QED
  BY <1>1, <1>2

(* The steps of a request that records no usage, and the one in which the  *)
(* answer of Redis arrives.                                                *)
LEMMA QuietStepKeepsUsage ==
  ASSUME TypeOK, UsageInv, NEW r \in Request,
         \/ \E p \in Process : Arrive(r, p) \/ RefuseDraft(r, p)
         \/ PassSwitch(r) \/ RefuseStopped(r) \/ CheckBudget(r) \/ Retrieve(r)
         \/ LlmFails(r) \/ LlmAnswers(r) \/ UsageTaken(r)
  PROVE  UsageInv'
<1>1. UNCHANGED <<shared, usage, counted, unanswered>>
  BY DEF Arrive, RefuseDraft, PassSwitch, RefuseStopped, CheckBudget, Retrieve,
         LlmFails, LlmAnswers, UsageTaken, budget
<1>2. \/ /\ request[r].at = "new"
         /\ \E p \in Process, at \in {"level", "no_draft"} :
              request' = [request EXCEPT ![r] = [at |-> at, in |-> p]]
      \/ /\ request[r].at \in {"level", "budget", "retrieve", "llm"}
         /\ \E at \in {"budget", "refused", "stopped", "retrieve", "llm",
                       "abstained", "failed", "usage"} :
              request' = [request EXCEPT ![r].at = at]
      \/ /\ request[r].at = "taken"
         /\ request' = [request EXCEPT ![r].at = "answered"]
  BY DEF Arrive, RefuseDraft, PassSwitch, RefuseStopped, CheckBudget, Retrieve,
         LlmFails, LlmAnswers, UsageTaken, Goto
<1>3. ASSUME NEW q \in Request
      PROVE  /\ CountedWhere(q)'
             /\ request'[q].in = request[q].in \/ request[q].at = "new"
  <2>1. CountedWhere(q)
    BY DEF UsageInv
  <2>2. CASE q # r
    <3>1. request'[q] = request[q]
      BY <1>2, <2>2 DEF TypeOK
    <3> QED BY <1>1, <2>1, <3>1 DEF CountedWhere
  <2>3. CASE q = r
    <3>1. \/ /\ request[q].at \in {"new", "level", "budget", "retrieve", "llm"}
             /\ request'[q].at \in {"level", "no_draft", "budget", "refused", "stopped",
                                    "retrieve", "llm", "abstained", "failed", "usage"}
          \/ request[q].at = "taken" /\ request'[q].at = "answered"
      BY <1>2, <2>3 DEF TypeOK
    <3>2. request'[q].in = request[q].in \/ request[q].at = "new"
      BY <1>2, <2>3 DEF TypeOK
    <3> QED BY <1>1, <2>1, <3>1, <3>2 DEF CountedWhere
  <2> QED BY <2>2, <2>3
<1> QED
  BY <1>1, <1>3, OtherMovesKeepUsage

(* A request is counted in a place where it was not counted before.        *)
LEMMA CountedOnce ==
  ASSUME TypeOK, FinitelyCounted, NEW r \in Request,
         NEW to \in {"redis", "memory"}, to \notin counted[r], AddTo(r, to),
         \A q \in Request : request'[q].in = request[q].in,
         NEW place \in {"redis", "memory"}, NEW P
  PROVE  /\ place = to /\ request[r].in \in P =>
              Cardinality(CountedBy(place, P)') = Cardinality(CountedBy(place, P)) + 1
         /\ ~(place = to /\ request[r].in \in P) =>
              CountedBy(place, P)' = CountedBy(place, P)
<1>1. /\ counted'[r] = counted[r] \cup {to}
      /\ \A q \in Request : q # r => counted'[q] = counted[q]
  BY DEF AddTo, TypeOK
<1>2. CASE place = to /\ request[r].in \in P
  <2> DEFINE S == CountedBy(place, P)
  <2>1. S' = S \cup {r} /\ r \notin S
    BY <1>1, <1>2 DEF CountedBy
  <2>2. IsFiniteSet(S)
    BY CountsAreFinite
  <2>3. Cardinality(S \cup {r}) = Cardinality(S) + 1
    BY <2>1, <2>2, FS_AddElement
  <2> QED BY <1>2, <2>1, <2>3
<1>3. CASE ~(place = to /\ request[r].in \in P)
  BY <1>1, <1>3 DEF CountedBy
<1> QED
  BY <1>2, <1>3

(* Redis counts a request, or the memory of its process does, which Redis  *)
(* may have counted without saying so.                                     *)
LEMMA CountingKeepsUsage ==
  ASSUME TypeOK, Placed, UsageInv, NEW r \in Request, TakeUsage(r) \/ KeepUsage(r)
  PROVE  UsageInv'
<1> DEFINE home == request[r].in
<1>1. PICK to \in {"redis", "memory"} :
        /\ AddTo(r, to) /\ unanswered' = unanswered
        /\ to = "redis" => /\ request[r].at = "usage"
                           /\ request' = [request EXCEPT ![r].at = "taken"]
                           /\ shared' = Charge(shared, 0) /\ usage' = usage
        /\ to = "memory" => /\ request[r].at \in {"usage", "lost"}
                            /\ request' = [request EXCEPT ![r].at = "answered"]
                            /\ usage' = [usage EXCEPT ![home] = Charge(usage[home], 0)]
                            /\ shared' = shared
  BY DEF TakeUsage, KeepUsage, Goto
<1>2. /\ home \in Process
      /\ \A q \in Request : request'[q].in = request[q].in
      /\ \A q \in Request : q # r => request'[q] = request[q]
  BY <1>1 DEF Placed, TypeOK
<1>3. CountedWhere(r) /\ to \notin counted[r]
  BY <1>1 DEF UsageInv, CountedWhere
<1>4. /\ counted'[r] = counted[r] \cup {to}
      /\ \A q \in Request : q # r => counted'[q] = counted[q]
  BY <1>1 DEF AddTo, TypeOK
<1>5. ASSUME NEW q \in Request PROVE CountedWhere(q)'
  <2>1. CountedWhere(q)
    BY DEF UsageInv
  <2>2. CASE q # r
    BY <1>1, <1>2, <1>4, <2>1, <2>2 DEF CountedWhere
  <2>3. CASE q = r /\ to = "redis"
    <3>1. request[q].at = "usage" /\ request'[q].at = "taken"
      BY <1>1, <2>3 DEF TypeOK
    <3> QED BY <1>1, <1>4, <2>1, <2>3, <3>1 DEF CountedWhere
  <2>4. CASE q = r /\ to = "memory"
    <3>1. request[q].at \in {"usage", "lost"} /\ request'[q].at = "answered"
      BY <1>1, <2>4 DEF TypeOK
    <3> QED BY <1>1, <1>4, <2>1, <2>4, <3>1 DEF CountedWhere
  <2> QED BY <2>2, <2>3, <2>4
<1>6. ASSUME NEW place \in {"redis", "memory"}, NEW P
      PROVE  /\ place = to /\ home \in P =>
                  Cardinality(CountedBy(place, P)') = Cardinality(CountedBy(place, P)) + 1
             /\ ~(place = to /\ home \in P) =>
                  CountedBy(place, P)' = CountedBy(place, P)
  BY <1>1, <1>2, <1>3, CountedOnce DEF UsageInv
<1>7. shared'.requests = Cardinality(CountedBy("redis", Process)')
  <2>1. /\ to = "redis" => Cardinality(CountedBy("redis", Process)')
                             = Cardinality(CountedBy("redis", Process)) + 1
        /\ to # "redis" => CountedBy("redis", Process)' = CountedBy("redis", Process)
    BY <1>2, <1>6
  <2> QED
    BY <1>1, <2>1 DEF Charge, UsageInv
<1>8. ASSUME NEW p \in Process
      PROVE  usage'[p].requests = Cardinality(CountedBy("memory", {p})')
  <2>1. /\ to = "memory" /\ home = p =>
             Cardinality(CountedBy("memory", {p})') = Cardinality(CountedBy("memory", {p})) + 1
        /\ ~(to = "memory" /\ home = p) =>
             CountedBy("memory", {p})' = CountedBy("memory", {p})
    BY <1>6
  <2>2. /\ to = "memory" /\ home = p => usage'[p].requests = usage[p].requests + 1
        /\ ~(to = "memory" /\ home = p) => usage'[p] = usage[p]
    BY <1>1, <1>2 DEF Charge, TypeOK
  <2> QED
    BY <2>1, <2>2 DEF UsageInv
<1>9. FinitelyCounted'
  <2> DEFINE C == {q \in Request : counted[q] # {}}
  <2>1. {q \in Request : counted'[q] # {}} \subseteq C \cup {r}
    BY <1>4
  <2>2. IsFiniteSet(C \cup {r})
    BY FS_AddElement DEF UsageInv, FinitelyCounted
  <2> QED
    BY <2>1, <2>2, FS_Subset DEF FinitelyCounted
<1> QED
  BY <1>5, <1>7, <1>8, <1>9 DEF UsageInv

LEMMA StepKeepsUsage ==
  ASSUME TypeOK, Placed, UsageInv, Step
  PROVE  UsageInv'
<1>1. ASSUME NEW o \in Order,
             \/ \E p \in Process, l \in Level : Begin(o, p, l)
             \/ WriteLevel(o) \/ LevelWritten(o) \/ WriteReason(o) \/ KeepLevel(o)
      PROVE  UsageInv'
  <2>1. UNCHANGED <<request, budget>>
    BY <1>1 DEF Begin, WriteLevel, LevelWritten, WriteReason, KeepLevel
  <2> QED
    BY <2>1 DEF budget, UsageInv, CountedWhere, CountedBy, FinitelyCounted
<1> QED
  BY <1>1, RedisKeepsUsage, QuietStepKeepsUsage, CountingKeepsUsage DEF Step

(* Every answered request is counted where record_usage could write, twice *)
(* just when Redis left without answering it, however many it left so at   *)
(* a time, and no count is lost or invented.                               *)
THEOREM GatewayCountsUsage == Spec => []UsageIsCounted
<1> DEFINE Inv == TypeOK /\ Placed /\ UsageInv
<1>1. Init => Inv
  <2> SUFFICES ASSUME Init PROVE Inv
    OBVIOUS
  <2>1. TypeOK /\ Placed
    BY GatewayAssumption DEF Init, TypeOK, Placed, Level, NoUsage
  <2>2. /\ \A r \in Request : CountedWhere(r)
        /\ {r \in Request : counted[r] # {}} = {}
        /\ CountedBy("redis", Process) = {}
        /\ \A p \in Process : CountedBy("memory", {p}) = {}
        /\ shared.requests = 0 /\ \A p \in Process : usage[p].requests = 0
    BY DEF Init, CountedBy, CountedWhere, NoUsage
  <2>3. UsageInv
    BY <2>2, FS_EmptySet DEF UsageInv, FinitelyCounted
  <2> QED BY <2>1, <2>3
<1>2. Inv /\ [Next]_vars => Inv'
  <2>1. CASE Inv /\ Next
    BY <2>1, NextKeepsTypes, StepKeepsUsage DEF Next
  <2>2. CASE Inv /\ UNCHANGED vars
    BY <2>2 DEF vars, TypeOK, Placed, UsageInv, CountedWhere, CountedBy, FinitelyCounted
  <2> QED BY <2>1, <2>2
<1>3. Inv => UsageIsCounted
  <2> SUFFICES ASSUME Inv PROVE UsageIsCounted
    OBVIOUS
  <2>1. ASSUME NEW r \in Request
        PROVE  /\ request[r].at = "answered" => counted[r] # {}
               /\ counted[r] # {} => request[r].at \in {"taken", "lost", "answered"}
               /\ counted[r] = {"redis", "memory"}
                    <=> request[r].at = "answered" /\ r \in unanswered
    <3>1. CountedWhere(r)
      BY DEF UsageInv
    <3>2. /\ {"redis"} # {"redis", "memory"} /\ {"memory"} # {"redis", "memory"}
          /\ {"redis"} # {} /\ {"memory"} # {} /\ {"redis", "memory"} # {}
      OBVIOUS
    <3> QED BY <3>1, <3>2 DEF CountedWhere
  <2> QED BY <2>1 DEF UsageInv, UsageIsCounted
<1> QED
  BY <1>1, <1>2, <1>3, PTL DEF Spec

-----------------------------------------------------------------------------
(* The circuit breaker, for any callers, threshold and timeout.            *)
(*                                                                         *)
(* The inductive invariant is BreakerInv.  Counts relates the counters of  *)
(* the breaker to what its callers reported: while it is closed its        *)
(* failure count is the number of failures in a row, and while it is half  *)
(* open its success count is a number of successes in a row.               *)
Counts ==
  /\ state = "closed" => failure_count = losses /\ losses < FAILURE_THRESHOLD
  /\ losses <= failure_count
  /\ state = "half_open" => success_count_half_open < 2
  /\ state = "half_open" => success_count_half_open <= wins

BreakerInv == BreakerTypeOK /\ HalfOpenIsRested /\ Counts

CallsOK == call' \in [Caller -> {"idle", "waiting"}] /\ outage' \in 0..MaxFailures

-----------------------------------------------------------------------------
(* A reported success keeps the invariant: it resets the failure count     *)
(* where the breaker is or becomes closed.                                 *)
LEMMA SuccessKeepsInv ==
  ASSUME BreakerInv, ReportSuccess, CallsOK PROVE BreakerInv'
BY BreakerAssumption
   DEF BreakerInv, BreakerTypeOK, HalfOpenIsRested, Counts, ReportSuccess, RecordSuccess, CallsOK

(* A reported failure makes the breaker open, or leaves it closed below    *)
(* the threshold; it never leaves it half open.                            *)
LEMMA FailureKeepsInv ==
  ASSUME BreakerInv, ReportFailure, CallsOK PROVE BreakerInv'
BY BreakerAssumption
   DEF BreakerInv, BreakerTypeOK, HalfOpenIsRested, Counts, ReportFailure, RecordFailure, CallsOK

(* Reading the state may only turn a rested open breaker half open.        *)
LEMMA ReadStateKeepsInv ==
  ASSUME BreakerInv, ReadState, CallsOK, UNCHANGED <<losses, wins>>
  PROVE  BreakerInv'
BY BreakerAssumption
   DEF BreakerInv, BreakerTypeOK, HalfOpenIsRested, Counts, ReadState, Current, CallsOK

(* Every step keeps the invariant.                                         *)
LEMMA BreakerNextKeepsInv == BreakerInv /\ [BreakerNext]_breakerVars => BreakerInv'
<1> SUFFICES ASSUME BreakerInv, [BreakerNext]_breakerVars PROVE BreakerInv'
  OBVIOUS
<1>1. ASSUME NEW c \in Caller, Admit(c) PROVE BreakerInv'
  <2>1. CallsOK
    BY <1>1 DEF Admit, history, CallsOK, BreakerInv, BreakerTypeOK
  <2> QED BY <1>1, <2>1, ReadStateKeepsInv DEF Admit, history
<1>2. ASSUME NEW c \in Caller, GiveUp(c) PROVE BreakerInv'
  BY <1>2 DEF GiveUp, Ends, breaker, history, BreakerInv, BreakerTypeOK, HalfOpenIsRested, Counts
<1>3. ASSUME NEW c \in Caller, Succeed(c) PROVE BreakerInv'
  <2>1. CallsOK
    BY <1>3, BreakerAssumption DEF Succeed, Ends, CallsOK, BreakerInv, BreakerTypeOK
  <2> QED BY <1>3, <2>1, SuccessKeepsInv, FailureKeepsInv DEF Succeed
<1>4. ASSUME NEW c \in Caller, Fail(c) PROVE BreakerInv'
  <2>1. CallsOK
    BY <1>4, BreakerAssumption DEF Fail, Ends, CallsOK, BreakerInv, BreakerTypeOK
  <2> QED BY <1>4, <2>1, SuccessKeepsInv, FailureKeepsInv DEF Fail
<1>5. ASSUME Health PROVE BreakerInv'
  <2>1. CallsOK
    BY <1>5 DEF Health, history, CallsOK, BreakerInv, BreakerTypeOK
  <2> QED BY <1>5, <2>1, ReadStateKeepsInv DEF Health, history
<1>6. ASSUME Tick PROVE BreakerInv'
  BY <1>6, BreakerAssumption
     DEF Tick, history, BreakerInv, BreakerTypeOK, HalfOpenIsRested, Counts
<1>7. ASSUME UNCHANGED breakerVars PROVE BreakerInv'
  BY <1>7 DEF breakerVars, BreakerInv, BreakerTypeOK, HalfOpenIsRested, Counts
<1> QED BY <1>1, <1>2, <1>3, <1>4, <1>5, <1>6, <1>7 DEF BreakerNext

(* The invariant holds in every behaviour.                                 *)
LEMMA BreakerInvariance == BreakerSpec => []BreakerInv
<1>1. BreakerInit => BreakerInv
  BY BreakerAssumption DEF BreakerInit, BreakerInv, BreakerTypeOK, HalfOpenIsRested, Counts
<1> QED BY <1>1, BreakerNextKeepsInv, PTL DEF BreakerSpec

-----------------------------------------------------------------------------
(* The types of the breaker's state and of the calls in every behaviour.   *)
THEOREM BreakerTyping == BreakerSpec => []BreakerTypeOK
<1>1. BreakerInv => BreakerTypeOK
  BY DEF BreakerInv
<1> QED BY <1>1, BreakerInvariance, PTL

(* A half-open breaker is rested, for any callers, threshold and timeout.  *)
THEOREM BreakerRests == BreakerSpec => []HalfOpenIsRested
<1>1. BreakerInv => HalfOpenIsRested
  BY DEF BreakerInv
<1> QED BY <1>1, BreakerInvariance, PTL

(* As many failures in a row as the threshold says leave the breaker not   *)
(* closed, in whatever states they were recorded.                          *)
THEOREM BreakerOpens == BreakerSpec => []OpensAfterConsecutiveFailures
<1>1. BreakerInv => OpensAfterConsecutiveFailures
  BY BreakerAssumption
     DEF BreakerInv, Counts, BreakerTypeOK, OpensAfterConsecutiveFailures
<1> QED BY <1>1, BreakerInvariance, PTL

(* It opens from closed only after that many failures in a row.            *)
THEOREM BreakerOpensOnly == BreakerSpec => OpensOnlyAfterConsecutiveFailures
<1> DEFINE Open == state = "closed" /\ state' = "open" => losses' >= FAILURE_THRESHOLD
<1>1. ASSUME BreakerInv, BreakerNext PROVE Open
  <2> SUFFICES ASSUME state = "closed", state' = "open"
               PROVE  losses' >= FAILURE_THRESHOLD
    OBVIOUS
  <2>1. ReportFailure
    BY <1>1 DEF BreakerNext, Admit, GiveUp, Succeed, Fail, Health, Tick, ReadState, Current,
                ReportSuccess, RecordSuccess, breaker
  <2> QED
    BY <1>1, <2>1, BreakerAssumption
       DEF ReportFailure, RecordFailure, BreakerInv, Counts, BreakerTypeOK
<1>2. BreakerInv /\ [BreakerNext]_breakerVars => [Open]_breakerVars
  BY <1>1
<1> HIDE DEF Open
<1>3. BreakerSpec => [][Open]_breakerVars
  BY <1>2, BreakerInvariance, PTL DEF BreakerSpec
<1> QED BY <1>3 DEF OpensOnlyAfterConsecutiveFailures, Open

(* No call starts between the opening and the end of the timeout.          *)
THEOREM BreakerRejects == BreakerSpec => NoCallWhileOpen
<1> DEFINE Start == \A c \in Caller :
                      call[c] = "idle" /\ call'[c] = "waiting"
                      => losses < FAILURE_THRESHOLD \/ age >= RESET_TIMEOUT
<1>1. ASSUME BreakerInv, BreakerNext PROVE Start
  <2> SUFFICES ASSUME NEW c \in Caller, call[c] = "idle", call'[c] = "waiting"
               PROVE  losses < FAILURE_THRESHOLD \/ age >= RESET_TIMEOUT
    OBVIOUS
  <2>1. Admit(c)
    BY <1>1 DEF BreakerInv, BreakerTypeOK, BreakerNext, Admit, GiveUp, Succeed, Fail, Ends, Health, Tick
  <2> QED
    BY <2>1, <1>1, BreakerAssumption
       DEF Admit, Current, BreakerInv, Counts, BreakerTypeOK, HalfOpenIsRested
<1>2. BreakerInv /\ [BreakerNext]_breakerVars => [Start]_breakerVars
  BY <1>1
<1> HIDE DEF Start
<1>3. BreakerSpec => [][Start]_breakerVars
  BY <1>2, BreakerInvariance, PTL DEF BreakerSpec
<1> QED BY <1>3 DEF NoCallWhileOpen, Start

(* The breaker closes again only after two successes in a row.             *)
THEOREM BreakerClosesRecovered == BreakerSpec => ClosesOnlyRecovered
<1> DEFINE Close == state # "closed" /\ state' = "closed" => wins' = 2
<1>1. ASSUME BreakerInv, BreakerNext PROVE Close
  <2> SUFFICES ASSUME state # "closed", state' = "closed" PROVE wins' = 2
    OBVIOUS
  <2>1. ReportSuccess
    BY <1>1, BreakerAssumption
       DEF BreakerNext, Admit, GiveUp, Succeed, Fail, Health, Tick, ReadState, Current,
           ReportFailure, RecordFailure, breaker
  <2> QED
    BY <1>1, <2>1 DEF ReportSuccess, RecordSuccess, BreakerInv, Counts, BreakerTypeOK
<1>2. BreakerInv /\ [BreakerNext]_breakerVars => [Close]_breakerVars
  BY <1>1
<1> HIDE DEF Close
<1>3. BreakerSpec => [][Close]_breakerVars
  BY <1>2, BreakerInvariance, PTL DEF BreakerSpec
<1> QED BY <1>3 DEF ClosesOnlyRecovered, Close
=============================================================================
