--------------------------- MODULE AnalysisProofs ---------------------------
(***************************************************************************)
(* Proofs about Analysis, for any transactions, number of workers, times   *)
(* to live, timeouts and lag of the endpoints: how stale the network state *)
(* of an analysis can be, how far a worker's own fetch may take it back,   *)
(* and what the detector makes of token transfers and of costs.            *)
(***************************************************************************)
EXTENDS Analysis, EstimateProofs

\* No block is known before it is there, and a fetch comes after the miss, so
\* that its answer is behind what was missed by no more than its endpoint is.
BlockInv ==
    /\ cache.block =< head
    /\ \A t \in Tasks : block[t] =< head /\ missed[t] =< head
    /\ \A t \in Tasks : stage[t] = "block" => block[t] + Lag >= missed[t]

\* A fetch is over within its timeouts, so a state is stored that young; what
\* the cache has counted since then is all it has aged besides.
AgeInv ==
    /\ \A t \in Tasks : stage[t] = "block" => read[t] =< FetchTicks
    /\ Fresh => cache.read =< FetchTicks + cache.age

\* The inductive invariant.
Inv == TypeOK /\ BlockInv /\ AgeInv /\ StateAgeBounded /\ OwnFetchNotOlder

-----------------------------------------------------------------------------
(* The invariant, part by part *)

LEMMA Ages ==
    ASSUME NEW limit \in Nat, NEW age \in 0 .. limit
    PROVE  /\ Aged(age, limit) \in 0 .. limit
           /\ Aged(age, limit) =< age + 1
           /\ Aged(age, limit) < limit => Aged(age, limit) = age + 1
  BY DEF Aged

LEMMA Limits == MaxAge \in Nat /\ Ttl \in Nat /\ FetchTicks =< MaxAge
                /\ FetchTicks \in Nat /\ FetchTicks < Ttl + FetchTicks
  BY AnalysisAssumption DEF MaxAge

\* The initial states satisfy the invariant.
LEMMA InitInv == Init => Inv
<1> SUFFICES ASSUME Init PROVE Inv
  OBVIOUS
<1> USE Limits
<1>1. 0 \in 0 .. MaxBlock /\ 0 \in 0 .. MaxAge /\ 0 \in 0 .. Ttl
  BY AnalysisAssumption
<1>2. TypeOK
  BY <1>1 DEF Init, TypeOK
<1>3. BlockInv
  BY DEF Init, BlockInv
<1>4. AgeInv
  BY DEF Init, AgeInv, Fresh
<1>5. \A w \in Workers : stage[w] # "evaluate"
  BY DEF Init, Tasks
<1> QED
  BY <1>2, <1>3, <1>4, <1>5 DEF Inv, StateAgeBounded, OwnFetchNotOlder

\* A new block.
LEMMA NewBlockStep == Inv /\ NewBlock => Inv'
<1> SUFFICES ASSUME Inv, NewBlock PROVE Inv'
  OBVIOUS
<1>1. TypeOK'
  BY AnalysisAssumption DEF Inv, TypeOK, NewBlock, taskVars
<1>2. BlockInv'
  BY AnalysisAssumption DEF Inv, TypeOK, BlockInv, NewBlock, taskVars
<1> QED
  BY <1>1, <1>2
  DEF Inv, AgeInv, StateAgeBounded, OwnFetchNotOlder, NewBlock, taskVars, Fresh,
      StateUsed

\* A tick: no fetch is older than its timeouts, and the cache ages by its own
\* count, until it is expired.
LEMMA TickStep == Inv /\ Tick => Inv'
<1> SUFFICES ASSUME Inv, Tick PROVE Inv'
  OBVIOUS
<1> USE Limits
<1>1. cache' = [cache EXCEPT !.read = Aged(cache.read, MaxAge),
                             !.age = Aged(cache.age, Ttl)]
  BY DEF Tick
<1>2. cache \in [block : 0 .. MaxBlock, read : 0 .. MaxAge, age : 0 .. Ttl]
  BY DEF Inv, TypeOK
<1>3. /\ cache'.block = cache.block
      /\ cache'.read \in 0 .. MaxAge /\ cache'.read =< cache.read + 1
      /\ cache'.age \in 0 .. Ttl
      /\ cache'.age < Ttl => cache'.age = cache.age + 1
  BY <1>1, <1>2, Ages
<1>4. cache' \in [block : 0 .. MaxBlock, read : 0 .. MaxAge, age : 0 .. Ttl]
  BY <1>1, <1>2, Ages
<1>5. \A t \in Tasks : /\ read'[t] = IF stage[t] = "block" THEN read[t] + 1
                                     ELSE read[t]
                       /\ stage[t] = "block" => read[t] + 1 =< FetchTicks
                       /\ read[t] \in 0 .. MaxAge
  BY DEF Tick, Inv, TypeOK
<1>6. read' \in [Tasks -> 0 .. MaxAge]
  BY <1>5 DEF Tick
<1>7. TypeOK'
  BY <1>4, <1>6 DEF Inv, TypeOK, Tick
<1>8. BlockInv'
  BY <1>3 DEF Inv, BlockInv, Tick
<1>9. AgeInv'
  <2>1. \A t \in Tasks : stage'[t] = "block" => read'[t] =< FetchTicks
    BY <1>5 DEF Tick
  <2>2. ASSUME cache'.age < Ttl PROVE cache'.read =< FetchTicks + cache'.age
    <3>1. cache'.age = cache.age + 1 /\ cache.age < Ttl
      BY <1>2, <1>3, <2>2
    <3>2. cache.read =< FetchTicks + cache.age
      BY <3>1 DEF Inv, AgeInv, Fresh
    <3> QED BY <1>2, <1>3, <3>1, <3>2
  <2> QED BY <2>1, <2>2 DEF AgeInv, Fresh
<1>10. StateAgeBounded' /\ OwnFetchNotOlder'
  <2>1. \A t \in Tasks : stage[t] = "evaluate" => read'[t] = read[t]
    BY <1>5
  <2> QED
    BY <2>1
    DEF Inv, StateAgeBounded, OwnFetchNotOlder, Tick, StateUsed, Tasks
<1> QED BY <1>7, <1>8, <1>9, <1>10 DEF Inv

\* What a step of one task leaves to show: of the others nothing changes.
TaskOk(t) ==
    /\ stage'[t] = "block" => /\ block'[t] + Lag >= missed'[t]
                              /\ read'[t] =< FetchTicks
    /\ block'[t] =< head /\ missed'[t] =< head
    /\ t # Main /\ stage'[t] = "evaluate" =>
         /\ source'[t] # "snapshot" => read'[t] < Ttl + FetchTicks
         /\ source'[t] = "fetched" => block'[t] + Lag >= missed'[t]

Alone(t) ==
    \A u \in Tasks \ {t} :
       /\ stage'[u] = stage[u] /\ block'[u] = block[u] /\ read'[u] = read[u]
       /\ source'[u] = source[u] /\ missed'[u] = missed[u]

CacheOk ==
    cache'.block =< head /\ (Fresh' => cache'.read =< FetchTicks + cache'.age)

LEMMA OneTask ==
    ASSUME Inv, head' = head, TypeOK', CacheOk,
           NEW t \in Tasks, TaskOk(t), Alone(t)
    PROVE  Inv'
<1>0. \A w \in Workers : w \in Tasks /\ w # Main
  BY AnalysisAssumption DEF Tasks
<1>1. BlockInv'
  BY DEF Inv, BlockInv, TaskOk, Alone, CacheOk
<1>2. AgeInv'
  BY DEF Inv, AgeInv, TaskOk, Alone, CacheOk
<1>3. StateAgeBounded'
  BY <1>0 DEF Inv, StateAgeBounded, TaskOk, Alone
<1>4. OwnFetchNotOlder'
  BY <1>0 DEF Inv, OwnFetchNotOlder, StateUsed, TaskOk, Alone
<1> QED BY <1>1, <1>2, <1>3, <1>4 DEF Inv

\* A step of main or of a worker: each leaves the others alone, and what it
\* stores in the cache is as young as a fetch.
LEMMA Forgotten ==
    ASSUME TypeOK, NEW t \in Tasks, Forget(t)
    PROVE  /\ block' = [block EXCEPT ![t] = 0] /\ block'[t] = 0
           /\ missed' = [missed EXCEPT ![t] = 0] /\ missed'[t] = 0
           /\ block' \in [Tasks -> 0 .. MaxBlock]
           /\ missed' \in [Tasks -> 0 .. MaxBlock]
           /\ read' \in [Tasks -> 0 .. MaxAge]
           /\ source' \in [Tasks -> {"none", "cache", "fetched", "snapshot"}]
           /\ \A u \in Tasks \ {t} :
                 /\ block'[u] = block[u] /\ read'[u] = read[u]
                 /\ source'[u] = source[u] /\ missed'[u] = missed[u]
<1>1. 0 \in 0 .. MaxBlock /\ 0 \in 0 .. MaxAge
  BY AnalysisAssumption, Limits
<1> QED BY <1>1 DEF Forget, TypeOK

\* A cache that is left alone, and one that a fetch has just been stored in.
LEMMA CacheKept == Inv /\ UNCHANGED cache => CacheOk
  BY DEF Inv, BlockInv, AgeInv, CacheOk, Fresh

LEMMA CacheUpdated ==
    ASSUME Inv, NEW t \in Tasks, stage[t] = "block", cache' = Updated(t)
    PROVE  /\ cache' \in [block : 0 .. MaxBlock, read : 0 .. MaxAge,
                          age : 0 .. Ttl]
           /\ CacheOk
<1>1. block[t] \in 0 .. MaxBlock /\ read[t] \in 0 .. MaxAge /\ 0 \in 0 .. Ttl
  BY Limits DEF Inv, TypeOK
<1>2. block[t] =< head /\ read[t] =< FetchTicks
  BY DEF Inv, BlockInv, AgeInv
<1> QED BY <1>1, <1>2, Limits DEF Updated, CacheOk, Fresh

LEMMA NumberAnsweredStep ==
    ASSUME Inv, NEW t \in Tasks, NumberAnswered(t)
    PROVE  Inv'
<1>0. 0 \in 0 .. MaxAge /\ head \in 0 .. MaxBlock /\ missed[t] =< head
  BY Limits DEF Inv, TypeOK, BlockInv
<1>a1. PICK b \in 0 .. head : /\ head =< b + Lag
                            /\ block' = [block EXCEPT ![t] = b]
  BY DEF NumberAnswered
<1>a2. b \in 0 .. MaxBlock /\ b =< head /\ b + Lag >= missed[t]
  BY <1>0, <1>a1, AnalysisAssumption DEF Inv, TypeOK
<1>1. TypeOK'
  BY <1>0, <1>a1, <1>a2 DEF NumberAnswered, Inv, TypeOK
<1>2. Alone(t)
  BY <1>a1 DEF NumberAnswered, Inv, TypeOK, Alone
<1>3. TaskOk(t)
  <2>1. stage'[t] = "block" /\ block'[t] = b /\ read'[t] = 0
        /\ missed'[t] = missed[t]
    BY <1>a1 DEF NumberAnswered, Inv, TypeOK
  <2> QED BY <1>0, <1>a2, <2>1, Limits DEF TaskOk
<1>4. CacheOk /\ head' = head
  BY CacheKept DEF NumberAnswered
<1> QED BY <1>1, <1>2, <1>3, <1>4, OneTask

\* Steps after which a task has no state, and the cache is as good as before.
LEMMA ForgetStep ==
    ASSUME Inv, NEW t \in Tasks, Forget(t), UNCHANGED head,
           NEW label \in {"idle", "handle"},
           stage' = [stage EXCEPT ![t] = label],
           cache' \in [block : 0 .. MaxBlock, read : 0 .. MaxAge, age : 0 .. Ttl],
           CacheOk
    PROVE  Inv'
<1>0. TypeOK
  BY DEF Inv
<1>1. TypeOK'
  BY <1>0, Forgotten DEF TypeOK
<1>2. Alone(t)
  BY <1>0, Forgotten DEF TypeOK, Alone
<1>3. TaskOk(t)
  BY <1>0, Forgotten DEF TypeOK, TaskOk
<1> QED BY <1>1, <1>2, <1>3, OneTask

\* Steps that keep what a task has, on its way to a request.
LEMMA StageStep ==
    ASSUME Inv, NEW t \in Tasks, NEW label \in {"resolve", "number"},
           stage' = [stage EXCEPT ![t] = label],
           UNCHANGED <<head, cache, block, read, source, missed>>
    PROVE  Inv'
<1>1. TypeOK'
  BY DEF Inv, TypeOK
<1>2. Alone(t)
  BY DEF Inv, TypeOK, Alone
<1>3. TaskOk(t)
  BY DEF Inv, TypeOK, BlockInv, TaskOk
<1> QED BY <1>1, <1>2, <1>3, CacheKept, OneTask

LEMMA CacheMissStep ==
    ASSUME Inv, NEW w \in Workers, CacheMiss(w)
    PROVE  Inv'
<1>0. w \in Tasks /\ cache.block \in 0 .. MaxBlock /\ cache.block =< head
  BY DEF Inv, TypeOK, BlockInv, Tasks
<1>1. TypeOK'
  BY <1>0 DEF CacheMiss, Inv, TypeOK
<1>2. Alone(w)
  BY <1>0 DEF CacheMiss, Inv, TypeOK, Alone
<1>3. TaskOk(w)
  BY <1>0 DEF CacheMiss, Inv, TypeOK, BlockInv, TaskOk
<1>4. CacheOk /\ head' = head
  BY CacheKept DEF CacheMiss
<1> QED BY <1>0, <1>1, <1>2, <1>3, <1>4, OneTask

\* A worker has its state.
LEMMA ResolvedStep ==
    ASSUME Inv, NEW w \in Workers,
           NEW from \in {"cache", "fetched", "snapshot"},
           NEW b \in 0 .. MaxBlock, NEW age \in 0 .. MaxAge,
           Resolved(w, from, b, age),
           b =< head, from = "fetched" => b + Lag >= missed[w],
           from # "snapshot" => age < Ttl + FetchTicks,
           cache' \in [block : 0 .. MaxBlock, read : 0 .. MaxAge, age : 0 .. Ttl],
           CacheOk
    PROVE  Inv'
<1>0. w \in Tasks
  BY DEF Tasks
<1>1. TypeOK'
  BY <1>0 DEF Resolved, Inv, TypeOK
<1>2. Alone(w)
  BY <1>0 DEF Resolved, Inv, TypeOK, Alone
<1>3. TaskOk(w)
  BY <1>0 DEF Resolved, Inv, TypeOK, BlockInv, TaskOk
<1>4. head' = head
  BY DEF Resolved
<1> QED BY <1>0, <1>1, <1>2, <1>3, <1>4, OneTask

\* The cached state, from the hit: it is fresh, and no older than it can be.
\* From the snapshot: of any age.
LEMMA FromCache ==
    Inv => /\ cache.block \in 0 .. MaxBlock /\ cache.block =< head
           /\ cache.read \in 0 .. MaxAge
           /\ Fresh => cache.read < Ttl + FetchTicks
<1> SUFFICES ASSUME Inv
             PROVE  /\ cache.block \in 0 .. MaxBlock /\ cache.block =< head
                    /\ cache.read \in 0 .. MaxAge
                    /\ Fresh => cache.read < Ttl + FetchTicks
  OBVIOUS
<1>1. /\ cache.block \in 0 .. MaxBlock /\ cache.read \in 0 .. MaxAge
      /\ cache.age \in 0 .. Ttl
  BY DEF Inv, TypeOK
<1>2. cache.block =< head
  BY DEF Inv, BlockInv
<1>3. Fresh => cache.read =< FetchTicks + cache.age /\ cache.age < Ttl
  BY DEF Inv, AgeInv, Fresh
<1> QED BY <1>1, <1>2, <1>3, Limits

LEMMA CacheHitStep ==
    ASSUME Inv, NEW w \in Workers, CacheHit(w)
    PROVE  Inv'
<1>1. /\ Fresh /\ UNCHANGED cache
      /\ Resolved(w, "cache", cache.block, cache.read)
  BY DEF CacheHit
<1>2. CacheOk /\ cache' \in [block : 0 .. MaxBlock, read : 0 .. MaxAge,
                              age : 0 .. Ttl]
  BY <1>1, CacheKept DEF Inv, TypeOK
<1> QED BY <1>1, <1>2, FromCache, ResolvedStep

LEMMA FetchedStep ==
    ASSUME Inv, NEW w \in Workers, Fetched(w)
    PROVE  Inv'
<1>1. /\ stage[w] = "block" /\ cache' = Updated(w) /\ w \in Tasks
      /\ Resolved(w, "fetched", block[w], read[w])
  BY DEF Fetched, Tasks
<1>2. /\ block[w] \in 0 .. MaxBlock /\ read[w] \in 0 .. MaxAge
      /\ block[w] =< head /\ block[w] + Lag >= missed[w] /\ read[w] =< FetchTicks
  BY <1>1 DEF Inv, TypeOK, BlockInv, AgeInv
<1>3. read[w] < Ttl + FetchTicks
  BY <1>2, Limits
<1> QED BY <1>1, <1>2, <1>3, CacheUpdated, ResolvedStep

LEMMA FetchFailedStep ==
    ASSUME Inv, NEW w \in Workers, FetchFailed(w)
    PROVE  Inv'
<1>1. UNCHANGED cache /\ Resolved(w, "snapshot", cache.block, cache.read)
  BY DEF FetchFailed
<1>2. CacheOk /\ cache' \in [block : 0 .. MaxBlock, read : 0 .. MaxAge,
                              age : 0 .. Ttl]
  BY <1>1, CacheKept DEF Inv, TypeOK
<1> QED BY <1>1, <1>2, FromCache, ResolvedStep

\* The refresh of main ends.
LEMMA RefreshStep == Inv /\ (Refreshed \/ RefreshFailed) => Inv'
<1> SUFFICES ASSUME Inv, Refreshed \/ RefreshFailed PROVE Inv'
  OBVIOUS
<1>0. Main \in Tasks
  BY DEF Tasks
<1>1. /\ stage' = [stage EXCEPT ![Main] = "idle"] /\ Forget(Main)
      /\ UNCHANGED head
  BY DEF Refreshed, RefreshFailed, RefreshEnds
<1>2. CacheOk /\ cache' \in [block : 0 .. MaxBlock, read : 0 .. MaxAge,
                              age : 0 .. Ttl]
  <2>1. CASE Refreshed
    BY <1>0, <2>1, CacheUpdated DEF Refreshed
  <2>2. CASE RefreshFailed
    BY <2>2, CacheKept DEF RefreshFailed, Inv, TypeOK
  <2> QED BY <2>1, <2>2
<1> QED BY <1>0, <1>1, <1>2, ForgetStep

\* The analysis of a worker ends, or what comes after it.
LEMMA WorkerGoesToStep ==
    ASSUME Inv, NEW w \in Workers, NEW label \in {"idle", "handle"},
           WorkerGoesTo(w, label)
    PROVE  Inv'
<1>1. /\ stage' = [stage EXCEPT ![w] = label] /\ Forget(w)
      /\ UNCHANGED head /\ UNCHANGED cache /\ w \in Tasks
  BY DEF WorkerGoesTo, Tasks
<1>2. CacheOk /\ cache' \in [block : 0 .. MaxBlock, read : 0 .. MaxAge,
                              age : 0 .. Ttl]
  BY <1>1, CacheKept DEF Inv, TypeOK
<1> QED BY <1>1, <1>2, ForgetStep

\* Every step preserves the invariant.
LEMMA InvStep == Inv /\ [Next]_vars => Inv'
<1> SUFFICES ASSUME Inv, [Next]_vars PROVE Inv'
  OBVIOUS
<1>0. Main \in Tasks /\ \A w \in Workers : w \in Tasks
  BY DEF Tasks
<1>1. CASE NewBlock
  BY <1>1, NewBlockStep
<1>2. CASE Tick
  BY <1>2, TickStep
<1>3. CASE RefreshTick
  BY <1>0, <1>3, StageStep DEF RefreshTick
<1>4. CASE NumberAnswered(Main)
  BY <1>0, <1>4, NumberAnsweredStep
<1>5. CASE Refreshed \/ RefreshFailed
  BY <1>5, RefreshStep
<1>6. ASSUME NEW w \in Workers, Spawn(w) PROVE Inv'
  BY <1>0, <1>6, StageStep DEF Spawn
<1>7. ASSUME NEW w \in Workers, WorkerStep(w) PROVE Inv'
  <2>1. CASE CacheHit(w)
    BY <2>1, CacheHitStep
  <2>2. CASE CacheMiss(w)
    BY <2>2, CacheMissStep
  <2>3. CASE NumberAnswered(w)
    BY <1>0, <2>3, NumberAnsweredStep
  <2>4. CASE Fetched(w)
    BY <2>4, FetchedStep
  <2>5. CASE FetchFailed(w)
    BY <2>5, FetchFailedStep
  <2>6. ASSUME NEW tx \in Candidates,
               Panic(w, tx) \/ Declined(w, tx) \/ Found(w, tx)
        PROVE  Inv'
    BY <2>6, WorkerGoesToStep DEF Panic, Declined, Found
  <2>7. CASE Handled(w)
    BY <2>7, WorkerGoesToStep DEF Handled
  <2> QED
    BY <1>7, <2>1, <2>2, <2>3, <2>4, <2>5, <2>6, <2>7 DEF WorkerStep
<1>8. CASE UNCHANGED vars
  <2>1. TypeOK'
    BY <1>8 DEF Inv, TypeOK, vars, taskVars
  <2>2. BlockInv'
    BY <1>8 DEF Inv, BlockInv, vars, taskVars
  <2>3. AgeInv'
    BY <1>8 DEF Inv, AgeInv, Fresh, vars, taskVars
  <2>4. StateAgeBounded' /\ OwnFetchNotOlder'
    BY <1>8
    DEF Inv, StateAgeBounded, OwnFetchNotOlder, StateUsed, vars, taskVars
  <2> QED BY <2>1, <2>2, <2>3, <2>4 DEF Inv
<1> QED
  BY <1>1, <1>2, <1>3, <1>4, <1>5, <1>6, <1>7, <1>8 DEF Next, MainStep

\* The inductive invariant holds in every reachable state.
THEOREM Invariance == Spec => []Inv
<1> QED BY InitInv, InvStep, PTL DEF Spec

\* The variables keep their types: the ages of the states that are in use do not
\* pass what they are counted to.
THEOREM AnalysisTypeCorrect == Spec => []TypeOK
<1>1. Inv => TypeOK
  BY DEF Inv
<1> QED BY <1>1, Invariance, PTL

\* resolve_network_state gives a state that is younger than the time to live of
\* the cache and a fetch, unless the node does not answer.
THEOREM StateNeverTooOld == Spec => []StateAgeBounded
<1>1. Inv => StateAgeBounded
  BY DEF Inv
<1> QED BY <1>1, Invariance, PTL

\* A worker that fetched is analysing under a block that is behind the one it
\* found expired by no more than its endpoint lags, whoever else stored a state
\* meanwhile: for every lag, none included.
THEOREM OwnFetchStands == Spec => []OwnFetchNotOlder
<1>1. Inv => OwnFetchNotOlder
  BY DEF Inv
<1> QED BY <1>1, Invariance, PTL

-----------------------------------------------------------------------------
(* The verdict of evaluate *)

\* A candidate that transfers tokens is no opportunity.
LEMMA TransferNoOpportunity ==
    ASSUME SlippageBps >= 50, NEW tx \in Candidates, NEW ratio,
           tx.interaction.kind = "erc20"
    PROVE  Evaluate(tx, ratio) # "opportunity"
<1> DEFINE a == tx.interaction.amount
           gas == ReplacementGasCost(tx)
           slip == SaturatingMul(a, SlippageBps) \div 10000
<1>1. IsParsed(tx)
  BY AnalysisAssumption
<1>2. a \in 0 .. U256Max /\ tx.interaction.method = "none"
      /\ tx.gasLimit \in Nat /\ tx.gasPrice \in Nat
  BY <1>1, WidthAssumption DEF IsParsed
<1>3. ~IsSwap(tx.interaction)
  BY <1>2 DEF IsSwap, KnownMethods
<1>4. GrossProfit(tx) = TokenCapture(a)
  BY <1>3 DEF GrossProfit
<1>5. SlippageCost(tx) = slip
  BY <1>3 DEF SlippageCost, InferDexQuotes, SwapAmount
<1>6. gas \in Nat
  <2> DEFINE raised == (tx.gasPrice * BumpPercent) \div 100
  <2>1. raised \in Nat
    BY <1>2, ProfitAssumption, Division
  <2>2. BumpedGas(tx.gasPrice) \in Nat
    BY <1>2, <2>1 DEF BumpedGas
  <2> QED BY <1>2, <2>2, WidthAssumption DEF ReplacementGasCost, SaturatingMul
<1>7. slip \in 0 .. U256Max
  <2>1. SaturatingMul(a, SlippageBps) \in 0 .. U256Max
    BY <1>2, ProfitAssumption, SaturatedProduct
  <2> QED BY <2>1, WidthAssumption, Division
<1>8. TokenCapture(a) \in Nat
  <2> DEFINE five == SaturatingMul(a, 5)
  <2>1. five \in 0 .. U256Max
    <3>1. 5 \in Nat \ {0}
      OBVIOUS
    <3> HIDE DEF a
    <3> QED BY <1>2, <3>1, SaturatedProduct
  <2>2. TokenCapture(a) = five \div 1000
    BY DEF TokenCapture
  <2> HIDE DEF five
  <2>3. five \div 1000 \in Nat
    BY <2>1, WidthAssumption
  <2> QED BY <2>2, <2>3
<1>9. TotalCost(tx) \in Nat /\ slip =< TotalCost(tx)
  BY <1>5, <1>6, <1>7, CostCoversSlippage DEF TotalCost
<1> HIDE DEF a, gas, slip
<1>10. SUFFICES ASSUME ~EvaluatePanics(tx), IsProfitable(tx) PROVE FALSE
  BY DEF Evaluate
<1>11. TokenCapture(a) > TotalCost(tx)
  BY <1>4, <1>8, <1>9, <1>10 DEF IsProfitable, NetProfit, SaturatingSub
<1>12. TokenCapture(a) \div Eth =< MaxWholeEth \/ slip = 0
  <2>1. CASE TotalCost(tx) # 0
    <3>1. ~(TokenCapture(a) \div Eth > MaxWholeEth)
      BY <1>4, <1>10, <2>1 DEF EvaluatePanics, AnalysisPanics, WeiToEthPanics
    <3>2. TokenCapture(a) \div Eth \in Nat
      BY <1>8, WidthAssumption, Division
    <3> QED BY <3>1, <3>2, WidthAssumption
  <2>2. CASE TotalCost(tx) = 0
    BY <1>7, <1>9, <2>2
  <2> QED BY <2>1, <2>2
<1>13. TokenCapture(a) =< slip
  BY <1>2, <1>12, CaptureBelowSlippage DEF a, slip
<1> QED BY <1>7, <1>8, <1>9, <1>11, <1>13, WidthAssumption

\* Whatever is transferred, and to whatever state of the network, the detector
\* makes no opportunity of a transfer of tokens.
THEOREM TransfersDeclined == Spec => []TokenTransfersDeclined
<1>1. TokenTransfersDeclined
  <2> SUFFICES ASSUME SlippageBps >= 50, NEW w \in Workers,
                      NEW tx \in Candidates, Evaluated(w, tx, "opportunity")
               PROVE  tx.interaction.kind # "erc20"
    BY DEF TokenTransfersDeclined
  <2>1. PICK b \in 0 .. MaxBlock : Evaluate(tx, Ratio[b]) = "opportunity"
    BY DEF Evaluated, Verdicts
  <2> QED BY <2>1, TransferNoOpportunity
<1> QED BY <1>1, PTL

\* An opportunity the detector finds pays for the gas of its replacement, with the
\* return that is asked for, at every amount and under every state of the network.
THEOREM OpportunitiesPay == Spec => []FoundPays
<1>1. FoundPays
  <2> SUFFICES ASSUME NEW w \in Workers, NEW tx \in Candidates,
                      Evaluated(w, tx, "opportunity")
               PROVE  LET cost == tx.gasLimit * BumpedGas(tx.gasPrice)
                          net == GrossProfit(tx) - cost
                      IN  net > 0 /\ net * 100 >= MinRoi * cost
    BY DEF FoundPays
  <2>1. PICK b \in 0 .. MaxBlock : Evaluate(tx, Ratio[b]) = "opportunity"
    BY DEF Evaluated, Verdicts
  <2>2. IsParsed(tx)
    BY AnalysisAssumption
  <2> QED BY <2>1, <2>2, OpportunityPays
<1> QED BY <1>1, PTL

=============================================================================
