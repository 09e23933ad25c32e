------------------------------ MODULE Analysis ------------------------------
(***************************************************************************)
(* The network state that transactions are analysed with: main's refresh   *)
(* and the workers' resolve_network_state, which fetch it from the node    *)
(* and share it through the NetworkStateCache, and the verdict of          *)
(* OpportunityDetector::evaluate on a transaction under that state.        *)
(*                                                                         *)
(* fetch_network_state asks for the number of the latest block, for that   *)
(* block, and for the gas price; a task is at one of these requests.  Of   *)
(* the state fetched, the block is kept, which fixes the ratio of its gas  *)
(* used; the fees go into the network floors of Executor.tla.  Each        *)
(* request goes to the next endpoint of the rotation, so two fetches may   *)
(* be answered by endpoints that do not see the same head.  Time is        *)
(* counted in ticks.                                                       *)
(***************************************************************************)
EXTENDS Opportunity

CONSTANTS
    Workers,      \* the workers, server.worker_count of them
    Main,         \* main, which refreshes the cache
    Candidates,   \* parsed transactions that a worker may be given
    Ratio,        \* Ratio[b]: block_gas_used_ratio of block b, in percent
    Ttl,          \* server.network_cache_ttl_secs, in ticks
    FetchTicks,   \* the timeouts of the last two requests together, in ticks
    Lag,          \* how many blocks an endpoint that answers may be behind;
                  \* the code neither bounds it nor looks at it
    MaxBlock      \* bound on the blocks that are explored

ASSUME AnalysisAssumption ==
    /\ IsFiniteSet(Workers) /\ Main \notin Workers
    /\ \A tx \in Candidates :
          IsParsed(tx) /\ Passes(tx)          \* Mempool forwards no other
    /\ MaxBlock \in Nat /\ Ratio \in [0 .. MaxBlock -> Nat]
    /\ Ttl \in Nat \ {0}                      \* cache_ttl_secs.max(1)
    /\ FetchTicks \in Nat \ {0} /\ Lag \in Nat

VARIABLES
    head,    \* the latest block of the chain
    cache,   \* NetworkStateCache: the block of the state, how long ago its
             \* number was read, and how long ago `update' stored it
    stage,   \* the request or the .await each task is at
    block,   \* the block of the state that a task fetches or has resolved
    read,    \* how long ago its number was read; it stops when it is resolved
    source,  \* where a worker has its state from
    missed   \* history: the block of the cache when a worker last missed it

taskVars == <<stage, block, read, source, missed>>
vars == <<head, cache, taskVars>>

Tasks == Workers \cup {Main}

\* Ages are counted up to this bound, which no state in use should reach.
MaxAge == Ttl + FetchTicks

TypeOK ==
    /\ head \in 0 .. MaxBlock
    /\ cache \in [block : 0 .. MaxBlock, read : 0 .. MaxAge, age : 0 .. Ttl]
    /\ stage \in [Tasks -> {"idle", "resolve", "number", "block", "evaluate",
                            "handle"}]
    /\ block \in [Tasks -> 0 .. MaxBlock]
    /\ read \in [Tasks -> 0 .. MaxAge]
    /\ source \in [Tasks -> {"none", "cache", "fetched", "snapshot"}]
    /\ missed \in [Tasks -> 0 .. MaxBlock]

\* main has fetched the state and updated the cache before its loop begins.
Init ==
    /\ head = 0
    /\ cache = [block |-> 0, read |-> 0, age |-> 0]
    /\ stage = [t \in Tasks |-> "idle"]
    /\ block = [t \in Tasks |-> 0]
    /\ read = [t \in Tasks |-> 0]
    /\ source = [t \in Tasks |-> "none"]
    /\ missed = [t \in Tasks |-> 0]

-----------------------------------------------------------------------------
(* The chain and the clock *)

NewBlock ==
    /\ head < MaxBlock /\ head' = head + 1
    /\ UNCHANGED <<cache, taskVars>>

Aged(ticks, limit) == IF ticks < limit THEN ticks + 1 ELSE limit

\* Mutant of Tick: requests without a timeout.
Tick_NoTimeout ==
    /\ cache' = [cache EXCEPT !.read = Aged(@, MaxAge), !.age = Aged(@, Ttl)]
    /\ read' = [t \in Tasks |->
                  IF stage[t] = "block" THEN read[t] + 1 ELSE read[t]]
    /\ UNCHANGED <<head, stage, block, source, missed>>

\* The last two requests are under timeouts: a fetch that has used them up ends
\* before time goes on.
Tick ==
    /\ \A t \in Tasks : stage[t] = "block" => read[t] < FetchTicks
    /\ cache' = [cache EXCEPT !.read = Aged(@, MaxAge), !.age = Aged(@, Ttl)]
    /\ read' = [t \in Tasks |->
                  IF stage[t] = "block" THEN read[t] + 1 ELSE read[t]]
    /\ UNCHANGED <<head, stage, block, source, missed>>

-----------------------------------------------------------------------------
(* fetch_network_state and the cache *)

\* Mutant of Fresh: the time to live is not looked at.
Fresh_Always == TRUE

\* NetworkStateCache::get finds a state.
Fresh == cache.age < Ttl

\* Mutant of Updated: a state that is there is kept.
Updated_OnlyIfEmpty(t) == cache

\* NetworkStateCache::update: the state is stored and counts as new from now
\* on, whenever it was fetched and whatever it replaces.
Updated(t) == [block |-> block[t], read |-> read[t], age |-> 0]

\* A task that is done with its state.
Forget(t) ==
    /\ block' = [block EXCEPT ![t] = 0]
    /\ read' = [read EXCEPT ![t] = 0]
    /\ source' = [source EXCEPT ![t] = "none"]
    /\ missed' = [missed EXCEPT ![t] = 0]

\* get_block_number is answered, by an endpoint that may lag behind the chain.
\* That the next endpoint does not have that block (yet) is among the failures
\* of the request for it.
NumberAnswered(t) ==
    /\ stage[t] = "number"
    /\ stage' = [stage EXCEPT ![t] = "block"]
    /\ \E b \in 0 .. head : head =< b + Lag /\ block' = [block EXCEPT ![t] = b]
    /\ read' = [read EXCEPT ![t] = 0]
    /\ UNCHANGED <<head, cache, source, missed>>

(* main *)

\* The tick of network_refresh is taken.
RefreshTick ==
    /\ stage[Main] = "idle"
    /\ stage' = [stage EXCEPT ![Main] = "number"]
    /\ UNCHANGED <<head, cache, block, read, source, missed>>

RefreshEnds ==
    /\ stage' = [stage EXCEPT ![Main] = "idle"]
    /\ Forget(Main)
    /\ UNCHANGED head

Refreshed == stage[Main] = "block" /\ cache' = Updated(Main) /\ RefreshEnds

\* A request fails, or there is no such block: a warning.
RefreshFailed ==
    stage[Main] \in {"number", "block"} /\ UNCHANGED cache /\ RefreshEnds

(* A worker: resolve_network_state *)

\* spawn_analysis.
Spawn(w) ==
    /\ stage[w] = "idle"
    /\ stage' = [stage EXCEPT ![w] = "resolve"]
    /\ UNCHANGED <<head, cache, block, read, source, missed>>

Resolved(w, from, b, age) ==
    /\ stage' = [stage EXCEPT ![w] = "evaluate"]
    /\ source' = [source EXCEPT ![w] = from]
    /\ block' = [block EXCEPT ![w] = b]
    /\ read' = [read EXCEPT ![w] = age]
    /\ UNCHANGED <<head, missed>>

CacheHit(w) ==
    /\ stage[w] = "resolve" /\ Fresh
    /\ Resolved(w, "cache", cache.block, cache.read)
    /\ UNCHANGED cache

\* Nothing keeps others that miss from fetching as well.
CacheMiss(w) ==
    /\ stage[w] = "resolve" /\ ~Fresh
    /\ stage' = [stage EXCEPT ![w] = "number"]
    /\ missed' = [missed EXCEPT ![w] = cache.block]
    /\ UNCHANGED <<head, cache, block, read, source>>

\* The fetch succeeds: the cache is updated, and the worker goes on with the
\* state it fetched.
Fetched(w) ==
    /\ stage[w] = "block"
    /\ cache' = Updated(w)
    /\ Resolved(w, "fetched", block[w], read[w])

\* It fails: the worker goes on with the state last cached, however old.  (The
\* fallback it was spawned with is not needed: the cache is never empty.)
FetchFailed(w) ==
    /\ stage[w] \in {"number", "block"}
    /\ Resolved(w, "snapshot", cache.block, cache.read)
    /\ UNCHANGED cache

(* A worker: evaluate, under the Mutex of the detector *)

\* Mutant of StateUsed: the cache is read again after the update.
StateUsed_FromCache(w) == cache.block

\* The network state evaluate is called with.
StateUsed(w) == block[w]

WorkerGoesTo(w, label) ==
    /\ stage' = [stage EXCEPT ![w] = label]
    /\ Forget(w)
    /\ UNCHANGED <<head, cache>>

\* The verdicts of evaluate, which depend on nothing that changes.
Verdicts ==
    {<<tx, b, Evaluate(tx, Ratio[b])>> : tx \in Candidates, b \in 0 .. MaxBlock}

\* evaluate returns `verdict' on tx to worker w.
Evaluated(w, tx, verdict) ==
    stage[w] = "evaluate" /\ <<tx, StateUsed(w), verdict>> \in Verdicts

\* evaluate panics.  The task ends, its permit is dropped by the unwinding and
\* the Mutex, which knows no poisoning, is freed.
Panic(w, tx) == Evaluated(w, tx, "panic") /\ WorkerGoesTo(w, "idle")

Declined(w, tx) == Evaluated(w, tx, "declined") /\ WorkerGoesTo(w, "idle")

\* The transaction is scored and goes to handle_opportunity.
Found(w, tx) == Evaluated(w, tx, "opportunity") /\ WorkerGoesTo(w, "handle")

\* handle_opportunity returns, at once or after an execution.
Handled(w) == stage[w] = "handle" /\ WorkerGoesTo(w, "idle")

-----------------------------------------------------------------------------

MainStep ==
    RefreshTick \/ NumberAnswered(Main) \/ Refreshed \/ RefreshFailed

WorkerStep(w) ==
    \/ CacheHit(w) \/ CacheMiss(w)
    \/ NumberAnswered(w) \/ Fetched(w) \/ FetchFailed(w)
    \/ \E tx \in Candidates : Panic(w, tx) \/ Declined(w, tx) \/ Found(w, tx)
    \/ Handled(w)

Next ==
    \/ NewBlock \/ Tick \/ MainStep
    \/ \E w \in Workers : Spawn(w) \/ WorkerStep(w)

Spec == Init /\ [][Next]_vars

\* main is scheduled, its requests are under a timeout, and it comes round to
\* its refresh (RefreshHappens of Runtime.tla).  Of the node it is assumed that
\* a request of main's that is made again and again is answered at some time.
\* Of the workers nothing is assumed.
FairSpec ==
    /\ Spec
    /\ WF_vars(MainStep) /\ SF_vars(NumberAnswered(Main)) /\ SF_vars(Refreshed)

-----------------------------------------------------------------------------
(* Safety *)

\* How stale the state of an analysis can be while the node answers: not the
\* time to live of the cache, but that and a fetch, for a slow fetch is stored
\* as if it were new.  (The age counts from the answer, lagging or not.)
StateAgeBounded ==
    \A w \in Workers :
       stage[w] = "evaluate" /\ source[w] # "snapshot" =>
          read[w] < Ttl + FetchTicks

\* A worker that had to fetch falls back behind the state it found expired by no
\* more than the endpoint that answers it lags, though a slower task may have
\* overwritten the cache with a still older block meanwhile.  (It may fall back
\* so far: nothing compares the block fetched with the one that expired.)
OwnFetchNotOlder ==
    \A w \in Workers :
       stage[w] = "evaluate" /\ source[w] = "fetched" =>
          StateUsed(w) + Lag >= missed[w]

\* No token transfer becomes an opportunity, whatever its amount: capture and
\* slippage cost are the same fraction of it up to where U256 saturates, and
\* well before that the conversion panics.  For a tolerance of 0.5 % and more.
TokenTransfersDeclined ==
    SlippageBps >= 50 =>
       \A w \in Workers, tx \in Candidates :
          Evaluated(w, tx, "opportunity") => tx.interaction.kind # "erc20"

\* An opportunity returns MinRoi percent on the gas of its replacement at the
\* bumped price, counted exactly: neither the saturation of amounts nor the
\* truncation of the percentage lets one through that does not.  Executor.tla
\* assumes this of the opportunities it is handed.
FoundPays ==
    \A w \in Workers, tx \in Candidates :
       Evaluated(w, tx, "opportunity") =>
          LET cost == tx.gasLimit * BumpedGas(tx.gasPrice)
              net == GrossProfit(tx) - cost
          IN  net > 0 /\ net * 100 >= MinRoi * cost

(* Liveness *)

\* Late writes of older states do not hold the cache back for good: when the
\* chain stops at a block, the cache comes to stay within the lag of the
\* endpoints of it, in whatever order they answer.
CacheCatchesUp ==
    \A b \in 0 .. MaxBlock : <>[](head = b) => <>[](cache.block + Lag >= b)

=============================================================================
