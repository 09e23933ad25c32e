------------------------------ MODULE Runtime ------------------------------
(***************************************************************************)
(* main's select loop, the TransactionWorkerPool with its semaphore and    *)
(* NetworkStateCache, the OpportunityDetector's queue behind its Mutex,    *)
(* the executor's Mutex, the readiness flag and Ctrl-C.                    *)
(*                                                                         *)
(* An execution (Executor.tla) is one stay of a worker at the head of the  *)
(* Mutex's queue of waiters, which is first come first served.  Of the     *)
(* cached network state only its presence and its age matter here.         *)
(***************************************************************************)
EXTENDS Integers, Sequences, FiniteSets, SequencesExt

CONSTANTS
    Txs,               \* transactions in flight; one that is done comes again
    NoTx,              \* main holds no transaction
    Score,             \* Score[tx]: the priority scores evaluate may give tx,
                       \* as the network state goes; 0 is no opportunity
    Panicking,         \* those evaluate panics on: EvaluatePanics, Opportunity.tla
    ExecutionEnabled,  \* a wallet is configured
    WorkerCount,       \* server.worker_count
    MaxQueueSize       \* analysis.max_queue_size

ASSUME RuntimeAssumption ==
    /\ IsFiniteSet(Txs) /\ NoTx \notin Txs
    /\ Score \in [Txs -> (SUBSET Nat) \ {{}}] /\ Panicking \subseteq Txs
    /\ ExecutionEnabled \in BOOLEAN
    /\ WorkerCount \in Nat \ {0}     \* Settings::validate
    /\ MaxQueueSize \in Nat

VARIABLES
    main,       \* the .await main is at
    mainTx,     \* the transaction main is handing to a worker
    inbox,      \* the channel of the MempoolStream
    refresh,    \* network_refresh: its next tick is "due" or "later"
    signal,     \* Ctrl-C: "none", "heard" by a future, "noticed", or "lost"
    ready,      \* the flag behind /ready: "yes" or "no"
    cache,      \* NetworkStateCache: "empty", "fresh" or "stale"
    permits,    \* permits left in the semaphore
    stage,      \* the .await the worker of each transaction is at
    waiters,    \* the executor's Mutex: its holder, then those who wait
    queue       \* scores in the priority queue of the detector, as they came

mainVars == <<main, mainTx, refresh, signal, ready>>
poolVars == <<permits, stage, waiters>>
vars == <<mainVars, inbox, cache, poolVars, queue>>

\* Stages in which a worker runs, and so holds a permit.
Working == {"resolve", "fetch", "evaluate", "scored", "execute"}
Workers == {tx \in Txs : stage[tx] \in Working}

Scores == (UNION {Score[tx] : tx \in Txs}) \ {0}

TypeOK ==
    /\ main \in {"startup", "select", "spawn", "fetch", "drain", "exited"}
    /\ mainTx \in Txs \cup {NoTx}
    /\ inbox \in Seq(Txs)
    /\ refresh \in {"due", "later"}
    /\ signal \in {"none", "heard", "noticed", "lost"}
    /\ ready \in {"yes", "no"} /\ cache \in {"empty", "fresh", "stale"}
    /\ permits \in 0 .. WorkerCount
    /\ stage \in [Txs -> {"idle", "inbox", "taken"} \cup Working]
    /\ waiters \in Seq(Txs)
    /\ queue \in Seq(Scores)

Init ==
    /\ main = "startup" /\ mainTx = NoTx /\ inbox = <<>>
    /\ refresh = "due"          \* the first tick of an interval is immediate
    /\ signal = "none" /\ ready = "no" /\ cache = "empty"
    /\ permits = WorkerCount
    /\ stage = [tx \in Txs |-> "idle"]
    /\ waiters = <<>> /\ queue = <<>>

Running == main # "exited"

-----------------------------------------------------------------------------
(* The environment *)

\* The subscriber, started before the loop, sends a transaction.
Arrive(tx) ==
    /\ Running /\ stage[tx] = "idle"
    /\ inbox' = Append(inbox, tx)
    /\ stage' = [stage EXCEPT ![tx] = "inbox"]
    /\ UNCHANGED <<mainVars, cache, permits, waiters, queue>>

\* The refresh interval and the TTL of the cache elapse.
RefreshDue ==
    /\ Running /\ refresh = "later" /\ refresh' = "due"
    /\ UNCHANGED <<main, mainTx, signal, ready, inbox, cache, poolVars, queue>>

CacheExpires ==
    /\ Running /\ cache = "fresh" /\ cache' = "stale"
    /\ UNCHANGED <<mainVars, inbox, poolVars, queue>>

\* Ctrl-C is pressed.  tokio delivers it to the ctrl_c() futures that exist at
\* that moment, and there is one only while main is in the select!.
PressCtrlC ==
    /\ main \notin {"startup", "drain", "exited"} /\ signal = "none"
    /\ signal' = IF main = "select" THEN "heard" ELSE "lost"
    /\ UNCHANGED <<main, mainTx, refresh, ready, inbox, cache, poolVars, queue>>

-----------------------------------------------------------------------------
(* main *)

\* The network state is fetched and cached, and the bot reports ready.
StartUp ==
    /\ main = "startup"
    /\ cache' = "fresh" /\ ready' = "yes" /\ main' = "select"
    /\ UNCHANGED <<mainTx, refresh, signal, inbox, poolVars, queue>>

\* Any step of the startup fails: main returns the error.
StartUpFails ==
    /\ main = "startup" /\ main' = "exited"
    /\ UNCHANGED <<mainTx, refresh, signal, ready, inbox, cache, poolVars, queue>>

\* When another branch of the select! is taken, the ctrl_c() future is dropped
\* with what it may have heard; the next select! creates a new one.
SignalDropped == IF signal = "heard" THEN "lost" ELSE signal

\* mempool.recv has a transaction.  (It never has an error or the end of the
\* stream: process_pending_hashes sends neither.)
Receive ==
    /\ main = "select" /\ inbox # <<>>
    /\ mainTx' = Head(inbox) /\ inbox' = Tail(inbox)
    /\ stage' = [stage EXCEPT ![Head(inbox)] = "taken"]
    /\ main' = "spawn" /\ signal' = SignalDropped
    /\ UNCHANGED <<refresh, ready, cache, permits, waiters, queue>>

\* spawn_analysis has got a permit.
SpawnAnalysis ==
    /\ main = "spawn" /\ permits > 0
    /\ permits' = permits - 1
    /\ stage' = [stage EXCEPT ![mainTx] = "resolve"]
    /\ main' = "select" /\ mainTx' = NoTx
    /\ UNCHANGED <<refresh, signal, ready, inbox, cache, waiters, queue>>

\* Mutant of RefreshChosen: a biased select! that prefers transactions.
RefreshChosen_Biased == inbox = <<>>

\* The select! takes any branch that is ready.
RefreshChosen == TRUE

RefreshTick ==
    /\ main = "select" /\ refresh = "due" /\ RefreshChosen
    /\ refresh' = "later" /\ main' = "fetch" /\ signal' = SignalDropped
    /\ UNCHANGED <<mainTx, ready, inbox, cache, poolVars, queue>>

\* fetch_network_state succeeds and the cache is updated, or it fails.
RefreshEnds ==
    /\ main = "fetch" /\ main' = "select"
    /\ cache' \in {"fresh", cache}
    /\ UNCHANGED <<mainTx, refresh, signal, ready, inbox, poolVars, queue>>

\* Mutant of ReadyWhileDraining: readiness is not withdrawn.
ReadyWhileDraining_Kept == ready
ReadyWhileDraining == "no"

\* The ctrl_c branch: readiness is withdrawn and the loop left.
NoticeSignal ==
    /\ main = "select" /\ signal = "heard"
    /\ signal' = "noticed" /\ ready' = ReadyWhileDraining /\ main' = "drain"
    /\ UNCHANGED <<mainTx, refresh, inbox, cache, poolVars, queue>>

\* shutdown_drain_secs have passed: the process ends, whatever still runs.
Exit ==
    /\ main = "drain" /\ main' = "exited"
    /\ UNCHANGED <<mainTx, refresh, signal, ready, inbox, cache, poolVars, queue>>

-----------------------------------------------------------------------------
(* A worker *)

WorkerGoesTo(tx, label) == stage' = [stage EXCEPT ![tx] = label]

\* Mutants of PermitsAfter: a transaction that is no opportunity keeps its
\* permit; a permit is given back twice.
PermitsAfter_Kept(tx) ==
    IF stage[tx] = "evaluate" THEN permits ELSE permits + 1
PermitsAfter_Twice(tx) == permits + 2

\* The permit is dropped.
PermitsAfter(tx) == permits + 1

WorkerEnds(tx) == WorkerGoesTo(tx, "idle") /\ permits' = PermitsAfter(tx)

\* resolve_network_state: NetworkStateCache::get finds a fresh state or not.
ResolveNetworkState(tx) ==
    /\ Running /\ stage[tx] = "resolve"
    /\ WorkerGoesTo(tx, IF cache = "fresh" THEN "evaluate" ELSE "fetch")
    /\ UNCHANGED <<mainVars, inbox, cache, permits, waiters, queue>>

\* The fetch succeeds and updates the cache; or it fails and the worker uses
\* the last state cached, which is there (ReadyMeansServing).
FetchEnds(tx) ==
    /\ Running /\ stage[tx] = "fetch"
    /\ WorkerGoesTo(tx, "evaluate")
    /\ cache' \in {"fresh", cache}
    /\ UNCHANGED <<mainVars, inbox, permits, waiters, queue>>

\* OpportunityDetector::enqueue.  The highest score is the one that is peeked
\* at and the one that is popped.
QueueFull == Len(queue) >= MaxQueueSize
Highest == CHOOSE i \in DOMAIN queue :
              \A other \in DOMAIN queue : queue[other] =< queue[i]
Popped == RemoveAt(queue, Highest)

\* Mutant of Enqueued: the score is not compared with the one that leaves.
Enqueued_NoCompare(score) ==
    IF ~QueueFull \/ queue = <<>>
    THEN Append(queue, score) ELSE Append(Popped, score)

\* Mutant of Enqueued: nothing leaves a full queue.
Enqueued_NoPop(score) ==
    IF QueueFull /\ queue # <<>> /\ score =< queue[Highest]
    THEN queue ELSE Append(queue, score)

Enqueued(score) ==
    CASE ~QueueFull \/ queue = <<>> -> Append(queue, score)
      [] QueueFull /\ queue # <<>> /\ score =< queue[Highest] -> queue
      [] OTHER -> Append(Popped, score)

\* evaluate, in one go under the detector's Mutex: an opportunity is queued
\* and handled, anything else ends here.
Evaluate(tx) ==
    /\ Running /\ stage[tx] = "evaluate" /\ tx \notin Panicking
    /\ \E score \in Score[tx] :
          IF score > 0
          THEN /\ queue' = Enqueued(score)
               /\ WorkerGoesTo(tx, "scored") /\ UNCHANGED permits
          ELSE WorkerEnds(tx) /\ UNCHANGED queue
    /\ UNCHANGED <<mainVars, inbox, cache, waiters>>

\* Mutant of PermitsUnwound: the permit is given back by hand, not by its drop.
PermitsUnwound_Leaked == permits

\* The permit is dropped when the task unwinds.
PermitsUnwound == permits + 1

\* evaluate panics: the task ends.  The detector's Mutex is free again, and the
\* queue is as it was, for enqueue comes last.
EvaluatePanics(tx) ==
    /\ Running /\ stage[tx] = "evaluate" /\ tx \in Panicking
    /\ WorkerGoesTo(tx, "idle") /\ permits' = PermitsUnwound
    /\ UNCHANGED <<mainVars, inbox, cache, waiters, queue>>

\* Mutant of HandleOpportunity: the permit is dropped before the execution.
HandleOpportunity_EarlyDrop(tx) ==
    /\ Running /\ stage[tx] = "scored"
    /\ IF ExecutionEnabled
       THEN /\ waiters' = Append(waiters, tx)
            /\ WorkerGoesTo(tx, "execute") /\ permits' = PermitsAfter(tx)
       ELSE WorkerEnds(tx) /\ UNCHANGED waiters
    /\ UNCHANGED <<mainVars, inbox, cache, queue>>

\* handle_opportunity: without an executor it returns, else it asks for the
\* executor's Mutex.
HandleOpportunity(tx) ==
    /\ Running /\ stage[tx] = "scored"
    /\ IF ExecutionEnabled
       THEN /\ waiters' = Append(waiters, tx)
            /\ WorkerGoesTo(tx, "execute") /\ UNCHANGED permits
       ELSE WorkerEnds(tx) /\ UNCHANGED waiters
    /\ UNCHANGED <<mainVars, inbox, cache, queue>>

\* The executor's Mutex goes to the one that has waited longest.
Unlocked == Tail(waiters)

\* execute_opportunity has returned to the holder of the Mutex.
ExecutionEnds(tx) ==
    /\ Running /\ waiters # <<>> /\ tx = Head(waiters) /\ stage[tx] = "execute"
    /\ waiters' = Unlocked
    /\ WorkerEnds(tx)
    /\ UNCHANGED <<mainVars, inbox, cache, queue>>

-----------------------------------------------------------------------------

WorkerStep(tx) ==
    \/ ResolveNetworkState(tx) \/ FetchEnds(tx)
    \/ Evaluate(tx) \/ EvaluatePanics(tx)
    \/ HandleOpportunity(tx) \/ ExecutionEnds(tx)

Environment ==
    \/ RefreshDue \/ CacheExpires \/ PressCtrlC
    \/ \E tx \in Txs : Arrive(tx)

Main ==
    \/ StartUp \/ StartUpFails \/ Receive \/ SpawnAnalysis
    \/ RefreshTick \/ RefreshEnds \/ NoticeSignal \/ Exit

Next == Environment \/ Main \/ \E tx \in Txs : WorkerStep(tx)

Spec == Init /\ [][Next]_vars

\* Tasks are scheduled, requests are under a timeout, executions end
\* (ExecutionSettles of Executor.tla).  select! starts at a random branch, so
\* a branch that is ready again and again is taken: SF.
FairSpec ==
    /\ Spec
    /\ WF_vars(Main)
    /\ SF_vars(Receive) /\ SF_vars(RefreshTick) /\ SF_vars(NoticeSignal)
    /\ \A tx \in Txs : WF_vars(WorkerStep(tx))

-----------------------------------------------------------------------------
(* Safety *)

\* No way through a worker, main or the startup loses or doubles a permit.
PermitsAccounted == permits + Cardinality(Workers) = WorkerCount

\* The detector's queue keeps its bound whatever the order of the workers.
QueueBounded ==
    Len(queue) =< IF MaxQueueSize = 0 THEN 1 ELSE MaxQueueSize

\* The queue is within its bound and has the best score it has seen, whatever is
\* evaluated and in whatever order: enqueue gives up the highest score of a full
\* queue, but only for a higher one.  No more than that is kept.  The code calls
\* what it compares with and gives up the lowest, and a queue that did so would
\* hold the best MaxQueueSize scores; this one turns down every score between its
\* lowest and its highest, and loses its second best to each new best one.
BestScoreKept ==
    [][/\ QueueBounded'
       /\ \A i \in DOMAIN queue :
             \E j \in DOMAIN queue' : queue'[j] >= queue[i]]_vars

\* While /ready says yes, main serves its loop and the cache holds a network
\* state; no worker ever finds the cache empty.
ReadyMeansServing ==
    /\ ready = "yes" => main \in {"select", "spawn", "fetch"} /\ cache # "empty"
    /\ Workers # {} => cache # "empty"

(* Liveness *)

Stopped == main \in {"drain", "exited"}

\* Every transaction that arrives is taken, analysed and, if it is worth it,
\* executed, through the backpressure of the permits and of the executor's
\* Mutex, unless the bot stops.
EveryTransactionSettles ==
    \A tx \in Txs : stage[tx] = "inbox" ~> (stage[tx] = "idle" \/ Stopped)

\* Transactions without end do not keep main from refreshing the network state.
RefreshHappens == refresh = "due" ~> (main = "fetch" \/ Stopped)

-----------------------------------------------------------------------------
(* Refinement *)

Phase ==
    CASE main = "startup" -> "starting"
      [] main = "drain"   -> "draining"
      [] main = "exited"  -> "stopped"
      [] OTHER            -> "serving"

\* The transaction main holds while it waits for a permit is still the first.
Queued == IF main = "spawn" THEN <<mainTx>> \o inbox ELSE inbox

Service == INSTANCE TransactionService WITH
    phase <- Phase, queued <- Queued, working <- Workers, line <- waiters

\* The runtime implements the service: through the channel, main's hands, the
\* permits and the executor's Mutex no transaction overtakes another one on its
\* way to a worker or to its execution, none is dropped or worked on twice,
\* never more than worker_count at a time, and none is taken after Ctrl-C.
ImplementsService == Service!Spec

-----------------------------------------------------------------------------
(* What the code says of itself and does not keep *)

\* main: on Ctrl-C, `shutdown signal received, draining in-flight work'.
ShutdownNoticed == signal # "none" ~> Stopped

=============================================================================
