--------------------------- MODULE RuntimeProofs ---------------------------
(***************************************************************************)
(* Proofs about Runtime, for any transactions, scores, number of workers   *)
(* and length of the detector's queue: permits are neither lost nor        *)
(* doubled, the bot is ready only while it serves, the detector's queue    *)
(* keeps its bound and the best score it has seen, and the runtime         *)
(* implements TransactionService.                                          *)
(***************************************************************************)
EXTENDS Runtime, FiniteSetTheorems, TLAPS

\* What main holds in each of its states.
MainInv ==
    /\ main = "spawn" => mainTx \in Txs /\ stage[mainTx] = "taken"
    /\ main = "startup" => Workers = {}
    /\ main \notin {"startup", "exited"} => cache # "empty"

\* The channel holds each of its transactions once.
InboxInv ==
    /\ \A i \in 1 .. Len(inbox) : stage[inbox[i]] = "inbox"
    /\ \A i, j \in 1 .. Len(inbox) : i # j => inbox[i] # inbox[j]

\* The inductive invariant.
Inv ==
    /\ TypeOK /\ MainInv /\ InboxInv
    /\ PermitsAccounted /\ QueueBounded /\ ReadyMeansServing

-----------------------------------------------------------------------------
(* Lemmas on the scores *)

\* A finite set of numbers that is not empty has a greatest element.  If every
\* element had a greater one, counting the greater ones would map the set
\* injectively into fewer numbers than it has elements.
LEMMA GreatestElement ==
    ASSUME NEW S, S \subseteq Nat, IsFiniteSet(S), S # {}
    PROVE  \E m \in S : \A s \in S : s =< m
<1> DEFINE Above(s) == {t \in S : t > s}
           count == [s \in S |-> Cardinality(Above(s))]
           n == Cardinality(S)
<1>1. n \in Nat
  BY FS_CardinalityType
<1>2. \A s \in S : IsFiniteSet(Above(s)) /\ count[s] \in Nat
  <2> SUFFICES ASSUME NEW s \in S
               PROVE  IsFiniteSet(Above(s)) /\ count[s] \in Nat
    OBVIOUS
  <2>1. IsFiniteSet(Above(s))
    BY FS_Subset, Above(s) \in SUBSET S
  <2> QED BY <2>1, FS_CardinalityType
<1>3. \A s \in S : count[s] =< n - 1
  <2> SUFFICES ASSUME NEW s \in S PROVE count[s] =< n - 1
    OBVIOUS
  <2>1. Above(s) \in SUBSET (S \ {s})
    OBVIOUS
  <2>2. IsFiniteSet(S \ {s}) /\ Cardinality(S \ {s}) = n - 1
    BY FS_RemoveElement
  <2> QED BY <2>1, <2>2, FS_Subset
<1>4. \A s, t \in S : s < t => count[t] < count[s]
  <2> SUFFICES ASSUME NEW s \in S, NEW t \in S, s < t
               PROVE  count[t] < count[s]
    OBVIOUS
  <2>1. t \in Above(s) /\ Above(t) \in SUBSET (Above(s) \ {t})
    <3>1. \A u \in S : u > t => u > s /\ u # t
      OBVIOUS
    <3> QED BY <3>1
  <2>2. /\ IsFiniteSet(Above(s) \ {t})
        /\ Cardinality(Above(s) \ {t}) = Cardinality(Above(s)) - 1
    BY <1>2, <2>1, FS_RemoveElement
  <2>3. Cardinality(Above(t)) =< Cardinality(Above(s)) - 1
    BY <2>1, <2>2, FS_Subset
  <2> QED BY <1>2, <2>3
<1>5. SUFFICES ASSUME \A s \in S : \E t \in S : t > s PROVE FALSE
  OBVIOUS
<1>6. \A s \in S : count[s] # 0
  <2> SUFFICES ASSUME NEW s \in S PROVE count[s] # 0
    OBVIOUS
  <2>1. PICK t \in S : s < t
    BY <1>5
  <2>2. count[t] < count[s] /\ count[t] \in Nat /\ count[s] \in Nat
    BY <1>2, <1>4, <2>1
  <2> HIDE DEF count
  <2> QED BY <2>2
<1>7. count \in [S -> 1 .. n - 1]
  <2>1. \A s \in S : count[s] \in 1 .. n - 1
    BY <1>1, <1>2, <1>3, <1>6
  <2> QED BY <2>1
<1>8. IsFiniteSet(1 .. n - 1) /\ Cardinality(1 .. n - 1) < n
  <2>1. n # 0
    BY FS_EmptySet
  <2> HIDE DEF n
  <2>2. n - 1 \in Int /\ n >= 1
    BY <1>1, <2>1
  <2>3. /\ IsFiniteSet(1 .. n - 1)
        /\ Cardinality(1 .. n - 1) = IF 1 > n - 1 THEN 0 ELSE n - 1 - 1 + 1
    BY <2>2, FS_Interval
  <2> QED BY <1>1, <2>2, <2>3
<1> HIDE DEF count, n
<1>9. \E s, t \in S : s # t /\ count[s] = count[t]
  BY <1>7, <1>8, FS_PigeonHole DEF n
<1>10. PICK s \in S, t \in S : s < t /\ count[s] = count[t]
  <2>1. PICK s \in S, t \in S : s # t /\ count[s] = count[t]
    BY <1>9
  <2>2. s < t \/ t < s
    BY <2>1
  <2> QED BY <2>1, <2>2
<1>11. count[t] < count[s] /\ count[t] \in Nat
  BY <1>2, <1>4, <1>10
<1> QED BY <1>10, <1>11

\* Scores are numbers.
LEMMA ScoresAreNumbers == Scores \subseteq Nat
BY RuntimeAssumption DEF Scores

\* The score that leaves a queue that is not empty is its highest one, and takes
\* none of the others with it.
LEMMA HighestLeaves ==
    ASSUME queue \in Seq(Scores), queue # <<>>
    PROVE  /\ Highest \in 1 .. Len(queue)
           /\ \A i \in 1 .. Len(queue) : queue[i] =< queue[Highest]
           /\ Popped \in Seq(Scores) /\ Len(Popped) = Len(queue) - 1
<1> DEFINE held == {queue[i] : i \in 1 .. Len(queue)}
<1>1. Len(queue) \in Nat \ {0} /\ DOMAIN queue = 1 .. Len(queue)
  OBVIOUS
<1>2. held \subseteq Scores /\ held # {}
  BY <1>1
<1>3. IsFiniteSet(held) /\ held \subseteq Nat
  <2> DEFINE place == 1 .. Len(queue)
             score == [i \in place |-> queue[i]]
  <2>1. IsFiniteSet(place)
    BY <1>1, FS_Interval
  <2>2. score \in Surjection(place, held)
    BY DEF Surjection
  <2> HIDE DEF place, score
  <2>3. IsFiniteSet(held)
    BY <2>1, <2>2, FS_Surjection
  <2> QED BY <1>2, <2>3, ScoresAreNumbers
<1> HIDE DEF held
<1>4. PICK m \in held : \A r \in held : r =< m
  BY <1>2, <1>3, GreatestElement
<1>5. PICK h \in 1 .. Len(queue) :
        \A i \in 1 .. Len(queue) : queue[i] =< queue[h]
  BY <1>4 DEF held
<1>6. /\ Highest \in 1 .. Len(queue)
      /\ \A i \in 1 .. Len(queue) : queue[i] =< queue[Highest]
  BY <1>1, <1>5 DEF Highest
<1> DEFINE front == SubSeq(queue, 1, Highest - 1)
           back == SubSeq(queue, Highest + 1, Len(queue))
<1>7. front \in Seq(Scores) /\ Len(front) = Highest - 1
  BY <1>6
<1>8. back \in Seq(Scores) /\ Len(back) = Len(queue) - Highest
  BY <1>6
<1>9. Popped = front \o back
  BY DEF Popped, RemoveAt
<1> HIDE DEF front, back
<1>10. front \o back \in Seq(Scores) /\ Len(front \o back) = Len(front) + Len(back)
  BY <1>7, <1>8
<1>11. Highest \in Int /\ Len(queue) \in Int
  BY <1>1, <1>6
<1>12. Len(front \o back) = Len(queue) - 1
  BY <1>7, <1>8, <1>10, <1>11
<1> QED BY <1>6, <1>9, <1>10, <1>12

\* What enqueue makes of the queue: something is at its end, or it is full of
\* better scores.
LEMMA EnqueuedCases ==
    ASSUME NEW s
    PROVE  \/ (~QueueFull \/ queue = <<>>) /\ Enqueued(s) = Append(queue, s)
           \/ queue # <<>> /\ Enqueued(s) = queue
           \/ /\ queue # <<>> /\ ~(s =< queue[Highest])
              /\ Enqueued(s) = Append(Popped, s)
BY DEF Enqueued

\* enqueue keeps a queue of scores within its bound, and never makes its best
\* score worse.
LEMMA EnqueueKeepsBest ==
    ASSUME queue \in Seq(Scores), QueueBounded, NEW s \in Scores
    PROVE  /\ Enqueued(s) \in Seq(Scores)
           /\ Len(Enqueued(s)) =< IF MaxQueueSize = 0 THEN 1 ELSE MaxQueueSize
           /\ \A i \in 1 .. Len(queue) : \E j \in 1 .. Len(Enqueued(s)) :
                 Enqueued(s)[j] >= queue[i]
<1>1. /\ Len(queue) \in Nat /\ MaxQueueSize \in Nat /\ s \in Nat
      /\ \A i \in 1 .. Len(queue) : queue[i] \in Nat /\ queue[i] >= queue[i]
  <2>1. \A r \in Scores : r \in Nat /\ r >= r
    BY ScoresAreNumbers
  <2> QED BY <2>1, RuntimeAssumption
<1>2. CASE (~QueueFull \/ queue = <<>>) /\ Enqueued(s) = Append(queue, s)
  <2>1. /\ Append(queue, s) \in Seq(Scores)
        /\ Len(Append(queue, s)) = Len(queue) + 1
        /\ \A i \in 1 .. Len(queue) : Append(queue, s)[i] = queue[i]
    OBVIOUS
  <2>2. Len(queue) + 1 =< IF MaxQueueSize = 0 THEN 1 ELSE MaxQueueSize
    BY <1>1, <1>2 DEF QueueFull
  <2>3. \A i \in 1 .. Len(queue) : i \in 1 .. Len(queue) + 1
    BY <1>1
  <2> QED BY <1>1, <1>2, <2>1, <2>2, <2>3
<1>3. CASE queue # <<>> /\ Enqueued(s) = queue
  BY <1>1, <1>3 DEF QueueBounded
<1>4. CASE /\ queue # <<>> /\ ~(s =< queue[Highest])
           /\ Enqueued(s) = Append(Popped, s)
  <2>1. /\ Highest \in 1 .. Len(queue)
        /\ \A i \in 1 .. Len(queue) : queue[i] =< queue[Highest]
        /\ Popped \in Seq(Scores) /\ Len(Popped) = Len(queue) - 1
    BY <1>4, HighestLeaves
  <2>2. \A i \in 1 .. Len(queue) : s >= queue[i]
    BY <1>1, <1>4, <2>1
  <2>3. /\ Enqueued(s) \in Seq(Scores) /\ Len(Enqueued(s)) = Len(queue)
        /\ Enqueued(s)[Len(queue)] = s
    <3> HIDE DEF Popped
    <3> QED BY <1>1, <1>4, <2>1
  <2>4. Len(queue) \in 1 .. Len(queue)
    BY <1>1, <2>1
  <2> QED BY <2>2, <2>3, <2>4 DEF QueueBounded
<1> QED BY <1>2, <1>3, <1>4, EnqueuedCases

-----------------------------------------------------------------------------
(* Lemmas on the workers *)

LEMMA WorkersFinite == IsFiniteSet(Workers) /\ Cardinality(Workers) \in Nat
BY RuntimeAssumption, FS_Subset, FS_CardinalityType, Workers \in SUBSET Txs
DEF Workers

\* A worker that goes from one of its stages to another is still a worker, and
\* what is none does not become one.
LEMMA WorkersKept ==
    ASSUME TypeOK, NEW tx \in Txs, NEW label, WorkerGoesTo(tx, label),
           stage[tx] \in Working <=> label \in Working
    PROVE  Workers' = Workers
BY DEF TypeOK, WorkerGoesTo, Workers

\* Ending a worker gives its permit back.
LEMMA WorkerEndsPermit ==
    ASSUME TypeOK, PermitsAccounted, NEW tx \in Workers,
           WorkerGoesTo(tx, "idle"), permits' = permits + 1
    PROVE  PermitsAccounted' /\ Workers' \subseteq Workers
<1>1. Workers' = Workers \ {tx}
  BY DEF TypeOK, WorkerGoesTo, Workers, Working
<1>2. Cardinality(Workers') = Cardinality(Workers) - 1
  BY <1>1, WorkersFinite, FS_RemoveElement
<1> QED
  BY <1>1, <1>2, WorkersFinite, RuntimeAssumption DEF PermitsAccounted, TypeOK

\* Permits that add up are at most worker_count.
LEMMA PermitsInRange ==
    ASSUME PermitsAccounted', permits' \in Nat
    PROVE  permits' \in 0 .. WorkerCount
<1>1. IsFiniteSet(Workers') /\ Cardinality(Workers') \in Nat
  BY RuntimeAssumption, FS_Subset, FS_CardinalityType, Workers' \in SUBSET Txs
  DEF Workers
<1> QED BY <1>1, RuntimeAssumption DEF PermitsAccounted

\* A step of a worker does not reach into the channel.
LEMMA InboxQuiet ==
    ASSUME TypeOK, InboxInv, NEW tx \in Txs, NEW label,
           WorkerGoesTo(tx, label), stage[tx] # "inbox", inbox' = inbox
    PROVE  InboxInv'
<1>1. \A i \in 1 .. Len(inbox) : inbox[i] \in Txs
  BY DEF TypeOK
<1> QED BY <1>1 DEF TypeOK, InboxInv, WorkerGoesTo

\* A step that leaves the queue alone keeps its bound.
LEMMA BoundQuiet ==
    ASSUME Inv, queue' = queue
    PROVE  QueueBounded'
BY DEF Inv, QueueBounded

-----------------------------------------------------------------------------
(* Every step keeps the invariant *)

\* A step that leaves the workers, the channel and the queue alone.
LEMMA PoolQuiet ==
    ASSUME Inv, UNCHANGED <<inbox, poolVars, queue>>,
           main' \in {"startup", "select", "spawn", "fetch", "drain", "exited"},
           refresh' \in {"due", "later"},
           signal' \in {"none", "heard", "noticed", "lost"},
           ready' \in {"yes", "no"}, cache' \in {"empty", "fresh", "stale"},
           mainTx' = mainTx, main' = "spawn" => main = "spawn",
           main' = "startup" => main = "startup",
           cache # "empty" => cache' # "empty",
           main' \notin {"startup", "exited"} => cache' # "empty",
           ready' = "yes" =>
              main' \in {"select", "spawn", "fetch"} /\ cache' # "empty"
    PROVE  Inv'
<1>1. stage' = stage /\ permits' = permits /\ waiters' = waiters
  BY DEF poolVars
<1>2. Workers' = Workers
  BY <1>1 DEF Workers
<1>3. TypeOK'
  BY <1>1 DEF Inv, TypeOK
<1>4. MainInv' /\ PermitsAccounted' /\ ReadyMeansServing'
  BY <1>1, <1>2 DEF Inv, MainInv, PermitsAccounted, ReadyMeansServing
<1>5. InboxInv'
  BY <1>1 DEF Inv, InboxInv
<1> QED BY <1>3, <1>4, <1>5, BoundQuiet DEF Inv

\* A worker goes from one of its stages to another.
LEMMA WorkerMoves ==
    ASSUME Inv, NEW tx \in Workers, NEW label \in Working,
           WorkerGoesTo(tx, label), UNCHANGED <<mainVars, inbox, permits>>,
           cache' \in {"fresh", cache}, waiters' \in Seq(Txs),
           queue' \in Seq(Scores), QueueBounded'
    PROVE  Inv'
<1>1. tx \in Txs /\ stage[tx] \in Working
  BY DEF Workers
<1>2. Workers' = Workers
  BY <1>1, WorkersKept DEF Inv
<1>3. stage' \in [Txs -> {"idle", "inbox", "taken"} \cup Working]
  BY <1>1 DEF Inv, TypeOK, WorkerGoesTo
<1>4. TypeOK'
  BY <1>3 DEF Inv, TypeOK, mainVars
<1>5. stage[tx] # "taken" /\ stage[tx] # "inbox"
  BY <1>1 DEF Working
<1>6. MainInv' /\ PermitsAccounted' /\ ReadyMeansServing'
  BY <1>1, <1>2, <1>5
  DEF Inv, TypeOK, MainInv, PermitsAccounted, ReadyMeansServing, mainVars,
      WorkerGoesTo
<1>7. InboxInv'
  BY <1>1, <1>5, InboxQuiet DEF Inv
<1> QED BY <1>4, <1>6, <1>7 DEF Inv

\* A worker ends.
LEMMA WorkerLeaves ==
    ASSUME Inv, NEW tx \in Workers,
           WorkerGoesTo(tx, "idle"), permits' = permits + 1,
           UNCHANGED <<mainVars, inbox, cache, queue>>, waiters' \in Seq(Txs)
    PROVE  Inv'
<1>1. tx \in Txs /\ stage[tx] \in Working
  BY DEF Workers
<1>2. PermitsAccounted' /\ Workers' \subseteq Workers
  BY WorkerEndsPermit DEF Inv
<1>3. permits' \in 0 .. WorkerCount
  BY <1>2, PermitsInRange, RuntimeAssumption DEF Inv, TypeOK
<1>4. stage' \in [Txs -> {"idle", "inbox", "taken"} \cup Working]
  BY <1>1 DEF Inv, TypeOK, WorkerGoesTo
<1>5. TypeOK'
  BY <1>3, <1>4 DEF Inv, TypeOK, mainVars
<1>6. stage[tx] # "taken" /\ stage[tx] # "inbox"
  BY <1>1 DEF Working
<1>7. MainInv' /\ ReadyMeansServing'
  BY <1>1, <1>2, <1>6
  DEF Inv, TypeOK, MainInv, ReadyMeansServing, mainVars, WorkerGoesTo
<1>8. InboxInv'
  BY <1>1, <1>6, InboxQuiet DEF Inv
<1> QED BY <1>2, <1>5, <1>7, <1>8, BoundQuiet DEF Inv

LEMMA ArriveStep ==
    ASSUME Inv, NEW tx \in Txs, Arrive(tx)
    PROVE  Inv'
<1>1. WorkerGoesTo(tx, "inbox") /\ stage[tx] = "idle"
  BY DEF Arrive, WorkerGoesTo
<1>2. Workers' = Workers
  BY <1>1, WorkersKept DEF Inv, Working
<1>3. TypeOK'
  BY DEF Arrive, Inv, TypeOK, mainVars
<1>4. MainInv' /\ PermitsAccounted' /\ ReadyMeansServing'
  BY <1>1, <1>2
  DEF Arrive, Inv, TypeOK, MainInv, PermitsAccounted, ReadyMeansServing,
      mainVars
<1>5. \A i \in 1 .. Len(inbox) : inbox[i] \in Txs /\ inbox[i] # tx
  BY <1>1 DEF Inv, TypeOK, InboxInv
<1>6. /\ Len(inbox') = Len(inbox) + 1 /\ Len(inbox) \in Nat
      /\ inbox'[Len(inbox) + 1] = tx
      /\ \A i \in 1 .. Len(inbox) : inbox'[i] = inbox[i]
  BY DEF Arrive, Inv, TypeOK
<1>7. stage'[tx] = "inbox" /\ \A u \in Txs \ {tx} : stage'[u] = stage[u]
  BY DEF Arrive, Inv, TypeOK
<1>8. InboxInv'
  <2>1. \A i \in 1 .. Len(inbox') : i \in 1 .. Len(inbox) \/ i = Len(inbox) + 1
    BY <1>6
  <2>2. \A i \in 1 .. Len(inbox') : stage'[inbox'[i]] = "inbox"
    BY <1>5, <1>6, <1>7, <2>1 DEF Inv, InboxInv
  <2>3. \A i, j \in 1 .. Len(inbox') : i # j => inbox'[i] # inbox'[j]
    BY <1>5, <1>6, <2>1 DEF Inv, InboxInv
  <2> QED BY <2>2, <2>3 DEF InboxInv
<1>9. queue' = queue
  BY DEF Arrive
<1> QED BY <1>3, <1>4, <1>8, <1>9, BoundQuiet DEF Inv

LEMMA ReceiveStep ==
    ASSUME Inv, Receive
    PROVE  Inv'
<1> DEFINE tx == Head(inbox)
<1>1. /\ inbox \in Seq(Txs) /\ inbox # <<>> /\ inbox' = Tail(inbox)
      /\ mainTx' = tx /\ stage' = [stage EXCEPT ![tx] = "taken"]
  BY DEF Receive, Inv, TypeOK
<1>2. /\ tx \in Txs /\ inbox' \in Seq(Txs) /\ tx = inbox[1]
      /\ Len(inbox) \in Nat /\ Len(inbox) >= 1
      /\ Len(inbox') = Len(inbox) - 1
      /\ \A i \in 1 .. Len(inbox') : inbox'[i] = inbox[i + 1]
  BY <1>1
<1>3. stage[tx] = "inbox" /\ WorkerGoesTo(tx, "taken")
  BY <1>1, <1>2 DEF Inv, InboxInv, WorkerGoesTo
<1> HIDE DEF tx
<1>4. Workers' = Workers
  BY <1>2, <1>3, WorkersKept DEF Inv, Working
<1>5. stage' \in [Txs -> {"idle", "inbox", "taken"} \cup Working]
  BY <1>1, <1>2 DEF Inv, TypeOK
<1>6. TypeOK'
  BY <1>1, <1>2, <1>5 DEF Receive, SignalDropped, Inv, TypeOK
<1>7. stage'[tx] = "taken" /\ \A u \in Txs \ {tx} : stage'[u] = stage[u]
  BY <1>1, <1>2 DEF Inv, TypeOK
<1>8. MainInv' /\ PermitsAccounted' /\ ReadyMeansServing'
  BY <1>1, <1>2, <1>4, <1>7
  DEF Receive, Inv, MainInv, PermitsAccounted, ReadyMeansServing
<1>9. InboxInv'
  <2>1. \A i \in 1 .. Len(inbox') :
          i \in Int /\ i + 1 \in 1 .. Len(inbox) /\ i + 1 # 1
    BY <1>2
  <2>2. \A i \in 1 .. Len(inbox') : inbox'[i] \in Txs /\ inbox'[i] # tx
    BY <1>1, <1>2, <2>1 DEF Inv, InboxInv
  <2>3. \A i \in 1 .. Len(inbox') : stage'[inbox'[i]] = "inbox"
    BY <1>2, <1>7, <2>1, <2>2 DEF Inv, InboxInv
  <2>4. \A i, j \in 1 .. Len(inbox') : i # j => inbox'[i] # inbox'[j]
    BY <1>2, <2>1 DEF Inv, InboxInv
  <2> QED BY <2>3, <2>4 DEF InboxInv
<1>10. queue' = queue
  BY DEF Receive
<1> QED BY <1>6, <1>8, <1>9, <1>10, BoundQuiet DEF Inv

LEMMA SpawnAnalysisStep ==
    ASSUME Inv, SpawnAnalysis
    PROVE  Inv'
<1>1. /\ mainTx \in Txs /\ stage[mainTx] = "taken"
      /\ WorkerGoesTo(mainTx, "resolve")
  BY DEF SpawnAnalysis, Inv, MainInv, WorkerGoesTo
<1>2. Workers' = Workers \cup {mainTx} /\ mainTx \notin Workers
  BY <1>1 DEF Inv, TypeOK, WorkerGoesTo, Workers, Working
<1>3. Cardinality(Workers') = Cardinality(Workers) + 1
  BY <1>2, WorkersFinite, FS_AddElement
<1>4. permits' = permits - 1 /\ permits' \in Nat
  BY RuntimeAssumption DEF SpawnAnalysis, Inv, TypeOK
<1>5. PermitsAccounted'
  BY <1>3, <1>4, WorkersFinite, RuntimeAssumption
  DEF Inv, TypeOK, PermitsAccounted
<1>6. permits' \in 0 .. WorkerCount
  BY <1>4, <1>5, PermitsInRange
<1>7. stage' \in [Txs -> {"idle", "inbox", "taken"} \cup Working]
  BY <1>1 DEF Inv, TypeOK, WorkerGoesTo, Working
<1>8. TypeOK'
  BY <1>6, <1>7 DEF SpawnAnalysis, Inv, TypeOK
<1>9. MainInv' /\ ReadyMeansServing'
  BY DEF SpawnAnalysis, Inv, MainInv, ReadyMeansServing
<1>10. InboxInv'
  BY <1>1, InboxQuiet DEF SpawnAnalysis, Inv
<1>11. queue' = queue
  BY DEF SpawnAnalysis
<1> QED BY <1>5, <1>8, <1>9, <1>10, <1>11, BoundQuiet DEF Inv

\* A transaction that is evaluated has its score queued and goes on, or ends.
LEMMA EvaluateCases ==
    ASSUME NEW tx \in Txs, Evaluate(tx)
    PROVE  \/ /\ WorkerGoesTo(tx, "scored") /\ permits' = permits
              /\ \E score \in Scores : queue' = Enqueued(score)
           \/ WorkerEnds(tx) /\ queue' = queue
<1>1. PICK score \in Score[tx] :
        IF score > 0
        THEN /\ queue' = Enqueued(score)
             /\ WorkerGoesTo(tx, "scored") /\ UNCHANGED permits
        ELSE WorkerEnds(tx) /\ UNCHANGED queue
  BY DEF Evaluate
<1>2. score > 0 => score \in Scores
  BY DEF Scores
<1> QED BY <1>1, <1>2

LEMMA WorkerStepKeeps ==
    ASSUME Inv, NEW tx \in Txs, WorkerStep(tx)
    PROVE  Inv'
<1>1. tx \in Workers
  BY DEF WorkerStep, ResolveNetworkState, FetchEnds, Evaluate, EvaluatePanics,
     HandleOpportunity, ExecutionEnds, Workers, Working
<1>2. /\ waiters \in Seq(Txs) /\ queue \in Seq(Scores)
      /\ queue' = queue => QueueBounded'
  BY DEF Inv, TypeOK, QueueBounded
<1>a. CASE ResolveNetworkState(tx)
  <2>1. PICK label \in {"evaluate", "fetch"} : WorkerGoesTo(tx, label)
    BY <1>a DEF ResolveNetworkState
  <2> QED
    BY <1>1, <1>2, <1>a, <2>1, WorkerMoves DEF ResolveNetworkState, Working
<1>b. CASE FetchEnds(tx)
  BY <1>1, <1>2, <1>b, WorkerMoves DEF FetchEnds, Working
<1>c. CASE Evaluate(tx)
  <2>0. UNCHANGED <<mainVars, inbox, cache, waiters>>
    BY <1>c DEF Evaluate
  <2>1. ASSUME WorkerGoesTo(tx, "scored"), permits' = permits,
               NEW score \in Scores, queue' = Enqueued(score)
        PROVE  Inv'
    <3>1. queue' \in Seq(Scores) /\ QueueBounded'
      BY <1>2, <2>1, EnqueueKeepsBest DEF Inv, QueueBounded
    <3> QED BY <1>1, <1>2, <2>0, <2>1, <3>1, WorkerMoves DEF Working
  <2>2. CASE WorkerEnds(tx) /\ queue' = queue
    BY <1>1, <1>2, <2>0, <2>2, WorkerLeaves DEF WorkerEnds, PermitsAfter
  <2> QED BY <1>c, <2>1, <2>2, EvaluateCases
<1>d. CASE EvaluatePanics(tx)
  BY <1>1, <1>2, <1>d, WorkerLeaves DEF EvaluatePanics, PermitsUnwound
<1>e. CASE HandleOpportunity(tx)
  <2>1. CASE ExecutionEnabled
    <3>1. waiters' \in Seq(Txs)
      BY <1>2, <1>e, <2>1 DEF HandleOpportunity
    <3> QED
      BY <1>1, <1>2, <1>e, <2>1, <3>1, WorkerMoves
      DEF HandleOpportunity, Working
  <2>2. CASE ~ExecutionEnabled
    BY <1>1, <1>2, <1>e, <2>2, WorkerLeaves
    DEF HandleOpportunity, WorkerEnds, PermitsAfter
  <2> QED BY <2>1, <2>2
<1>f. CASE ExecutionEnds(tx)
  <2>1. waiters' \in Seq(Txs)
    BY <1>2, <1>f DEF ExecutionEnds, Unlocked
  <2> QED
    BY <1>1, <1>f, <2>1, WorkerLeaves DEF ExecutionEnds, WorkerEnds, PermitsAfter
<1> QED
  BY <1>a, <1>b, <1>c, <1>d, <1>e, <1>f DEF WorkerStep

LEMMA InvStep ==
    ASSUME Inv, [Next]_vars
    PROVE  Inv'
<1> USE DEF Inv
<1>a. CASE RefreshDue
  BY <1>a, PoolQuiet DEF RefreshDue, Running, TypeOK, MainInv, ReadyMeansServing
<1>b. CASE CacheExpires
  BY <1>b, PoolQuiet
  DEF CacheExpires, mainVars, TypeOK, MainInv, ReadyMeansServing
<1>c. CASE PressCtrlC
  BY <1>c, PoolQuiet DEF PressCtrlC, TypeOK, MainInv, ReadyMeansServing
<1>d. ASSUME NEW tx \in Txs, Arrive(tx) PROVE Inv'
  BY <1>d, ArriveStep
<1>e. CASE StartUp
  BY <1>e, PoolQuiet DEF StartUp, TypeOK, MainInv, ReadyMeansServing
<1>f. CASE StartUpFails
  BY <1>f, PoolQuiet DEF StartUpFails, TypeOK, MainInv, ReadyMeansServing
<1>g. CASE Receive
  BY <1>g, ReceiveStep
<1>h. CASE SpawnAnalysis
  BY <1>h, SpawnAnalysisStep
<1>i. CASE RefreshTick
  BY <1>i, PoolQuiet
  DEF RefreshTick, SignalDropped, TypeOK, MainInv, ReadyMeansServing
<1>j. CASE RefreshEnds
  BY <1>j, PoolQuiet DEF RefreshEnds, TypeOK, MainInv, ReadyMeansServing
<1>k. CASE NoticeSignal
  BY <1>k, PoolQuiet
  DEF NoticeSignal, ReadyWhileDraining, TypeOK, MainInv, ReadyMeansServing
<1>l. CASE Exit
  BY <1>l, PoolQuiet DEF Exit, TypeOK, MainInv, ReadyMeansServing
<1>m. ASSUME NEW tx \in Txs, WorkerStep(tx) PROVE Inv'
  BY <1>m, WorkerStepKeeps
<1>n. CASE UNCHANGED vars
  BY <1>n, PoolQuiet DEF vars, mainVars, TypeOK, MainInv, ReadyMeansServing
<1> QED
  BY <1>a, <1>b, <1>c, <1>d, <1>e, <1>f, <1>g, <1>h, <1>i, <1>j, <1>k, <1>l,
     <1>m, <1>n
  DEF Next, Environment, Main

LEMMA InitInv == Init => Inv
<1> SUFFICES ASSUME Init PROVE Inv
  OBVIOUS
<1>1. Workers = {}
  BY DEF Init, Workers, Working
<1>2. QueueBounded
  BY RuntimeAssumption DEF Init, QueueBounded
<1>3. TypeOK
  BY RuntimeAssumption DEF Init, TypeOK
<1>4. PermitsAccounted
  BY <1>1, FS_EmptySet, RuntimeAssumption DEF Init, PermitsAccounted
<1>5. MainInv /\ InboxInv /\ ReadyMeansServing
  BY <1>1 DEF Init, MainInv, InboxInv, ReadyMeansServing
<1> QED BY <1>2, <1>3, <1>4, <1>5 DEF Inv

-----------------------------------------------------------------------------
(* The theorems *)

\* Inv is an invariant of the runtime.
THEOREM Invariance == Spec => []Inv
<1>1. Inv /\ [Next]_vars => Inv'
  BY InvStep
<1> QED
  BY InitInv, <1>1, PTL DEF Spec

\* Every variable of the runtime keeps its type.
THEOREM RuntimeTypeCorrect == Spec => []TypeOK
<1>1. Inv => TypeOK
  BY DEF Inv
<1> QED
  BY Invariance, <1>1, PTL

\* Permits and running workers always add up to server.worker_count.
THEOREM PermitsAddUp == Spec => []PermitsAccounted
<1>1. Inv => PermitsAccounted
  BY DEF Inv
<1> QED
  BY Invariance, <1>1, PTL

\* The bot is ready only while it serves, and no worker finds the cache empty.
THEOREM ReadyOnlyWhileServing == Spec => []ReadyMeansServing
<1>1. Inv => ReadyMeansServing
  BY DEF Inv
<1> QED
  BY Invariance, <1>1, PTL

\* The queue of the detector never passes analysis.max_queue_size (or one, where
\* that is zero), in whatever order the workers put their opportunities in.
THEOREM QueueStaysBounded == Spec => []QueueBounded
<1>1. Inv => QueueBounded
  BY DEF Inv
<1> QED
  BY Invariance, <1>1, PTL

\* No step of any task makes the best score of the detector's queue worse.
THEOREM BestScoreNeverLost == Spec => BestScoreKept
<1> DEFINE Kept == \A i \in DOMAIN queue :
                     \E j \in DOMAIN queue' : queue'[j] >= queue[i]
<1>1. Inv /\ [Next]_vars => [Kept]_vars
  <2> SUFFICES ASSUME Inv, Next PROVE Kept
    OBVIOUS
  <2>0. queue \in Seq(Scores) /\ DOMAIN queue = 1 .. Len(queue)
    BY DEF Inv, TypeOK
  <2>1. CASE queue' = queue
    <3>1. \A r \in Scores : r >= r
      BY ScoresAreNumbers
    <3>2. \A i \in DOMAIN queue : queue[i] >= queue[i]
      BY <2>0, <3>1
    <3> QED BY <2>1, <3>2
  <2>2. CASE queue' # queue
    <3>1. PICK tx \in Txs : Evaluate(tx)
      BY <2>2
      DEF Next, Environment, Main, WorkerStep, Arrive, RefreshDue, CacheExpires,
          PressCtrlC, StartUp, StartUpFails, Receive, SpawnAnalysis,
          RefreshTick, RefreshEnds, NoticeSignal, Exit, ResolveNetworkState,
          FetchEnds, Evaluate, EvaluatePanics, HandleOpportunity, ExecutionEnds
    <3>2. PICK score \in Scores : queue' = Enqueued(score)
      BY <2>2, <3>1, EvaluateCases
    <3>3. /\ queue' \in Seq(Scores)
          /\ \A i \in 1 .. Len(queue) : \E j \in 1 .. Len(queue') :
                queue'[j] >= queue[i]
      BY <2>0, <3>2, EnqueueKeepsBest DEF Inv
    <3>4. DOMAIN queue' = 1 .. Len(queue')
      BY <3>3
    <3> QED BY <2>0, <3>3, <3>4
  <2> QED BY <2>1, <2>2
<1> QED
  <2>1. Inv' => QueueBounded'
    BY DEF Inv
  <2>2. Inv /\ Inv' /\ [Next]_vars
          => [/\ QueueBounded'
              /\ \A i \in DOMAIN queue :
                    \E j \in DOMAIN queue' : queue'[j] >= queue[i]]_vars
    BY <1>1, <2>1
  <2> QED
    BY Invariance, <2>2, PTL DEF Spec, BestScoreKept

-----------------------------------------------------------------------------
(* The refinement *)

\* The executor's Mutex is asked for by those who execute, by each of them once.
LineInv ==
    /\ \A i \in 1 .. Len(waiters) : stage[waiters[i]] = "execute"
    /\ \A i, j \in 1 .. Len(waiters) : i # j => waiters[i] # waiters[j]

\* A step of a transaction that is not executed leaves the line alone.
LEMMA LineQuiet ==
    ASSUME TypeOK, LineInv, NEW tx \in Txs, NEW label,
           WorkerGoesTo(tx, label), stage[tx] # "execute", waiters' = waiters
    PROVE  LineInv'
<1>1. \A i \in 1 .. Len(waiters) : waiters[i] \in Txs
  BY DEF TypeOK
<1> QED BY <1>1 DEF TypeOK, LineInv, WorkerGoesTo

\* One that joins the line was not in it.
LEMMA LineGrows ==
    ASSUME TypeOK, LineInv, NEW tx \in Txs, stage[tx] = "scored",
           WorkerGoesTo(tx, "execute"), waiters' = Append(waiters, tx)
    PROVE  LineInv'
<1>1. \A i \in 1 .. Len(waiters) : waiters[i] \in Txs /\ waiters[i] # tx
  BY DEF TypeOK, LineInv
<1>2. /\ Len(waiters') = Len(waiters) + 1 /\ Len(waiters) \in Nat
      /\ waiters'[Len(waiters) + 1] = tx
      /\ \A i \in 1 .. Len(waiters) : waiters'[i] = waiters[i]
  BY DEF TypeOK
<1>3. stage'[tx] = "execute" /\ \A u \in Txs \ {tx} : stage'[u] = stage[u]
  BY DEF TypeOK, WorkerGoesTo
<1>4. \A i \in 1 .. Len(waiters') : i \in 1 .. Len(waiters) \/ i = Len(waiters) + 1
  BY <1>2
<1>5. \A i \in 1 .. Len(waiters') : stage'[waiters'[i]] = "execute"
  BY <1>1, <1>2, <1>3, <1>4 DEF LineInv
<1>6. \A i, j \in 1 .. Len(waiters') : i # j => waiters'[i] # waiters'[j]
  BY <1>1, <1>2, <1>4 DEF LineInv
<1> QED BY <1>5, <1>6 DEF LineInv

\* The one that leaves is the first, and it was in it once.
LEMMA LineShrinks ==
    ASSUME TypeOK, LineInv, NEW tx \in Txs, waiters # <<>>, tx = Head(waiters),
           WorkerGoesTo(tx, "idle"), waiters' = Tail(waiters)
    PROVE  LineInv'
<1>1. /\ waiters \in Seq(Txs) /\ tx = waiters[1]
      /\ Len(waiters) \in Nat /\ Len(waiters) >= 1
      /\ Len(waiters') = Len(waiters) - 1
      /\ \A i \in 1 .. Len(waiters') : waiters'[i] = waiters[i + 1]
  BY DEF TypeOK
<1>2. \A i \in 1 .. Len(waiters') :
        i \in Int /\ i + 1 \in 1 .. Len(waiters) /\ i + 1 # 1
  BY <1>1
<1>3. stage'[tx] = "idle" /\ \A u \in Txs \ {tx} : stage'[u] = stage[u]
  BY DEF TypeOK, WorkerGoesTo
<1>4. 1 \in 1 .. Len(waiters)
  BY <1>1
<1>5. \A i \in 1 .. Len(waiters') : waiters'[i] \in Txs /\ waiters'[i] # tx
  BY <1>1, <1>2, <1>4 DEF LineInv
<1>6. \A i \in 1 .. Len(waiters') : stage'[waiters'[i]] = "execute"
  BY <1>1, <1>2, <1>3, <1>5 DEF LineInv
<1>7. \A i, j \in 1 .. Len(waiters') : i # j => waiters'[i] # waiters'[j]
  BY <1>1, <1>2 DEF LineInv
<1> QED BY <1>6, <1>7 DEF LineInv

LEMMA LineStep ==
    ASSUME Inv, LineInv, [Next]_vars
    PROVE  LineInv'
<1>0. TypeOK
  BY DEF Inv
<1>1. CASE UNCHANGED <<stage, waiters>>
  BY <1>1 DEF LineInv
<1>2. ASSUME NEW tx \in Txs, Arrive(tx) PROVE LineInv'
  BY <1>0, <1>2, LineQuiet DEF Arrive, WorkerGoesTo
<1>3. CASE Receive
  <2>1. /\ Head(inbox) \in Txs /\ stage[Head(inbox)] = "inbox"
        /\ WorkerGoesTo(Head(inbox), "taken") /\ waiters' = waiters
    BY <1>0, <1>3 DEF Receive, Inv, InboxInv, TypeOK, WorkerGoesTo
  <2> QED BY <1>0, <2>1, LineQuiet
<1>4. CASE SpawnAnalysis
  <2>1. /\ mainTx \in Txs /\ stage[mainTx] = "taken"
        /\ WorkerGoesTo(mainTx, "resolve") /\ waiters' = waiters
    BY <1>4 DEF SpawnAnalysis, Inv, MainInv, WorkerGoesTo
  <2> QED BY <1>0, <2>1, LineQuiet
<1>5. ASSUME NEW tx \in Txs, WorkerStep(tx) PROVE LineInv'
  <2>1. CASE ResolveNetworkState(tx)
    <3>1. PICK label \in {"evaluate", "fetch"} : WorkerGoesTo(tx, label)
      BY <2>1 DEF ResolveNetworkState
    <3> QED BY <1>0, <2>1, <3>1, LineQuiet DEF ResolveNetworkState
  <2>2. CASE FetchEnds(tx)
    BY <1>0, <2>2, LineQuiet DEF FetchEnds
  <2>3. CASE Evaluate(tx)
    <3>1. \E label \in {"scored", "idle"} : WorkerGoesTo(tx, label)
      BY <2>3, EvaluateCases DEF WorkerEnds
    <3> QED BY <1>0, <2>3, <3>1, LineQuiet DEF Evaluate
  <2>4. CASE EvaluatePanics(tx)
    BY <1>0, <2>4, LineQuiet DEF EvaluatePanics
  <2>5. CASE HandleOpportunity(tx)
    <3>1. CASE ExecutionEnabled
      BY <1>0, <2>5, <3>1, LineGrows DEF HandleOpportunity
    <3>2. CASE ~ExecutionEnabled
      BY <1>0, <2>5, <3>2, LineQuiet DEF HandleOpportunity, WorkerEnds
    <3> QED BY <3>1, <3>2
  <2>6. CASE ExecutionEnds(tx)
    BY <1>0, <2>6, LineShrinks DEF ExecutionEnds, Unlocked, WorkerEnds
  <2> QED BY <1>5, <2>1, <2>2, <2>3, <2>4, <2>5, <2>6 DEF WorkerStep
<1>6. CASE \/ RefreshDue \/ CacheExpires \/ PressCtrlC \/ StartUp \/ StartUpFails
           \/ RefreshTick \/ RefreshEnds \/ NoticeSignal \/ Exit \/ UNCHANGED vars
  BY <1>1, <1>6
  DEF RefreshDue, CacheExpires, PressCtrlC, StartUp, StartUpFails, RefreshTick,
      RefreshEnds, NoticeSignal, Exit, vars, poolVars
<1> QED
  BY <1>2, <1>3, <1>4, <1>5, <1>6 DEF Next, Environment, Main

\* What a transaction that is not where it was cannot be held by.
LEMMA NotQueued ==
    ASSUME Inv, NEW tx \in Txs, stage[tx] = "idle"
    PROVE  ~Service!Holds(Queued, tx)
<1>1. /\ inbox \in Seq(Txs) /\ \A i \in 1 .. Len(inbox) : inbox[i] # tx
      /\ main = "spawn" => mainTx # tx
  BY DEF Inv, TypeOK, MainInv, InboxInv
<1>2. CASE main = "spawn"
  <2>1. \A i \in 1 .. Len(Queued) : Queued[i] # tx
    BY <1>1, <1>2 DEF Queued
  <2> QED BY <2>1 DEF Service!Holds
<1>3. CASE main # "spawn"
  BY <1>1, <1>3 DEF Queued, Service!Holds
<1> QED BY <1>2, <1>3

LEMMA NotInLine ==
    ASSUME LineInv, NEW tx \in Txs, stage[tx] # "execute"
    PROVE  ~Service!Holds(waiters, tx)
BY DEF LineInv, Service!Holds

\* A worker ends before its execution.
LEMMA TurnsDown ==
    ASSUME Inv, LineInv, Running, NEW tx \in Workers, stage[tx] # "execute",
           WorkerGoesTo(tx, "idle"), UNCHANGED <<mainVars, inbox, waiters>>
    PROVE  Service!TurnDown(tx)
<1>1. Workers' = Workers \ {tx} /\ tx \in Txs
  BY DEF Inv, TypeOK, WorkerGoesTo, Workers, Working
<1>2. ~Service!Holds(waiters, tx)
  BY <1>1, NotInLine
<1>3. Phase # "stopped" /\ Phase' = Phase /\ Queued' = Queued
  BY DEF Running, Phase, Queued, mainVars, Inv, TypeOK
<1> QED BY <1>1, <1>2, <1>3 DEF Service!TurnDown

\* A worker moves on, but not to its execution.
LEMMA MovesOn ==
    ASSUME Inv, NEW tx \in Workers, NEW label \in Working,
           WorkerGoesTo(tx, label), UNCHANGED <<mainVars, inbox, waiters>>
    PROVE  UNCHANGED Service!vars
<1>1. Workers' = Workers
  BY WorkersKept DEF Inv, Workers
<1>2. Phase' = Phase /\ Queued' = Queued
  BY DEF Phase, Queued, mainVars
<1> QED BY <1>1, <1>2 DEF Service!vars

LEMMA ArriveComes ==
    ASSUME Inv, NEW tx \in Txs, Arrive(tx)
    PROVE  Service!Come(tx)
<1>1. WorkerGoesTo(tx, "inbox") /\ stage[tx] = "idle" /\ inbox \in Seq(Txs)
  BY DEF Arrive, WorkerGoesTo, Inv, TypeOK
<1>2. Workers' = Workers /\ tx \notin Workers
  BY <1>1, WorkersKept DEF Inv, Working, Workers
<1>3. Phase # "stopped" /\ Phase' = Phase
  BY DEF Arrive, Running, Phase, mainVars, Inv, TypeOK
<1>4. Queued' = Append(Queued, tx)
  <2>1. CASE main = "spawn"
    <3>1. <<mainTx>> \o Append(inbox, tx) = Append(<<mainTx>> \o inbox, tx)
      BY <1>1, <2>1 DEF Inv, MainInv
    <3> QED BY <2>1, <3>1 DEF Arrive, Queued, mainVars
  <2>2. CASE main # "spawn"
    BY <2>2 DEF Arrive, Queued, mainVars
  <2> QED BY <2>1, <2>2
<1>5. ~Service!Holds(Queued, tx) /\ waiters' = waiters
  BY <1>1, NotQueued DEF Arrive
<1> QED BY <1>2, <1>3, <1>4, <1>5 DEF Service!Come

LEMMA ReceiveStutters ==
    ASSUME Inv, Receive
    PROVE  UNCHANGED Service!vars
<1>1. inbox \in Seq(Txs) /\ inbox # <<>>
  BY DEF Receive, Inv, TypeOK
<1>2. Head(inbox) \in Txs /\ stage[Head(inbox)] = "inbox"
  BY <1>1 DEF Inv, InboxInv
<1>3. WorkerGoesTo(Head(inbox), "taken")
  BY DEF Receive, WorkerGoesTo
<1>4. Workers' = Workers
  BY <1>2, <1>3, WorkersKept DEF Inv, Working
<1>5. <<Head(inbox)>> \o Tail(inbox) = inbox
  BY <1>1
<1>6. Queued' = Queued /\ Phase' = Phase
  BY <1>5 DEF Receive, Queued, Phase
<1> QED BY <1>4, <1>6 DEF Service!vars, Receive

LEMMA SpawnTakes ==
    ASSUME Inv, SpawnAnalysis
    PROVE  Service!Take
<1>1. /\ mainTx \in Txs /\ stage[mainTx] = "taken" /\ inbox \in Seq(Txs)
      /\ WorkerGoesTo(mainTx, "resolve")
  BY DEF SpawnAnalysis, Inv, MainInv, TypeOK, WorkerGoesTo
<1>2. Workers' = Workers \cup {mainTx}
  BY <1>1 DEF Inv, TypeOK, WorkerGoesTo, Workers, Working
<1>3. Cardinality(Workers) < WorkerCount
  BY WorkersFinite, RuntimeAssumption
  DEF SpawnAnalysis, Inv, TypeOK, PermitsAccounted
<1>4. Queued = <<mainTx>> \o inbox /\ Queued' = inbox
  BY DEF SpawnAnalysis, Queued
<1>5. Queued # <<>> /\ Head(Queued) = mainTx /\ Tail(Queued) = inbox
  BY <1>1, <1>4
<1>6. Phase = "serving" /\ Phase' = "serving" /\ waiters' = waiters
  BY DEF SpawnAnalysis, Phase
<1>7. Service!Cardinality(Workers) = Cardinality(Workers)
  BY DEF Service!Cardinality, Cardinality
<1> QED BY <1>2, <1>3, <1>4, <1>5, <1>6, <1>7 DEF Service!Take

LEMMA WorkerServes ==
    ASSUME Inv, LineInv, NEW tx \in Txs, WorkerStep(tx)
    PROVE  Service!Next \/ UNCHANGED Service!vars
<1>1. tx \in Workers /\ Running
  BY DEF WorkerStep, ResolveNetworkState, FetchEnds, Evaluate, EvaluatePanics,
     HandleOpportunity, ExecutionEnds, Workers, Working
<1>2. Service!TurnDown(tx) \/ Service!Ask(tx) \/ Service!FinishExecution
        => Service!Next
  BY DEF Service!Next
<1>a. CASE ResolveNetworkState(tx)
  <2>1. PICK label \in {"evaluate", "fetch"} : WorkerGoesTo(tx, label)
    BY <1>a DEF ResolveNetworkState
  <2> QED BY <1>1, <1>a, <2>1, MovesOn DEF ResolveNetworkState, Working
<1>b. CASE FetchEnds(tx)
  BY <1>1, <1>b, MovesOn DEF FetchEnds, Working
<1>c. CASE Evaluate(tx)
  <2>1. CASE WorkerGoesTo(tx, "scored")
    BY <1>1, <1>c, <2>1, MovesOn DEF Evaluate, Working
  <2>2. CASE WorkerEnds(tx)
    BY <1>1, <1>2, <1>c, <2>2, TurnsDown DEF Evaluate, WorkerEnds
  <2> QED BY <1>c, <2>1, <2>2, EvaluateCases
<1>d. CASE EvaluatePanics(tx)
  BY <1>1, <1>2, <1>d, TurnsDown DEF EvaluatePanics
<1>e. CASE HandleOpportunity(tx)
  <2>1. CASE ExecutionEnabled
    <3>1. Workers' = Workers
      BY <1>e, <2>1, WorkersKept DEF HandleOpportunity, Inv, Working
    <3>2. ~Service!Holds(waiters, tx)
      BY <1>e, NotInLine DEF HandleOpportunity
    <3>3. Phase # "stopped" /\ Phase' = Phase /\ Queued' = Queued
      BY <1>1, <1>e
      DEF HandleOpportunity, Running, Phase, Queued, mainVars, Inv, TypeOK
    <3>4. waiters' = Append(waiters, tx)
      BY <1>e, <2>1 DEF HandleOpportunity
    <3>5. Service!Ask(tx)
      BY <1>1, <3>1, <3>2, <3>3, <3>4 DEF Service!Ask
    <3> QED BY <1>2, <3>5
  <2>2. CASE ~ExecutionEnabled
    BY <1>1, <1>2, <1>e, <2>2, TurnsDown DEF HandleOpportunity, WorkerEnds
  <2> QED BY <2>1, <2>2
<1>f. CASE ExecutionEnds(tx)
  <2>1. Workers' = Workers \ {tx}
    BY <1>f DEF ExecutionEnds, WorkerEnds, Inv, TypeOK, WorkerGoesTo, Workers,
       Working
  <2>2. Phase # "stopped" /\ Phase' = Phase /\ Queued' = Queued
    BY <1>1, <1>f
    DEF ExecutionEnds, Running, Phase, Queued, mainVars, Inv, TypeOK
  <2>3. Service!FinishExecution
    BY <1>1, <1>f, <2>1, <2>2 DEF ExecutionEnds, Unlocked, Service!FinishExecution
  <2> QED BY <1>2, <2>3
<1> QED
  BY <1>a, <1>b, <1>c, <1>d, <1>e, <1>f DEF WorkerStep

LEMMA NextServes ==
    ASSUME Inv, LineInv, [Next]_vars
    PROVE  [Service!Next]_(Service!vars)
<1>1. ASSUME UNCHANGED <<inbox, stage, waiters, mainTx>>,
             main' = "spawn" <=> main = "spawn"
      PROVE  Queued' = Queued /\ Workers' = Workers /\ waiters' = waiters
  BY <1>1 DEF Queued, Workers
<1>a. CASE RefreshDue \/ CacheExpires \/ PressCtrlC \/ UNCHANGED vars
  BY <1>1, <1>a
  DEF RefreshDue, CacheExpires, PressCtrlC, vars, mainVars, poolVars, Phase,
      Service!vars
<1>b. ASSUME NEW tx \in Txs, Arrive(tx) PROVE Service!Next
  BY <1>b, ArriveComes DEF Service!Next
<1>c. CASE StartUp
  <2>1. Phase = "starting" /\ Phase' = "serving"
    BY <1>c DEF StartUp, Phase
  <2>2. Service!Move("starting", "serving")
    BY <1>1, <1>c, <2>1 DEF StartUp, poolVars, Service!Move
  <2> QED BY <2>2 DEF Service!Next
<1>d. CASE StartUpFails
  <2>1. Phase = "starting" /\ Phase' = "stopped"
    BY <1>d DEF StartUpFails, Phase
  <2>2. Service!Move("starting", "stopped")
    BY <1>1, <1>d, <2>1 DEF StartUpFails, poolVars, Service!Move
  <2> QED BY <2>2 DEF Service!Next
<1>e. CASE Receive
  BY <1>e, ReceiveStutters
<1>f. CASE SpawnAnalysis
  BY <1>f, SpawnTakes DEF Service!Next
<1>g. CASE RefreshTick \/ RefreshEnds
  <2>1. Phase' = Phase
    BY <1>g DEF RefreshTick, RefreshEnds, Phase
  <2> QED BY <1>1, <1>g, <2>1 DEF RefreshTick, RefreshEnds, poolVars, Service!vars
<1>h. CASE NoticeSignal
  <2>1. Phase = "serving" /\ Phase' = "draining"
    BY <1>h DEF NoticeSignal, Phase
  <2>2. Service!Move("serving", "draining")
    BY <1>1, <1>h, <2>1 DEF NoticeSignal, poolVars, Service!Move
  <2> QED BY <2>2 DEF Service!Next
<1>i. CASE Exit
  <2>1. Phase = "draining" /\ Phase' = "stopped"
    BY <1>i DEF Exit, Phase
  <2>2. Service!Move("draining", "stopped")
    BY <1>1, <1>i, <2>1 DEF Exit, poolVars, Service!Move
  <2> QED BY <2>2 DEF Service!Next
<1>j. ASSUME NEW tx \in Txs, WorkerStep(tx)
      PROVE  Service!Next \/ UNCHANGED Service!vars
  BY <1>j, WorkerServes
<1> QED
  BY <1>a, <1>b, <1>c, <1>d, <1>e, <1>f, <1>g, <1>h, <1>i, <1>j
  DEF Next, Environment, Main

\* The runtime implements the service: in the order in which they came, at most
\* worker_count at a time, each once, executions one by one in the order in which
\* they were asked for, and nothing new after Ctrl-C.
THEOREM Refinement == Spec => ImplementsService
<1>1. Init => LineInv
  BY DEF Init, LineInv
<1>2. Inv /\ LineInv /\ [Next]_vars => LineInv'
  BY LineStep
<1>3. Spec => []LineInv
  BY Invariance, <1>1, <1>2, PTL DEF Spec
<1>4. Init => Service!Init
  <2> SUFFICES ASSUME Init PROVE Service!Init
    OBVIOUS
  <2>1. Workers = {} /\ Phase = "starting" /\ Queued = <<>>
    BY DEF Init, Workers, Working, Phase, Queued
  <2> QED BY <2>1 DEF Init, Service!Init
<1>5. Inv /\ LineInv /\ [Next]_vars => [Service!Next]_(Service!vars)
  BY NextServes
<1> QED
  BY Invariance, <1>3, <1>4, <1>5, PTL DEF Spec, ImplementsService, Service!Spec

=============================================================================
