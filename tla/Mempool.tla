------------------------------ MODULE Mempool ------------------------------
(***************************************************************************)
(* MempoolSubscriber: the task subscription_loop reads hashes from a       *)
(* WebSocket and hands them through a bounded channel to the task          *)
(* process_pending_hashes, which deduplicates them with an LRU cache,      *)
(* fetches and filters the transaction, and hands it through a second      *)
(* bounded channel to main's loop.                                         *)
(*                                                                         *)
(* Neither task ends while main runs: each would end only after the other  *)
(* or after main has dropped the MempoolStream, which it does when the     *)
(* process exits.  Reconnect delays are in units of the first one.         *)
(***************************************************************************)
EXTENDS Integers, Sequences, FiniteSets, SequencesExt

CONSTANTS
    Hashes,          \* transaction hashes the node may announce
    Passing,         \* those whose transaction passes MempoolFilter
    NoHash,          \* no hash in hand
    CacheCapacity,   \* DEFAULT_CACHE_CAPACITY
    Ttl,             \* CACHE_ENTRY_TTL, in ticks of the clock
    HashBuffer,      \* CHANNEL_BUFFER of the channel of hashes
    OutputBuffer,    \* CHANNEL_BUFFER of the channel to main
    MaxDoublings,    \* the exponent wait_before_retry stops at, 10
    MaxDelay         \* max_backoff, in units of initial_backoff

ASSUME MempoolAssumption ==
    /\ IsFiniteSet(Hashes) /\ NoHash \notin Hashes /\ Passing \subseteq Hashes
    /\ CacheCapacity \in Nat \ {0}     \* with_cache_capacity: at least 1
    /\ Ttl \in Nat \ {0}
    /\ HashBuffer \in Nat \ {0} /\ OutputBuffer \in Nat \ {0}
    /\ MaxDoublings \in Nat \ {0} /\ MaxDelay \in Nat \ {0}

\* That powers of two are numbers, said here as the provers know no powers.
ASSUME PowerAssumption == \A n \in 0 .. MaxDoublings : 2 ^ n \in Nat \ {0}

VARIABLES
    sub,        \* the .await subscription_loop is at
    subHash,    \* the hash it is sending
    attempt,    \* the counter of its ReconnectPolicy, up to MaxDoublings
    delay,      \* the delay it is in, or 0
    hashQueue,  \* the channel of hashes
    proc,       \* the .await process_pending_hashes is at
    procHash,   \* the hash it is working on
    dedup,      \* the LRU cache, the most recently used entry first
    outDepth,   \* number of transactions in the channel to main
    recency,    \* history: hashes received, the latest first
    since       \* history: ticks since a hash was last let through, up to Ttl

retryVars == <<attempt, delay>>
subVars == <<sub, subHash, retryVars>>
procVars == <<proc, procHash>>
histVars == <<recency, since>>
vars == <<subVars, hashQueue, procVars, dedup, outDepth, histVars>>

Entry == [hash : Hashes, age : 0 .. Ttl]

TypeOK ==
    /\ sub \in {"connect", "subscribe", "stream", "send", "delay"}
    /\ subHash \in Hashes \cup {NoHash}
    /\ attempt \in 0 .. MaxDoublings
    /\ delay \in 0 .. MaxDelay /\ (delay # 0 <=> sub = "delay")
    /\ hashQueue \in Seq(Hashes) /\ Len(hashQueue) =< HashBuffer
    /\ proc \in {"recv", "fetch", "send"}
    /\ procHash \in Hashes \cup {NoHash}
    /\ dedup \in Seq(Entry) /\ Len(dedup) =< CacheCapacity
    /\ outDepth \in 0 .. OutputBuffer
    /\ recency \in Seq(Hashes)
    /\ since \in [Hashes -> 0 .. Ttl]

Init ==
    /\ sub = "connect" /\ subHash = NoHash /\ hashQueue = <<>>
    /\ attempt = 0 /\ delay = 0
    /\ proc = "recv" /\ procHash = NoHash
    /\ dedup = <<>> /\ outDepth = 0
    /\ recency = <<>> /\ since = [h \in Hashes |-> Ttl]

-----------------------------------------------------------------------------
(* subscription_loop *)

SubGoesTo(label) ==
    /\ sub' = label
    /\ UNCHANGED <<subHash, hashQueue, procVars, dedup, outDepth, histVars>>

\* Provider::<Ws>::connect answers: the policy is reset, though nothing has been
\* subscribed to yet.
Connected ==
    /\ sub = "connect" /\ SubGoesTo("subscribe")
    /\ attempt' = 0 /\ UNCHANGED delay

\* subscribe_pending_txs answers.
Subscribed ==
    sub = "subscribe" /\ SubGoesTo("stream") /\ UNCHANGED retryVars

\* Mutant of AfterFailure: the task ends.
AfterFailure_Stop == "stopped"

\* Where a failure of the connection leads: to wait_before_retry.
AfterFailure == "delay"

Smaller(a, b) == IF a =< b THEN a ELSE b

\* The delay wait_before_retry computes from the counter, which it increments.
DelayAt(n) == Smaller(2 ^ n, MaxDelay)

\* The connection is refused, the subscription fails, or the stream ends.
ConnectionLost ==
    /\ sub \in {"connect", "subscribe", "stream"}
    /\ SubGoesTo(AfterFailure)
    /\ delay' = DelayAt(attempt)
    /\ attempt' = Smaller(attempt + 1, MaxDoublings)

\* wait_before_retry is over.
Retry ==
    sub = "delay" /\ SubGoesTo("connect") /\ delay' = 0 /\ UNCHANGED attempt

\* The node announces a hash, as often as it likes.
Announce(h) ==
    /\ sub = "stream"
    /\ sub' = "send" /\ subHash' = h
    /\ UNCHANGED <<retryVars, hashQueue, procVars, dedup, outDepth, histVars>>

\* hash_sender.send, which waits while the channel is full.
SendHash ==
    /\ sub = "send" /\ Len(hashQueue) < HashBuffer
    /\ hashQueue' = Append(hashQueue, subHash)
    /\ sub' = "stream" /\ subHash' = NoHash
    /\ UNCHANGED <<retryVars, procVars, dedup, outDepth, histVars>>

-----------------------------------------------------------------------------
(* is_duplicate *)

EntryAt(h) == {i \in DOMAIN dedup : dedup[i].hash = h}
Without(seq, at) == IF at = {} THEN seq ELSE RemoveAt(seq, CHOOSE i \in at : TRUE)
FirstOf(n, seq) == IF Len(seq) =< n THEN seq ELSE SubSeq(seq, 1, n)

\* The hash has an entry that is not older than the TTL.
IsDuplicate(h) == \E i \in EntryAt(h) : dedup[i].age < Ttl

\* Mutant of Used: a use does not move an entry to the front (peek, not get).
Used_InPlace(h, age) ==
    IF EntryAt(h) # {}
    THEN [i \in DOMAIN dedup |-> IF i \in EntryAt(h)
                                 THEN [hash |-> h, age |-> age] ELSE dedup[i]]
    ELSE FirstOf(CacheCapacity, <<[hash |-> h, age |-> age]>> \o dedup)

\* Mutant of Used: a full cache grows.
Used_Unbounded(h, age) ==
    <<[hash |-> h, age |-> age]>> \o Without(dedup, EntryAt(h))

\* LruCache::get and put: the entry used comes first, and the least recently
\* used one leaves a full cache.
Used(h, age) ==
    FirstOf(CacheCapacity,
            <<[hash |-> h, age |-> age]>> \o Without(dedup, EntryAt(h)))

\* Mutant of AgeAfterHit: a duplicate renews the entry.
AgeAfterHit_Renewed(h) == 0

\* A duplicate leaves the time at which the hash was seen alone.
AgeAfterHit(h) == dedup[CHOOSE i \in EntryAt(h) : TRUE].age

-----------------------------------------------------------------------------
(* process_pending_hashes *)

\* The next hash is taken from the channel.
Received(h) ==
    /\ proc = "recv" /\ hashQueue # <<>> /\ h = Head(hashQueue)
    /\ hashQueue' = Tail(hashQueue)
    /\ recency' = <<h>> \o Without(recency, {i \in DOMAIN recency :
                                                recency[i] = h})

\* A duplicate: on to the next hash.
SkipDuplicate(h) ==
    /\ Received(h) /\ IsDuplicate(h)
    /\ dedup' = Used(h, AgeAfterHit(h))
    /\ UNCHANGED <<subVars, procVars, outDepth, since>>

\* A new hash is remembered before its transaction is fetched.
Admit(h) ==
    /\ Received(h) /\ ~IsDuplicate(h)
    /\ dedup' = Used(h, 0)
    /\ since' = [since EXCEPT ![h] = 0]
    /\ proc' = "fetch" /\ procHash' = h
    /\ UNCHANGED <<subVars, outDepth>>

ProcGoesTo(label, h) ==
    /\ proc' = label /\ procHash' = h
    /\ UNCHANGED <<subVars, hashQueue, dedup, outDepth, histVars>>

\* get_transaction finds it, and the filter lets it pass or does not.
Fetched(h) ==
    /\ proc = "fetch" /\ procHash = h
    /\ IF h \in Passing
       THEN ProcGoesTo("send", h)
       ELSE ProcGoesTo("recv", NoHash)

\* get_transaction fails or does not find it (yet): it is given up.
FetchMissed == proc = "fetch" /\ ProcGoesTo("recv", NoHash)

\* output_sender.send, which waits while the channel is full.
Forward ==
    /\ proc = "send" /\ outDepth < OutputBuffer
    /\ outDepth' = outDepth + 1
    /\ proc' = "recv" /\ procHash' = NoHash
    /\ UNCHANGED <<subVars, hashQueue, dedup, histVars>>

\* main receives (Runtime.tla: it is never blocked for good).
Consume ==
    /\ outDepth > 0 /\ outDepth' = outDepth - 1
    /\ UNCHANGED <<subVars, hashQueue, procVars, dedup, histVars>>

\* The clock.
Older(age) == IF age < Ttl THEN age + 1 ELSE Ttl

Tick ==
    /\ \E h \in Hashes : since[h] < Ttl
    /\ since' = [h \in Hashes |-> Older(since[h])]
    /\ dedup' = [i \in DOMAIN dedup |-> [dedup[i] EXCEPT !.age = Older(@)]]
    /\ UNCHANGED <<subVars, hashQueue, procVars, outDepth, recency>>

-----------------------------------------------------------------------------

SubscriptionStep ==
    \/ Connected \/ Subscribed \/ ConnectionLost \/ Retry \/ SendHash
    \/ \E h \in Hashes : Announce(h)

ProcessStep ==
    \/ FetchMissed \/ Forward
    \/ \E h \in Hashes : SkipDuplicate(h) \/ Admit(h) \/ Fetched(h)

Next == SubscriptionStep \/ ProcessStep \/ Consume \/ Tick

Spec == Init /\ [][Next]_vars

\* The tasks are scheduled, delays end, the requests of process_pending_hashes
\* end (they are under request_timeout), main receives, the clock runs.  Neither
\* the connection to the WebSocket nor the subscription is under a timeout:
\* Connected, Subscribed and ConnectionLost are not fair, and an attempt may hang
\* for ever.  Of the RPC nodes this is assumed: the fetch of a given hash, tried
\* again and again, succeeds at some time.
FairSpec ==
    /\ Spec
    /\ WF_vars(Retry) /\ WF_vars(SendHash) /\ WF_vars(ProcessStep)
    /\ WF_vars(Consume) /\ WF_vars(Tick)
    /\ \A h \in Hashes : SF_vars(Fetched(h))

-----------------------------------------------------------------------------
(* Safety *)

\* The deduplication as seen from outside the cache: a hash that is among the
\* CacheCapacity different ones received last, and was let through less than
\* the TTL ago, is not let through again.  The cache must be LRU for this.
NoReadmission ==
    [][\A h \in Hashes :
         Admit(h) => ~(h \in ToSet(FirstOf(CacheCapacity, recency))
                       /\ since[h] < Ttl)]_vars

(* Liveness *)

\* What the loop needs of the WebSocket's node: no attempt hangs for ever, and
\* connecting, and subscribing, tried again and again succeed at some time.
NodeAnswers ==
    /\ []<>(sub \notin {"connect", "subscribe"})
    /\ []<>(sub = "connect") => []<>(sub = "subscribe")
    /\ []<>(sub = "subscribe") => []<>(sub = "stream")

\* With a node that answers, the subscription loop gets back to reading hashes
\* after any failure, however often connections are refused, lost, or fail
\* between connection and subscription, and a full channel does not hold it for
\* good.  The assumption is part of the property: nothing in the code ends an
\* attempt to connect or to subscribe that is never answered.
StreamResumes == NodeAnswers => (sub # "stream" ~> sub = "stream")

\* A hash is remembered before its transaction is fetched, so a failed fetch
\* loses it for the TTL, but not for good: of a hash that keeps arriving, the
\* transaction is forwarded again and again.
MissedIsRetried ==
    \A h \in Passing :
       []<>(proc = "recv" /\ hashQueue # <<>> /\ Head(hashQueue) = h)
          => []<>(proc = "send" /\ procHash = h)

=============================================================================
