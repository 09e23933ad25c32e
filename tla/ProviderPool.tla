---------------------------- MODULE ProviderPool ----------------------------
(***************************************************************************)
(* ConnectionManager: a pool of RPC endpoints shared by every task of the  *)
(* bot.  A call goes round the endpoints from a rotating start, skips      *)
(* those in backoff, and returns the first answer.  An endpoint's failure  *)
(* counter is updated before, its backoff and its health gauge after an    *)
(* .await for a lock, so calls interleave inside record_success and        *)
(* record_failure.                                                         *)
(*                                                                         *)
(* Time is counted in units of the initial backoff.  backoff[p] is what is *)
(* left of the backoff of p, 0 for `None' or an instant already reached.   *)
(***************************************************************************)
EXTENDS Integers, FiniteSets

CONSTANTS
    ProviderCount,   \* number of configured endpoints
    Callers,         \* tasks that make RPC calls
    MaxBackoff,      \* MAX_BACKOFF_MS in units of INITIAL_BACKOFF_MS
    MaxCounted       \* consecutive failures are counted up to this bound

\* Failures from which an endpoint is reported unhealthy.
UnhealthyAfter == 3

Providers == 0 .. ProviderCount - 1

ASSUME PoolAssumption ==
    /\ ProviderCount \in Nat \ {0}   \* Settings::validate: rpc_urls not empty
    /\ MaxBackoff \in Nat \ {0}
    /\ MaxCounted \in Nat
    /\ MaxCounted >= UnhealthyAfter
    /\ 2 ^ (MaxCounted - 1) >= MaxBackoff   \* counting on changes no delay

\* A fact of arithmetic, named for the proofs: the provers know no bound of a
\* power.
ASSUME PowerAssumption == \A n \in 1 .. MaxCounted : 2 ^ (n - 1) \in Nat

VARIABLES
    next,       \* round_robin_index modulo the number of endpoints
    failures,   \* consecutive_failures of each endpoint
    backoff,    \* what is left of backoff_until
    gauge,      \* rpc_provider_healthy of each endpoint
    pc,         \* where each caller is
    start,      \* start_index of each caller
    offset,     \* offset of each caller
    counted,    \* the failure count a caller's fetch_add returned
    attempt     \* history: what became of each endpoint in a caller's call

slotVars == <<failures, backoff, gauge>>
vars == <<next, slotVars, pc, start, offset, counted, attempt>>

\* The states of a call: at the head of the loop, waiting for an answer, inside
\* record_success or record_failure; or over.
Calling == {"loop", "request", "ok", "err"}
Over == {"answered", "failed", "allFailed"}

NoAttempt == [p \in Providers |-> "none"]

TypeOK ==
    /\ next \in Providers
    /\ failures \in [Providers -> 0 .. MaxCounted]
    /\ backoff \in [Providers -> 0 .. MaxBackoff]
    /\ gauge \in [Providers -> {0, 1}]
    /\ pc \in [Callers -> Calling \cup Over]
    /\ start \in [Callers -> Providers]
    /\ offset \in [Callers -> 0 .. ProviderCount]
    /\ counted \in [Callers -> 0 .. MaxCounted]
    /\ attempt \in [Callers -> [Providers -> {"none", "skipped", "failed"}]]

\* connect: every endpoint starts clean, its gauge at 1.
Init ==
    /\ next = 0
    /\ failures = [p \in Providers |-> 0]
    /\ backoff = [p \in Providers |-> 0]
    /\ gauge = [p \in Providers |-> 1]
    /\ pc = [c \in Callers |-> "answered"]
    /\ start = [c \in Callers |-> 0]
    /\ offset = [c \in Callers |-> 0]
    /\ counted = [c \in Callers |-> 0]
    /\ attempt = [c \in Callers |-> NoAttempt]

\* The endpoint a caller is at.
At(c) == (start[c] + offset[c]) % ProviderCount

\* Mutant of InBackoff: a backoff is written and never looked at.
InBackoff_Ignored(p) == FALSE

\* is_in_backoff.
InBackoff(p) == backoff[p] > 0

Smaller(a, b) == IF a =< b THEN a ELSE b

\* Mutant of Delay: the delay is not capped.
Delay_Uncapped(n) == 2 ^ (n - 1)

\* The delay record_failure computes for the n-th consecutive failure.
Delay(n) == Smaller(2 ^ (n - 1), MaxBackoff)

-----------------------------------------------------------------------------
(* attempt_providers *)

\* A call begins: any wrapper, get_transaction to get_transaction_receipt.
Begin(c) ==
    /\ pc[c] \in Over
    /\ pc' = [pc EXCEPT ![c] = "loop"]
    /\ start' = [start EXCEPT ![c] = next]
    /\ next' = (next + 1) % ProviderCount
    /\ attempt' = [attempt EXCEPT ![c] = NoAttempt]
    /\ UNCHANGED <<slotVars, offset, counted>>

\* What a call forgets when it returns.
Return(c, result) ==
    /\ pc' = [pc EXCEPT ![c] = result]
    /\ start' = [start EXCEPT ![c] = 0]
    /\ offset' = [offset EXCEPT ![c] = 0]

Skip(c) ==
    /\ pc[c] = "loop" /\ offset[c] < ProviderCount
    /\ InBackoff(At(c))
    /\ attempt' = [attempt EXCEPT ![c][At(c)] = "skipped"]
    /\ offset' = [offset EXCEPT ![c] = @ + 1]
    /\ UNCHANGED <<next, slotVars, pc, start, counted>>

Request(c) ==
    /\ pc[c] = "loop" /\ offset[c] < ProviderCount
    /\ ~InBackoff(At(c))
    /\ pc' = [pc EXCEPT ![c] = "request"]
    /\ UNCHANGED <<next, slotVars, start, offset, counted, attempt>>

\* The last error, or AllProvidersFailed if no endpoint was asked.
FinalError(c) ==
    IF \E p \in Providers : attempt[c][p] = "failed"
    THEN "failed" ELSE "allFailed"

\* No endpoint is left.
GiveUp(c) ==
    /\ pc[c] = "loop" /\ offset[c] = ProviderCount
    /\ Return(c, FinalError(c))
    /\ UNCHANGED <<next, slotVars, counted, attempt>>

\* An answer: record_success clears the counter, then awaits two locks.
Answer(c) ==
    /\ pc[c] = "request"
    /\ failures' = [failures EXCEPT ![At(c)] = 0]
    /\ pc' = [pc EXCEPT ![c] = "ok"]
    /\ UNCHANGED <<next, backoff, gauge, start, offset, counted, attempt>>

\* record_success has the lock of backoff_until; the call returns.
FinishSuccess(c) ==
    /\ pc[c] = "ok"
    /\ backoff' = [backoff EXCEPT ![At(c)] = 0]
    /\ gauge' = [gauge EXCEPT ![At(c)] = 1]
    /\ attempt' = [attempt EXCEPT ![c] = NoAttempt]
    /\ Return(c, "answered")
    /\ UNCHANGED <<next, failures, counted>>

\* An error or a timeout: record_failure counts it, then awaits a lock.
Fail(c) ==
    /\ pc[c] = "request"
    /\ failures' = [failures EXCEPT ![At(c)] = Smaller(@ + 1, MaxCounted)]
    /\ counted' = [counted EXCEPT ![c] = failures'[At(c)]]
    /\ attempt' = [attempt EXCEPT ![c][At(c)] = "failed"]
    /\ pc' = [pc EXCEPT ![c] = "err"]
    /\ UNCHANGED <<next, backoff, gauge, start, offset>>

\* Mutants of NextOffset: the first error ends the loop; the endpoint that failed
\* is asked again.
NextOffset_Last(c) == ProviderCount
NextOffset_Same(c) == offset[c]

\* The loop goes on to the next endpoint.
NextOffset(c) == offset[c] + 1

\* record_failure has the lock of backoff_until; on to the next endpoint.
FinishFailure(c) ==
    /\ pc[c] = "err"
    /\ backoff' = [backoff EXCEPT ![At(c)] = Delay(counted[c])]
    /\ gauge' = IF counted[c] >= UnhealthyAfter
                THEN [gauge EXCEPT ![At(c)] = 0] ELSE gauge
    /\ offset' = [offset EXCEPT ![c] = NextOffset(c)]
    /\ counted' = [counted EXCEPT ![c] = 0]
    /\ pc' = [pc EXCEPT ![c] = "loop"]
    /\ UNCHANGED <<next, failures, start, attempt>>

\* Time passes for every backoff.
Tick ==
    /\ \E p \in Providers : backoff[p] > 0
    /\ backoff' = [p \in Providers |->
                     IF backoff[p] > 0 THEN backoff[p] - 1 ELSE 0]
    /\ UNCHANGED <<next, failures, gauge, pc, start, offset, counted, attempt>>

-----------------------------------------------------------------------------

CallStep(c) ==
    \/ Skip(c) \/ Request(c) \/ GiveUp(c)
    \/ Answer(c) \/ FinishSuccess(c) \/ Fail(c) \/ FinishFailure(c)

Next == Tick \/ \E c \in Callers : Begin(c) \/ CallStep(c)

Spec == Init /\ [][Next]_vars

\* Every request is under a timeout, locks are held for a moment, and the
\* clock advances.  That calls are made is not assumed.
FairSpec == Spec /\ WF_vars(Tick) /\ \A c \in Callers : WF_vars(CallStep(c))

-----------------------------------------------------------------------------
(* Safety *)

\* A call ends in an error only when each endpoint failed it or was in
\* backoff when its turn came: one healthy endpoint is enough.
FailoverComplete ==
    \A c \in Callers : pc[c] \in {"failed", "allFailed"} =>
       \A p \in Providers : attempt[c][p] # "none"

\* AllProvidersFailed is reported only by a call that asked no endpoint.
AllFailedMeansNoneAsked ==
    \A c \in Callers : pc[c] = "allFailed" =>
       \A p \in Providers : attempt[c][p] = "skipped"

\* The most steps a call still takes: at each endpoint left a request, its
\* answer and the lock.
StepsLeft(c) ==
    LET left == 3 * (ProviderCount - offset[c])
    IN  CASE pc[c] = "loop" -> left + 1
          [] pc[c] = "request" -> left
          [] pc[c] \in {"ok", "err"} -> left - 1
          [] OTHER -> 0

\* Every step of a call brings its end closer, and no step of another call or
\* of the clock puts it off: attempt_providers ends after as many requests as
\* there are endpoints, whoever clears and sets their backoffs meanwhile.
CallsShrink ==
    [][\A c \in Callers : pc[c] \in Calling =>
         /\ StepsLeft(c)' =< StepsLeft(c)
         /\ CallStep(c) => StepsLeft(c)' < StepsLeft(c)]_vars

(* Liveness *)

\* No endpoint stays in backoff for good, however many calls are under way:
\* a call that begins during the backoff cannot prolong it.
BackoffEnds == \A p \in Providers : backoff[p] > 0 ~> backoff[p] = 0

=============================================================================
