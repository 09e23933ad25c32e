------------------------------ MODULE Executor ------------------------------
(***************************************************************************)
(* ReplacementExecutor with its NonceManager and SafetyGuard, driven by    *)
(* worker::handle_opportunity, against a chain that may lose answers, lag  *)
(* and mine any transaction that reached a node.                           *)
(*                                                                         *)
(* handle_opportunity holds the executor's Mutex from before the call of   *)
(* execute_opportunity to after its outcome is recorded, so one            *)
(* opportunity at a time is executed: `opp' names it.  What interleaves    *)
(* with it is the chain, the clock and a restart of the process.  A step   *)
(* of the executor runs from one .await to the next.                       *)
(***************************************************************************)
EXTENDS GasAuction, FiniteSets

CONSTANTS
    Opps,                    \* the opportunities the detector hands over
    NoOpp,                   \* no opportunity is being executed
    NoTx,                    \* no transaction is monitored
    Victim,                  \* Victim[o]: effective gas price of o's target
    Gross,                   \* Gross[o]: estimated gross profit of o
    NetworkFloors,           \* values base fee + priority fee may take
    GasLimit,                \* gas limit of a submission
    GasUsed,                 \* gas units a receipt reports
    MinRoi,                  \* profit.min_profit_percent
    MaxDailySpend,           \* safety.max_daily_spend_eth
    BreakerEnabled,          \* safety.circuit_breaker_enabled
    MaxConsecutiveFailures,  \* safety.max_consecutive_failures
    InitNonce,               \* account nonce when the process first starts
    MaxRestarts              \* bound on the restarts that are explored

\* MAX_REPLACEMENT_ATTEMPTS.
MaxReplacementAttempts == 3

ASSUME ExecutorAssumption ==
    /\ IsFiniteSet(Opps) /\ NoOpp \notin Opps
    /\ Victim \in [Opps -> Nat] /\ Gross \in [Opps -> Nat]
    /\ NetworkFloors \subseteq Nat
    /\ GasLimit \in Nat \ {0} /\ GasUsed \in 1 .. GasLimit
    /\ MinRoi \in Nat /\ MaxDailySpend \in Nat
    /\ BreakerEnabled \in BOOLEAN
    /\ MaxConsecutiveFailures \in Nat \ {0}
    /\ InitNonce \in Nat /\ MaxRestarts \in Nat

\* A signed transaction.  Signing is deterministic, so the record stands for
\* its hash as well.
Tx == [opp : Opps, nonce : Nat, price : Nat]

ASSUME NoTxAssumption == NoTx \notin Tx

\* is_profitable at a given gas price.  Slippage, a cost that does not depend on
\* the price, is taken to be zero.
ProfitableAt(o, price) ==
    LET cost == GasLimit * price
        net  == Gross[o] - cost
    IN  net > 0 /\ net * 100 >= MinRoi * cost

\* ProfitabilityAnalysis::replacement_gas_cost_wei, computed once by
\* analyze_transaction_profitability and carried with the opportunity.
EstimatedCost(o) == GasLimit * Bump(Victim[o])

\* OpportunityDetector::evaluate hands over only opportunities that meet the
\* profit threshold under that estimate.
ASSUME AdmittedAssumption ==
    \A o \in Opps : ProfitableAt(o, Bump(Victim[o]))

\* One bump of the lowest price is visible at the unit prices are counted in
\* (in wei, with the shipped settings, by eight orders of magnitude).
ASSUME BumpVisibleAssumption == MinGasPrice * BumpPercent >= 100

VARIABLES
    pc,           \* the .await the executor is at
    opp,          \* the opportunity being executed
    signed,       \* the transaction being sent
    cur,          \* monitor_until_settled's current_hash
    deadline,     \* of monitor_until_settled: "ahead" or "passed"
    failures,     \* SafetyGuard::consecutive_failures
    dailySpend,   \* SafetyGuard::daily_spend_wei
    day,          \* since spend_day_started: "running", or "over" after 24 h
    nextNonce,    \* NonceManager::next_nonce
    pending,      \* pending_submissions: transaction -> replacement_attempts
    pool,         \* transactions some node has received
    mined,        \* transactions included in a block
    chainNonce,   \* the account nonce on the chain
    status,       \* history: what became of each opportunity
    sent,         \* history: transactions passed to send_raw_transaction
    dayConfirmed, \* history: confirmations since the daily counter was reset
    restarts      \* restarts so far

guardVars == <<failures, dailySpend, day>>
chainVars == <<pool, mined, chainNonce>>
histVars == <<status, sent, dayConfirmed, restarts>>
vars == <<pc, opp, signed, cur, deadline, guardVars, nextNonce, pending,
          chainVars, histVars>>

Outcomes == {"confirmed", "dropped", "rejected", "error", "killed"}
Monitoring == {"top", "receipt", "recheck", "resend"}

TypeOK ==
    /\ pc \in {"idle", "submit"} \cup Monitoring
    /\ opp \in Opps \cup {NoOpp}
    /\ signed \in Tx \cup {NoTx} /\ cur \in Tx \cup {NoTx}
    /\ deadline \in {"ahead", "passed"} /\ day \in {"running", "over"}
    /\ failures \in Nat /\ dailySpend \in Nat /\ nextNonce \in Nat
    /\ DOMAIN pending \subseteq Tx
    /\ \A t \in DOMAIN pending : pending[t] \in 0 .. MaxReplacementAttempts
    /\ pool \subseteq Tx /\ mined \subseteq pool /\ chainNonce \in Nat
    /\ status \in [Opps -> {"new", "running"} \cup Outcomes]
    /\ sent \subseteq Tx
    /\ dayConfirmed \subseteq Tx /\ restarts \in 0 .. MaxRestarts

Init ==
    /\ pc = "idle" /\ opp = NoOpp /\ signed = NoTx /\ cur = NoTx
    /\ deadline = "ahead"
    /\ failures = 0 /\ dailySpend = 0 /\ day = "running"
    /\ nextNonce = InitNonce        \* initialize: sync_from_chain
    /\ pending = [t \in {} |-> 0]
    /\ pool = {} /\ mined = {} /\ chainNonce = InitNonce
    /\ status = [o \in Opps |-> "new"]
    /\ sent = {} /\ dayConfirmed = {} /\ restarts = 0

-----------------------------------------------------------------------------
(* SafetyGuard *)

BreakerOpen == BreakerEnabled /\ failures >= MaxConsecutiveFailures

\* reset_daily_spend_if_needed: the counter as it is after the reset that
\* precedes every use of it.
SpentToday == IF day = "over" THEN 0 ELSE dailySpend
ConfirmedToday == IF day = "over" THEN {} ELSE dayConfirmed

RollDay ==
    /\ day' = "running"
    /\ dailySpend' = SpentToday
    /\ dayConfirmed' = ConfirmedToday

\* Mutants of PassesGuards: the breaker is not consulted; it opens one failure
\* late; the cap tested is the hard one.
PassesGuards_NoBreaker(o, price) ==
    price =< SoftGasCap /\ ProfitableAt(o, Bump(Victim[o]))
PassesGuards_LateBreaker(o, price) ==
    /\ ~(BreakerEnabled /\ failures > MaxConsecutiveFailures)
    /\ price =< SoftGasCap
    /\ ProfitableAt(o, Bump(Victim[o]))
PassesGuards_HardCap(o, price) ==
    /\ ~BreakerOpen
    /\ price =< MaxGasPrice
    /\ ProfitableAt(o, Bump(Victim[o]))

\* preflight_check up to its last test.  The profitability it tests is the
\* detector's estimate, whatever price is being offered.  Its first test, the
\* emergency stop, cannot fail: main ends at startup when the stop is set,
\* and nothing sets it later.
PassesGuards(o, price) ==
    /\ ~BreakerOpen
    /\ price =< SoftGasCap
    /\ ProfitableAt(o, Bump(Victim[o]))

\* check_daily_spend_limit.
WithinDailyLimit(o) == SpentToday + EstimatedCost(o) =< MaxDailySpend

\* A price that the pricing functions and preflight_check let through.
Approved(o, price) ==
    WithinMaximum(price) /\ PassesGuards(o, price) /\ WithinDailyLimit(o)

\* The day is rolled by the last test of preflight_check, if it is reached.
PreflightEffect(o, price) ==
    IF WithinMaximum(price) /\ PassesGuards(o, price)
    THEN RollDay
    ELSE UNCHANGED <<day, dailySpend, dayConfirmed>>

(* NonceManager *)

\* Mutant of Allocated: a load in place of the fetch_add.
Allocated_NotAdvanced == nextNonce

\* allocate_nonce: next_nonce after the fetch_add.
Allocated == nextNonce + 1

\* Mutant of Released: a failed send keeps its nonce.
Released_Kept(nonce) == nextNonce

\* release_nonce: only the most recently allocated nonce is taken back.
Released(nonce) == IF nonce + 1 = nextNonce THEN nonce ELSE nextNonce

-----------------------------------------------------------------------------
(* The end of handle_opportunity: the outcome is recorded, the lock freed.  *)

\* The failures handle_opportunity itself adds for an outcome.
WorkerFailures(outcome) == IF outcome = "dropped" THEN 1 ELSE 0

Settle(outcome) ==
    /\ pc' = "idle" /\ opp' = NoOpp /\ signed' = NoTx /\ cur' = NoTx
    /\ deadline' = "ahead"
    /\ status' = [status EXCEPT ![opp] = outcome]
    /\ UNCHANGED restarts

-----------------------------------------------------------------------------
(* execute_opportunity *)

\* Priced, approved, given a nonce and signed: the transaction is on its way.
Execute(o) ==
    /\ pc = "idle" /\ status[o] = "new"
    /\ \E floor \in NetworkFloors :
         LET price == ReplacementGasPrice(Victim[o], floor)
             tx    == [opp |-> o, nonce |-> nextNonce, price |-> price]
         IN  /\ Approved(o, price)
             /\ signed' = tx
             /\ sent' = sent \cup {tx}
    /\ RollDay
    /\ nextNonce' = Allocated
    /\ pc' = "submit" /\ opp' = o
    /\ status' = [status EXCEPT ![o] = "running"]
    /\ UNCHANGED <<cur, deadline, failures, pending, chainVars, restarts>>

\* The price or preflight_check refuses: an error, and no failure is counted.
Refuse(o) ==
    /\ pc = "idle" /\ status[o] = "new"
    /\ \E floor \in NetworkFloors :
         LET price == ReplacementGasPrice(Victim[o], floor)
         IN  ~Approved(o, price) /\ PreflightEffect(o, price)
    /\ status' = [status EXCEPT ![o] = "error"]
    /\ UNCHANGED <<pc, opp, signed, cur, deadline, failures, nextNonce,
                   pending, chainVars, sent, restarts>>

\* A node can take a transaction whose nonce the account has not used yet.
Acceptable(tx) == tx.nonce >= chainNonce

\* What a send whose answer is an error may have done: nothing, or the
\* transaction reached a node and only the answer was lost.
LostSend(tx) ==
    /\ pool' \in {pool} \cup (IF Acceptable(tx) THEN {pool \cup {tx}} ELSE {})
    /\ UNCHANGED <<mined, chainNonce>>

\* submit_and_monitor, send_raw_transaction answered with the hash.
SubmitAccepted ==
    /\ pc = "submit" /\ Acceptable(signed)
    /\ pool' = pool \cup {signed}
    /\ pending' = [t \in DOMAIN pending \cup {signed} |->
                     IF t = signed THEN 0 ELSE pending[t]]
    /\ cur' = signed /\ signed' = NoTx
    /\ deadline' = "ahead"
    /\ pc' = "top"
    /\ UNCHANGED <<opp, guardVars, nextNonce, mined, chainNonce, histVars>>

\* submit_and_monitor, send_raw_transaction failed: the outcome is Rejected.
SubmitFailed ==
    /\ pc = "submit"
    /\ LostSend(signed)
    /\ nextNonce' = Released(signed.nonce)
    /\ failures' = failures + 1 + WorkerFailures("rejected")
    /\ Settle("rejected")
    /\ UNCHANGED <<dailySpend, day, pending, sent, dayConfirmed>>

-----------------------------------------------------------------------------
(* monitor_until_settled *)

\* Mutant of DeadlineReached: the loop has no deadline.
DeadlineReached_Never == FALSE

\* Instant::now() >= deadline.
DeadlineReached == deadline = "passed"

\* Mutant of HasReceipt: the transaction is known, not mined.
HasReceipt_Known(tx) == tx \in pool

\* get_transaction_receipt can answer with a receipt only for a mined hash.
HasReceipt(tx) == tx \in mined

\* Mutant of AttemptsLeft: one attempt too many.
AttemptsLeft_OneMore(tx) ==
    tx \in DOMAIN pending /\ pending[tx] =< MaxReplacementAttempts

\* The entry of the hash is there and has replacement attempts left.
AttemptsLeft(tx) ==
    tx \in DOMAIN pending /\ pending[tx] < MaxReplacementAttempts

\* Mutant of Untrack: the end of an execution leaves its entry behind.
Untrack_Kept(tx) == pending

\* pending_submissions.remove.
Untrack(tx) == [t \in DOMAIN pending \ {tx} |-> pending[t]]

\* A step that only moves the executor to its next .await.
GoTo(label) ==
    /\ pc' = label
    /\ UNCHANGED <<opp, signed, cur, deadline, guardVars, nextNonce, pending,
                   chainVars, histVars>>

\* The head of the loop, deadline not reached: the receipt is asked for.
PollReceipt ==
    /\ pc = "top" /\ ~DeadlineReached
    /\ GoTo("receipt")

\* The head of the loop after the deadline: Dropped, which both the executor
\* and handle_opportunity record as a failure.
Drop ==
    /\ pc = "top" /\ DeadlineReached
    /\ pending' = Untrack(cur)
    /\ failures' = failures + 1 + WorkerFailures("dropped")
    /\ Settle("dropped")
    /\ UNCHANGED <<dailySpend, day, nextNonce, chainVars, sent,
                   dayConfirmed>>

\* A receipt: record_success, then record_spend of its gas_used.
Confirm ==
    /\ pc = "receipt" /\ HasReceipt(cur)
    /\ pending' = Untrack(cur)
    /\ failures' = 0
    /\ day' = "running" /\ dailySpend' = SpentToday + GasUsed
    /\ dayConfirmed' = ConfirmedToday \cup {cur}
    /\ Settle("confirmed")
    /\ UNCHANGED <<nextNonce, chainVars, sent>>

\* No receipt (also from a node that lags): sleep, then look again if
\* replacement attempts are left, else go round.
NoReceipt ==
    /\ pc = "receipt"
    /\ GoTo(IF AttemptsLeft(cur) THEN "recheck" ELSE "top")

\* An RPC error of either receipt request leaves by `?', without touching
\* pending_submissions, the nonce or the failure counter.
ReceiptError ==
    /\ pc \in {"receipt", "recheck"}
    /\ Settle("error")
    /\ UNCHANGED <<guardVars, nextNonce, pending, chainVars, sent,
                   dayConfirmed>>

\* The second look finds a receipt: `continue', to the deadline test.
RecheckMined ==
    /\ pc = "recheck" /\ HasReceipt(cur)
    /\ GoTo("top")

\* attempt_replacement up to its send: the same nonce at a bumped price,
\* checked again with the estimate the opportunity was found with.
Replace ==
    /\ pc = "recheck"
    /\ LET price == Bump(cur.price)
           tx    == [cur EXCEPT !.price = price]
       IN  /\ Approved(opp, price)
           /\ signed' = tx
           /\ sent' = sent \cup {tx}
    /\ RollDay
    /\ pc' = "resend"
    /\ UNCHANGED <<opp, cur, deadline, failures, nextNonce, pending, chainVars,
                   status, restarts>>

\* attempt_replacement refused before its send: a warning, sleep, go round.
ReplaceRefused ==
    /\ pc = "recheck"
    /\ ~Approved(opp, Bump(cur.price))
    /\ PreflightEffect(opp, Bump(cur.price))
    /\ pc' = "top"
    /\ UNCHANGED <<opp, signed, cur, deadline, failures, nextNonce, pending,
                   chainVars, status, sent, restarts>>

\* Mutants of Superseded: the attempt is not counted; the old entry stays.
Superseded_NotCounted(old, new) ==
    [t \in (DOMAIN pending \cup {new}) \ {old} |->
       IF t = new THEN pending[old] ELSE pending[t]]
Superseded_OldStays(old, new) ==
    [t \in DOMAIN pending \cup {new} |->
       IF t = new THEN pending[old] + 1 ELSE pending[t]]

\* pending_submissions after a replacement: the new entry goes in with one
\* more attempt, then the entry of the old hash is removed.
Superseded(old, new) ==
    [t \in (DOMAIN pending \cup {new}) \ {old} |->
       IF t = new THEN pending[old] + 1 ELSE pending[t]]

\* The replacement is accepted; from now on only its hash is monitored.
ReplaceAccepted ==
    /\ pc = "resend" /\ Acceptable(signed)
    /\ pool' = pool \cup {signed}
    /\ pending' = Superseded(cur, signed)
    /\ cur' = signed /\ signed' = NoTx
    /\ pc' = "top"
    /\ UNCHANGED <<opp, deadline, guardVars, nextNonce, mined, chainNonce,
                   histVars>>

\* The replacement's send fails: a warning; the attempt is not counted.
ReplaceFailed ==
    /\ pc = "resend"
    /\ LostSend(signed)
    /\ signed' = NoTx
    /\ pc' = "top"
    /\ UNCHANGED <<opp, cur, deadline, guardVars, nextNonce, pending, histVars>>

-----------------------------------------------------------------------------
(* The chain, the clock and the process *)

\* A block includes any received transaction with the account's next nonce,
\* superseded or not.
Mine(tx) ==
    /\ tx \in pool /\ tx.nonce = chainNonce
    /\ mined' = mined \cup {tx}
    /\ chainNonce' = chainNonce + 1
    /\ UNCHANGED <<pc, opp, signed, cur, deadline, guardVars, nextNonce,
                   pending, pool, histVars>>

DeadlinePasses ==
    /\ pc \in Monitoring /\ deadline = "ahead"
    /\ deadline' = "passed"
    /\ UNCHANGED <<pc, opp, signed, cur, guardVars, nextNonce, pending,
                   chainVars, histVars>>

DayPasses ==
    /\ day = "running" /\ dailySpend > 0
    /\ day' = "over"
    /\ UNCHANGED <<pc, opp, signed, cur, deadline, failures, dailySpend,
                   nextNonce, pending, chainVars, histVars>>

\* The process ends at any point and starts again: every counter is in
\* memory, and the nonce is read from the chain (transaction count `latest').
\* A send that was under way may have reached a node.
Restart ==
    /\ restarts < MaxRestarts
    /\ restarts' = restarts + 1
    /\ pc' = "idle" /\ opp' = NoOpp /\ signed' = NoTx /\ cur' = NoTx
    /\ deadline' = "ahead"
    /\ failures' = 0 /\ dailySpend' = 0 /\ day' = "running"
    /\ dayConfirmed' = {}
    /\ nextNonce' = chainNonce
    /\ pending' = [t \in {} |-> 0]
    /\ status' = [o \in Opps |->
                    IF status[o] = "running" THEN "killed" ELSE status[o]]
    /\ IF pc \in {"submit", "resend"} THEN LostSend(signed)
                                      ELSE UNCHANGED chainVars
    /\ UNCHANGED sent

-----------------------------------------------------------------------------

ExecutorStep ==
    \/ SubmitAccepted \/ SubmitFailed
    \/ PollReceipt \/ Drop \/ Confirm \/ NoReceipt \/ ReceiptError
    \/ RecheckMined \/ Replace \/ ReplaceRefused
    \/ ReplaceAccepted \/ ReplaceFailed

Next ==
    \/ \E o \in Opps : Execute(o) \/ Refuse(o)
    \/ ExecutorStep
    \/ \E tx \in pool : Mine(tx)
    \/ DeadlinePasses \/ DayPasses \/ Restart

Spec == Init /\ [][Next]_vars

\* Every request ends (each is under a timeout) and every sleep is finite, so
\* the executor keeps stepping; and the clock reaches the deadline.  Nothing
\* is assumed of the chain.
FairSpec == Spec /\ WF_vars(ExecutorStep) /\ WF_vars(DeadlinePasses)

-----------------------------------------------------------------------------
(* Safety *)

\* No transaction reaches the network in a step taken with the breaker open:
\* preflight_check's look at the counter is still good when the send that it
\* allowed, an .await later, succeeds.
NoSendWhileOpen == [][pool' # pool => ~BreakerOpen]_vars

\* Once open the breaker stays open for the life of the process: nothing is
\* in flight then whose confirmation could reset the counter.
BreakerLatched ==
    [][BreakerOpen => BreakerOpen' \/ restarts' # restarts]_vars

\* The counter passes its limit by one at most, the second failure that is
\* recorded for a drop.
FailuresBounded ==
    BreakerEnabled => failures =< MaxConsecutiveFailures + 1

\* No price above the soft cap is offered, by a replacement either.
OffersWithinSoftCap == \A t \in sent : t.price =< SoftGasCap

\* Every nonce below next_nonce has reached a node, but for the one whose send
\* has not been answered: a gap would leave every later submission stuck.
NoNonceGap ==
    \A n \in InitNonce .. nextNonce - 1 :
       \/ \E t \in pool : t.nonce = n
       \/ pc = "submit" /\ n = signed.nonce

\* Two opportunities bid with one nonce only after the first was rejected
\* (or the process restarted, which reads the nonce from the chain again).
NonceNotShared ==
    restarts = 0 =>
      \A t, u \in sent :
         t.nonce = u.nonce /\ t.opp # u.opp =>
           \E o \in {t.opp, u.opp} : status[o] = "rejected"

\* An opportunity is bid for under one nonce with at most four different
\* transactions, however many sends fail in between.
BidsBounded ==
    \A o \in Opps :
       LET bids == {t \in sent : t.opp = o}
       IN  /\ Cardinality(bids) =< 1 + MaxReplacementAttempts
           /\ \A t, u \in bids : t.nonce = u.nonce

\* While an opportunity is monitored pending_submissions tracks one of its
\* transactions, the current one, and that one reached a node.  An execution that
\* is over has left an entry behind only if it ended in an error, and one at most.
OneTrackedBid ==
    /\ pc \in Monitoring =>
         /\ {t \in DOMAIN pending : t.opp = opp} = {cur}
         /\ cur \in pool
    /\ \A t, u \in DOMAIN pending : t.opp = u.opp => t = u
    /\ \A t \in DOMAIN pending : status[t.opp] \in {"running", "error"}

\* Of all the transactions sent for an opportunity, superseded, dropped, lost or
\* left behind by a restart, the chain takes one at most, and exactly one of an
\* opportunity reported as confirmed: nothing is paid for twice.
ConfirmedIsMined ==
    \A o \in Opps :
       LET n == Cardinality({t \in mined : t.opp = o})
       IN  n =< 1 /\ (status[o] = "confirmed" => n = 1)

\* The requests an execution past its deadline can still be waiting for.
StepsLeft ==
    CASE pc = "receipt" -> 4
      [] pc = "recheck" -> 3
      [] pc = "resend" -> 2
      [] pc = "top" -> 1
      [] OTHER -> 0

\* Only the head of the loop looks at the deadline, and still every step after
\* it brings the end of the execution closer: an execution that is late looks
\* for its receipt twice at most, and sends no second replacement.
WindsDown ==
    [][deadline = "passed" =>
         StepsLeft' =< StepsLeft /\ (ExecutorStep => StepsLeft' < StepsLeft)]_vars

(* Liveness *)

\* An execution always ends and frees the lock the other workers wait for.
ExecutionSettles == pc # "idle" ~> pc = "idle"

-----------------------------------------------------------------------------
(* Refinement *)

\* How often the bid of the running opportunity has been raised: once more
\* than its entry says when the next replacement has already been sent.
Raises ==
    IF pc \notin Monitoring THEN 0
    ELSE IF \E t \in sent : t.opp = opp /\ t.price > cur.price
    THEN pending[cur] + 1 ELSE pending[cur]

Lifecycle == INSTANCE BidLifecycle WITH
    MaxRaises <- MaxReplacementAttempts,
    active <- opp, raises <- Raises, bids <- sent

\* The executor implements the life cycle: whatever is lost, late or mined,
\* every execution is a first bid, at most three strictly higher ones under
\* the same nonce, and one final outcome, and no two executions overlap.
ImplementsLifecycle == Lifecycle!Spec

-----------------------------------------------------------------------------
(* What the documentation says and the code does not do *)

\* ARCHITECTURE.md: success resets the failure counter.  A submission of which
\* a transaction is mined is a success, not a drop.
MinedNotDropped ==
    [][\A o \in Opps :
         status[o] = "running" /\ status'[o] = "dropped" =>
           \A t \in mined : t.opp # o]_vars

\* NonceManager manages nonce allocation and tracks in-flight submissions: the
\* nonce it gives out next is not one the account has used already.
NextNonceUnused == nextNonce >= chainNonce

\* README.md: ROI floors are enforced before any submission.
RoiFloorHolds == \A t \in sent : ProfitableAt(t.opp, t.price)

\* The wei that the confirmations of the day cost at the prices offered.
SpentWei ==
    LET Wei[S \in SUBSET dayConfirmed] ==
          IF S = {} THEN 0
          ELSE LET t == CHOOSE x \in S : TRUE
               IN  GasUsed * t.price + Wei[S \ {t}]
    IN  Wei[dayConfirmed]

\* ARCHITECTURE.md: daily spend limit checks before submission.
DailySpendWithinLimit == SpentWei =< MaxDailySpend

=============================================================================
