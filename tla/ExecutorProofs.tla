--------------------------- MODULE ExecutorProofs ---------------------------
(* Theorems about Executor, for every value of its constants. *)
EXTENDS Executor, TLAPS

-----------------------------------------------------------------------------
(* The inductive invariant, in named parts. *)

\* Where the executor is says what it holds.
ControlInv ==
    /\ pc = "idle" => opp = NoOpp
    /\ pc # "idle" => opp \in Opps /\ status[opp] = "running"
    /\ \A o \in Opps : status[o] = "running" => o = opp
    /\ pc = "submit" => signed \in sent /\ signed.opp = opp
    /\ pc \in Monitoring => cur \in sent \cap pool /\ cur.opp = opp
    /\ pc = "resend" =>
         signed \in sent /\ signed = [cur EXCEPT !.price = Bump(cur.price)]

\* Who pending_submissions tracks.
TrackingInv ==
    /\ pc \in Monitoring => {t \in DOMAIN pending : t.opp = opp} = {cur}
    /\ pc \in {"recheck", "resend"} => pending[cur] < MaxReplacementAttempts
    /\ DOMAIN pending \subseteq sent

\* Whose entries there are besides: one at most of an opportunity whose execution
\* ended in an error.
EntriesInv ==
    /\ pc = "submit" => \A t \in DOMAIN pending : t.opp # opp
    /\ \A t, u \in DOMAIN pending : t.opp = u.opp => t = u
    /\ \A t \in DOMAIN pending : status[t.opp] \in {"running", "error"}

\* The breaker is closed while an opportunity is executed.
BreakerInv ==
    BreakerEnabled =>
      /\ pc # "idle" => failures < MaxConsecutiveFailures
      /\ failures =< MaxConsecutiveFailures + 1

\* The bids made so far, and those of the running opportunity.
BidInv ==
    /\ pool \subseteq sent
    /\ \A t \in sent : t.price >= MinGasPrice /\ t.price =< SoftGasCap
    /\ \A t \in sent : status[t.opp] # "new"
    /\ pc = "submit" => \A t \in sent : t.opp = opp => t = signed
    /\ pc \in Monitoring =>
         \A t \in sent : t.opp = opp =>
           /\ t.nonce = cur.nonce
           /\ \/ t.price =< cur.price
              \/ /\ t.price = Bump(cur.price)
                 /\ pending[cur] < MaxReplacementAttempts

\* Which nonces have been used.
NonceInv ==
    /\ chainNonce >= InitNonce /\ nextNonce >= InitNonce
    /\ \A n \in InitNonce .. chainNonce - 1 : \E t \in pool : t.nonce = n
    /\ \A t \in sent : t.nonce >= InitNonce
    /\ pc = "submit" => nextNonce = signed.nonce + 1
    /\ NoNonceGap
    /\ restarts = 0 =>
         \A t \in sent : t.nonce < nextNonce \/ status[t.opp] = "rejected"
    /\ NonceNotShared

Inv ==
    /\ TypeOK /\ ControlInv /\ TrackingInv /\ EntriesInv
    /\ BreakerInv /\ BidInv /\ NonceInv

-----------------------------------------------------------------------------
(* The arithmetic of bids. *)

\* A product of naturals grows with its first factor.
LEMMA ProductMonotone ==
    ASSUME NEW a \in Nat, NEW b \in Nat, NEW c \in Nat, a >= b
    PROVE  a * c >= b * c
BY SMT

\* A bump of a price is a price again.
LEMMA BumpType ==
    ASSUME NEW p \in Nat
    PROVE  Bump(p) \in Nat /\ Bump(p) >= p
<1>1. p * BumpPercent \in Nat
  BY GasSettingsAssumption
<1> DEFINE q == p * BumpPercent
<1>2. q \div 100 \in Nat
  <2> HIDE DEF q
  <2> QED BY <1>1 DEF q
<1> QED
  BY <1>2 DEF Bump

\* A bump of a price no lower than the minimum is strictly higher.
LEMMA BumpRaises ==
    ASSUME NEW p \in Nat, p >= MinGasPrice
    PROVE  Bump(p) > p
<1>1. /\ p * BumpPercent \in Nat
      /\ p * BumpPercent >= 100
  <2>1. p * BumpPercent >= MinGasPrice * BumpPercent
    BY ProductMonotone, GasSettingsAssumption
  <2> QED
    BY <2>1, GasSettingsAssumption, BumpVisibleAssumption
<1> DEFINE q == p * BumpPercent
<1>2. q \div 100 \in Nat /\ q \div 100 >= 1
  <2> HIDE DEF q
  <2>1. q \in Nat /\ q >= 100
    BY <1>1 DEF q
  <2> QED BY <2>1
<1> QED
  BY <1>2 DEF Bump

\* The price of a first bid is a price, no lower than the minimum.
LEMMA FirstPrice ==
    ASSUME NEW v \in Nat, NEW f \in Nat
    PROVE  /\ ReplacementGasPrice(v, f) \in Nat
           /\ ReplacementGasPrice(v, f) >= MinGasPrice
BY BumpType, GasSettingsAssumption DEF ReplacementGasPrice, Larger

-----------------------------------------------------------------------------
(* Type correctness *)

\* What a lost send may do to the chain's state.
LEMMA LostSendType ==
    ASSUME TypeOK, signed \in Tx, LostSend(signed)
    PROVE  /\ pool' \subseteq Tx /\ pool \subseteq pool'
           /\ pool' \subseteq pool \cup {signed}
           /\ mined' = mined /\ chainNonce' = chainNonce
BY DEF TypeOK, LostSend, Acceptable

\* A drop is counted by handle_opportunity too, a rejection is not.
LEMMA WorkerCounts == WorkerFailures("dropped") = 1 /\ WorkerFailures("rejected") = 0
BY DEF WorkerFailures

LEMMA TypeStep ==
    ASSUME TypeOK, ControlInv, TrackingInv, [Next]_vars
    PROVE  TypeOK'
<1> USE DEF TypeOK
<1>a. ASSUME NEW o \in Opps, Execute(o) PROVE TypeOK'
  <2>1. PICK floor \in NetworkFloors :
          LET price == ReplacementGasPrice(Victim[o], floor)
              tx    == [opp |-> o, nonce |-> nextNonce, price |-> price]
          IN  signed' = tx /\ sent' = sent \cup {tx}
    BY <1>a DEF Execute
  <2>2. ReplacementGasPrice(Victim[o], floor) \in Nat
    BY FirstPrice, ExecutorAssumption
  <2>3. signed' \in Tx /\ sent' \subseteq Tx
    BY <2>1, <2>2 DEF Tx
  <2> QED
    BY <1>a, <2>3, ExecutorAssumption
    DEF Execute, RollDay, SpentToday, ConfirmedToday, Allocated, chainVars
<1>b. ASSUME NEW o \in Opps, Refuse(o) PROVE TypeOK'
  BY <1>b
  DEF Refuse, PreflightEffect, RollDay, SpentToday, ConfirmedToday, chainVars,
      Outcomes
<1>c. CASE SubmitAccepted
  BY <1>c DEF SubmitAccepted, ControlInv, guardVars, histVars,
              Monitoring, MaxReplacementAttempts
<1>d. CASE SubmitFailed
  <2>1. signed \in Tx
    BY <1>d DEF SubmitFailed, ControlInv
  <2>2. Released(signed.nonce) \in Nat
    BY <2>1 DEF Released, Tx
  <2>3. failures' \in Nat
    BY <1>d, WorkerCounts DEF SubmitFailed
  <2>4. status' \in [Opps -> {"new", "running"} \cup Outcomes]
    BY <1>d DEF SubmitFailed, Settle, Outcomes
  <2> QED
    BY <1>d, <2>1, <2>2, <2>3, <2>4, LostSendType DEF SubmitFailed, Settle
<1>e. CASE PollReceipt
  BY <1>e DEF PollReceipt, GoTo, guardVars, chainVars, histVars, Monitoring
<1>f. CASE Drop
  <2>1. failures' \in Nat
    BY <1>f, WorkerCounts DEF Drop
  <2>2. status' \in [Opps -> {"new", "running"} \cup Outcomes]
    BY <1>f DEF Drop, Settle, Outcomes
  <2>3. /\ DOMAIN pending' \subseteq Tx
        /\ \A t \in DOMAIN pending' :
             pending'[t] \in 0 .. MaxReplacementAttempts
    BY <1>f DEF Drop, Untrack
  <2> QED
    BY <1>f, <2>1, <2>2, <2>3 DEF Drop, Settle, chainVars
<1>g. CASE Confirm
  BY <1>g, ExecutorAssumption
  DEF Confirm, Untrack, Settle, Outcomes, chainVars, SpentToday,
      ConfirmedToday, ControlInv, Monitoring
<1>h. CASE NoReceipt
  BY <1>h DEF NoReceipt, GoTo, guardVars, chainVars, histVars, Monitoring
<1>i. CASE ReceiptError
  BY <1>i DEF ReceiptError, Settle, Outcomes, guardVars, chainVars
<1>j. CASE RecheckMined
  BY <1>j DEF RecheckMined, GoTo, guardVars, chainVars, histVars, Monitoring
<1>k. CASE Replace
  <2>1. cur \in Tx
    BY <1>k DEF Replace, ControlInv, Monitoring
  <2>2. [cur EXCEPT !.price = Bump(cur.price)] \in Tx
    BY <2>1, BumpType DEF Tx
  <2> QED
    BY <1>k, <2>2
    DEF Replace, RollDay, SpentToday, ConfirmedToday, chainVars, Monitoring
<1>l. CASE ReplaceRefused
  BY <1>l DEF ReplaceRefused, PreflightEffect, RollDay, SpentToday,
              ConfirmedToday, chainVars, Monitoring
<1>m. CASE ReplaceAccepted
  <2>1. signed \in Tx /\ cur \in DOMAIN pending
    BY <1>m DEF ReplaceAccepted, ControlInv, TrackingInv, Monitoring
  <2>2. pending[cur] + 1 \in 0 .. MaxReplacementAttempts
    BY <1>m, <2>1 DEF ReplaceAccepted, TrackingInv, MaxReplacementAttempts
  <2> QED
    BY <1>m, <2>1, <2>2
    DEF ReplaceAccepted, Superseded, guardVars, histVars, Monitoring
<1>n. CASE ReplaceFailed
  <2>1. signed \in Tx
    BY <1>n DEF ReplaceFailed, ControlInv
  <2> QED
    BY <1>n, <2>1, LostSendType
    DEF ReplaceFailed, guardVars, histVars, Monitoring
<1>o. ASSUME NEW tx \in pool, Mine(tx) PROVE TypeOK'
  BY <1>o DEF Mine, guardVars, histVars
<1>p. CASE DeadlinePasses
  BY <1>p DEF DeadlinePasses, guardVars, chainVars, histVars
<1>q. CASE DayPasses
  BY <1>q DEF DayPasses, chainVars, histVars
<1>r. CASE Restart
  <2>1. pool' \subseteq Tx /\ mined' \subseteq pool' /\ chainNonce' \in Nat
    <3>1. CASE pc \in {"submit", "resend"}
      <4>1. signed \in Tx
        BY <3>1 DEF ControlInv
      <4> QED BY <1>r, <3>1, <4>1, LostSendType DEF Restart
    <3>2. CASE pc \notin {"submit", "resend"}
      BY <1>r, <3>2 DEF Restart, chainVars
    <3> QED BY <3>1, <3>2
  <2> QED
    BY <1>r, <2>1, ExecutorAssumption DEF Restart, Outcomes
<1>s. CASE UNCHANGED vars
  BY <1>s DEF vars, guardVars, chainVars, histVars
<1> QED
  BY <1>a, <1>b, <1>c, <1>d, <1>e, <1>f, <1>g, <1>h, <1>i, <1>j, <1>k, <1>l,
     <1>m, <1>n, <1>o, <1>p, <1>q, <1>r, <1>s
  DEF Next, ExecutorStep

-----------------------------------------------------------------------------
(* Control *)

LEMMA ControlStep ==
    ASSUME TypeOK, ControlInv, [Next]_vars
    PROVE  ControlInv'
<1> USE DEF TypeOK, ControlInv
<1>a. ASSUME NEW o \in Opps, Execute(o) PROVE ControlInv'
  <2>1. PICK floor \in NetworkFloors :
          LET price == ReplacementGasPrice(Victim[o], floor)
              tx    == [opp |-> o, nonce |-> nextNonce, price |-> price]
          IN  signed' = tx /\ sent' = sent \cup {tx}
    BY <1>a DEF Execute
  <2> QED
    BY <1>a, <2>1, ExecutorAssumption DEF Execute, Monitoring
<1>b. ASSUME NEW o \in Opps, Refuse(o) PROVE ControlInv'
  BY <1>b DEF Refuse, chainVars, Monitoring
<1>c. CASE SubmitAccepted
  BY <1>c DEF SubmitAccepted, histVars, Monitoring
<1>d. CASE SubmitFailed
  BY <1>d DEF SubmitFailed, Settle, Outcomes, Monitoring
<1>e. CASE PollReceipt
  BY <1>e DEF PollReceipt, GoTo, chainVars, histVars, Monitoring
<1>f. CASE Drop
  BY <1>f DEF Drop, Settle, Outcomes, Monitoring
<1>g. CASE Confirm
  BY <1>g DEF Confirm, Settle, Outcomes, Monitoring
<1>h. CASE NoReceipt
  BY <1>h DEF NoReceipt, GoTo, chainVars, histVars, Monitoring
<1>i. CASE ReceiptError
  BY <1>i DEF ReceiptError, Settle, Outcomes, Monitoring
<1>j. CASE RecheckMined
  BY <1>j DEF RecheckMined, GoTo, chainVars, histVars, Monitoring
<1>k. CASE Replace
  BY <1>k DEF Replace, chainVars, Monitoring
<1>l. CASE ReplaceRefused
  BY <1>l DEF ReplaceRefused, chainVars, Monitoring
<1>m. CASE ReplaceAccepted
  <2>1. signed.opp = cur.opp /\ signed \in sent
    BY <1>m DEF ReplaceAccepted, Monitoring, Tx
  <2> QED
    BY <1>m, <2>1 DEF ReplaceAccepted, histVars, Monitoring
<1>n. CASE ReplaceFailed
  <2>1. pool \subseteq pool'
    BY <1>n DEF ReplaceFailed, LostSend
  <2> QED
    BY <1>n, <2>1 DEF ReplaceFailed, histVars, Monitoring
<1>o. ASSUME NEW tx \in pool, Mine(tx) PROVE ControlInv'
  BY <1>o DEF Mine, histVars
<1>p. CASE DeadlinePasses
  BY <1>p DEF DeadlinePasses, chainVars, histVars
<1>q. CASE DayPasses
  BY <1>q DEF DayPasses, chainVars, histVars
<1>r. CASE Restart
  BY <1>r DEF Restart, Monitoring
<1>s. CASE UNCHANGED vars
  BY <1>s DEF vars, chainVars, histVars
<1> QED
  BY <1>a, <1>b, <1>c, <1>d, <1>e, <1>f, <1>g, <1>h, <1>i, <1>j, <1>k, <1>l,
     <1>m, <1>n, <1>o, <1>p, <1>q, <1>r, <1>s
  DEF Next, ExecutorStep

-----------------------------------------------------------------------------
(* The circuit breaker *)

LEMMA BreakerStep ==
    ASSUME TypeOK, ControlInv, BreakerInv, [Next]_vars
    PROVE  BreakerInv'
<1> USE DEF TypeOK, BreakerInv
<1>a. ASSUME NEW o \in Opps, Execute(o) PROVE BreakerInv'
  <2>1. ~BreakerOpen
    BY <1>a DEF Execute, Approved, PassesGuards
  <2> QED
    BY <1>a, <2>1, ExecutorAssumption DEF Execute, BreakerOpen
<1>b. ASSUME NEW o \in Opps, Refuse(o) PROVE BreakerInv'
  BY <1>b DEF Refuse
<1>c. CASE SubmitAccepted
  BY <1>c DEF SubmitAccepted, guardVars
<1>d. CASE SubmitFailed
  BY <1>d, WorkerCounts, ExecutorAssumption DEF SubmitFailed, Settle
<1>e. CASE PollReceipt
  BY <1>e DEF PollReceipt, GoTo, guardVars
<1>f. CASE Drop
  BY <1>f, WorkerCounts, ExecutorAssumption DEF Drop, Settle
<1>g. CASE Confirm
  BY <1>g, ExecutorAssumption DEF Confirm, Settle
<1>h. CASE NoReceipt
  BY <1>h DEF NoReceipt, GoTo, guardVars
<1>i. CASE ReceiptError
  BY <1>i DEF ReceiptError, Settle, guardVars
<1>j. CASE RecheckMined
  BY <1>j DEF RecheckMined, GoTo, guardVars
<1>k. CASE Replace
  BY <1>k DEF Replace
<1>l. CASE ReplaceRefused
  BY <1>l DEF ReplaceRefused
<1>m. CASE ReplaceAccepted
  BY <1>m DEF ReplaceAccepted, guardVars
<1>n. CASE ReplaceFailed
  BY <1>n DEF ReplaceFailed, guardVars
<1>o. ASSUME NEW tx \in pool, Mine(tx) PROVE BreakerInv'
  BY <1>o DEF Mine, guardVars
<1>p. CASE DeadlinePasses
  BY <1>p DEF DeadlinePasses, guardVars
<1>q. CASE DayPasses
  BY <1>q DEF DayPasses
<1>r. CASE Restart
  BY <1>r, ExecutorAssumption DEF Restart
<1>s. CASE UNCHANGED vars
  BY <1>s DEF vars, guardVars
<1> QED
  BY <1>a, <1>b, <1>c, <1>d, <1>e, <1>f, <1>g, <1>h, <1>i, <1>j, <1>k, <1>l,
     <1>m, <1>n, <1>o, <1>p, <1>q, <1>r, <1>s
  DEF Next, ExecutorStep

-----------------------------------------------------------------------------
(* pending_submissions *)

LEMMA TrackingStep ==
    ASSUME TypeOK, ControlInv, TrackingInv, BidInv, [Next]_vars
    PROVE  TrackingInv'
<1> USE DEF TypeOK, ControlInv, TrackingInv
<1>a. ASSUME NEW o \in Opps, Execute(o) PROVE TrackingInv'
  BY <1>a DEF Execute, Monitoring
<1>b. ASSUME NEW o \in Opps, Refuse(o) PROVE TrackingInv'
  BY <1>b DEF Refuse, Monitoring
<1>c. CASE SubmitAccepted
  <2>1. /\ pc' = "top" /\ opp' = opp /\ cur' = signed /\ sent' = sent
        /\ signed \in sent /\ signed.opp = opp
        /\ DOMAIN pending' = DOMAIN pending \cup {signed}
    BY <1>c DEF SubmitAccepted, histVars
  <2>2. \A t \in DOMAIN pending : t.opp = opp => t = signed
    BY <1>c DEF SubmitAccepted, BidInv
  <2> QED
    BY <2>1, <2>2
<1>d. CASE SubmitFailed
  BY <1>d DEF SubmitFailed, Settle, Monitoring
<1>e. CASE PollReceipt
  BY <1>e DEF PollReceipt, GoTo, histVars, Monitoring
<1>f. CASE Drop
  BY <1>f DEF Drop, Untrack, Settle, Monitoring
<1>g. CASE Confirm
  BY <1>g DEF Confirm, Untrack, Settle, Monitoring
<1>h. CASE NoReceipt
  BY <1>h DEF NoReceipt, AttemptsLeft, GoTo, histVars, Monitoring
<1>i. CASE ReceiptError
  BY <1>i DEF ReceiptError, Settle, Monitoring
<1>j. CASE RecheckMined
  BY <1>j DEF RecheckMined, GoTo, histVars, Monitoring
<1>k. CASE Replace
  BY <1>k DEF Replace, Monitoring
<1>l. CASE ReplaceRefused
  BY <1>l DEF ReplaceRefused, Monitoring
<1>m. CASE ReplaceAccepted
  <2>1. signed.opp = opp /\ signed \in sent
    BY <1>m DEF ReplaceAccepted, Monitoring, Tx
  <2>2. /\ pc' = "top" /\ opp' = opp /\ cur' = signed /\ sent' = sent
        /\ DOMAIN pending' = (DOMAIN pending \cup {signed}) \ {cur}
    BY <1>m DEF ReplaceAccepted, Superseded, histVars
  <2>3. {t \in DOMAIN pending : t.opp = opp} = {cur}
    BY <1>m DEF ReplaceAccepted, Monitoring
  <2>4. signed # cur
    <3>1. cur \in sent /\ cur \in Tx /\ cur.price \in Nat
      BY <1>m DEF ReplaceAccepted, Monitoring, Tx
    <3>2. cur.price >= MinGasPrice
      BY <3>1 DEF BidInv
    <3>3. Bump(cur.price) # cur.price
      BY <3>1, <3>2, BumpRaises, BumpType
    <3>4. signed.price = Bump(cur.price)
      BY <1>m, <3>1 DEF ReplaceAccepted, Tx
    <3> QED BY <3>3, <3>4
  <2> QED
    BY <2>1, <2>2, <2>3, <2>4
<1>n. CASE ReplaceFailed
  BY <1>n DEF ReplaceFailed, histVars, Monitoring
<1>o. ASSUME NEW tx \in pool, Mine(tx) PROVE TrackingInv'
  BY <1>o DEF Mine, histVars
<1>p. CASE DeadlinePasses
  BY <1>p DEF DeadlinePasses, histVars
<1>q. CASE DayPasses
  BY <1>q DEF DayPasses, histVars
<1>r. CASE Restart
  BY <1>r DEF Restart, Monitoring
<1>s. CASE UNCHANGED vars
  BY <1>s DEF vars, histVars
<1> QED
  BY <1>a, <1>b, <1>c, <1>d, <1>e, <1>f, <1>g, <1>h, <1>i, <1>j, <1>k, <1>l,
     <1>m, <1>n, <1>o, <1>p, <1>q, <1>r, <1>s
  DEF Next, ExecutorStep

\* An execution begins without an entry of its own, has one while it monitors,
\* and takes it along unless it ends in an error.
LEMMA EntriesStep ==
    ASSUME TypeOK, ControlInv, TrackingInv, EntriesInv, BidInv, [Next]_vars
    PROVE  EntriesInv'
<1> USE DEF TypeOK, ControlInv, EntriesInv
<1>1. CASE UNCHANGED <<pending, status, opp>> /\ (pc' = "submit" => pc = "submit")
  BY <1>1
<1>a. ASSUME NEW o \in Opps, Execute(o) PROVE EntriesInv'
  <2>1. \A t \in DOMAIN pending : t.opp # o /\ t \in Tx
    BY <1>a DEF Execute, TrackingInv, BidInv
  <2>2. \A t \in DOMAIN pending : t.opp \in Opps /\ status'[t.opp] = status[t.opp]
    BY <1>a, <2>1 DEF Execute, Tx
  <2> QED BY <1>a, <2>1, <2>2 DEF Execute
<1>b. ASSUME NEW o \in Opps, Refuse(o) PROVE EntriesInv'
  <2>1. \A t \in DOMAIN pending : status'[t.opp] \in {status[t.opp], "error"}
    BY <1>b DEF Refuse
  <2> QED BY <1>b, <2>1 DEF Refuse
<1>c. CASE SubmitAccepted
  <2>1. /\ pc = "submit" /\ pc' = "top" /\ status' = status
        /\ DOMAIN pending' = DOMAIN pending \cup {signed}
    BY <1>c DEF SubmitAccepted, histVars
  <2> QED BY <2>1
<1>d. CASE SubmitFailed
  <2>1. /\ pc = "submit" /\ pc' = "idle" /\ pending' = pending
        /\ status' = [status EXCEPT ![opp] = "rejected"]
    BY <1>d DEF SubmitFailed, Settle
  <2>2. \A t \in DOMAIN pending : t \in Tx /\ status'[t.opp] = status[t.opp]
    BY <2>1 DEF Tx
  <2> QED BY <2>1, <2>2
<1>e. CASE Drop \/ Confirm
  <2>1. PICK outcome : status' = [status EXCEPT ![opp] = outcome]
    BY <1>e DEF Drop, Confirm, Settle
  <2>2. /\ pc \in Monitoring /\ pc' = "idle"
        /\ DOMAIN pending' = DOMAIN pending \ {cur}
    BY <1>e DEF Drop, Confirm, Settle, Untrack, Monitoring
  <2>3. \A t \in DOMAIN pending' : t \in DOMAIN pending /\ t \in Tx /\ t.opp # opp
    BY <2>2 DEF TrackingInv
  <2>4. \A t \in DOMAIN pending' : status'[t.opp] = status[t.opp]
    BY <2>1, <2>3 DEF Tx
  <2> QED BY <2>2, <2>3, <2>4
<1>f. CASE ReceiptError
  <2>1. /\ pc' = "idle" /\ pending' = pending
        /\ status' = [status EXCEPT ![opp] = "error"]
    BY <1>f DEF ReceiptError, Settle
  <2>2. \A t \in DOMAIN pending : status'[t.opp] \in {status[t.opp], "error"}
    BY <2>1
  <2> QED BY <2>1, <2>2
<1>g. CASE ReplaceAccepted
  <2>1. /\ pc \in Monitoring /\ pc' = "top" /\ status' = status
        /\ DOMAIN pending' = (DOMAIN pending \cup {signed}) \ {cur}
    BY <1>g DEF ReplaceAccepted, Superseded, histVars, Monitoring
  <2>2. signed.opp = opp
    BY <1>g DEF ReplaceAccepted, Monitoring, Tx
  <2>3. \A t \in DOMAIN pending' : t = signed \/ (t \in DOMAIN pending /\ t.opp # opp)
    BY <2>1 DEF TrackingInv
  <2> QED BY <2>1, <2>2, <2>3 DEF Monitoring
<1>h. CASE Restart
  BY <1>h DEF Restart
<1>i. CASE \/ PollReceipt \/ NoReceipt \/ RecheckMined \/ Replace
           \/ ReplaceRefused \/ ReplaceFailed \/ DeadlinePasses \/ DayPasses
           \/ (\E tx \in pool : Mine(tx)) \/ UNCHANGED vars
  BY <1>1, <1>i
  DEF PollReceipt, NoReceipt, RecheckMined, Replace, ReplaceRefused,
      ReplaceFailed, DeadlinePasses, DayPasses, Mine, GoTo, histVars, vars
<1> QED
  BY <1>a, <1>b, <1>c, <1>d, <1>e, <1>f, <1>g, <1>h, <1>i DEF Next, ExecutorStep

-----------------------------------------------------------------------------
(* Bids *)

LEMMA BidStep ==
    ASSUME TypeOK, ControlInv, TrackingInv, BidInv, [Next]_vars
    PROVE  BidInv'
<1> USE DEF TypeOK, ControlInv, TrackingInv, BidInv
<1>a. ASSUME NEW o \in Opps, Execute(o) PROVE BidInv'
  <2>1. PICK floor \in NetworkFloors :
          LET price == ReplacementGasPrice(Victim[o], floor)
              tx    == [opp |-> o, nonce |-> nextNonce, price |-> price]
          IN  /\ Approved(o, price)
              /\ signed' = tx /\ sent' = sent \cup {tx}
    BY <1>a DEF Execute
  <2> DEFINE price == ReplacementGasPrice(Victim[o], floor)
  <2>2. price \in Nat /\ price >= MinGasPrice
    BY FirstPrice, ExecutorAssumption
  <2>3. price =< SoftGasCap
    BY <2>1 DEF Approved, PassesGuards
  <2>4. \A t \in sent : t.opp # o
    BY <1>a DEF Execute
  <2>5. /\ signed' = [opp |-> o, nonce |-> nextNonce, price |-> price]
        /\ sent' = sent \cup {signed'}
    BY <2>1
  <2> HIDE DEF price
  <2>6. \A t \in sent' : t.price >= MinGasPrice /\ t.price =< SoftGasCap
    BY <2>2, <2>3, <2>5
  <2>7. \A t \in sent' : status'[t.opp] # "new"
    BY <1>a, <2>5 DEF Execute, Tx
  <2>8. \A t \in sent' : t.opp = opp' => t = signed'
    BY <1>a, <2>4, <2>5 DEF Execute
  <2> QED
    BY <1>a, <2>5, <2>6, <2>7, <2>8 DEF Execute, chainVars, Monitoring
<1>b. ASSUME NEW o \in Opps, Refuse(o) PROVE BidInv'
  BY <1>b DEF Refuse, chainVars, Monitoring, Tx
<1>c. CASE SubmitAccepted
  BY <1>c, GasSettingsAssumption DEF SubmitAccepted, histVars, Monitoring, Tx
<1>d. CASE SubmitFailed
  <2>1. pool' \subseteq sent
    BY <1>d DEF SubmitFailed, LostSend
  <2> QED
    BY <1>d, <2>1 DEF SubmitFailed, Settle, Monitoring, Tx
<1>e. CASE PollReceipt
  BY <1>e DEF PollReceipt, GoTo, chainVars, histVars, Monitoring
<1>f. CASE Drop
  BY <1>f DEF Drop, Settle, chainVars, Monitoring, Tx
<1>g. CASE Confirm
  BY <1>g DEF Confirm, Settle, chainVars, Monitoring, Tx
<1>h. CASE NoReceipt
  BY <1>h DEF NoReceipt, GoTo, chainVars, histVars, Monitoring
<1>i. CASE ReceiptError
  BY <1>i DEF ReceiptError, Settle, chainVars, Monitoring, Tx
<1>j. CASE RecheckMined
  BY <1>j DEF RecheckMined, GoTo, chainVars, histVars, Monitoring
<1>k. CASE Replace
  <2> DEFINE tx == [cur EXCEPT !.price = Bump(cur.price)]
  <2>1. /\ cur \in sent /\ cur \in Tx /\ cur.opp = opp
        /\ cur.price \in Nat /\ cur.price >= MinGasPrice
    BY <1>k DEF Replace, Monitoring, Tx
  <2>2. /\ tx.opp = opp /\ tx.nonce = cur.nonce
        /\ tx.price = Bump(cur.price)
    BY <2>1 DEF Tx
  <2>3. tx.price >= MinGasPrice /\ tx.price =< SoftGasCap
    <3>1. tx.price =< SoftGasCap
      BY <1>k, <2>2 DEF Replace, Approved, PassesGuards
    <3>2. Bump(cur.price) \in Nat /\ Bump(cur.price) >= cur.price
      BY <2>1, BumpType
    <3> QED
      BY <2>1, <2>2, <3>1, <3>2, GasSettingsAssumption
  <2>4. sent' = sent \cup {tx}
    BY <1>k DEF Replace
  <2> HIDE DEF tx
  <2>5. \A t \in sent' : status[t.opp] # "new"
    BY <2>1, <2>2, <2>4
  <2> QED
    BY <1>k, <2>1, <2>2, <2>3, <2>4, <2>5
    DEF Replace, chainVars, Monitoring
<1>l. CASE ReplaceRefused
  BY <1>l DEF ReplaceRefused, chainVars, Monitoring
<1>m. CASE ReplaceAccepted
  <2>1. /\ cur \in sent /\ cur \in Tx
        /\ cur.price \in Nat /\ cur.price >= MinGasPrice
    BY <1>m DEF ReplaceAccepted, Monitoring, Tx
  <2>2. /\ signed \in sent /\ signed.nonce = cur.nonce
        /\ signed.price = Bump(cur.price)
    BY <1>m, <2>1 DEF ReplaceAccepted, Tx
  <2>3. Bump(cur.price) \in Nat /\ Bump(cur.price) >= cur.price
    BY <2>1, BumpType
  <2>4. /\ pc' = "top" /\ opp' = opp /\ cur' = signed /\ sent' = sent
        /\ status' = status /\ pool' = pool \cup {signed}
    BY <1>m DEF ReplaceAccepted, histVars
  <2>5. \A t \in sent : t.opp = opp =>
          t.nonce = signed.nonce /\ t.price =< signed.price
    <3> SUFFICES ASSUME NEW t \in sent, t.opp = opp
                 PROVE  t.nonce = signed.nonce /\ t.price =< signed.price
      OBVIOUS
    <3>1. /\ t.nonce = cur.nonce
          /\ t.price =< cur.price \/ t.price = Bump(cur.price)
      BY <1>m DEF ReplaceAccepted, Monitoring
    <3>2. t.price \in Nat
      BY DEF Tx
    <3> QED
      BY <2>1, <2>2, <2>3, <3>1, <3>2
  <2> QED
    BY <2>2, <2>4, <2>5
<1>n. CASE ReplaceFailed
  <2>1. pool' \subseteq sent
    BY <1>n DEF ReplaceFailed, LostSend
  <2> QED
    BY <1>n, <2>1 DEF ReplaceFailed, histVars, Monitoring
<1>o. ASSUME NEW tx \in pool, Mine(tx) PROVE BidInv'
  BY <1>o DEF Mine, histVars
<1>p. CASE DeadlinePasses
  BY <1>p DEF DeadlinePasses, chainVars, histVars
<1>q. CASE DayPasses
  BY <1>q DEF DayPasses, chainVars, histVars
<1>r. CASE Restart
  <2>1. pool' \subseteq sent
    BY <1>r DEF Restart, LostSend, chainVars
  <2> QED
    BY <1>r, <2>1 DEF Restart, Monitoring, Tx
<1>s. CASE UNCHANGED vars
  BY <1>s DEF vars, chainVars, histVars
<1> QED
  BY <1>a, <1>b, <1>c, <1>d, <1>e, <1>f, <1>g, <1>h, <1>i, <1>j, <1>k, <1>l,
     <1>m, <1>n, <1>o, <1>p, <1>q, <1>r, <1>s
  DEF Next, ExecutorStep

-----------------------------------------------------------------------------
(* Nonces *)

\* A step that allocates nothing, reads no nonce from the chain and sends
\* nothing new keeps NonceInv.
LEMMA NonceQuiet ==
    ASSUME NonceInv,
           nextNonce' = nextNonce, chainNonce' = chainNonce,
           restarts' = restarts, sent' = sent, pool \subseteq pool',
           pc = "submit" => pc' = "submit" /\ signed' = signed,
           pc' = "submit" => pc = "submit",
           \A t \in sent : status[t.opp] = "rejected"
                            => status'[t.opp] = "rejected"
    PROVE  NonceInv'
<1> USE DEF NonceInv
<1>1. NoNonceGap'
  BY DEF NoNonceGap
<1>2. NonceNotShared'
  <2> SUFFICES ASSUME restarts' = 0, NEW t \in sent', NEW u \in sent',
                      t.nonce = u.nonce, t.opp # u.opp
               PROVE  \E o \in {t.opp, u.opp} : status'[o] = "rejected"
    BY DEF NonceNotShared
  <2> QED
    BY DEF NonceNotShared
<1> QED
  BY <1>1, <1>2

\* The step that gives out a nonce.
LEMMA NonceExecute ==
    ASSUME TypeOK, BidInv, NonceInv, NEW o \in Opps, Execute(o)
    PROVE  NonceInv'
<1> USE DEF TypeOK, NonceInv
<1>1. PICK floor \in NetworkFloors :
        LET price == ReplacementGasPrice(Victim[o], floor)
            tx    == [opp |-> o, nonce |-> nextNonce, price |-> price]
        IN  signed' = tx /\ sent' = sent \cup {tx}
  BY DEF Execute
<1>2. /\ signed'.nonce = nextNonce /\ signed'.opp = o
      /\ sent' = sent \cup {signed'}
  BY <1>1
<1>3. /\ pc = "idle" /\ pc' = "submit" /\ nextNonce' = nextNonce + 1
      /\ pool' = pool /\ chainNonce' = chainNonce /\ restarts' = restarts
  BY DEF Execute, Allocated, chainVars
<1>4. \A t \in sent : t.opp # o /\ status'[t.opp] = status[t.opp]
  BY DEF Execute, BidInv, Tx
<1>5. NoNonceGap'
  <2> SUFFICES ASSUME NEW n \in InitNonce .. nextNonce' - 1
               PROVE  (\E t \in pool : t.nonce = n) \/ n = signed'.nonce
    BY <1>3 DEF NoNonceGap
  <2> QED
    BY <1>2, <1>3, ExecutorAssumption DEF NoNonceGap
<1>6. restarts' = 0 =>
        \A t \in sent' : t.nonce < nextNonce' \/ status'[t.opp] = "rejected"
  <2> SUFFICES ASSUME restarts' = 0, NEW t \in sent'
               PROVE  t.nonce < nextNonce' \/ status'[t.opp] = "rejected"
    OBVIOUS
  <2>1. CASE t \in sent
    <3>1. t.nonce \in Nat
      BY <2>1 DEF Tx
    <3> QED BY <1>3, <1>4, <2>1, <3>1
  <2>2. CASE t = signed'
    BY <1>2, <1>3, <2>2
  <2> QED BY <1>2, <2>1, <2>2
<1>7. NonceNotShared'
  <2> SUFFICES ASSUME restarts' = 0, NEW t \in sent', NEW u \in sent',
                      t.nonce = u.nonce, t.opp # u.opp
               PROVE  \E p \in {t.opp, u.opp} : status'[p] = "rejected"
    BY DEF NonceNotShared
  <2>1. CASE t \in sent /\ u \in sent
    BY <1>3, <1>4, <2>1 DEF NonceNotShared
  <2>2. ASSUME NEW x \in sent, x.nonce = nextNonce
        PROVE  status'[x.opp] = "rejected"
    BY <1>3, <1>4, <2>2
  <2>3. CASE t = signed' /\ u \in sent
    BY <1>2, <2>2, <2>3
  <2>4. CASE u = signed' /\ t \in sent
    BY <1>2, <2>2, <2>4
  <2> QED BY <1>2, <2>1, <2>3, <2>4
<1>8. \A t \in sent' : t.nonce >= InitNonce
  BY <1>2
<1> QED
  BY <1>2, <1>3, <1>5, <1>6, <1>7, <1>8, ExecutorAssumption

\* The step that takes a nonce back.
LEMMA NonceReleased ==
    ASSUME TypeOK, ControlInv, BidInv, NonceInv, SubmitFailed
    PROVE  NonceInv'
<1> USE DEF TypeOK, NonceInv
<1>1. /\ signed \in sent /\ signed.opp = opp /\ opp \in Opps
      /\ status[opp] = "running" /\ signed.nonce \in Nat
      /\ nextNonce = signed.nonce + 1
  BY DEF SubmitFailed, ControlInv, Tx
<1>2. /\ nextNonce' = signed.nonce /\ pc' = "idle" /\ sent' = sent
      /\ restarts' = restarts /\ chainNonce' = chainNonce
      /\ pool \subseteq pool' /\ status'[opp] = "rejected"
      /\ \A o \in Opps : o # opp => status'[o] = status[o]
  BY <1>1 DEF SubmitFailed, Released, Settle, LostSend
<1>3. \A t \in sent : t.opp \in Opps /\ t.nonce \in Nat
  BY DEF Tx
<1>4. NoNonceGap'
  BY <1>1, <1>2, ExecutorAssumption DEF NoNonceGap, SubmitFailed
<1>5. NonceNotShared'
  BY <1>1, <1>2, <1>3 DEF NonceNotShared
<1>6. restarts' = 0 =>
        \A t \in sent' : t.nonce < nextNonce' \/ status'[t.opp] = "rejected"
  <2> SUFFICES ASSUME restarts = 0, NEW t \in sent
               PROVE  t.nonce < signed.nonce \/ status'[t.opp] = "rejected"
    BY <1>2
  <2>1. CASE status[t.opp] = "rejected"
    BY <1>1, <1>2, <1>3, <2>1
  <2>2. CASE t.nonce < signed.nonce
    BY <2>2
  <2>3. CASE t.nonce = signed.nonce
    <3>1. t.opp = opp \/ status[t.opp] = "rejected"
      BY <1>1, <2>3 DEF NonceNotShared
    <3> QED BY <1>2, <2>1, <3>1
  <2> QED BY <1>1, <1>3, <2>1, <2>2, <2>3
<1>7. nextNonce' >= InitNonce
  <2>1. signed.nonce >= InitNonce
    BY <1>1
  <2> QED BY <1>2, <2>1
<1> QED
  BY <1>2, <1>4, <1>5, <1>6, <1>7

LEMMA NonceStep ==
    ASSUME TypeOK, ControlInv, TrackingInv, BidInv, NonceInv, [Next]_vars
    PROVE  NonceInv'
<1>a. ASSUME NEW o \in Opps, Execute(o) PROVE NonceInv'
  BY <1>a, NonceExecute
<1>b. ASSUME NEW o \in Opps, Refuse(o) PROVE NonceInv'
  <2>1. \A t \in sent : t.opp # o /\ t.opp \in Opps
    BY <1>b DEF Refuse, BidInv, TypeOK, Tx
  <2> QED
    BY <1>b, <2>1, NonceQuiet DEF Refuse, chainVars, TypeOK
<1>c. CASE SubmitAccepted
  <2>1. /\ signed \in pool' /\ pool \subseteq pool' /\ pc' = "top"
        /\ nextNonce' = nextNonce /\ chainNonce' = chainNonce
        /\ sent' = sent /\ restarts' = restarts /\ status' = status
    BY <1>c DEF SubmitAccepted, histVars
  <2>2. NoNonceGap'
    BY <2>1 DEF NonceInv, NoNonceGap
  <2> QED
    BY <2>1, <2>2 DEF NonceInv, NonceNotShared
<1>d. CASE SubmitFailed
  BY <1>d, NonceReleased
<1>e. CASE PollReceipt
  BY <1>e, NonceQuiet DEF PollReceipt, GoTo, chainVars, histVars
<1>f. CASE Drop
  BY <1>f, NonceQuiet DEF Drop, Settle, ControlInv, chainVars, TypeOK, Tx
<1>g. CASE Confirm
  BY <1>g, NonceQuiet DEF Confirm, Settle, ControlInv, chainVars, TypeOK, Tx
<1>h. CASE NoReceipt
  BY <1>h, NonceQuiet DEF NoReceipt, GoTo, chainVars, histVars
<1>i. CASE ReceiptError
  BY <1>i, NonceQuiet
  DEF ReceiptError, Settle, ControlInv, chainVars, TypeOK, Tx
<1>j. CASE RecheckMined
  BY <1>j, NonceQuiet DEF RecheckMined, GoTo, chainVars, histVars
<1>k. CASE Replace
  <2> DEFINE tx == [cur EXCEPT !.price = Bump(cur.price)]
  <2>1. /\ cur \in sent /\ tx.opp = cur.opp /\ tx.nonce = cur.nonce
    BY <1>k DEF Replace, ControlInv, Monitoring, TypeOK, Tx
  <2>2. /\ sent' = sent \cup {tx} /\ nextNonce' = nextNonce
        /\ chainNonce' = chainNonce /\ restarts' = restarts
        /\ pool' = pool /\ status' = status
        /\ pc = "recheck" /\ pc' = "resend"
    BY <1>k DEF Replace, chainVars
  <2> HIDE DEF tx
  <2>3. NoNonceGap'
    BY <2>2 DEF NonceInv, NoNonceGap
  <2>4. NonceNotShared'
    BY <2>1, <2>2 DEF NonceInv, NonceNotShared
  <2> QED
    BY <2>1, <2>2, <2>3, <2>4 DEF NonceInv
<1>l. CASE ReplaceRefused
  BY <1>l, NonceQuiet DEF ReplaceRefused, chainVars
<1>m. CASE ReplaceAccepted
  BY <1>m, NonceQuiet DEF ReplaceAccepted, histVars
<1>n. CASE ReplaceFailed
  BY <1>n, NonceQuiet DEF ReplaceFailed, LostSend, histVars
<1>o. ASSUME NEW tx \in pool, Mine(tx) PROVE NonceInv'
  <2>1. /\ tx.nonce = chainNonce /\ chainNonce' = chainNonce + 1
        /\ pool' = pool /\ nextNonce' = nextNonce /\ pc' = pc
        /\ signed' = signed /\ sent' = sent /\ restarts' = restarts
        /\ status' = status
    BY <1>o DEF Mine, histVars
  <2>2. \A n \in InitNonce .. chainNonce' - 1 : \E t \in pool : t.nonce = n
    BY <2>1, ExecutorAssumption DEF NonceInv, TypeOK
  <2> QED
    BY <2>1, <2>2, ExecutorAssumption
    DEF NonceInv, NoNonceGap, NonceNotShared, TypeOK
<1>p. CASE DeadlinePasses
  BY <1>p, NonceQuiet DEF DeadlinePasses, chainVars, histVars
<1>q. CASE DayPasses
  BY <1>q, NonceQuiet DEF DayPasses, chainVars, histVars
<1>r. CASE Restart
  <2>1. /\ nextNonce' = chainNonce /\ chainNonce' = chainNonce
        /\ pool \subseteq pool' /\ pc' = "idle" /\ restarts' # 0
        /\ sent' = sent
    BY <1>r, ExecutorAssumption DEF Restart, LostSend, chainVars, TypeOK
  <2> QED
    BY <2>1 DEF NonceInv, NoNonceGap, NonceNotShared
<1>s. CASE UNCHANGED vars
  BY <1>s, NonceQuiet DEF vars, chainVars, histVars
<1> QED
  BY <1>a, <1>b, <1>c, <1>d, <1>e, <1>f, <1>g, <1>h, <1>i, <1>j, <1>k, <1>l,
     <1>m, <1>n, <1>o, <1>p, <1>q, <1>r, <1>s
  DEF Next, ExecutorStep

-----------------------------------------------------------------------------
(* The invariant and what follows from it *)

LEMMA InitInv == Init => Inv
<1> SUFFICES ASSUME Init PROVE Inv
  OBVIOUS
<1>1. TypeOK
  BY ExecutorAssumption DEF Init, TypeOK
<1>2. ControlInv /\ TrackingInv /\ EntriesInv /\ BidInv
  BY DEF Init, ControlInv, TrackingInv, EntriesInv, BidInv, Monitoring
<1>3. BreakerInv
  BY ExecutorAssumption DEF Init, BreakerInv
<1>4. NonceInv
  BY ExecutorAssumption DEF Init, NonceInv, NoNonceGap, NonceNotShared
<1> QED
  BY <1>1, <1>2, <1>3, <1>4 DEF Inv

LEMMA InvStep == Inv /\ [Next]_vars => Inv'
BY TypeStep, ControlStep, TrackingStep, EntriesStep, BreakerStep, BidStep,
   NonceStep
DEF Inv

\* Inv is an invariant of the executor.
THEOREM Invariance == Spec => []Inv
<1>1. Inv /\ [Next]_vars => Inv'
  BY InvStep
<1> QED
  BY InitInv, <1>1, PTL DEF Spec

\* Every variable of the executor keeps its type, in particular no entry of
\* pending_submissions counts more than three replacements.
THEOREM TypeCorrect == Spec => []TypeOK
<1>1. Inv => TypeOK
  BY DEF Inv
<1> QED
  BY Invariance, <1>1, PTL

\* The breaker's counter never passes its limit by more than one.
THEOREM FailuresStayBounded == Spec => []FailuresBounded
<1>1. Inv => FailuresBounded
  BY DEF Inv, BreakerInv, FailuresBounded
<1> QED
  BY Invariance, <1>1, PTL

\* No offer, first or replacement, is above the soft cap.
THEOREM OffersStayWithinSoftCap == Spec => []OffersWithinSoftCap
<1>1. Inv => OffersWithinSoftCap
  BY DEF Inv, BidInv, OffersWithinSoftCap
<1> QED
  BY Invariance, <1>1, PTL

\* No nonce is given out and left unused: submissions never wait behind a gap.
THEOREM NonceGapFree == Spec => []NoNonceGap
<1>1. Inv => NoNonceGap
  BY DEF Inv, NonceInv
<1> QED
  BY Invariance, <1>1, PTL

\* Without a restart a nonce is used for a second opportunity only when the
\* first one was rejected.
THEOREM NonceUnshared == Spec => []NonceNotShared
<1>1. Inv => NonceNotShared
  BY DEF Inv, NonceInv
<1> QED
  BY Invariance, <1>1, PTL

\* pending_submissions tracks exactly the current bid of an execution that
\* monitors, and of executions that are over one bid each of those that ended in
\* an error.
THEOREM BidTracked == Spec => []OneTrackedBid
<1>1. Inv => OneTrackedBid
  BY DEF Inv, ControlInv, TrackingInv, EntriesInv, OneTrackedBid
<1> QED
  BY Invariance, <1>1, PTL

-----------------------------------------------------------------------------
(* What a step may never do *)

\* Nothing reaches the network in a step taken with the breaker open.
THEOREM NothingSentWhileOpen == Spec => NoSendWhileOpen
<1>1. Inv /\ [Next]_vars => [pool' # pool => ~BreakerOpen]_vars
  <2> SUFFICES ASSUME Inv, Next, pool' # pool PROVE ~BreakerOpen
    OBVIOUS
  <2>1. pc \in {"submit", "resend"}
    BY DEF Next, ExecutorStep, Execute, Refuse, SubmitAccepted, SubmitFailed,
       PollReceipt, Drop, Confirm, NoReceipt, ReceiptError, RecheckMined,
       Replace, ReplaceRefused, ReplaceAccepted, ReplaceFailed, Mine,
       DeadlinePasses, DayPasses, Restart, GoTo, chainVars
  <2> QED
    BY <2>1, ExecutorAssumption DEF Inv, BreakerInv, BreakerOpen, TypeOK
<1> QED
  BY Invariance, <1>1, PTL DEF Spec, NoSendWhileOpen

\* Once open, the breaker is closed by nothing but a restart.
THEOREM BreakerStaysOpen == Spec => BreakerLatched
<1>1. Inv /\ [Next]_vars
        => [BreakerOpen => BreakerOpen' \/ restarts' # restarts]_vars
  <2> SUFFICES ASSUME Inv, Next, BreakerOpen, ~Restart PROVE BreakerOpen'
    BY DEF Restart, Inv, TypeOK
  <2>1. pc = "idle"
    BY ExecutorAssumption DEF Inv, BreakerInv, BreakerOpen, TypeOK
  <2>2. failures' = failures
    BY <2>1
    DEF Next, ExecutorStep, Execute, Refuse, SubmitAccepted, SubmitFailed,
       PollReceipt, Drop, Confirm, NoReceipt, ReceiptError, RecheckMined,
       Replace, ReplaceRefused, ReplaceAccepted, ReplaceFailed, Mine,
       DeadlinePasses, DayPasses, guardVars, Monitoring
  <2> QED
    BY <2>2 DEF BreakerOpen
<1> QED
  BY Invariance, <1>1, PTL DEF Spec, BreakerLatched

\* A deadline runs only while a transaction is monitored.
DeadlineInv == deadline = "passed" => pc \in Monitoring

\* Every step keeps DeadlineInv: each way out of the loop, and each way into it,
\* sets the deadline anew.
LEMMA DeadlineStep ==
    ASSUME DeadlineInv, [Next]_vars
    PROVE  DeadlineInv'
<1>1. CASE \/ \E o \in Opps : Execute(o) \/ Refuse(o)
           \/ SubmitAccepted \/ SubmitFailed \/ Drop \/ Confirm \/ ReceiptError
           \/ Restart
  BY <1>1 DEF DeadlineInv, Execute, Refuse, SubmitAccepted, SubmitFailed, Drop,
              Confirm, ReceiptError, Restart, Settle, Monitoring
<1>2. CASE PollReceipt \/ NoReceipt \/ RecheckMined
  BY <1>2 DEF DeadlineInv, PollReceipt, NoReceipt, RecheckMined, GoTo, Monitoring
<1>3. CASE \/ Replace \/ ReplaceRefused \/ ReplaceAccepted \/ ReplaceFailed
           \/ DeadlinePasses
  BY <1>3 DEF DeadlineInv, Replace, ReplaceRefused, ReplaceAccepted,
              ReplaceFailed, DeadlinePasses, Monitoring
<1>4. CASE (\E tx \in pool : Mine(tx)) \/ DayPasses \/ UNCHANGED vars
  BY <1>4 DEF DeadlineInv, Mine, DayPasses, vars
<1> QED BY <1>1, <1>2, <1>3, <1>4 DEF Next, ExecutorStep

\* WindsDown: after the deadline each step of the executor is one of the last
\* four, and nothing else sets it back.
THEOREM LateExecutionWindsDown == Spec => WindsDown
<1>1. DeadlineInv /\ [Next]_vars
        => [deadline = "passed" =>
              StepsLeft' =< StepsLeft
                /\ (ExecutorStep => StepsLeft' < StepsLeft)]_vars
  <2> SUFFICES ASSUME DeadlineInv, Next, deadline = "passed"
               PROVE  StepsLeft' =< StepsLeft
                        /\ (ExecutorStep => StepsLeft' < StepsLeft)
    OBVIOUS
  <2> DEFINE closer == StepsLeft' < StepsLeft
  <2>1. pc \in Monitoring
    BY DEF DeadlineInv
  <2>2. ASSUME ExecutorStep PROVE closer
    <3>1. CASE pc = "receipt"
      <4>1. pc' \in {"idle", "top", "recheck"}
        BY <2>2, <3>1 DEF ExecutorStep, SubmitAccepted, SubmitFailed, PollReceipt,
           Drop, Confirm, NoReceipt, ReceiptError, RecheckMined, Replace,
           ReplaceRefused, ReplaceAccepted, ReplaceFailed, Settle, GoTo
      <4> QED BY <3>1, <4>1 DEF StepsLeft
    <3>2. CASE pc = "recheck"
      <4>1. pc' \in {"idle", "top", "resend"}
        BY <2>2, <3>2 DEF ExecutorStep, SubmitAccepted, SubmitFailed, PollReceipt,
           Drop, Confirm, NoReceipt, ReceiptError, RecheckMined, Replace,
           ReplaceRefused, ReplaceAccepted, ReplaceFailed, Settle, GoTo
      <4> QED BY <3>2, <4>1 DEF StepsLeft
    <3>3. CASE pc = "resend"
      <4>1. pc' = "top"
        BY <2>2, <3>3 DEF ExecutorStep, SubmitAccepted, SubmitFailed, PollReceipt,
           Drop, Confirm, NoReceipt, ReceiptError, RecheckMined, Replace,
           ReplaceRefused, ReplaceAccepted, ReplaceFailed
      <4> QED BY <3>3, <4>1 DEF StepsLeft
    <3>4. CASE pc = "top"
      <4>1. pc' = "idle"
        BY <2>2, <3>4 DEF ExecutorStep, SubmitAccepted, SubmitFailed, PollReceipt,
           DeadlineReached, Drop, Confirm, NoReceipt, ReceiptError, RecheckMined,
           Replace, ReplaceRefused, ReplaceAccepted, ReplaceFailed, Settle
      <4> QED BY <3>4, <4>1 DEF StepsLeft
    <3> QED BY <2>1, <3>1, <3>2, <3>3, <3>4 DEF Monitoring
  <2>3. ASSUME ~ExecutorStep PROVE pc' = pc \/ pc' = "idle"
    BY <2>1, <2>3 DEF Next, Execute, Refuse, Mine, DeadlinePasses, DayPasses,
                      Restart, Monitoring
  <2>4. StepsLeft \in 0 .. 4 /\ (pc' = pc => StepsLeft' = StepsLeft)
        /\ (pc' = "idle" => StepsLeft' = 0)
    BY <2>1, SMT DEF StepsLeft, Monitoring
  <2>5. ExecutorStep => StepsLeft' \in 0 .. 4
    <3>1. ASSUME ExecutorStep
          PROVE  pc' \in {"idle", "top", "receipt", "recheck", "resend"}
      BY <2>1, <3>1 DEF ExecutorStep, SubmitAccepted, SubmitFailed, PollReceipt,
         Drop, Confirm, NoReceipt, ReceiptError, RecheckMined, Replace,
         ReplaceRefused, ReplaceAccepted, ReplaceFailed, Settle, GoTo, Monitoring
    <3> QED BY <3>1 DEF StepsLeft
  <2> HIDE DEF closer
  <2>6. CASE ExecutorStep
    BY <2>2, <2>4, <2>5, <2>6 DEF closer
  <2>7. CASE ~ExecutorStep
    BY <2>3, <2>4, <2>7
  <2> QED BY <2>6, <2>7
<1>2. Init => DeadlineInv
  BY DEF Init, DeadlineInv
<1>3. DeadlineInv /\ [Next]_vars => DeadlineInv'
  BY DeadlineStep
<1> QED
  BY <1>1, <1>2, <1>3, PTL DEF Spec, WindsDown

-----------------------------------------------------------------------------
(* Refinement: the executor implements BidLifecycle *)

\* A step that leaves the abstract state alone.
LEMMA Stutter ==
    ASSUME opp' = opp, sent' = sent, status' = status, Raises' = Raises
    PROVE  UNCHANGED Lifecycle!vars
BY DEF Lifecycle!vars

\* Within the monitoring loop the count of raises depends on nothing but
\* the current bid, its entry and the bids sent.
LEMMA SameRaises ==
    ASSUME pc \in Monitoring, pc' \in Monitoring, opp' = opp, cur' = cur,
           sent' = sent, pending' = pending
    PROVE  Raises' = Raises
BY DEF Raises

\* The end of an execution closes the abstract one.
LEMMA SettleCloses ==
    ASSUME Inv, NEW outcome \in Outcomes, pc # "idle", Settle(outcome),
           sent' = sent
    PROVE  Lifecycle!Close
<1>1. opp # NoOpp /\ opp' = NoOpp
  BY ExecutorAssumption DEF Inv, ControlInv, Settle
<1>2. Raises' = 0
  BY DEF Raises, Settle, Monitoring
<1> QED
  BY <1>1, <1>2 DEF Settle, Lifecycle!Close

LEMMA RefineExecute ==
    ASSUME Inv, NEW o \in Opps, Execute(o)
    PROVE  Lifecycle!Open(o)
<1>1. PICK floor \in NetworkFloors :
        LET price == ReplacementGasPrice(Victim[o], floor)
            tx    == [opp |-> o, nonce |-> nextNonce, price |-> price]
        IN  signed' = tx /\ sent' = sent \cup {tx}
  BY DEF Execute
<1>2. signed' \in sent' /\ signed'.opp = o /\ sent' = sent \cup {signed'}
  BY <1>1
<1>3. opp = NoOpp /\ opp' = o /\ status[o] = "new"
  BY DEF Execute, Inv, ControlInv
<1>4. Raises' = 0
  BY DEF Raises, Execute, Monitoring
<1> QED
  BY <1>2, <1>3, <1>4 DEF Execute, Lifecycle!Open

LEMMA RefineSubmitAccepted ==
    ASSUME Inv, SubmitAccepted
    PROVE  UNCHANGED Lifecycle!vars
<1>1. /\ opp' = opp /\ sent' = sent /\ status' = status
      /\ pc = "submit" /\ pc' = "top" /\ cur' = signed
      /\ pending'[signed] = 0
  BY DEF SubmitAccepted, histVars
<1>2. \A t \in sent : t.opp = opp => t = signed
  BY <1>1 DEF Inv, BidInv
<1>3. signed.price \in Nat
  BY <1>1 DEF Inv, ControlInv, TypeOK, Tx
<1>4. Raises = 0
  BY <1>1 DEF Raises, Monitoring
<1>5. ~ \E t \in sent' : t.opp = opp' /\ t.price > cur'.price
  BY <1>1, <1>2, <1>3
<1>6. Raises' = 0
  BY <1>1, <1>5 DEF Raises, Monitoring
<1> QED
  BY <1>1, <1>4, <1>6, Stutter

LEMMA RefineReplace ==
    ASSUME Inv, Replace
    PROVE  [Lifecycle!Next]_Lifecycle!vars
<1> DEFINE tx == [cur EXCEPT !.price = Bump(cur.price)]
<1>1. /\ cur \in sent /\ cur \in Tx /\ cur.opp = opp
      /\ cur.price \in Nat /\ cur.price >= MinGasPrice
      /\ cur \in DOMAIN pending
      /\ opp \in Opps /\ opp # NoOpp
  BY ExecutorAssumption
  DEF Replace, Inv, ControlInv, TrackingInv, BidInv, Monitoring, TypeOK, Tx
<1>2. /\ tx = [opp |-> opp, nonce |-> cur.nonce, price |-> Bump(cur.price)]
      /\ tx.opp = opp /\ tx.nonce = cur.nonce
      /\ tx.price = Bump(cur.price)
  BY <1>1 DEF Tx
<1>3. /\ Bump(cur.price) \in Nat /\ Bump(cur.price) > cur.price
  BY <1>1, BumpType, BumpRaises
<1>4. \A t \in sent : t.opp = opp =>
        /\ t.nonce = cur.nonce /\ t.price \in Nat
        /\ t.price =< cur.price \/ t = tx
  <2> SUFFICES ASSUME NEW t \in sent, t.opp = opp
               PROVE  /\ t.nonce = cur.nonce /\ t.price \in Nat
                      /\ t.price =< cur.price \/ t = tx
    OBVIOUS
  <2>1. /\ t.nonce = cur.nonce
        /\ t.price =< cur.price \/ t.price = Bump(cur.price)
    BY DEF Replace, Inv, BidInv, Monitoring
  <2>2. /\ t.price \in Nat
        /\ t = [opp |-> t.opp, nonce |-> t.nonce, price |-> t.price]
    BY DEF Inv, TypeOK, Tx
  <2> QED BY <1>2, <2>1, <2>2
<1>5. /\ opp' = opp /\ status' = status /\ cur' = cur /\ pending' = pending
      /\ pc \in Monitoring /\ pc' \in Monitoring /\ sent' = sent \cup {tx}
      /\ pending[cur] < MaxReplacementAttempts
      /\ pending[cur] \in Nat
  BY <1>1
  DEF Replace, Monitoring, Inv, TrackingInv, TypeOK, MaxReplacementAttempts
<1> HIDE DEF tx
<1>6. Raises' = pending[cur] + 1
  BY <1>2, <1>3, <1>5 DEF Raises
<1>7. CASE tx \in sent
  <2>1. Raises = pending[cur] + 1
    BY <1>2, <1>3, <1>5, <1>7 DEF Raises
  <2> QED
    BY <1>5, <1>6, <1>7, <2>1, Stutter
<1>8. CASE tx \notin sent
  <2>1. \A t \in sent : t.opp = opp =>
          t.nonce = tx.nonce /\ t.price =< cur.price /\ t.price < tx.price
    BY <1>1, <1>2, <1>3, <1>4, <1>8
  <2>2. ~ \E t \in sent : t.opp = opp /\ t.price > cur.price
    BY <1>1, <1>4, <2>1
  <2>3. Raises = pending[cur]
    BY <1>5, <2>2 DEF Raises
  <2>4. Lifecycle!Raise
    BY <1>1, <1>2, <1>5, <1>6, <2>1, <2>3
    DEF Lifecycle!Raise, Lifecycle!BidsFor
  <2> QED BY <2>4 DEF Lifecycle!Next
<1> QED BY <1>7, <1>8

LEMMA RefineReplaceAccepted ==
    ASSUME Inv, ReplaceAccepted
    PROVE  UNCHANGED Lifecycle!vars
<1>1. /\ cur \in Tx /\ cur.price \in Nat /\ cur.price >= MinGasPrice
      /\ signed \in sent /\ signed.price = Bump(cur.price)
      /\ signed.opp = opp
  BY DEF ReplaceAccepted, Inv, ControlInv, BidInv, Monitoring, TypeOK, Tx
<1>2. Bump(cur.price) \in Nat /\ Bump(cur.price) > cur.price
  BY <1>1, BumpType, BumpRaises
<1>3. /\ opp' = opp /\ sent' = sent /\ status' = status /\ cur' = signed
      /\ pc \in Monitoring /\ pc' \in Monitoring
      /\ signed # cur
      /\ pending'[signed] = pending[cur] + 1
  BY <1>1, <1>2 DEF ReplaceAccepted, Superseded, histVars, Monitoring
<1>4. Raises = pending[cur] + 1
  BY <1>1, <1>2, <1>3 DEF Raises
<1>5. ~ \E t \in sent : t.opp = opp /\ t.price > signed.price
  <2> SUFFICES ASSUME NEW t \in sent, t.opp = opp, t.price > signed.price
               PROVE  FALSE
    OBVIOUS
  <2>1. t.price =< cur.price \/ t.price = Bump(cur.price)
    BY <1>3 DEF Inv, BidInv
  <2>2. t.price \in Nat
    BY DEF Inv, TypeOK, Tx
  <2> QED BY <1>1, <1>2, <2>1, <2>2
<1>6. Raises' = pending[cur] + 1
  BY <1>3, <1>5 DEF Raises
<1> QED
  BY <1>3, <1>4, <1>6, Stutter

LEMMA RefineRestart ==
    ASSUME Inv, Restart
    PROVE  [Lifecycle!Next]_Lifecycle!vars
<1>1. /\ opp' = NoOpp /\ sent' = sent /\ Raises' = 0
      /\ status' = [o \in Opps |->
                      IF status[o] = "running" THEN "killed" ELSE status[o]]
      /\ status = [o \in Opps |-> status[o]]
  BY DEF Restart, Raises, Monitoring, Inv, TypeOK
<1>2. CASE pc = "idle"
  <2>1. opp = NoOpp /\ \A o \in Opps : status[o] # "running"
    BY <1>2, ExecutorAssumption DEF Inv, ControlInv
  <2>2. status' = status
    BY <1>1, <2>1
  <2>3. Raises = 0
    BY <1>2 DEF Raises, Monitoring
  <2> QED BY <1>1, <2>1, <2>2, <2>3, Stutter
<1>3. CASE pc # "idle"
  <2>1. /\ opp \in Opps /\ opp # NoOpp /\ status[opp] = "running"
        /\ \A o \in Opps : status[o] = "running" => o = opp
    BY <1>3, ExecutorAssumption DEF Inv, ControlInv
  <2>2. status' = [status EXCEPT ![opp] = "killed"]
    BY <1>1, <2>1
  <2>3. Lifecycle!Close
    BY <1>1, <2>1, <2>2 DEF Lifecycle!Close, Outcomes
  <2> QED BY <2>3 DEF Lifecycle!Next
<1> QED BY <1>2, <1>3

LEMMA RefineStep ==
    ASSUME Inv, Inv', [Next]_vars
    PROVE  [Lifecycle!Next]_Lifecycle!vars
<1>a. ASSUME NEW o \in Opps, Execute(o)
      PROVE  [Lifecycle!Next]_Lifecycle!vars
  BY <1>a, RefineExecute DEF Lifecycle!Next
<1>b. ASSUME NEW o \in Opps, Refuse(o)
      PROVE  [Lifecycle!Next]_Lifecycle!vars
  <2>1. Lifecycle!Decline(o)
    <3>1. opp = NoOpp /\ Raises' = Raises
      BY <1>b DEF Refuse, Inv, ControlInv, Raises, Monitoring
    <3> QED BY <1>b, <3>1 DEF Refuse, Lifecycle!Decline, Outcomes
  <2> QED BY <2>1 DEF Lifecycle!Next
<1>c. CASE SubmitAccepted
  BY <1>c, RefineSubmitAccepted
<1>d. CASE SubmitFailed
  BY <1>d, SettleCloses DEF SubmitFailed, Outcomes, Lifecycle!Next
<1>e. CASE PollReceipt
  BY <1>e, SameRaises, Stutter DEF PollReceipt, GoTo, histVars, Monitoring
<1>f. CASE Drop
  BY <1>f, SettleCloses DEF Drop, Outcomes, Lifecycle!Next
<1>g. CASE Confirm
  BY <1>g, SettleCloses DEF Confirm, Outcomes, Lifecycle!Next
<1>h. CASE NoReceipt
  BY <1>h, SameRaises, Stutter DEF NoReceipt, GoTo, histVars, Monitoring
<1>i. CASE ReceiptError
  BY <1>i, SettleCloses DEF ReceiptError, Outcomes, Lifecycle!Next
<1>j. CASE RecheckMined
  BY <1>j, SameRaises, Stutter DEF RecheckMined, GoTo, histVars, Monitoring
<1>k. CASE Replace
  BY <1>k, RefineReplace
<1>l. CASE ReplaceRefused
  BY <1>l, SameRaises, Stutter DEF ReplaceRefused, Monitoring
<1>m. CASE ReplaceAccepted
  BY <1>m, RefineReplaceAccepted
<1>n. CASE ReplaceFailed
  BY <1>n, SameRaises, Stutter DEF ReplaceFailed, histVars, Monitoring
<1>x. ASSUME pc' = pc, opp' = opp, cur' = cur, sent' = sent,
             pending' = pending, status' = status
      PROVE  [Lifecycle!Next]_Lifecycle!vars
  BY <1>x, Stutter DEF Raises
<1>o. ASSUME NEW tx \in pool, Mine(tx)
      PROVE  [Lifecycle!Next]_Lifecycle!vars
  BY <1>o, <1>x DEF Mine, histVars
<1>p. CASE DeadlinePasses
  BY <1>p, <1>x DEF DeadlinePasses, histVars
<1>q. CASE DayPasses
  BY <1>q, <1>x DEF DayPasses, histVars
<1>r. CASE Restart
  BY <1>r, RefineRestart
<1>s. CASE UNCHANGED vars
  BY <1>s, <1>x DEF vars, histVars
<1> QED
  BY <1>a, <1>b, <1>c, <1>d, <1>e, <1>f, <1>g, <1>h, <1>i, <1>j, <1>k, <1>l,
     <1>m, <1>n, <1>o, <1>p, <1>q, <1>r, <1>s
  DEF Next, ExecutorStep

\* The executor implements the life cycle of bids.
THEOREM Refinement == Spec => ImplementsLifecycle
<1>1. Init => Lifecycle!Init
  BY DEF Init, Lifecycle!Init, Raises, Monitoring
<1>2. Inv /\ Inv' /\ [Next]_vars => [Lifecycle!Next]_Lifecycle!vars
  BY RefineStep
<1> QED
  BY Invariance, <1>1, <1>2, PTL DEF Spec, Lifecycle!Spec, ImplementsLifecycle

=============================================================================
