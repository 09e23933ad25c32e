------------------------- MODULE ProviderPoolProofs -------------------------
(***************************************************************************)
(* Proofs about ProviderPool, for any number of endpoints and of calls:    *)
(* a call fails over to every endpoint, whatever the other calls do to the *)
(* counters and backoffs they share.                                       *)
(***************************************************************************)
EXTENDS ProviderPool, TLAPS

\* The endpoints a call has been through before it is at its offset-th one.
Visited(c) == {(start[c] + o) % ProviderCount : o \in 0 .. offset[c] - 1}

\* What a call has done so far, in each of its states.
CallInv ==
    \A c \in Callers :
       /\ pc[c] \in {"request", "ok", "err"} => offset[c] < ProviderCount
       /\ pc[c] = "err" => counted[c] >= 1 /\ attempt[c][At(c)] = "failed"
       /\ pc[c] \in Over => offset[c] = 0
       /\ pc[c] \in Calling =>
             \A p \in Visited(c) : attempt[c][p] # "none"

\* The inductive invariant.
Inv == TypeOK /\ CallInv /\ FailoverComplete /\ AllFailedMeansNoneAsked

-----------------------------------------------------------------------------
(* Lemmas *)

\* The endpoint a caller is at is one of the pool.
LEMMA AtProvider ==
    ASSUME TypeOK, NEW c \in Callers
    PROVE  At(c) \in Providers
BY PoolAssumption DEF TypeOK, At, Providers

\* A power that is the delay of a counted failure stays within MaxBackoff.
LEMMA DelayBounded ==
    ASSUME NEW n \in 1 .. MaxCounted
    PROVE  Delay(n) \in 0 .. MaxBackoff
BY PoolAssumption, PowerAssumption DEF Delay, Smaller

\* A call that has been round the loop ProviderCount times has been at every
\* endpoint, wherever it started.
LEMMA RoundTrip ==
    ASSUME NEW s \in Providers, NEW p \in Providers
    PROVE  \E o \in 0 .. ProviderCount - 1 : (s + o) % ProviderCount = p
<1>1. CASE p >= s
  <2>1. p - s \in 0 .. ProviderCount - 1 /\ s + (p - s) = p
    BY <1>1, PoolAssumption DEF Providers
  <2>2. p % ProviderCount = p
    BY PoolAssumption DEF Providers
  <2> QED BY <2>1, <2>2
<1>2. CASE p < s
  <2> DEFINE o == p + ProviderCount - s
  <2>1. o \in 0 .. ProviderCount - 1 /\ s + o = p + ProviderCount
    BY <1>2, PoolAssumption DEF Providers
  <2>2. (p + ProviderCount) % ProviderCount = p
    BY PoolAssumption DEF Providers
  <2> QED BY <2>1, <2>2
<1> QED BY <1>1, <1>2, PoolAssumption DEF Providers

\* One step round the loop adds the endpoint the call is at.
LEMMA VisitedGrows ==
    ASSUME NEW s \in Providers, NEW k \in Nat
    PROVE  {(s + o) % ProviderCount : o \in 0 .. k}
             = {(s + o) % ProviderCount : o \in 0 .. k - 1}
                 \cup {(s + k) % ProviderCount}
<1>1. 0 .. k = (0 .. k - 1) \cup {k}
  OBVIOUS
<1> QED BY <1>1

-----------------------------------------------------------------------------
(* Every step keeps the types *)

LEMMA TypeStep ==
    ASSUME Inv, [Next]_vars
    PROVE  TypeOK'
<1> USE DEF Inv
<1>a. CASE Tick
  BY <1>a, PoolAssumption DEF Tick, TypeOK
<1>b. ASSUME NEW c \in Callers, Begin(c) PROVE TypeOK'
  <2>1. next' \in Providers
    BY <1>b, PoolAssumption DEF Begin, TypeOK, Providers
  <2> QED
    BY <1>b, <2>1 DEF Begin, TypeOK, slotVars, Calling, NoAttempt
<1>c. ASSUME NEW c \in Callers, Skip(c) PROVE TypeOK'
  BY <1>c, AtProvider, PoolAssumption DEF Skip, TypeOK, slotVars
<1>d. ASSUME NEW c \in Callers, Request(c) PROVE TypeOK'
  BY <1>d DEF Request, TypeOK, slotVars, Calling
<1>e. ASSUME NEW c \in Callers, GiveUp(c) PROVE TypeOK'
  BY <1>e, PoolAssumption
  DEF GiveUp, Return, FinalError, TypeOK, slotVars, Over, Providers
<1>f. ASSUME NEW c \in Callers, Answer(c) PROVE TypeOK'
  BY <1>f, AtProvider, PoolAssumption DEF Answer, TypeOK, Calling
<1>g. ASSUME NEW c \in Callers, FinishSuccess(c) PROVE TypeOK'
  <2>1. backoff' \in [Providers -> 0 .. MaxBackoff]
    <3>1. 0 \in 0 .. MaxBackoff
      BY PoolAssumption
    <3> QED BY <1>g, <3>1 DEF FinishSuccess, TypeOK
  <2>2. gauge' \in [Providers -> {0, 1}]
    BY <1>g DEF FinishSuccess, TypeOK
  <2>3. /\ start' \in [Callers -> Providers]
        /\ offset' \in [Callers -> 0 .. ProviderCount]
    BY <1>g, PoolAssumption DEF FinishSuccess, Return, TypeOK, Providers
  <2>4. attempt' \in [Callers -> [Providers -> {"none", "skipped", "failed"}]]
    BY <1>g DEF FinishSuccess, TypeOK, NoAttempt
  <2> QED
    BY <1>g, <2>1, <2>2, <2>3, <2>4 DEF FinishSuccess, Return, TypeOK, Over
<1>h. ASSUME NEW c \in Callers, Fail(c) PROVE TypeOK'
  <2>1. failures' \in [Providers -> 0 .. MaxCounted]
    BY <1>h, AtProvider, PoolAssumption DEF Fail, TypeOK, Smaller
  <2>2. failures'[At(c)] \in 0 .. MaxCounted
    BY <2>1, AtProvider
  <2>3. attempt' \in [Callers -> [Providers -> {"none", "skipped", "failed"}]]
    BY <1>h, AtProvider DEF Fail, TypeOK
  <2> QED
    BY <1>h, <2>1, <2>2, <2>3 DEF Fail, TypeOK, Calling
<1>i. ASSUME NEW c \in Callers, FinishFailure(c) PROVE TypeOK'
  <2>1. counted[c] \in 1 .. MaxCounted /\ offset[c] < ProviderCount
    BY <1>i DEF FinishFailure, CallInv, TypeOK
  <2>2. Delay(counted[c]) \in 0 .. MaxBackoff
    BY <2>1, DelayBounded
  <2>3. offset' \in [Callers -> 0 .. ProviderCount]
    BY <1>i, <2>1, PoolAssumption DEF FinishFailure, NextOffset, TypeOK
  <2>4. /\ backoff' \in [Providers -> 0 .. MaxBackoff]
        /\ gauge' \in [Providers -> {0, 1}]
    BY <1>i, <2>2, AtProvider DEF FinishFailure, TypeOK
  <2> QED
    BY <1>i, <2>3, <2>4, PoolAssumption DEF FinishFailure, TypeOK, Calling
<1>j. CASE UNCHANGED vars
  BY <1>j DEF vars, slotVars, TypeOK
<1> QED
  BY <1>a, <1>b, <1>c, <1>d, <1>e, <1>f, <1>g, <1>h, <1>i, <1>j
  DEF Next, CallStep

-----------------------------------------------------------------------------
(* Every step keeps CallInv and the two results *)

Results == FailoverComplete /\ AllFailedMeansNoneAsked

\* What a step does not touch of a caller stays true of it.
LEMMA CallQuiet ==
    ASSUME Inv, UNCHANGED <<pc, start, offset, counted, attempt>>
    PROVE  CallInv' /\ Results'
BY DEF Inv, CallInv, Results, FailoverComplete, AllFailedMeansNoneAsked,
   Visited, At

\* A step of one caller: nothing is to be shown about the others.
LEMMA OneCaller ==
    ASSUME Inv, NEW c \in Callers, TypeOK',
           \A d \in Callers \ {c} :
              /\ pc'[d] = pc[d] /\ start'[d] = start[d]
              /\ offset'[d] = offset[d] /\ counted'[d] = counted[d]
              /\ attempt'[d] = attempt[d],
           /\ pc'[c] \in {"request", "ok", "err"} => offset'[c] < ProviderCount
           /\ pc'[c] = "err" => counted'[c] >= 1 /\ attempt'[c][At(c)'] = "failed"
           /\ pc'[c] \in Over => offset'[c] = 0
           /\ pc'[c] \in Calling =>
                 \A p \in Visited(c)' : attempt'[c][p] # "none",
           /\ pc'[c] \in {"failed", "allFailed"} =>
                 \A p \in Providers : attempt'[c][p] # "none"
           /\ pc'[c] = "allFailed" =>
                 \A p \in Providers : attempt'[c][p] = "skipped"
    PROVE  CallInv' /\ Results'
<1>1. ASSUME NEW d \in Callers \ {c}
      PROVE  At(d)' = At(d) /\ Visited(d)' = Visited(d)
  BY DEF At, Visited
<1>2. CallInv'
  BY <1>1 DEF Inv, CallInv
<1>3. Results'
  BY DEF Inv, Results, FailoverComplete, AllFailedMeansNoneAsked
<1> QED BY <1>2, <1>3

LEMMA CallStepKeeps ==
    ASSUME Inv, [Next]_vars, TypeOK'
    PROVE  CallInv' /\ Results'
<1>a. CASE Tick
  BY <1>a, CallQuiet DEF Tick
<1>b. ASSUME NEW c \in Callers, Begin(c) PROVE CallInv' /\ Results'
  <2>1. /\ pc'[c] = "loop" /\ offset'[c] = 0
        /\ \A d \in Callers \ {c} :
              /\ pc'[d] = pc[d] /\ start'[d] = start[d]
              /\ offset'[d] = offset[d] /\ counted'[d] = counted[d]
              /\ attempt'[d] = attempt[d]
    BY <1>b DEF Begin, Inv, TypeOK, CallInv
  <2>2. Visited(c)' = {}
    BY <2>1 DEF Visited
  <2> QED
    BY <2>1, <2>2, OneCaller DEF Over, Calling
<1>c. ASSUME NEW c \in Callers, Skip(c) PROVE CallInv' /\ Results'
  <2>1. /\ pc[c] = "loop" /\ pc'[c] = "loop" /\ start'[c] = start[c]
        /\ offset'[c] = offset[c] + 1 /\ offset[c] \in Nat
        /\ start[c] \in Providers
        /\ attempt'[c] = [attempt[c] EXCEPT ![At(c)] = "skipped"]
        /\ \A d \in Callers \ {c} :
              /\ pc'[d] = pc[d] /\ start'[d] = start[d]
              /\ offset'[d] = offset[d] /\ counted'[d] = counted[d]
              /\ attempt'[d] = attempt[d]
    BY <1>c, PoolAssumption DEF Skip, Inv, TypeOK
  <2>2. Visited(c)' = Visited(c) \cup {At(c)}
    BY <2>1, VisitedGrows DEF Visited, At
  <2>3. \A p \in Visited(c) : attempt[c][p] # "none"
    BY <2>1 DEF Inv, CallInv, Calling
  <2>4. \A p \in Visited(c)' : attempt'[c][p] # "none"
    <3> SUFFICES ASSUME NEW p \in Visited(c)' PROVE attempt'[c][p] # "none"
      OBVIOUS
    <3>1. attempt[c] \in [Providers -> {"none", "skipped", "failed"}]
      BY DEF Inv, TypeOK
    <3>2. p \in Providers
      BY <2>1, PoolAssumption DEF Visited, Providers
    <3> QED BY <2>1, <2>2, <2>3, <3>1, <3>2
  <2> QED
    BY <2>1, <2>4, OneCaller DEF Over
<1>d. ASSUME NEW c \in Callers, Request(c) PROVE CallInv' /\ Results'
  <2>1. /\ pc[c] = "loop" /\ pc'[c] = "request" /\ offset[c] < ProviderCount
        /\ \A d \in Callers \ {c} : pc'[d] = pc[d]
        /\ UNCHANGED <<start, offset, counted, attempt>>
    BY <1>d DEF Request, Inv, TypeOK
  <2>2. Visited(c)' = Visited(c)
    BY <2>1 DEF Visited
  <2>3. \A p \in Visited(c) : attempt[c][p] # "none"
    BY <2>1 DEF Inv, CallInv, Calling
  <2> QED
    BY <2>1, <2>2, <2>3, OneCaller DEF Over
<1>e. ASSUME NEW c \in Callers, GiveUp(c) PROVE CallInv' /\ Results'
  <2>1. /\ pc[c] = "loop" /\ offset[c] = ProviderCount
        /\ pc'[c] = FinalError(c) /\ offset'[c] = 0
        /\ start[c] \in Providers /\ attempt' = attempt
        /\ \A d \in Callers \ {c} :
              /\ pc'[d] = pc[d] /\ start'[d] = start[d]
              /\ offset'[d] = offset[d] /\ counted'[d] = counted[d]
    BY <1>e DEF GiveUp, Return, Inv, TypeOK
  <2>2. \A p \in Providers : attempt[c][p] # "none"
    <3>1. \A p \in Visited(c) : attempt[c][p] # "none"
      BY <2>1 DEF Inv, CallInv, Calling
    <3> QED BY <2>1, <3>1, RoundTrip DEF Visited
  <2>3. FinalError(c) = "allFailed" =>
          \A p \in Providers : attempt[c][p] = "skipped"
    BY <2>2 DEF FinalError, Inv, TypeOK
  <2>4. FinalError(c) \in {"failed", "allFailed"}
    BY DEF FinalError
  <2> QED
    BY <2>1, <2>2, <2>3, <2>4, OneCaller DEF Over, Calling
<1>f. ASSUME NEW c \in Callers, Answer(c) PROVE CallInv' /\ Results'
  <2>1. /\ pc[c] = "request" /\ pc'[c] = "ok"
        /\ \A d \in Callers \ {c} : pc'[d] = pc[d]
        /\ UNCHANGED <<start, offset, counted, attempt>>
    BY <1>f DEF Answer, Inv, TypeOK
  <2>2. Visited(c)' = Visited(c)
    BY <2>1 DEF Visited
  <2>3. /\ offset[c] < ProviderCount
        /\ \A p \in Visited(c) : attempt[c][p] # "none"
    BY <2>1 DEF Inv, CallInv, Calling
  <2> QED
    BY <2>1, <2>2, <2>3, OneCaller DEF Over
<1>g. ASSUME NEW c \in Callers, FinishSuccess(c) PROVE CallInv' /\ Results'
  <2>1. /\ pc'[c] = "answered" /\ offset'[c] = 0
        /\ \A d \in Callers \ {c} :
              /\ pc'[d] = pc[d] /\ start'[d] = start[d]
              /\ offset'[d] = offset[d] /\ counted'[d] = counted[d]
              /\ attempt'[d] = attempt[d]
    BY <1>g DEF FinishSuccess, Return, Inv, TypeOK
  <2> QED
    BY <2>1, OneCaller DEF Calling
<1>h. ASSUME NEW c \in Callers, Fail(c) PROVE CallInv' /\ Results'
  <2>1. /\ pc[c] = "request" /\ pc'[c] = "err"
        /\ start' = start /\ offset' = offset /\ At(c)' = At(c)
        /\ attempt'[c] = [attempt[c] EXCEPT ![At(c)] = "failed"]
        /\ attempt[c] \in [Providers -> {"none", "skipped", "failed"}]
        /\ \A d \in Callers \ {c} :
              /\ pc'[d] = pc[d] /\ counted'[d] = counted[d]
              /\ attempt'[d] = attempt[d]
    BY <1>h DEF Fail, Inv, TypeOK, At
  <2>2. At(c) \in Providers
    BY AtProvider DEF Inv
  <2>3. counted'[c] >= 1
    <3>1. failures[At(c)] \in Nat
      BY <2>2, PoolAssumption DEF Inv, TypeOK
    <3>2. counted'[c] = Smaller(failures[At(c)] + 1, MaxCounted)
      BY <1>h, <2>2 DEF Fail, Inv, TypeOK
    <3> QED BY <3>1, <3>2, PoolAssumption DEF Smaller, UnhealthyAfter
  <2>4. Visited(c)' = Visited(c)
    BY <2>1 DEF Visited
  <2>5. /\ offset[c] < ProviderCount
        /\ \A p \in Visited(c) : attempt[c][p] # "none"
    BY <2>1 DEF Inv, CallInv, Calling
  <2>6. Visited(c) \subseteq Providers
    <3>1. start[c] \in Int /\ offset[c] \in Int
      BY PoolAssumption DEF Inv, TypeOK, Providers
    <3> QED BY <3>1, PoolAssumption DEF Visited, Providers
  <2>7. \A p \in Visited(c)' : attempt'[c][p] # "none"
    BY <2>1, <2>4, <2>5, <2>6
  <2>8. attempt'[c][At(c)'] = "failed"
    BY <2>1, <2>2
  <2> QED
    BY <2>1, <2>3, <2>5, <2>7, <2>8, OneCaller DEF Over
<1>i. ASSUME NEW c \in Callers, FinishFailure(c) PROVE CallInv' /\ Results'
  <2>1. /\ pc[c] = "err" /\ pc'[c] = "loop" /\ start'[c] = start[c]
        /\ offset'[c] = offset[c] + 1 /\ offset[c] \in Nat
        /\ start[c] \in Providers /\ attempt' = attempt
        /\ \A d \in Callers \ {c} :
              /\ pc'[d] = pc[d] /\ start'[d] = start[d]
              /\ offset'[d] = offset[d] /\ counted'[d] = counted[d]
    BY <1>i, PoolAssumption DEF FinishFailure, NextOffset, Inv, TypeOK
  <2>2. Visited(c)' = Visited(c) \cup {At(c)}
    BY <2>1, VisitedGrows DEF Visited, At
  <2>3. /\ attempt[c][At(c)] = "failed"
        /\ \A p \in Visited(c) : attempt[c][p] # "none"
    BY <2>1 DEF Inv, CallInv, Calling
  <2> QED
    BY <2>1, <2>2, <2>3, OneCaller DEF Over
<1>j. CASE UNCHANGED vars
  BY <1>j, CallQuiet DEF vars
<1> QED
  BY <1>a, <1>b, <1>c, <1>d, <1>e, <1>f, <1>g, <1>h, <1>i, <1>j
  DEF Next, CallStep

-----------------------------------------------------------------------------
(* The theorems *)

LEMMA InitInv == Init => Inv
<1> SUFFICES ASSUME Init PROVE Inv
  OBVIOUS
<1>1. TypeOK
  BY PoolAssumption DEF Init, TypeOK, Providers, Over, NoAttempt
<1>2. CallInv /\ FailoverComplete /\ AllFailedMeansNoneAsked
  BY DEF Init, CallInv, Over, Calling, FailoverComplete,
     AllFailedMeansNoneAsked
<1> QED BY <1>1, <1>2 DEF Inv

\* Inv is an invariant of the pool.
THEOREM Invariance == Spec => []Inv
<1>1. Inv /\ [Next]_vars => Inv'
  BY TypeStep, CallStepKeeps DEF Inv, Results
<1> QED
  BY InitInv, <1>1, PTL DEF Spec

\* Every variable of the pool keeps its type: no index leaves the pool of
\* endpoints, no backoff passes MAX_BACKOFF_MS.
THEOREM PoolTypeCorrect == Spec => []TypeOK
<1>1. Inv => TypeOK
  BY DEF Inv
<1> QED
  BY Invariance, <1>1, PTL

\* A call that ends in an error has failed on, or skipped, each endpoint.
THEOREM CallsFailOver == Spec => []FailoverComplete
<1>1. Inv => FailoverComplete
  BY DEF Inv
<1> QED
  BY Invariance, <1>1, PTL

\* AllProvidersFailed is the error of a call that asked nobody.
THEOREM AllFailedAskedNone == Spec => []AllFailedMeansNoneAsked
<1>1. Inv => AllFailedMeansNoneAsked
  BY DEF Inv
<1> QED
  BY Invariance, <1>1, PTL

\* What a call has still to do shrinks with each of its steps, and the step leaves
\* every other call where it is.
LEMMA CallShrinks ==
    ASSUME Inv, NEW c \in Callers, CallStep(c)
    PROVE  /\ StepsLeft(c)' < StepsLeft(c)
           /\ \A d \in Callers \ {c} : pc'[d] = pc[d] /\ offset'[d] = offset[d]
<1> DEFINE Others == \A d \in Callers \ {c} :
                       pc'[d] = pc[d] /\ offset'[d] = offset[d]
<1>1. /\ offset[c] \in Nat /\ offset[c] =< ProviderCount /\ ProviderCount \in Nat
      /\ pc[c] \in {"request", "ok", "err"} => offset[c] < ProviderCount
  BY PoolAssumption DEF Inv, TypeOK, CallInv
<1>2. CASE Skip(c)
  <2>1. /\ pc[c] = "loop" /\ pc'[c] = "loop" /\ offset'[c] = offset[c] + 1
        /\ Others
    BY <1>2 DEF Skip, Inv, TypeOK
  <2> QED BY <1>1, <2>1 DEF StepsLeft
<1>3. CASE Request(c)
  <2>1. /\ pc[c] = "loop" /\ pc'[c] = "request" /\ offset'[c] = offset[c]
        /\ Others
    BY <1>3 DEF Request, Inv, TypeOK
  <2> QED BY <1>1, <2>1 DEF StepsLeft
<1>4. CASE GiveUp(c)
  <2>1. pc[c] = "loop" /\ pc'[c] \in Over /\ Others
    BY <1>4 DEF GiveUp, Return, FinalError, Over, Inv, TypeOK
  <2> QED BY <1>1, <2>1 DEF StepsLeft, Over
<1>5. CASE Answer(c) \/ Fail(c)
  <2>1. /\ pc[c] = "request" /\ pc'[c] \in {"ok", "err"}
        /\ offset'[c] = offset[c] /\ Others
    BY <1>5 DEF Answer, Fail, Inv, TypeOK
  <2> QED BY <1>1, <2>1 DEF StepsLeft
<1>6. CASE FinishSuccess(c)
  <2>1. pc[c] = "ok" /\ pc'[c] = "answered" /\ Others
    BY <1>6 DEF FinishSuccess, Return, Inv, TypeOK
  <2> QED BY <1>1, <2>1 DEF StepsLeft
<1>7. CASE FinishFailure(c)
  <2>1. /\ pc[c] = "err" /\ pc'[c] = "loop" /\ offset'[c] = offset[c] + 1
        /\ Others
    BY <1>7 DEF FinishFailure, NextOffset, Inv, TypeOK
  <2> QED BY <1>1, <2>1 DEF StepsLeft
<1> QED
  BY <1>2, <1>3, <1>4, <1>5, <1>6, <1>7 DEF CallStep

\* CallsShrink: a call is over after 3 * ProviderCount + 1 of its steps, whatever
\* the other calls and the clock do in between.
THEOREM CallsComeToAnEnd == Spec => CallsShrink
<1>1. Inv /\ [Next]_vars
        => [\A c \in Callers : pc[c] \in Calling =>
              /\ StepsLeft(c)' =< StepsLeft(c)
              /\ CallStep(c) => StepsLeft(c)' < StepsLeft(c)]_vars
  <2> SUFFICES ASSUME Inv, Next, NEW c \in Callers, pc[c] \in Calling
               PROVE  /\ StepsLeft(c)' =< StepsLeft(c)
                      /\ CallStep(c) => StepsLeft(c)' < StepsLeft(c)
    OBVIOUS
  <2>1. StepsLeft(c) \in Nat
    <3>1. /\ offset[c] \in Nat /\ offset[c] =< ProviderCount
          /\ ProviderCount \in Nat
          /\ pc[c] \in {"request", "ok", "err"} => offset[c] < ProviderCount
      BY PoolAssumption DEF Inv, TypeOK, CallInv
    <3> QED BY <3>1 DEF StepsLeft, Calling
  <2>2. pc'[c] = pc[c] /\ offset'[c] = offset[c] => StepsLeft(c)' = StepsLeft(c)
    BY DEF StepsLeft
  <2>3. CASE CallStep(c)
    <3>1. StepsLeft(c)' < StepsLeft(c)
      BY <2>3, CallShrinks
    <3>2. pc'[c] \in Calling \cup Over
             /\ offset'[c] \in 0 .. ProviderCount
      BY TypeStep DEF TypeOK
    <3>3. StepsLeft(c)' \in Int
      BY <3>2, PoolAssumption DEF StepsLeft
    <3> QED BY <2>1, <3>1, <3>3
  <2>4. CASE ~CallStep(c)
    <3>1. pc'[c] = pc[c] /\ offset'[c] = offset[c]
      <4>1. CASE Tick
        BY <4>1 DEF Tick
      <4>2. ASSUME NEW d \in Callers, Begin(d) PROVE pc'[c] = pc[c] /\ offset'[c] = offset[c]
        BY <4>2 DEF Begin, Calling, Over, Inv, TypeOK
      <4>3. ASSUME NEW d \in Callers, CallStep(d)
            PROVE  pc'[c] = pc[c] /\ offset'[c] = offset[c]
        BY <2>4, <4>3, CallShrinks
      <4> QED BY <4>1, <4>2, <4>3 DEF Next
    <3> QED BY <2>1, <2>2, <2>4, <3>1
  <2> QED BY <2>3, <2>4
<1> QED
  BY Invariance, <1>1, PTL DEF Spec, CallsShrink

=============================================================================
