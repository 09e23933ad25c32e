------------------------ MODULE ExecutorCountProofs ------------------------
(***************************************************************************)
(* Theorems about Executor that count: how many transactions are offered   *)
(* for an opportunity, and how many of them end up in the chain.  They     *)
(* rest on the invariant of ExecutorProofs.                                *)
(***************************************************************************)
EXTENDS ExecutorProofs, FiniteSetTheorems

\* The chain holds one transaction per nonce, and one of each opportunity
\* reported as confirmed.
MinedInv ==
    /\ \A t \in mined : t.nonce < chainNonce
    /\ \A t, u \in mined : t.nonce = u.nonce => t = u
    /\ \A o \in Opps : status[o] = "confirmed" => \E t \in mined : t.opp = o

\* The transactions offered for an opportunity, and those of them that are
\* offered at no more than a given price.
Bids(o) == {t \in sent : t.opp = o}
BidsUpTo(o, price) == {t \in Bids(o) : t.price =< price}

\* Each entry of pending_submissions has counted the bids up to its own.
LadderInv ==
    /\ IsFiniteSet(sent)
    /\ \A t, u \in sent : t.opp = u.opp => t.nonce = u.nonce
    /\ \A o \in Opps : Cardinality(Bids(o)) =< 1 + MaxReplacementAttempts
    /\ pc \in Monitoring =>
         Cardinality(BidsUpTo(opp, cur.price)) =< 1 + pending[cur]

-----------------------------------------------------------------------------
(* What is mined *)

\* A step that mines nothing and confirms nothing.
LEMMA MinedQuiet ==
    ASSUME MinedInv, mined' = mined, chainNonce' = chainNonce,
           \A o \in Opps : status'[o] = "confirmed" => status[o] = "confirmed"
    PROVE  MinedInv'
BY DEF MinedInv

LEMMA MinedStep ==
    ASSUME Inv, MinedInv, [Next]_vars
    PROVE  MinedInv'
<1> USE DEF Inv, TypeOK
<1>a. ASSUME NEW o \in Opps, Execute(o) PROVE MinedInv'
  BY <1>a, MinedQuiet DEF Execute, chainVars
<1>b. ASSUME NEW o \in Opps, Refuse(o) PROVE MinedInv'
  BY <1>b, MinedQuiet DEF Refuse, chainVars
<1>c. CASE SubmitAccepted
  BY <1>c, MinedQuiet DEF SubmitAccepted, histVars
<1>d. CASE SubmitFailed
  BY <1>d, MinedQuiet DEF SubmitFailed, LostSend, Settle
<1>e. CASE PollReceipt
  BY <1>e, MinedQuiet DEF PollReceipt, GoTo, chainVars, histVars
<1>f. CASE Drop
  BY <1>f, MinedQuiet DEF Drop, Settle, chainVars
<1>g. CASE Confirm
  <2>1. cur \in mined /\ cur.opp = opp
    BY <1>g DEF Confirm, HasReceipt, ControlInv, Monitoring
  <2>2. /\ mined' = mined /\ chainNonce' = chainNonce
        /\ status' = [status EXCEPT ![opp] = "confirmed"]
    BY <1>g DEF Confirm, Settle, chainVars
  <2> QED BY <2>1, <2>2 DEF MinedInv
<1>h. CASE NoReceipt
  BY <1>h, MinedQuiet DEF NoReceipt, GoTo, chainVars, histVars
<1>i. CASE ReceiptError
  BY <1>i, MinedQuiet DEF ReceiptError, Settle, chainVars
<1>j. CASE RecheckMined
  BY <1>j, MinedQuiet DEF RecheckMined, GoTo, chainVars, histVars
<1>k. CASE Replace
  BY <1>k, MinedQuiet DEF Replace, chainVars
<1>l. CASE ReplaceRefused
  BY <1>l, MinedQuiet DEF ReplaceRefused, chainVars
<1>m. CASE ReplaceAccepted
  BY <1>m, MinedQuiet DEF ReplaceAccepted, histVars
<1>n. CASE ReplaceFailed
  BY <1>n, MinedQuiet DEF ReplaceFailed, LostSend, histVars
<1>o. ASSUME NEW tx \in pool, Mine(tx) PROVE MinedInv'
  <2>1. /\ mined' = mined \cup {tx} /\ tx.nonce = chainNonce
        /\ chainNonce' = chainNonce + 1 /\ status' = status
    BY <1>o DEF Mine, histVars
  <2>2. \A t \in mined : t.nonce \in Nat /\ t.nonce < chainNonce
    BY DEF MinedInv, Tx
  <2>3. \A t \in mined' : t.nonce < chainNonce'
    BY <2>1, <2>2
  <2>4. \A t, u \in mined' : t.nonce = u.nonce => t = u
    BY <2>1, <2>2 DEF MinedInv
  <2>5. \A o \in Opps : status'[o] = "confirmed" => \E t \in mined' : t.opp = o
    BY <2>1 DEF MinedInv
  <2> QED BY <2>3, <2>4, <2>5 DEF MinedInv
<1>p. CASE DeadlinePasses
  BY <1>p, MinedQuiet DEF DeadlinePasses, chainVars, histVars
<1>q. CASE DayPasses
  BY <1>q, MinedQuiet DEF DayPasses, chainVars, histVars
<1>r. CASE Restart
  <2>1. mined' = mined /\ chainNonce' = chainNonce
    BY <1>r DEF Restart, LostSend, chainVars
  <2>2. \A o \in Opps : status'[o] = "confirmed" => status[o] = "confirmed"
    BY <1>r DEF Restart
  <2> QED BY <2>1, <2>2, MinedQuiet
<1>s. CASE UNCHANGED vars
  BY <1>s, MinedQuiet DEF vars, chainVars, histVars
<1> QED
  BY <1>a, <1>b, <1>c, <1>d, <1>e, <1>f, <1>g, <1>h, <1>i, <1>j, <1>k, <1>l,
     <1>m, <1>n, <1>o, <1>p, <1>q, <1>r, <1>s
  DEF Next, ExecutorStep

-----------------------------------------------------------------------------
(* What is offered *)

\* A step that offers nothing and moves nobody up the ladder.
LEMMA LadderQuiet ==
    ASSUME LadderInv, sent' = sent,
           \/ pc' \notin Monitoring
           \/ pc \in Monitoring /\ UNCHANGED <<opp, cur, pending>>
    PROVE  LadderInv'
<1>1. Bids(opp)' = {t \in sent : t.opp = opp'}
  BY DEF Bids
<1>2. \A o \in Opps : Cardinality(Bids(o)') =< 1 + MaxReplacementAttempts
  BY DEF LadderInv, Bids
<1>3. pc' \in Monitoring =>
        Cardinality(BidsUpTo(opp, cur.price)') =< 1 + pending'[cur']
  BY DEF LadderInv, BidsUpTo, Bids
<1> QED BY <1>2, <1>3 DEF LadderInv, BidsUpTo, Bids

\* The bids for an opportunity are finite in number.
LEMMA BidsFinite ==
    ASSUME LadderInv, NEW S, S \subseteq sent
    PROVE  IsFiniteSet(S) /\ Cardinality(S) \in Nat
BY FS_Subset, FS_CardinalityType DEF LadderInv

\* One more transaction makes a set of them larger by one at most.
LEMMA OneMore ==
    ASSUME NEW S, IsFiniteSet(S), NEW x
    PROVE  /\ IsFiniteSet(S \cup {x})
           /\ Cardinality(S \cup {x}) =< Cardinality(S) + 1
<1>1. Cardinality(S) \in Nat
  BY FS_CardinalityType
<1>2. /\ IsFiniteSet(S \cup {x})
      /\ Cardinality(S \cup {x})
           = IF x \in S THEN Cardinality(S) ELSE Cardinality(S) + 1
  BY FS_AddElement
<1> QED BY <1>1, <1>2

LEMMA LadderExecute ==
    ASSUME Inv, LadderInv, NEW o \in Opps, Execute(o)
    PROVE  LadderInv'
<1>1. PICK tx : tx.opp = o /\ sent' = sent \cup {tx}
  BY DEF Execute
<1>2. \A t \in sent : t.opp # o /\ t.opp \in Opps
  BY DEF Execute, Inv, BidInv, TypeOK, Tx
<1>3. IsFiniteSet(sent')
  BY <1>1, OneMore DEF LadderInv
<1>4. \A t, u \in sent' : t.opp = u.opp => t.nonce = u.nonce
  BY <1>1, <1>2 DEF LadderInv
<1>5. ASSUME NEW p \in Opps
      PROVE  Cardinality(Bids(p)') =< 1 + MaxReplacementAttempts
  <2>1. CASE p = o
    <3>1. Bids(p)' = {tx}
      BY <1>1, <1>2, <2>1 DEF Bids
    <3>2. Cardinality({tx}) = 1
      BY FS_Singleton
    <3> QED BY <3>1, <3>2 DEF MaxReplacementAttempts
  <2>2. CASE p # o
    <3>1. Bids(p)' = Bids(p)
      BY <1>1, <2>2 DEF Bids
    <3> QED BY <3>1 DEF LadderInv
  <2> QED BY <2>1, <2>2
<1>6. pc' \notin Monitoring
  BY DEF Execute, Monitoring
<1> QED BY <1>3, <1>4, <1>5, <1>6 DEF LadderInv

LEMMA LadderSubmitAccepted ==
    ASSUME Inv, LadderInv, SubmitAccepted
    PROVE  LadderInv'
<1>1. /\ sent' = sent /\ opp' = opp /\ cur' = signed /\ pending'[signed] = 0
      /\ pc = "submit"
  BY DEF SubmitAccepted, histVars
<1>2. \A t \in sent : t.opp = opp => t = signed
  BY <1>1 DEF Inv, BidInv
<1>3. signed \in sent /\ signed.opp = opp /\ signed.price \in Nat
  BY <1>1 DEF Inv, ControlInv, TypeOK, Tx
<1>4. BidsUpTo(opp, cur.price)' = {signed}
  BY <1>1, <1>2, <1>3 DEF BidsUpTo, Bids
<1>5. Cardinality(BidsUpTo(opp, cur.price)') =< 1 + pending'[cur']
  <2>1. Cardinality({signed}) = 1
    BY FS_Singleton
  <2> QED BY <1>1, <1>4, <2>1
<1> QED BY <1>1, <1>5 DEF LadderInv, Bids

LEMMA LadderReplace ==
    ASSUME Inv, LadderInv, Replace
    PROVE  LadderInv'
<1> DEFINE low == BidsUpTo(opp, cur.price)
<1>1. PICK tx : tx = [cur EXCEPT !.price = Bump(cur.price)]
                /\ sent' = sent \cup {tx}
  BY DEF Replace
<1>2. /\ cur \in sent /\ cur \in Tx /\ cur.opp = opp /\ opp \in Opps
      /\ pending[cur] \in Nat /\ pending[cur] < MaxReplacementAttempts
      /\ pc \in Monitoring /\ UNCHANGED <<opp, cur, pending>>
  BY ExecutorAssumption
  DEF Replace, Inv, ControlInv, TrackingInv, TypeOK, Monitoring,
      MaxReplacementAttempts
<1>3. /\ tx = [opp |-> opp, nonce |-> cur.nonce, price |-> Bump(cur.price)]
      /\ cur.price \in Nat /\ Bump(cur.price) \in Nat
      /\ Bump(cur.price) > cur.price
  <2>1. cur.price \in Nat /\ cur.price >= MinGasPrice
    BY <1>2 DEF Inv, BidInv, Tx
  <2> QED BY <1>1, <1>2, <2>1, BumpType, BumpRaises DEF Tx
<1>4. \A t \in Bids(opp) : t \in low \/ t = tx
  <2> SUFFICES ASSUME NEW t \in sent, t.opp = opp PROVE t \in low \/ t = tx
    BY DEF Bids
  <2>1. /\ t.nonce = cur.nonce
        /\ t.price =< cur.price \/ t.price = Bump(cur.price)
    BY <1>2 DEF Inv, BidInv
  <2>2. t = [opp |-> t.opp, nonce |-> t.nonce, price |-> t.price]
    BY DEF Inv, TypeOK, Tx
  <2> QED BY <1>3, <2>1, <2>2 DEF BidsUpTo, Bids
<1>5. Bids(opp)' = low \cup {tx}
  BY <1>1, <1>2, <1>3, <1>4 DEF Bids, BidsUpTo
<1>6. /\ IsFiniteSet(low) /\ Cardinality(low) \in Nat
      /\ Cardinality(low) =< 1 + pending[cur]
  BY <1>2, BidsFinite DEF LadderInv, BidsUpTo, Bids
<1>7. Cardinality(Bids(opp)') =< 1 + MaxReplacementAttempts
  <2>1. /\ Cardinality(low \cup {tx}) =< Cardinality(low) + 1
        /\ IsFiniteSet(low \cup {tx})
    BY <1>6, OneMore
  <2>2. Cardinality(low \cup {tx}) \in Nat
    BY <2>1, FS_CardinalityType
  <2> QED BY <1>2, <1>5, <1>6, <2>1, <2>2 DEF MaxReplacementAttempts
<1>8. \A p \in Opps : p # opp => Bids(p)' = Bids(p)
  BY <1>1, <1>3 DEF Bids
<1>9. BidsUpTo(opp, cur.price)' = low
  BY <1>1, <1>2, <1>3 DEF BidsUpTo, Bids
<1>10. IsFiniteSet(sent')
  BY <1>1, OneMore DEF LadderInv
<1>11. \A t, u \in sent' : t.opp = u.opp => t.nonce = u.nonce
  <2>1. \A t \in sent : t.opp = opp => t.nonce = cur.nonce
    BY <1>2 DEF LadderInv
  <2>2. tx.opp = opp /\ tx.nonce = cur.nonce
    BY <1>3
  <2> QED BY <1>1, <2>1, <2>2 DEF LadderInv
<1>12. \A p \in Opps : Cardinality(Bids(p)') =< 1 + MaxReplacementAttempts
  BY <1>2, <1>7, <1>8 DEF LadderInv
<1> QED BY <1>2, <1>6, <1>9, <1>10, <1>11, <1>12 DEF LadderInv

LEMMA LadderReplaceAccepted ==
    ASSUME Inv, LadderInv, ReplaceAccepted
    PROVE  LadderInv'
<1> DEFINE low == BidsUpTo(opp, cur.price)
<1>1. /\ cur \in sent /\ cur \in Tx /\ cur.price \in Nat
      /\ cur.price >= MinGasPrice /\ cur.opp = opp
      /\ signed \in sent /\ signed.opp = opp
      /\ signed = [cur EXCEPT !.price = Bump(cur.price)]
      /\ signed.price = Bump(cur.price) /\ signed.nonce = cur.nonce
      /\ pending[cur] \in Nat
  BY DEF ReplaceAccepted, Inv, ControlInv, TrackingInv, BidInv, Monitoring,
     TypeOK, Tx
<1>2. Bump(cur.price) \in Nat /\ Bump(cur.price) > cur.price
  BY <1>1, BumpType, BumpRaises
<1>3. /\ opp' = opp /\ sent' = sent /\ cur' = signed
      /\ pc \in Monitoring /\ signed # cur
      /\ pending'[signed] = pending[cur] + 1
  <2>1. signed # cur
    <3>1. signed.price # cur.price
      <4>1. Bump(cur.price) # cur.price
        BY <1>1, <1>2
      <4>2. signed.price = Bump(cur.price)
        BY <1>1
      <4> QED BY <4>1, <4>2
    <3> QED BY <3>1
  <2>2. pending' = Superseded(cur, signed)
    BY DEF ReplaceAccepted
  <2>3. pending'[signed] = pending[cur] + 1
    BY <2>1, <2>2 DEF Superseded
  <2> QED BY <2>1, <2>3 DEF ReplaceAccepted, histVars, Monitoring
<1>4. BidsUpTo(opp, cur.price)' \subseteq low \cup {signed}
  <2> SUFFICES ASSUME NEW t \in sent, t.opp = opp
               PROVE  t \in low \/ t = signed
    BY <1>3 DEF BidsUpTo, Bids
  <2>1. /\ t.nonce = cur.nonce
        /\ t.price =< cur.price \/ t.price = Bump(cur.price)
    BY <1>3 DEF Inv, BidInv
  <2>2. /\ t = [opp |-> t.opp, nonce |-> t.nonce, price |-> t.price]
        /\ signed = [opp |-> signed.opp, nonce |-> signed.nonce,
                     price |-> signed.price]
    BY <1>1 DEF Inv, TypeOK, Tx
  <2> QED BY <1>1, <2>1, <2>2 DEF BidsUpTo, Bids
<1>5. /\ IsFiniteSet(low) /\ Cardinality(low) \in Nat
      /\ Cardinality(low) =< 1 + pending[cur]
  BY <1>3, BidsFinite DEF LadderInv, BidsUpTo, Bids
<1>6. Cardinality(BidsUpTo(opp, cur.price)') =< 1 + pending'[cur']
  <2>1. /\ IsFiniteSet(low \cup {signed})
        /\ Cardinality(low \cup {signed}) =< Cardinality(low) + 1
    BY <1>5, OneMore
  <2>2. Cardinality(BidsUpTo(opp, cur.price)') =< Cardinality(low \cup {signed})
    BY <1>4, <2>1, FS_Subset
  <2>3. /\ Cardinality(BidsUpTo(opp, cur.price)') \in Nat
        /\ Cardinality(low \cup {signed}) \in Nat
    BY <1>4, <2>1, FS_Subset, FS_CardinalityType
  <2> QED BY <1>1, <1>3, <1>5, <2>1, <2>2, <2>3
<1> QED BY <1>3, <1>6 DEF LadderInv, Bids

LEMMA LadderStep ==
    ASSUME Inv, LadderInv, [Next]_vars
    PROVE  LadderInv'
<1>a. ASSUME NEW o \in Opps, Execute(o) PROVE LadderInv'
  BY <1>a, LadderExecute
<1>b. ASSUME NEW o \in Opps, Refuse(o) PROVE LadderInv'
  BY <1>b, LadderQuiet DEF Refuse, Monitoring
<1>c. CASE SubmitAccepted
  BY <1>c, LadderSubmitAccepted
<1>d. CASE SubmitFailed
  BY <1>d, LadderQuiet DEF SubmitFailed, Settle, Monitoring
<1>e. CASE PollReceipt
  BY <1>e, LadderQuiet DEF PollReceipt, GoTo, histVars, Monitoring
<1>f. CASE Drop
  BY <1>f, LadderQuiet DEF Drop, Settle, Monitoring
<1>g. CASE Confirm
  BY <1>g, LadderQuiet DEF Confirm, Settle, Monitoring
<1>h. CASE NoReceipt
  BY <1>h, LadderQuiet DEF NoReceipt, GoTo, histVars, Monitoring
<1>i. CASE ReceiptError
  BY <1>i, LadderQuiet DEF ReceiptError, Settle, Monitoring
<1>j. CASE RecheckMined
  BY <1>j, LadderQuiet DEF RecheckMined, GoTo, histVars, Monitoring
<1>k. CASE Replace
  BY <1>k, LadderReplace
<1>l. CASE ReplaceRefused
  BY <1>l, LadderQuiet DEF ReplaceRefused, Monitoring
<1>m. CASE ReplaceAccepted
  BY <1>m, LadderReplaceAccepted
<1>n. CASE ReplaceFailed
  BY <1>n, LadderQuiet DEF ReplaceFailed, histVars, Monitoring
<1>x. ASSUME UNCHANGED <<pc, opp, cur, pending, sent>> PROVE LadderInv'
  BY <1>x, LadderQuiet
<1>o. ASSUME NEW tx \in pool, Mine(tx) PROVE LadderInv'
  BY <1>o, <1>x DEF Mine, histVars
<1>p. CASE DeadlinePasses
  BY <1>p, <1>x DEF DeadlinePasses, histVars
<1>q. CASE DayPasses
  BY <1>q, <1>x DEF DayPasses, histVars
<1>r. CASE Restart
  BY <1>r, LadderQuiet DEF Restart, Monitoring
<1>s. CASE UNCHANGED vars
  BY <1>s, <1>x DEF vars, histVars
<1> QED
  BY <1>a, <1>b, <1>c, <1>d, <1>e, <1>f, <1>g, <1>h, <1>i, <1>j, <1>k, <1>l,
     <1>m, <1>n, <1>o, <1>p, <1>q, <1>r, <1>s
  DEF Next, ExecutorStep

-----------------------------------------------------------------------------
(* The theorems *)

\* The bids and the blocks add up in every reachable state.
THEOREM CountInvariance == Spec => [](Inv /\ MinedInv /\ LadderInv)
<1>1. Init => MinedInv /\ LadderInv
  <2> SUFFICES ASSUME Init PROVE MinedInv /\ LadderInv
    OBVIOUS
  <2>1. sent = {} /\ mined = {} /\ pc \notin Monitoring
    BY DEF Init, Monitoring
  <2>2. MinedInv
    BY <2>1 DEF Init, MinedInv
  <2>3. \A o \in Opps : Cardinality(Bids(o)) =< 1 + MaxReplacementAttempts
    <3>1. \A o \in Opps : Bids(o) = {}
      BY <2>1 DEF Bids
    <3> QED BY <3>1, FS_EmptySet DEF MaxReplacementAttempts
  <2> QED BY <2>1, <2>2, <2>3, FS_EmptySet DEF LadderInv
<1>2. Inv /\ MinedInv /\ LadderInv /\ [Next]_vars => MinedInv' /\ LadderInv'
  BY MinedStep, LadderStep
<1>3. Inv /\ [Next]_vars => Inv'
  BY InvStep
<1> QED
  BY InitInv, <1>1, <1>2, <1>3, PTL DEF Spec

\* However many sends fail in between, an opportunity is bid for with at most
\* four transactions, all under one nonce.
THEOREM BidsStayBounded == Spec => []BidsBounded
<1>1. LadderInv => BidsBounded
  BY DEF LadderInv, Bids, BidsBounded
<1> QED
  BY CountInvariance, <1>1, PTL

\* Of the transactions of an opportunity at most one is mined, and exactly one if
\* it is reported as confirmed.
THEOREM ConfirmedHasOneMined == Spec => []ConfirmedIsMined
<1>1. Inv /\ MinedInv /\ LadderInv => ConfirmedIsMined
  <2> SUFFICES ASSUME Inv, MinedInv, LadderInv, NEW o \in Opps
               PROVE  LET n == Cardinality({t \in mined : t.opp = o})
                      IN  n =< 1 /\ (status[o] = "confirmed" => n = 1)
    BY DEF ConfirmedIsMined
  <2> DEFINE ofO == {t \in mined : t.opp = o}
  <2>1. mined \subseteq sent
    BY DEF Inv, TypeOK, BidInv
  <2>2. \A t, u \in ofO : t = u
    BY <2>1 DEF MinedInv, LadderInv
  <2>3. CASE ofO = {}
    <3>1. status[o] # "confirmed"
      BY <2>3 DEF MinedInv
    <3> QED BY <2>3, <3>1, FS_EmptySet
  <2>4. CASE ofO # {}
    <3>1. PICK tx \in ofO : TRUE
      BY <2>4
    <3>2. ofO = {tx}
      BY <2>2, <3>1
    <3> QED BY <3>2, FS_Singleton
  <2> QED BY <2>3, <2>4
<1> QED
  BY CountInvariance, <1>1, PTL

=============================================================================
