--------------------------- MODULE MempoolProofs ---------------------------
(***************************************************************************)
(* Proofs about Mempool, for any hashes, capacities, times to live and     *)
(* delays: the cache holds the hashes received last, in their order and    *)
(* with the time since each was let through, so that none of them is let   *)
(* through again too early.                                                *)
(***************************************************************************)
EXTENDS Mempool, TLAPS

\* What the two tasks hold.
HandInv ==
    /\ sub = "send" => subHash \in Hashes
    /\ proc \in {"fetch", "send"} => procHash \in Hashes

\* The hashes received, each once.
RecencyInv ==
    \A i, j \in 1 .. Len(recency) : recency[i] = recency[j] => i = j

\* The cache is what an observer of the hashes would make of it: of those
\* received last, as many as it has room for, each with the time since it was
\* let through.
LruInv ==
    /\ Len(dedup) = Smaller(Len(recency), CacheCapacity)
    /\ \A i \in 1 .. Len(dedup) : /\ dedup[i].hash = recency[i]
                                  /\ dedup[i].age = since[recency[i]]

\* The inductive invariant.
Inv == TypeOK /\ HandInv /\ RecencyInv /\ LruInv

-----------------------------------------------------------------------------
(* Sequences, position by position *)

\* An element put in front.
LEMMA PutInFront ==
    ASSUME NEW S, NEW e \in S, NEW s \in Seq(S)
    PROVE  LET r == <<e>> \o s
           IN  /\ r \in Seq(S) /\ Len(r) = Len(s) + 1 /\ r[1] = e
               /\ \A i \in 2 .. Len(r) : r[i] = s[i - 1]
  OBVIOUS

\* An element taken out.
LEMMA TakenOut ==
    ASSUME NEW S, NEW s \in Seq(S), NEW p \in 1 .. Len(s)
    PROVE  LET r == RemoveAt(s, p)
           IN  /\ r \in Seq(S) /\ Len(r) = Len(s) - 1
               /\ \A i \in 1 .. Len(r) : r[i] = IF i < p THEN s[i] ELSE s[i + 1]
<1> DEFINE front == SubSeq(s, 1, p - 1)
           back == SubSeq(s, p + 1, Len(s))
<1>1. front \in Seq(S) /\ Len(front) = p - 1
      /\ \A i \in 1 .. p - 1 : front[i] = s[i]
  OBVIOUS
<1>2. back \in Seq(S) /\ Len(back) = Len(s) - p
      /\ \A i \in 1 .. Len(s) - p : back[i] = s[i + p]
  OBVIOUS
<1>3. RemoveAt(s, p) = front \o back
  BY DEF RemoveAt
<1> HIDE DEF front, back
<1>4. front \o back \in Seq(S) /\ Len(front \o back) = Len(s) - 1
  BY <1>1, <1>2
<1>5. \A i \in 1 .. Len(s) - 1 :
        (front \o back)[i] = IF i < p THEN s[i] ELSE s[i + 1]
  <2> SUFFICES ASSUME NEW i \in 1 .. Len(s) - 1
               PROVE  (front \o back)[i] = IF i < p THEN s[i] ELSE s[i + 1]
    OBVIOUS
  <2>1. CASE i < p
    BY <1>1, <1>2, <2>1
  <2>2. CASE ~(i < p)
    <3>1. (front \o back)[i] = back[i - (p - 1)]
      BY <1>1, <1>2, <2>2
    <3>2. i - (p - 1) \in 1 .. Len(s) - p /\ (i - (p - 1)) + p = i + 1
      BY <2>2
    <3>3. back[i - (p - 1)] = s[(i - (p - 1)) + p]
      BY <1>2, <3>2
    <3> QED BY <2>2, <3>1, <3>2, <3>3
  <2> QED BY <2>1, <2>2
<1> QED BY <1>3, <1>4, <1>5

\* As much of a sequence as there is room for.
LEMMA FirstOnes ==
    ASSUME NEW S, NEW s \in Seq(S), NEW n \in Nat
    PROVE  LET r == FirstOf(n, s)
           IN  /\ r \in Seq(S) /\ Len(r) = Smaller(Len(s), n)
               /\ \A i \in 1 .. Len(r) : r[i] = s[i]
<1> DEFINE r == FirstOf(n, s)
           Goal == /\ r \in Seq(S) /\ Len(r) = Smaller(Len(s), n)
                   /\ \A i \in 1 .. Len(r) : r[i] = s[i]
<1>0. Len(s) \in Nat
  OBVIOUS
<1>1. ASSUME Len(s) =< n PROVE Goal
  <2>1. r = s /\ Smaller(Len(s), n) = Len(s)
    BY <1>1 DEF FirstOf, Smaller
  <2> HIDE DEF r
  <2> QED BY <2>1
<1>2. ASSUME ~(Len(s) =< n) PROVE Goal
  <2>1. r = SubSeq(s, 1, n) /\ Smaller(Len(s), n) = n
    BY <1>2 DEF FirstOf, Smaller
  <2>2. /\ SubSeq(s, 1, n) \in Seq(S) /\ Len(SubSeq(s, 1, n)) = n
        /\ \A i \in 1 .. n : SubSeq(s, 1, n)[i] = s[i]
    BY <1>0, <1>2
  <2> HIDE DEF r
  <2> QED BY <2>1, <2>2
<1>3. Goal
  <2> HIDE DEF Goal
  <2> QED BY <1>0, <1>1, <1>2
<1> QED BY <1>3

\* Sequence r is s with e moved or put to the front: of the others, those that
\* were before it move.  `p' is its position, or one after the last.
Fronted(S, r, e, s, p) ==
    /\ r \in Seq(S) /\ r[1] = e
    /\ Len(r) = IF p =< Len(s) THEN Len(s) ELSE Len(s) + 1
    /\ \A i \in 2 .. Len(r) : r[i] = IF i =< p THEN s[i - 1] ELSE s[i]

LEMMA MovedToFront ==
    ASSUME NEW S, NEW e \in S, NEW s \in Seq(S), NEW at,
           NEW p \in 1 .. Len(s) + 1,
           at = IF p =< Len(s) THEN {p} ELSE {}
    PROVE  Fronted(S, <<e>> \o Without(s, at), e, s, p)
<1> USE DEF Fronted
<1>0. p =< Len(s) \/ p = Len(s) + 1
  <2>1. Len(s) \in Nat
    OBVIOUS
  <2> QED BY <2>1
<1>1. CASE p =< Len(s)
  <2> DEFINE rest == RemoveAt(s, p)
  <2>1. Without(s, at) = rest
    BY <1>1 DEF Without
  <2>2. /\ rest \in Seq(S) /\ Len(rest) = Len(s) - 1
        /\ \A i \in 1 .. Len(rest) :
              rest[i] = IF i < p THEN s[i] ELSE s[i + 1]
    BY <1>1, TakenOut
  <2> HIDE DEF rest
  <2> DEFINE r == <<e>> \o rest
  <2>3. /\ r \in Seq(S) /\ Len(r) = Len(s) /\ r[1] = e
        /\ \A i \in 2 .. Len(s) : r[i] = rest[i - 1]
    BY <2>2, PutInFront
  <2>4. \A i \in 2 .. Len(s) : r[i] = IF i =< p THEN s[i - 1] ELSE s[i]
    <3> SUFFICES ASSUME NEW i \in 2 .. Len(s)
                 PROVE  r[i] = IF i =< p THEN s[i - 1] ELSE s[i]
      OBVIOUS
    <3> HIDE DEF r
    <3>1. i - 1 \in 1 .. Len(rest) /\ (i - 1) + 1 = i /\ (i - 1 < p <=> i =< p)
      BY <2>2
    <3> QED BY <2>2, <2>3, <3>1
  <2> HIDE DEF r
  <2> QED BY <1>1, <2>1, <2>3, <2>4 DEF r
<1>2. CASE p = Len(s) + 1
  <2>1. Without(s, at) = s
    BY <1>2 DEF Without
  <2> DEFINE r == <<e>> \o s
  <2>2. /\ r \in Seq(S) /\ Len(r) = Len(s) + 1 /\ r[1] = e
        /\ \A i \in 2 .. Len(r) : r[i] = s[i - 1]
    BY PutInFront
  <2> HIDE DEF r
  <2>3. \A i \in 2 .. Len(r) : i =< p
    BY <1>2, <2>2
  <2>4. ~(p =< Len(s))
    BY <1>2
  <2> QED BY <2>1, <2>2, <2>3, <2>4 DEF r
<1> QED BY <1>0, <1>1, <1>2

-----------------------------------------------------------------------------
(* The cache *)

\* What a step that takes hash h from the channel makes of the history of hashes
\* and of the cache, when h has now the age that its entry is given.
LEMMA UsedStep ==
    ASSUME TypeOK, RecencyInv, LruInv, NEW h \in Hashes, NEW age \in 0 .. Ttl,
           recency' = <<h>> \o Without(recency, {i \in DOMAIN recency :
                                                    recency[i] = h}),
           dedup' = Used(h, age), since' \in [Hashes -> 0 .. Ttl],
           since'[h] = age, \A g \in Hashes \ {h} : since'[g] = since[g]
    PROVE  /\ recency' \in Seq(Hashes) /\ RecencyInv'
           /\ dedup' \in Seq(Entry) /\ Len(dedup') =< CacheCapacity /\ LruInv'
<1> DEFINE at == {i \in DOMAIN recency : recency[i] = h}
           L == Len(recency)
           D == Len(dedup)
           K == CacheCapacity
           e == [hash |-> h, age |-> age]
           moved == <<e>> \o Without(dedup, EntryAt(h))
           M == Len(moved)
           newL == Len(recency')
           newD == Len(dedup')
<1>1. /\ recency \in Seq(Hashes) /\ L \in Nat /\ DOMAIN recency = 1 .. L
      /\ dedup \in Seq(Entry) /\ D \in Nat /\ DOMAIN dedup = 1 .. D
      /\ \A i \in 1 .. L : recency[i] \in Hashes
  BY DEF TypeOK
<1>2. K \in Nat \ {0} /\ D =< L /\ D =< K /\ (D < L => D = K)
  <2>1. K \in Nat \ {0} /\ D = Smaller(L, K)
    BY MempoolAssumption DEF LruInv
  <2> HIDE DEF D, L, K
  <2> QED BY <1>1, <2>1 DEF Smaller
<1>3. e \in Entry
  BY DEF Entry
<1>4. \A i \in 1 .. D : dedup[i].hash = recency[i]
                       /\ dedup[i].age = since[recency[i]]
  BY DEF LruInv
<1>5. \A i, j \in 1 .. L : recency[i] = recency[j] => i = j
  BY DEF RecencyInv
<1> HIDE DEF K, e
<1>6. PICK p \in 1 .. L + 1 : at = IF p =< L THEN {p} ELSE {}
  <2>1. at = {i \in 1 .. L : recency[i] = h}
    BY <1>1
  <2> HIDE DEF L, at
  <2>2. CASE \E i \in 1 .. L : recency[i] = h
    <3>1. PICK i \in 1 .. L : recency[i] = h
      BY <2>2
    <3>2. at = {i}
      BY <1>5, <2>1, <3>1
    <3>3. i \in 1 .. L + 1 /\ i =< L
      BY <1>1
    <3> QED BY <3>2, <3>3
  <2>3. CASE \A i \in 1 .. L : recency[i] # h
    <3>1. at = {} /\ L + 1 \in 1 .. L + 1 /\ ~(L + 1 =< L)
      BY <1>1, <2>1, <2>3
    <3> QED BY <3>1
  <2> QED BY <2>2, <2>3
<1>7. /\ recency' \in Seq(Hashes) /\ recency'[1] = h
      /\ newL = IF p =< L THEN L ELSE L + 1
      /\ \A i \in 2 .. newL :
            recency'[i] = IF i =< p THEN recency[i - 1] ELSE recency[i]
  <2>1. recency' = <<h>> \o Without(recency, at)
    OBVIOUS
  <2> HIDE DEF at
  <2>2. /\ recency \in Seq(Hashes)
        /\ p \in 1 .. Len(recency) + 1
        /\ at = IF p =< Len(recency) THEN {p} ELSE {}
    BY <1>1, <1>6
  <2>3. Fronted(Hashes, <<h>> \o Without(recency, at), h, recency, p)
    BY <2>2, MovedToFront, Zenon
  <2>4. Fronted(Hashes, recency', h, recency, p)
    BY <2>1, <2>3
  <2> QED BY <2>4 DEF Fronted
<1>8. \A i \in 1 .. L : recency[i] = h <=> i = p
  <2>1. \A i \in 1 .. L : recency[i] = h <=> i \in at
    BY <1>1
  <2> HIDE DEF L, at
  <2> SUFFICES ASSUME NEW i \in 1 .. L
               PROVE  recency[i] = h <=> i = p
    OBVIOUS
  <2>2. recency[i] = h <=> i \in at
    BY <2>1
  <2>3. CASE p =< L
    <3>1. at = {p}
      BY <1>6, <2>3
    <3> QED BY <2>2, <3>1
  <2>4. CASE ~(p =< L)
    <3>1. at = {} /\ i # p
      BY <1>1, <1>6, <2>4
    <3> QED BY <2>2, <3>1
  <2> QED BY <2>3, <2>4
<1> HIDE DEF at
<1> DEFINE q == IF p =< D THEN p ELSE D + 1
<1>9. /\ q \in 1 .. D + 1 /\ q =< p
      /\ q =< D => q = p
      /\ ~(q =< D) => q = D + 1 /\ p > D
  <2> HIDE DEF L, D
  <2> QED BY <1>1
<1>10. EntryAt(h) = IF q =< D THEN {q} ELSE {}
  <2>1. EntryAt(h) = {i \in 1 .. D : dedup[i].hash = h}
    BY <1>1 DEF EntryAt
  <2> HIDE DEF L, D
  <2>2. \A i \in 1 .. D : dedup[i].hash = h <=> i = p
    BY <1>1, <1>2, <1>4, <1>8
  <2>3. EntryAt(h) = {i \in 1 .. D : i = p}
    BY <2>1, <2>2
  <2> QED BY <1>1, <2>3
<1> HIDE DEF q
<1>11. /\ moved \in Seq(Entry) /\ moved[1] = e
       /\ M = IF q =< D THEN D ELSE D + 1
       /\ \A i \in 2 .. M :
             moved[i] = IF i =< q THEN dedup[i - 1] ELSE dedup[i]
  <2> DEFINE own == EntryAt(h)
  <2>1. /\ dedup \in Seq(Entry) 
        /\ q \in 1 .. Len(dedup) + 1
        /\ own = IF q =< Len(dedup) THEN {q} ELSE {}
    BY <1>1, <1>9, <1>10
  <2> HIDE DEF own
  <2>2. Fronted(Entry, <<e>> \o Without(dedup, own), e, dedup, q)
    BY <1>3, <2>1, MovedToFront, Zenon
  <2>3. Fronted(Entry, moved, e, dedup, q)
    BY <2>2 DEF own
  <2> QED BY <2>3 DEF Fronted
<1>12. dedup' = FirstOf(K, moved)
  BY DEF Used, e, K
<1> HIDE DEF moved
<1>13. /\ dedup' \in Seq(Entry)
       /\ newD = Smaller(M, K)
       /\ \A i \in 1 .. newD : dedup'[i] = moved[i]
  BY <1>2, <1>11, <1>12, FirstOnes
<1> HIDE DEF L, D, M, newL, newD
<1>14. M \in Nat /\ newL \in Nat /\ newD \in Nat /\ newD =< M /\ newD =< K
  BY <1>1, <1>2, <1>7, <1>11, <1>13 DEF Smaller
<1>15. newD = Smaller(newL, K) /\ newD =< newL
  <2>1. CASE p =< D
    <3>1. M = D /\ newL = L
      BY <1>1, <1>2, <1>7, <1>9, <1>11, <2>1
    <3> QED BY <1>1, <1>2, <1>13, <3>1 DEF Smaller
  <2>2. CASE p > D /\ p =< L
    <3>1. M = D + 1 /\ newL = L /\ D = K
      BY <1>1, <1>2, <1>7, <1>9, <1>11, <2>2
    <3> QED BY <1>1, <1>2, <1>13, <3>1 DEF Smaller
  <2>3. CASE p > L
    <3>1. M = D + 1 /\ newL = L + 1
      BY <1>1, <1>2, <1>7, <1>9, <1>11, <2>3
    <3> QED BY <1>1, <1>2, <1>13, <3>1 DEF Smaller
  <2> QED BY <1>1, <2>1, <2>2, <2>3
<1>16. \A i \in 1 .. newD : /\ dedup'[i].hash = recency'[i]
                            /\ dedup'[i].age = since'[recency'[i]]
  <2> SUFFICES ASSUME NEW i \in 1 .. newD
               PROVE  /\ dedup'[i].hash = recency'[i]
                      /\ dedup'[i].age = since'[recency'[i]]
    OBVIOUS
  <2>1. i \in 1 .. M /\ i \in 1 .. newL /\ dedup'[i] = moved[i]
    BY <1>13, <1>14, <1>15
  <2>2. CASE i = 1
    BY <1>7, <1>11, <2>1, <2>2 DEF e
  <2>3. ASSUME NEW j \in 1 .. D, j # p,
               moved[i] = dedup[j], recency'[i] = recency[j]
        PROVE  /\ dedup'[i].hash = recency'[i]
               /\ dedup'[i].age = since'[recency'[i]]
    <3>1. j \in 1 .. L
      BY <1>1, <1>2, <2>3
    <3>2. recency[j] \in Hashes \ {h}
      BY <1>1, <1>8, <2>3, <3>1
    <3> QED BY <1>4, <2>1, <2>3, <3>2
  <2>4. CASE i # 1 /\ i =< q
    <3>1. i - 1 \in 1 .. D /\ i - 1 # p /\ i \in 2 .. M
          /\ i \in 2 .. newL /\ i =< p
      BY <1>1, <1>9, <1>14, <2>1, <2>4
    <3>2. moved[i] = dedup[i - 1] /\ recency'[i] = recency[i - 1]
      BY <1>7, <1>11, <2>4, <3>1
    <3> QED BY <2>3, <3>1, <3>2
  <2>5. CASE i # 1 /\ ~(i =< q)
    <3>1. q =< D
      BY <1>1, <1>9, <1>11, <1>14, <2>1, <2>5
    <3>2. i \in 1 .. D /\ i # p /\ i \in 2 .. M
          /\ i \in 2 .. newL /\ ~(i =< p)
      BY <1>1, <1>9, <1>11, <1>14, <2>1, <2>5, <3>1
    <3>3. moved[i] = dedup[i] /\ recency'[i] = recency[i]
      BY <1>7, <1>11, <2>5, <3>2
    <3> QED BY <2>3, <3>2, <3>3
  <2> QED BY <2>2, <2>4, <2>5
<1>17. \A i, j \in 1 .. newL : recency'[i] = recency'[j] => i = j
  <2> DEFINE from(i) == IF i =< p THEN i - 1 ELSE i
  <2>1. \A i \in 2 .. newL : from(i) \in 1 .. L /\ from(i) # p
    BY <1>1, <1>7
  <2>2. \A i \in 2 .. newL : recency'[i] = recency[from(i)]
    BY <1>7
  <2>3. \A i, j \in 2 .. newL : from(i) = from(j) => i = j
    BY <1>1, <1>14
  <2> HIDE DEF from
  <2>4. \A i, j \in 2 .. newL : recency'[i] = recency'[j] => i = j
    <3> SUFFICES ASSUME NEW i \in 2 .. newL, NEW j \in 2 .. newL,
                        recency'[i] = recency'[j]
                 PROVE  i = j
      OBVIOUS
    <3>1. from(i) \in 1 .. L /\ from(j) \in 1 .. L
      BY <2>1
    <3>2. recency[from(i)] = recency[from(j)]
      BY <2>2
    <3>3. from(i) = from(j)
      BY <1>5, <3>1, <3>2
    <3> QED BY <2>3, <3>3
  <2>5. \A i \in 2 .. newL : recency'[i] # recency'[1]
    <3> SUFFICES ASSUME NEW i \in 2 .. newL
                 PROVE  recency'[i] # recency'[1]
      OBVIOUS
    <3>1. from(i) \in 1 .. L /\ from(i) # p
      BY <2>1
    <3>2. recency[from(i)] # h
      BY <1>8, <3>1
    <3> QED BY <1>7, <2>2, <3>2
  <2>6. \A i \in 1 .. newL : i = 1 \/ i \in 2 .. newL
    BY <1>14
  <2> QED BY <2>4, <2>5, <2>6
<1>18. RecencyInv'
  BY <1>17 DEF RecencyInv, newL
<1>19. LruInv'
  BY <1>15, <1>16 DEF LruInv, newL, newD, K
<1>20. Len(dedup') =< CacheCapacity
  BY <1>14 DEF newD, K
<1> QED BY <1>7, <1>13, <1>18, <1>19, <1>20

-----------------------------------------------------------------------------
(* The steps *)

LEMMA InitInv == Init => Inv
<1> SUFFICES ASSUME Init PROVE Inv
  OBVIOUS
<1> USE MempoolAssumption
<1>1. TypeOK
  <2>1. <<>> \in Seq(Hashes) /\ <<>> \in Seq(Entry) /\ Len(<<>>) = 0
    OBVIOUS
  <2>2. Ttl \in 0 .. Ttl /\ 0 \in 0 .. MaxDoublings /\ 0 \in 0 .. MaxDelay
        /\ 0 \in 0 .. OutputBuffer
    OBVIOUS
  <2>3. since \in [Hashes -> 0 .. Ttl]
    BY <2>2 DEF Init
  <2> QED BY <2>1, <2>2, <2>3 DEF Init, TypeOK
<1>2. HandInv
  BY DEF Init, HandInv
<1>3. Len(recency) = 0 /\ Len(dedup) = 0
  BY DEF Init
<1>4. RecencyInv /\ LruInv
  BY <1>3 DEF RecencyInv, LruInv, Smaller
<1> QED BY <1>1, <1>2, <1>4 DEF Inv

\* The history and the cache, where a step leaves them alone.
LEMMA CacheAlone ==
    Inv /\ UNCHANGED <<dedup, histVars>> => RecencyInv' /\ LruInv'
  BY DEF Inv, RecencyInv, LruInv, histVars

\* The delay that is computed is one of the delays, and not none.
LEMMA DelayType ==
    ASSUME NEW n \in 0 .. MaxDoublings
    PROVE  DelayAt(n) \in 0 .. MaxDelay /\ DelayAt(n) # 0
<1> DEFINE power == 2 ^ n
<1>1. power \in Nat \ {0}
  BY PowerAssumption
<1>2. DelayAt(n) = Smaller(power, MaxDelay)
  BY DEF DelayAt
<1> HIDE DEF power
<1> QED BY <1>1, <1>2, MempoolAssumption DEF Smaller

LEMMA SubscriptionInv ==
    ASSUME Inv, SubscriptionStep
    PROVE  Inv'
<1> USE MempoolAssumption
<1>1. CASE Connected \/ Subscribed \/ Retry
  <2>1. UNCHANGED <<subHash, hashQueue, procVars, dedup, outDepth, histVars>>
    BY <1>1 DEF Connected, Subscribed, Retry, SubGoesTo
  <2>2. TypeOK'
    BY <1>1, <2>1
    DEF Inv, TypeOK, Connected, Subscribed, Retry, SubGoesTo, procVars,
        histVars, retryVars
  <2>3. HandInv'
    BY <1>1, <2>1
    DEF Inv, HandInv, Connected, Subscribed, Retry, SubGoesTo, procVars
  <2> QED BY <2>1, <2>2, <2>3, CacheAlone DEF Inv
<1>2. CASE ConnectionLost
  <2>1. UNCHANGED <<subHash, hashQueue, procVars, dedup, outDepth, histVars>>
    BY <1>2 DEF ConnectionLost, SubGoesTo
  <2>2. sub' = "delay" /\ delay' \in 0 .. MaxDelay /\ delay' # 0
    BY <1>2, DelayType
    DEF Inv, TypeOK, ConnectionLost, SubGoesTo, AfterFailure
  <2>3. attempt' \in 0 .. MaxDoublings
    BY <1>2 DEF Inv, TypeOK, ConnectionLost, Smaller
  <2>4. TypeOK'
    BY <2>1, <2>2, <2>3 DEF Inv, TypeOK, procVars, histVars
  <2>5. HandInv'
    BY <2>1, <2>2 DEF Inv, HandInv, procVars
  <2> QED BY <2>1, <2>4, <2>5, CacheAlone DEF Inv
<1>3. ASSUME NEW h \in Hashes, Announce(h) PROVE Inv'
  <2>1. TypeOK'
    BY <1>3 DEF Inv, TypeOK, Announce, retryVars, procVars, histVars
  <2>2. HandInv'
    BY <1>3 DEF Inv, HandInv, Announce, retryVars, procVars
  <2>3. UNCHANGED <<dedup, histVars>>
    BY <1>3 DEF Announce
  <2> QED BY <2>1, <2>2, <2>3, CacheAlone DEF Inv
<1>4. CASE SendHash
  <2>1. hashQueue' \in Seq(Hashes) /\ Len(hashQueue') =< HashBuffer
    <3>1. subHash \in Hashes /\ hashQueue \in Seq(Hashes)
          /\ Len(hashQueue) < HashBuffer /\ hashQueue' = Append(hashQueue, subHash)
      BY <1>4 DEF Inv, TypeOK, HandInv, SendHash
    <3>2. hashQueue' \in Seq(Hashes) /\ Len(hashQueue') = Len(hashQueue) + 1
      BY <3>1
    <3>3. Len(hashQueue) \in Nat
      BY <3>1
    <3> QED BY <3>1, <3>2, <3>3
  <2>2. TypeOK'
    BY <1>4, <2>1 DEF Inv, TypeOK, SendHash, retryVars, procVars, histVars
  <2>3. HandInv'
    BY <1>4 DEF Inv, HandInv, SendHash, retryVars, procVars
  <2>4. UNCHANGED <<dedup, histVars>>
    BY <1>4 DEF SendHash
  <2> QED BY <2>2, <2>3, <2>4, CacheAlone DEF Inv
<1> QED BY <1>1, <1>2, <1>3, <1>4 DEF SubscriptionStep

\* What is taken from the channel is a hash, and the channel is still one.
LEMMA ReceivedHash ==
    ASSUME TypeOK, NEW h, Received(h)
    PROVE  /\ h \in Hashes /\ hashQueue' \in Seq(Hashes)
           /\ Len(hashQueue') =< HashBuffer
<1>1. hashQueue \in Seq(Hashes) /\ hashQueue # <<>> /\ h = Head(hashQueue)
      /\ hashQueue' = Tail(hashQueue) /\ Len(hashQueue) =< HashBuffer
  BY DEF TypeOK, Received
<1>2. h \in Hashes /\ hashQueue' \in Seq(Hashes)
      /\ Len(hashQueue') = Len(hashQueue) - 1 /\ Len(hashQueue) \in Nat
  BY <1>1
<1> QED BY <1>1, <1>2, MempoolAssumption

LEMMA SkipDuplicateStep ==
    ASSUME Inv, NEW h \in Hashes, SkipDuplicate(h)
    PROVE  Inv'
<1>1. TypeOK /\ RecencyInv /\ LruInv /\ Received(h) /\ IsDuplicate(h)
  BY DEF Inv, SkipDuplicate
<1>2. AgeAfterHit(h) \in 0 .. Ttl /\ since[h] = AgeAfterHit(h)
  <2> DEFINE i == CHOOSE i \in EntryAt(h) : TRUE
  <2>1. i \in EntryAt(h)
    BY <1>1 DEF IsDuplicate
  <2>2. AgeAfterHit(h) = dedup[i].age
    BY DEF AgeAfterHit
  <2> HIDE DEF i
  <2>3. i \in 1 .. Len(dedup) /\ dedup[i] \in Entry /\ dedup[i].hash = h
    BY <1>1, <2>1 DEF TypeOK, EntryAt
  <2> QED BY <1>1, <2>2, <2>3 DEF LruInv, Entry
<1>3. since' \in [Hashes -> 0 .. Ttl] /\ since'[h] = AgeAfterHit(h)
      /\ \A g \in Hashes \ {h} : since'[g] = since[g]
  BY <1>1, <1>2 DEF SkipDuplicate, TypeOK
<1>4. /\ dedup' = Used(h, AgeAfterHit(h))
      /\ recency' = <<h>> \o Without(recency, {i \in DOMAIN recency :
                                                 recency[i] = h})
  BY DEF SkipDuplicate, Received
<1>5. /\ recency' \in Seq(Hashes) /\ RecencyInv'
      /\ dedup' \in Seq(Entry) /\ Len(dedup') =< CacheCapacity /\ LruInv'
  BY <1>1, <1>2, <1>3, <1>4, UsedStep
<1>6. TypeOK'
  BY <1>1, <1>3, <1>5, ReceivedHash
  DEF TypeOK, SkipDuplicate, subVars, retryVars, procVars
<1>7. HandInv'
  BY DEF Inv, HandInv, SkipDuplicate, subVars, retryVars, procVars
<1> QED BY <1>5, <1>6, <1>7 DEF Inv

LEMMA AdmitStep ==
    ASSUME Inv, NEW h \in Hashes, Admit(h)
    PROVE  Inv'
<1>1. TypeOK /\ RecencyInv /\ LruInv /\ Received(h)
  BY DEF Inv, Admit
<1>2. 0 \in 0 .. Ttl
  BY MempoolAssumption
<1>3. since' \in [Hashes -> 0 .. Ttl] /\ since'[h] = 0
      /\ \A g \in Hashes \ {h} : since'[g] = since[g]
  BY <1>1, <1>2 DEF Admit, TypeOK
<1>4. /\ dedup' = Used(h, 0)
      /\ recency' = <<h>> \o Without(recency, {i \in DOMAIN recency :
                                                 recency[i] = h})
  BY DEF Admit, Received
<1>5. /\ recency' \in Seq(Hashes) /\ RecencyInv'
      /\ dedup' \in Seq(Entry) /\ Len(dedup') =< CacheCapacity /\ LruInv'
  BY <1>1, <1>2, <1>3, <1>4, UsedStep
<1>6. TypeOK'
  BY <1>1, <1>3, <1>5, ReceivedHash DEF TypeOK, Admit, subVars, retryVars
<1>7. HandInv'
  BY DEF Inv, HandInv, Admit, subVars, retryVars
<1> QED BY <1>5, <1>6, <1>7 DEF Inv

\* The other steps of process_pending_hashes, and main's.
LEMMA OtherStep ==
    ASSUME Inv, \/ FetchMissed \/ Forward \/ Consume
                \/ \E h \in Hashes : Fetched(h)
    PROVE  Inv'
<1>1. UNCHANGED <<subVars, hashQueue, dedup, histVars>>
  BY DEF FetchMissed, Forward, Consume, Fetched, ProcGoesTo
<1>2. outDepth' \in 0 .. OutputBuffer
  BY MempoolAssumption
  DEF Inv, TypeOK, FetchMissed, Forward, Consume, Fetched, ProcGoesTo
<1>3. /\ proc' \in {"recv", "fetch", "send"}
      /\ procHash' \in Hashes \cup {NoHash}
      /\ proc' \in {"fetch", "send"} => procHash' \in Hashes
  BY DEF Inv, TypeOK, HandInv, FetchMissed, Forward, Consume, Fetched,
         ProcGoesTo, procVars
<1>4. TypeOK'
  BY <1>1, <1>2, <1>3 DEF Inv, TypeOK, subVars, retryVars, histVars
<1>5. HandInv'
  BY <1>1, <1>3 DEF Inv, HandInv, subVars, retryVars
<1> QED BY <1>1, <1>4, <1>5, CacheAlone DEF Inv

\* The clock: an entry ages with the time since its hash was let through.
LEMMA TickStep == Inv /\ Tick => Inv'
<1> SUFFICES ASSUME Inv, Tick PROVE Inv'
  OBVIOUS
<1>1. \A age \in 0 .. Ttl : Older(age) \in 0 .. Ttl
  BY MempoolAssumption DEF Older
<1>2. since' = [h \in Hashes |-> Older(since[h])]
      /\ since' \in [Hashes -> 0 .. Ttl]
  BY <1>1 DEF Inv, TypeOK, Tick
<1>3. dedup \in Seq(Entry) /\ DOMAIN dedup = 1 .. Len(dedup)
      /\ Len(dedup) \in Nat /\ \A i \in 1 .. Len(dedup) : dedup[i] \in Entry
  BY DEF Inv, TypeOK
<1>4. dedup' = [i \in 1 .. Len(dedup) |->
                  [dedup[i] EXCEPT !.age = Older(dedup[i].age)]]
  BY <1>3 DEF Tick
<1>5. \A i \in 1 .. Len(dedup) :
        LET aged == [dedup[i] EXCEPT !.age = Older(dedup[i].age)]
        IN  aged \in Entry /\ aged.hash = dedup[i].hash
            /\ aged.age = Older(dedup[i].age)
  BY <1>1, <1>3 DEF Entry
<1>6. dedup' \in Seq(Entry) /\ Len(dedup') = Len(dedup)
  BY <1>3, <1>4, <1>5
<1>7. \A i \in 1 .. Len(dedup) : /\ dedup'[i].hash = dedup[i].hash
                                 /\ dedup'[i].age = Older(dedup[i].age)
  BY <1>4, <1>5
<1>8. TypeOK'
  BY <1>2, <1>6 DEF Inv, TypeOK, Tick, subVars, retryVars, procVars
<1>9. HandInv' /\ RecencyInv'
  BY DEF Inv, HandInv, RecencyInv, Tick, subVars, retryVars, procVars
<1>10. LruInv'
  <2>1. recency' = recency
    BY DEF Tick
  <2>2. \A i \in 1 .. Len(dedup) : recency[i] \in Hashes
    <3>1. \A i \in 1 .. Len(dedup) : dedup[i].hash = recency[i]
      BY DEF Inv, LruInv
    <3> QED BY <1>3, <3>1 DEF Entry
  <2>3. \A i \in 1 .. Len(dedup) : since'[recency[i]] = Older(since[recency[i]])
    BY <1>2, <2>2
  <2> QED BY <1>6, <1>7, <2>1, <2>3 DEF Inv, LruInv
<1> QED BY <1>8, <1>9, <1>10 DEF Inv

\* Every step preserves the invariant.
LEMMA InvStep == Inv /\ [Next]_vars => Inv'
<1> SUFFICES ASSUME Inv, [Next]_vars PROVE Inv'
  OBVIOUS
<1>1. CASE SubscriptionStep
  BY <1>1, SubscriptionInv
<1>2. CASE ProcessStep \/ Consume
  BY <1>2, SkipDuplicateStep, AdmitStep, OtherStep DEF ProcessStep
<1>3. CASE Tick
  BY <1>3, TickStep
<1>4. CASE UNCHANGED vars
  <2>1. TypeOK'
    BY <1>4
    DEF Inv, TypeOK, vars, subVars, retryVars, procVars, histVars
  <2>2. HandInv'
    BY <1>4 DEF Inv, HandInv, vars, subVars, retryVars, procVars
  <2>3. RecencyInv' /\ LruInv'
    BY <1>4, CacheAlone DEF vars
  <2> QED BY <2>1, <2>2, <2>3 DEF Inv
<1> QED BY <1>1, <1>2, <1>3, <1>4 DEF Next

\* The inductive invariant holds in every reachable state.
THEOREM Invariance == Spec => []Inv
<1> QED BY InitInv, InvStep, PTL DEF Spec

\* The variables keep their types: the cache and the channels their capacity.
THEOREM MempoolTypeCorrect == Spec => []TypeOK
<1>1. Inv => TypeOK
  BY DEF Inv
<1> QED BY <1>1, Invariance, PTL

\* is_duplicate, from outside: none of the hashes received last is let through
\* again before its time to live is over.
THEOREM NoneReadmitted == Spec => NoReadmission
<1>1. Inv /\ [Next]_vars =>
        \A h \in Hashes :
           Admit(h) => ~(h \in ToSet(FirstOf(CacheCapacity, recency))
                         /\ since[h] < Ttl)
  <2> SUFFICES ASSUME Inv, NEW h \in Hashes, Admit(h), since[h] < Ttl,
                      h \in ToSet(FirstOf(CacheCapacity, recency))
               PROVE  FALSE
    OBVIOUS
  <2> DEFINE latest == FirstOf(CacheCapacity, recency)
  <2>1. /\ latest \in Seq(Hashes)
        /\ Len(latest) = Smaller(Len(recency), CacheCapacity)
        /\ \A i \in 1 .. Len(latest) : latest[i] = recency[i]
    BY FirstOnes, MempoolAssumption DEF Inv, TypeOK
  <2>2. h \in ToSet(latest)
    OBVIOUS
  <2> HIDE DEF latest
  <2>3. PICK i \in 1 .. Len(latest) : h = latest[i]
    BY <2>1, <2>2 DEF ToSet
  <2>4. /\ i \in 1 .. Len(dedup) /\ h = recency[i]
        /\ DOMAIN dedup = 1 .. Len(dedup)
    BY <2>1, <2>3 DEF Inv, TypeOK, LruInv
  <2>5. dedup[i].hash = h /\ dedup[i].age = since[h]
    BY <2>4 DEF Inv, LruInv
  <2>6. i \in EntryAt(h)
    BY <2>4, <2>5 DEF EntryAt
  <2>7. IsDuplicate(h)
    BY <2>5, <2>6 DEF IsDuplicate
  <2> QED BY <2>7 DEF Admit
<1> QED BY <1>1, Invariance, PTL DEF Spec, NoReadmission

=============================================================================
