--------------------------- MODULE StartupProofs ---------------------------
(***************************************************************************)
(* Proofs about Startup, for any settings and any number of endpoints on   *)
(* any chains: with which settings the bot starts, on which chain, what it *)
(* has when it is ready, and which endpoint the WebSocket's URL is of.     *)
(***************************************************************************)
EXTENDS Startup, TLAPS

\* main is between the settings and its end.
Running == stage \notin {"load"} \cup Ended

\* Before the settings nothing has been counted yet.
LoadInv ==
    stage = "load" =>
       /\ start = 1 /\ offset = 0 /\ next = 1 /\ backoff = {}
       /\ numberBy = 0 /\ nonceBy = 0 /\ wsIndex = 0

\* The settings that main runs on are those it has found good.
SettingsInv == Running => Loads(settings) /\ ~settings.emergencyStop

\* Who has answered the chain id is on the configured chain.
ChainInv ==
    Running /\ stage # "chainId" =>
       \E p \in Endpoints : Urls[p] = "http" /\ world.chain[p] = settings.chainId

\* What has been asked for by each stage is there.
GainInv ==
    /\ stage \in {"chainId", "snapshot", "nonce"} => nonceBy = 0
    /\ stage = "nonce" => ExecutionEnabled(settings)
    /\ stage \in {"subscribe", "number", "block", "gasPrice", "serving"} =>
         (nonceBy # 0 <=> ExecutionEnabled(settings))
    /\ stage \in {"block", "gasPrice", "serving"} => numberBy # 0

\* The second endpoint of the rotation, which is the first if there is no other.
SecondOf(n) == (1 % n) + 1

\* The call for the chain id asks the first endpoint first, and the call for the
\* nonce asks it last: it has failed no more than twice at the subscription.
FirstInv ==
    /\ stage = "chainId" => /\ start = 1 /\ next = SecondOf(Len(Urls))
                            /\ failures[1] =< IF offset = 0 THEN 0 ELSE 1
    /\ stage = "snapshot" => next = SecondOf(Len(Urls)) /\ failures[1] =< 1
    /\ stage = "nonce" =>
         /\ start = SecondOf(Len(Urls))
         /\ failures[1] =< IF offset = Len(Urls) THEN 2 ELSE 1
    /\ stage = "subscribe" => failures[1] =< 2

\* The URL of the WebSocket is the first endpoint's.
WebsocketIsFirst == wsIndex \in {0, 1}

\* The inductive invariant.
Inv ==
    /\ TypeOK /\ LoadInv /\ SettingsInv /\ ChainInv /\ GainInv /\ FirstInv
    /\ WebsocketIsFirst

-----------------------------------------------------------------------------
(* Settings and endpoints *)

\* There is an endpoint to start on.
LEMMA SomeEndpoint ==
    ASSUME world \in Worlds, settings = Effective(world), Loads(settings)
    PROVE  Len(Urls) \in Nat \ {0} /\ 1 \in Endpoints /\ Urls # <<>>
<1>1. Urls \in Seq(STRING)
  BY WorldAssumption DEF Urls
<1>2. Urls # <<>>
  BY DEF Loads, Validates, UrlsValid, Urls
<1>3. Len(Urls) \in Nat \ {0}
  BY <1>1, <1>2
<1> QED BY <1>2, <1>3 DEF Endpoints

\* What Settings::load lets through, and what it then guarantees: a value that
\* no comparison rejects is a number on the right side of its bound, or NaN.
LEMMA LoadedSettings ==
    ASSUME world \in Worlds, settings = Effective(world), Loads(settings)
    PROVE  HasNaN(settings) \/ MeetsAssumptions(settings)
<1> SUFFICES ASSUME ~HasNaN(settings) PROVE MeetsAssumptions(settings)
  OBVIOUS
<1>1. {settings.maxGas, settings.minGas, settings.bump, settings.minRoi,
       settings.minValue, settings.maxSpend, settings.softCap}
        \subseteq Int \cup {NaN}
      /\ {settings.chainId, settings.maxFailures, settings.workers,
          settings.maxRisk} \subseteq Int
  BY WorldAssumption
<1> DEFINE c == settings
<1>2. /\ c.maxGas \in Int /\ c.minGas \in Int /\ c.bump \in Int
      /\ c.minRoi \in Int /\ c.minValue \in Int /\ c.maxSpend \in Int
      /\ c.softCap \in Int
      /\ c.maxFailures \in Int /\ c.workers \in Int /\ c.maxRisk \in Int
      /\ NaN \notin {c.maxGas, c.minGas, c.bump, c.minRoi, c.minValue,
                     c.maxSpend, c.softCap}
  BY <1>1 DEF HasNaN
<1>3. /\ ~AtMost(c.maxGas, c.minGas)
      /\ ~AtMost(c.bump, 0) /\ ~AtMost(c.minRoi, 0) /\ ~Less(c.minValue, 0)
      /\ c.maxFailures # 0 /\ ~AtMost(c.maxSpend, 0)
      /\ c.maxRisk # 0 /\ c.maxRisk =< 100
      /\ AtMost(0, c.softCap) /\ AtMost(c.softCap, 100)
      /\ c.workers # 0
      /\ c.maxFailures >= 0 /\ c.workers >= 0 /\ c.maxRisk \in 0 .. 255
  BY DEF Loads, Validates, MaxRiskValid, Deserialises
<1>4. 0 # NaN /\ 100 # NaN
  BY NaNAssumption
<1>5. c.minGas < c.maxGas /\ c.bump > 0 /\ c.minRoi > 0 /\ c.minValue >= 0
      /\ c.maxSpend > 0
  BY <1>2, <1>3, <1>4 DEF AtMost, Less
<1>6. c.softCap \in 0 .. 100
  BY <1>2, <1>3 DEF AtMost
<1>7. c.maxFailures > 0 /\ c.maxRisk \in 1 .. 100 /\ c.workers > 0
  BY <1>2, <1>3
<1> QED BY <1>5, <1>6, <1>7, SomeEndpoint DEF MeetsAssumptions

\* The environment has the last word.
LEMMA EnvironmentWins ==
    ASSUME settings = Effective(world), "emergencyStop" \in DOMAIN world.env
    PROVE  settings.emergencyStop = world.env.emergencyStop
  BY DEF Effective, Priority, Over

\* Of the endpoints, the call for the nonce is at the first one last.
LEMMA AtFirst ==
    ASSUME NEW n \in Nat \ {0}, NEW o \in 0 .. n - 1, NEW s \in {1, SecondOf(n)},
           ((s - 1 + o) % n) + 1 = 1
    PROVE  o = IF s = 1 THEN 0 ELSE n - 1
<1>1. \A a \in 0 .. n - 1 : a % n = a
  OBVIOUS
<1>2. CASE s = 1
  BY <1>1, <1>2
<1>3. CASE s # 1
  <2>1. n # 1
    BY <1>3 DEF SecondOf
  <2>2. s = 2
    BY <1>1, <1>3, <2>1 DEF SecondOf
  <2>3. CASE o + 1 =< n - 1
    BY <1>1, <2>2, <2>3
  <2> QED BY <1>3, <2>3
<1> QED BY <1>2, <1>3

LEMMA SecondType ==
    ASSUME NEW n \in Nat \ {0}
    PROVE  SecondOf(n) \in 1 .. n /\ (SecondOf(n) = 1 => n = 1)
<1>1. 1 % n \in 0 .. n - 1
  OBVIOUS
<1>2. n # 1 => 1 % n = 1
  OBVIOUS
<1> QED BY <1>1, <1>2 DEF SecondOf

\* The endpoints stay what they are; a call begins at one of them and leaves the
\* rotation at one of them.
LEMMA Stays ==
    UNCHANGED given => /\ Urls' = Urls /\ Endpoints' = Endpoints
                       /\ world' = world /\ settings' = settings
  BY DEF given, Urls, Endpoints

LEMMA CallType ==
    ASSUME Len(Urls) \in Nat \ {0}, next \in Endpoints, CallBegins
    PROVE  /\ start' = next /\ offset' = 0 /\ offset' \in 0 .. Len(Urls)
           /\ start' \in Endpoints /\ next' \in Endpoints
           /\ next = 1 => next' = SecondOf(Len(Urls))
<1> DEFINE n == Len(Urls)
<1> HIDE DEF n
<1>1. n \in Nat \ {0} /\ next \in 1 .. n
  BY DEF n, Endpoints
<1>2. (next % n) + 1 \in 1 .. n
  BY <1>1
<1>3. next' = (next % n) + 1
  BY DEF CallBegins, n
<1> QED BY <1>1, <1>2, <1>3 DEF CallBegins, SecondOf, Endpoints, n

\* What the invariant says of a state of a running main.
LEMMA WhenRunning ==
    ASSUME Inv, Running
    PROVE  /\ world \in Worlds /\ settings = Effective(world)
           /\ Loads(settings) /\ ~settings.emergencyStop
           /\ Len(Urls) \in Nat \ {0} /\ 1 \in Endpoints
           /\ start \in Endpoints /\ next \in Endpoints
           /\ offset \in 0 .. Len(Urls)
           /\ failures \in [Endpoints -> Nat] /\ backoff \subseteq Endpoints
           /\ numberBy \in Endpoints \cup {0} /\ nonceBy \in Endpoints \cup {0}
           /\ wsIndex \in Endpoints \cup {0}
  BY SomeEndpoint DEF Inv, TypeOK, SettingsInv, Running

-----------------------------------------------------------------------------
(* The steps *)

LEMMA InitInv == Init => Inv
<1> SUFFICES ASSUME Init PROVE Inv
  OBVIOUS
<1>1. stage = "load" /\ ~Running
  BY DEF Init, Running
<1>2. TypeOK
  BY DEF Init, TypeOK, Ended, Calls
<1>3. LoadInv /\ WebsocketIsFirst
  BY DEF Init, LoadInv, WebsocketIsFirst
<1> QED
  BY <1>1, <1>2, <1>3 DEF Inv, SettingsInv, ChainInv, GainInv, FirstInv

\* main ends: nothing is said of it any more.
LEMMA EndStep ==
    ASSUME Inv, UNCHANGED given, stage' \in Ended, UNCHANGED <<rpcHealthy, wsIndex>>,
           server' \in {"none", "starting", "listening", "failed"}
    PROVE  Inv'
<1>1. TypeOK'
  BY Stays DEF Inv, TypeOK, Ended, Calls
<1>2. WebsocketIsFirst'
  BY DEF Inv, WebsocketIsFirst
<1> QED
  BY <1>1, <1>2
  DEF Inv, LoadInv, SettingsInv, ChainInv, GainInv, FirstInv, Running, Ended

\* Connect: the settings are good, and the first call begins.
LEMMA ConnectStep == Inv /\ Connect => Inv'
<1> SUFFICES ASSUME Inv, Connect PROVE Inv'
  OBVIOUS
<1>1. UNCHANGED given /\ UNCHANGED <<backoff, numberBy, nonceBy, wsIndex, rpcHealthy>>
      /\ server' = "starting"
  BY DEF Connect, gainVars
<1>2. CASE stage' = "exited"
  BY <1>1, <1>2, EndStep DEF Ended
<1>3. CASE stage' # "exited"
  <2>1. stage = "load" /\ stage' = "chainId" /\ CallBegins
        /\ Loads(settings) /\ ~settings.emergencyStop
        /\ failures' = [p \in Endpoints |-> 0]
    BY <1>3 DEF Connect
  <2>2. /\ world \in Worlds /\ settings = Effective(world) /\ next = 1
        /\ backoff = {} /\ numberBy = 0 /\ nonceBy = 0 /\ wsIndex = 0
        /\ rpcHealthy \in BOOLEAN
    BY <2>1 DEF Inv, TypeOK, LoadInv
  <2>3. Len(Urls) \in Nat \ {0} /\ 1 \in Endpoints
    BY <2>1, <2>2, SomeEndpoint
  <2>4. /\ start' = 1 /\ offset' = 0 /\ offset' \in 0 .. Len(Urls)
        /\ start' \in Endpoints /\ next' \in Endpoints
        /\ next' = SecondOf(Len(Urls))
    BY <2>1, <2>2, <2>3, CallType
  <2>5. failures' \in [Endpoints -> Nat] /\ failures'[1] = 0
    BY <2>1, <2>3
  <2>6. TypeOK'
    BY <1>1, <2>1, <2>2, <2>4, <2>5, Stays DEF TypeOK, Calls
  <2>7. LoadInv' /\ SettingsInv' /\ ChainInv' /\ GainInv' /\ WebsocketIsFirst'
    BY <1>1, <2>1, <2>2, Stays
    DEF LoadInv, SettingsInv, ChainInv, GainInv, WebsocketIsFirst
  <2>8. FirstInv'
    BY <1>1, <2>1, <2>4, <2>5, Stays DEF FirstInv
  <2> QED BY <2>6, <2>7, <2>8 DEF Inv
<1> QED BY <1>2, <1>3

\* The server, and the end of a backoff: nothing of main's.
LEMMA AsideStep ==
    ASSUME Inv, UNCHANGED <<given, stage, start, offset, next, failures, gainVars>>,
           backoff' \subseteq backoff,
           server' \in {"none", "starting", "listening", "failed"}
    PROVE  Inv'
<1>1. /\ Urls' = Urls /\ Endpoints' = Endpoints /\ world' = world
      /\ settings' = settings
  BY Stays
<1>2. TypeOK'
  BY <1>1 DEF Inv, TypeOK, gainVars, Ended, Calls
<1>3. LoadInv' /\ SettingsInv' /\ GainInv' /\ WebsocketIsFirst'
  BY <1>1
  DEF Inv, LoadInv, SettingsInv, GainInv, WebsocketIsFirst, Running, gainVars
<1>4. ChainInv' /\ FirstInv'
  BY <1>1 DEF Inv, ChainInv, FirstInv, Running
<1> QED BY <1>2, <1>3, <1>4 DEF Inv

\* A step inside a call: the endpoint is in backoff, or fails the request.
LEMMA NextEndpointStep ==
    ASSUME Inv, Skip \/ RequestFails
    PROVE  Inv'
<1> DEFINE n == Len(Urls)
<1>0. /\ stage \in Calls /\ offset < n /\ Running
      /\ UNCHANGED <<given, stage, start, next, gainVars, server>>
      /\ offset' = offset + 1
  BY DEF Skip, RequestFails, InCall, AfterError, Running, Calls, Ended
<1>1. /\ Urls' = Urls /\ Endpoints' = Endpoints /\ world' = world
      /\ settings' = settings
  BY <1>0, Stays
<1>2. n \in Nat \ {0} /\ start \in 1 .. n /\ offset \in 0 .. n
      /\ failures \in [Endpoints -> Nat] /\ backoff \subseteq Endpoints
      /\ 1 \in Endpoints
  BY <1>0, WhenRunning DEF Endpoints
<1>3. At \in Endpoints /\ At = ((start - 1 + offset) % n) + 1
  <2>1. At = ((start - 1 + offset) % n) + 1
    BY DEF At
  <2> HIDE DEF n
  <2>2. start - 1 + offset \in Nat
    BY <1>2
  <2>3. (start - 1 + offset) % n \in 0 .. n - 1
    BY <1>2, <2>2
  <2>4. At \in 1 .. n
    BY <1>2, <2>1, <2>3
  <2> QED BY <2>1, <2>4 DEF Endpoints, n
<1>4. /\ failures' \in [Endpoints -> Nat] /\ backoff' \subseteq Endpoints
      /\ At # 1 => failures'[1] = failures[1]
      /\ failures'[1] =< failures[1] + 1
  <2>1. CASE Skip
    BY <1>2, <2>1 DEF Skip
  <2>2. CASE RequestFails
    <3>1. failures' = [failures EXCEPT ![At] = failures[At] + 1]
          /\ backoff' = backoff \cup {At}
      BY <2>2 DEF RequestFails, Failed
    <3>2. At \in Endpoints /\ failures[At] + 1 \in Nat /\ failures[1] \in Nat
      BY <1>2, <1>3
    <3> DEFINE at == At
    <3> HIDE DEF at
    <3>3. at \in Endpoints /\ failures[at] + 1 \in Nat
          /\ failures' = [failures EXCEPT ![at] = failures[at] + 1]
          /\ backoff' = backoff \cup {at}
      BY <3>1, <3>2 DEF at
    <3>4. failures' \in [Endpoints -> Nat] /\ backoff' \subseteq Endpoints
      BY <1>2, <3>3
    <3>5. failures'[1] = IF at = 1 THEN failures[1] + 1 ELSE failures[1]
      BY <1>2, <3>3
    <3> QED BY <3>2, <3>4, <3>5 DEF at
  <2> QED BY <2>1, <2>2
<1>5. TypeOK'
  <2>1. offset' \in 0 .. n
    BY <1>0, <1>2
  <2> QED BY <1>0, <1>1, <1>4, <2>1 DEF Inv, TypeOK, gainVars
<1>6. LoadInv' /\ SettingsInv' /\ GainInv' /\ WebsocketIsFirst'
  BY <1>0, <1>1
  DEF Inv, LoadInv, SettingsInv, GainInv, WebsocketIsFirst, Running, gainVars,
      Calls
<1>7. ChainInv'
  BY <1>0, <1>1 DEF Inv, ChainInv, Running
<1>8. FirstInv'
  <2> HIDE DEF n
  <2>1. failures[1] \in Nat /\ failures'[1] \in Nat
    BY <1>2, <1>4
  <2>2. CASE stage = "chainId"
    <3>1. start = 1 /\ next = SecondOf(n)
          /\ failures[1] =< IF offset = 0 THEN 0 ELSE 1
      BY <2>2 DEF Inv, FirstInv, n
    <3>2. At = 1 => offset = 0
      BY <1>0, <1>2, <1>3, <3>1, AtFirst
    <3>3. failures'[1] =< 1 /\ offset' # 0
      BY <1>0, <1>2, <1>4, <2>1, <3>1, <3>2
    <3> QED BY <1>0, <1>1, <2>2, <3>1, <3>3 DEF FirstInv, n
  <2>3. CASE stage = "nonce"
    <3>1. start = SecondOf(n)
          /\ failures[1] =< IF offset = n THEN 2 ELSE 1
      BY <2>3 DEF Inv, FirstInv, n
    <3>2. At = 1 => offset = n - 1
      BY <1>0, <1>2, <1>3, <3>1, AtFirst, SecondType
    <3>3. failures[1] =< 1
      BY <1>0, <1>2, <3>1 DEF n
    <3>4. CASE At = 1
      BY <1>0, <1>1, <1>2, <1>4, <2>1, <2>3, <3>1, <3>2, <3>3, <3>4
      DEF FirstInv, n
    <3>5. CASE At # 1
      <4>1. failures'[1] =< IF offset' = n THEN 2 ELSE 1
        BY <1>4, <2>1, <3>3, <3>5
      <4> QED BY <1>0, <1>1, <2>3, <3>1, <4>1 DEF FirstInv, n
    <3> QED BY <3>4, <3>5
  <2>4. CASE stage \in {"number", "block", "gasPrice"}
    BY <1>0, <2>4 DEF FirstInv
  <2> QED BY <1>0, <2>2, <2>3, <2>4 DEF Calls
<1> QED BY <1>5, <1>6, <1>7, <1>8 DEF Inv

\* All endpoints have failed.
LEMMA NoneAnswersStep == Inv /\ NoneAnswers => Inv'
<1> SUFFICES ASSUME Inv, NoneAnswers PROVE Inv'
  OBVIOUS
<1>1. stage' = "exited" /\ UNCHANGED <<given, gainVars, server>>
  BY DEF NoneAnswers, AfterAllFailed
<1>2. server \in {"none", "starting", "listening", "failed"}
  BY DEF Inv, TypeOK
<1> QED BY <1>1, <1>2, EndStep DEF gainVars, Ended

\* An endpoint that answers is one, and its counter is reset.
LEMMA AnswerType ==
    ASSUME Inv, NEW p \in Endpoints, Answers(p)
    PROVE  /\ Running /\ failures' \in [Endpoints -> Nat]
           /\ failures'[1] =< failures[1] /\ failures'[1] \in Nat
           /\ p # 0 /\ Urls[p] = "http" /\ offset < Len(Urls)
<1>1. Running /\ failures' = [failures EXCEPT ![p] = 0] /\ offset < Len(Urls)
      /\ Urls[p] = "http"
  BY DEF Answers, InCall, Running, Calls, Ended
<1>2. failures \in [Endpoints -> Nat] /\ 1 \in Endpoints
      /\ Len(Urls) \in Nat \ {0}
  BY <1>1, WhenRunning
<1>3. failures[1] \in Nat
  BY <1>2
<1>4. p # 0
  BY <1>2 DEF Endpoints
<1> QED BY <1>1, <1>2, <1>3, <1>4

\* The chain id is answered: it is the configured one, or main ends.
LEMMA ChainIdStep ==
    ASSUME Inv, NEW p \in Endpoints, ChainIdAnswered(p)
    PROVE  Inv'
<1>1. /\ stage = "chainId" /\ Answers(p)
      /\ UNCHANGED <<given, start, offset, next, backoff, gainVars, server>>
      /\ stage' = IF OnConfiguredChain(p) THEN "snapshot" ELSE "exited"
  BY DEF ChainIdAnswered
<1>2. server \in {"none", "starting", "listening", "failed"}
  BY DEF Inv, TypeOK
<1>3. CASE ~OnConfiguredChain(p)
  BY <1>1, <1>2, <1>3, EndStep DEF gainVars, Ended
<1>4. CASE OnConfiguredChain(p)
  <2>1. stage' = "snapshot"
    BY <1>1, <1>4
  <2>2. /\ Urls' = Urls /\ Endpoints' = Endpoints /\ world' = world
        /\ settings' = settings
    BY <1>1, Stays
  <2>3. /\ Running /\ failures' \in [Endpoints -> Nat]
        /\ failures'[1] =< failures[1] /\ failures'[1] \in Nat
        /\ Urls[p] = "http"
    BY <1>1, AnswerType
  <2>4. TypeOK'
    BY <1>1, <2>1, <2>2, <2>3
    DEF Inv, TypeOK, Running, gainVars, Calls, Ended
  <2>5. LoadInv' /\ SettingsInv' /\ GainInv' /\ WebsocketIsFirst'
    BY <1>1, <2>1, <2>2, <2>3
    DEF Inv, LoadInv, SettingsInv, GainInv, WebsocketIsFirst, gainVars
  <2>6. ChainInv'
    BY <1>4, <2>2, <2>3 DEF ChainInv, OnConfiguredChain
  <2>7. FirstInv'
    <3>1. next = SecondOf(Len(Urls))
          /\ failures[1] =< IF offset = 0 THEN 0 ELSE 1
      BY <1>1 DEF Inv, FirstInv
    <3>2. failures[1] \in Nat
      BY <2>3, WhenRunning
    <3>3. failures'[1] =< 1
      BY <2>3, <3>1, <3>2
    <3> QED BY <1>1, <2>1, <2>2, <3>1, <3>3 DEF FirstInv
  <2> QED BY <2>4, <2>5, <2>6, <2>7 DEF Inv
<1> QED BY <1>3, <1>4

\* The snapshot of the health, and the call for the nonce if there is a key.
LEMMA SnapshotStep == Inv /\ Snapshot => Inv'
<1> SUFFICES ASSUME Inv, Snapshot PROVE Inv'
  OBVIOUS
<1>1. /\ stage = "snapshot" /\ rpcHealthy' \in BOOLEAN /\ Running
      /\ UNCHANGED <<given, failures, backoff, numberBy, nonceBy, wsIndex, server>>
  BY DEF Snapshot, Running, Ended
<1>2. /\ Urls' = Urls /\ Endpoints' = Endpoints /\ world' = world
      /\ settings' = settings
  BY <1>1, Stays
<1>3. /\ Len(Urls) \in Nat \ {0} /\ next \in Endpoints
      /\ start \in Endpoints /\ offset \in 0 .. Len(Urls)
      /\ failures[1] \in Nat
  BY <1>1, WhenRunning
<1>4. next = SecondOf(Len(Urls)) /\ failures[1] =< 1
  BY <1>1 DEF Inv, FirstInv
<1>5. nonceBy = 0
  BY <1>1 DEF Inv, GainInv
<1>6. server \in {"none", "starting", "listening", "failed"}
  BY DEF Inv, TypeOK
<1>7. ASSUME /\ stage' \in {"subscribe", "nonce"}
             /\ stage' = "nonce" <=> ExecutionEnabled(settings)
             /\ start' \in Endpoints /\ next' \in Endpoints
             /\ offset' \in 0 .. Len(Urls)
             /\ stage' = "nonce" => start' = next
      PROVE  Inv'
  <2>1. TypeOK'
    BY <1>1, <1>2, <1>6, <1>7 DEF Inv, TypeOK, Running, Calls, Ended
  <2>2. LoadInv' /\ SettingsInv' /\ ChainInv' /\ WebsocketIsFirst'
    BY <1>1, <1>2, <1>7
    DEF Inv, LoadInv, SettingsInv, ChainInv, WebsocketIsFirst, Running
  <2>3. GainInv'
    BY <1>1, <1>2, <1>5, <1>7 DEF GainInv, ExecutionEnabled
  <2>4. FirstInv'
    <3>1. failures[1] =< 2 /\ failures[1] =< IF offset' = Len(Urls) THEN 2 ELSE 1
      BY <1>3, <1>4
    <3> QED BY <1>1, <1>2, <1>4, <1>7, <3>1 DEF FirstInv
  <2> QED BY <2>1, <2>2, <2>3, <2>4 DEF Inv
<1>8. CASE ~ExecutionEnabled(settings)
  <2>1. stage' = "subscribe" /\ UNCHANGED <<start, offset, next>>
    BY <1>8 DEF Snapshot
  <2> QED BY <1>3, <1>7, <1>8, <2>1
<1>9. CASE ExecutionEnabled(settings) /\ settings.privateKey = "valid"
  <2>1. stage' = "nonce" /\ CallBegins
    BY <1>9 DEF Snapshot
  <2> QED BY <1>3, <1>7, <1>9, <2>1, CallType
<1>10. CASE ExecutionEnabled(settings) /\ settings.privateKey # "valid"
  <2>1. stage' = "exited"
    BY <1>10 DEF Snapshot
  <2>2. TypeOK'
    BY <1>1, <1>2, <1>6, <2>1 DEF Inv, TypeOK, Calls, Ended
  <2>3. WebsocketIsFirst'
    BY <1>1 DEF Inv, WebsocketIsFirst
  <2> QED
    BY <2>1, <2>2, <2>3
    DEF Inv, LoadInv, SettingsInv, ChainInv, GainInv, FirstInv, Running, Ended
<1> QED BY <1>8, <1>9, <1>10

LEMMA NonceStep ==
    ASSUME Inv, NEW p \in Endpoints, NonceAnswered(p)
    PROVE  Inv'
<1>1. /\ stage = "nonce" /\ Answers(p) /\ nonceBy' = p /\ stage' = "subscribe"
      /\ UNCHANGED <<given, start, offset, next, backoff, numberBy, wsIndex,
                     rpcHealthy, server>>
  BY DEF NonceAnswered
<1>2. /\ Urls' = Urls /\ Endpoints' = Endpoints /\ world' = world
      /\ settings' = settings
  BY <1>1, Stays
<1>3. /\ Running /\ failures' \in [Endpoints -> Nat]
      /\ failures'[1] =< failures[1] /\ failures'[1] \in Nat /\ p # 0
  BY <1>1, AnswerType
<1>4. TypeOK'
  BY <1>1, <1>2, <1>3 DEF Inv, TypeOK, Running, Calls, Ended
<1>5. LoadInv' /\ SettingsInv' /\ ChainInv' /\ WebsocketIsFirst'
  BY <1>1, <1>2, <1>3
  DEF Inv, LoadInv, SettingsInv, ChainInv, WebsocketIsFirst, Running
<1>6. GainInv'
  BY <1>1, <1>2, <1>3 DEF Inv, GainInv, ExecutionEnabled
<1>7. FirstInv'
  <2>1. failures[1] =< IF offset = Len(Urls) THEN 2 ELSE 1
    BY <1>1 DEF Inv, FirstInv
  <2>2. failures[1] \in Nat
    BY <1>3, WhenRunning
  <2>3. failures'[1] =< 2
    BY <1>3, <2>1, <2>2
  <2> QED BY <1>1, <2>3 DEF FirstInv
<1> QED BY <1>4, <1>5, <1>6, <1>7 DEF Inv

\* The subscription: the first endpoint is usable, so it is the one.
LEMMA SubscribeStep == Inv /\ Subscribe => Inv'
<1> SUFFICES ASSUME Inv, Subscribe PROVE Inv'
  OBVIOUS
<1>1. /\ stage = "subscribe" /\ Running
      /\ UNCHANGED <<given, failures, backoff, numberBy, nonceBy, rpcHealthy,
                     server>>
  BY DEF Subscribe, Running, Ended
<1>2. /\ Urls' = Urls /\ Endpoints' = Endpoints /\ world' = world
      /\ settings' = settings
  BY <1>1, Stays
<1>3. /\ Len(Urls) \in Nat \ {0} /\ 1 \in Endpoints /\ next \in Endpoints
      /\ failures[1] \in Nat
  BY <1>1, WhenRunning
<1>4. IsHealthy(1)
  BY <1>1, <1>3 DEF Inv, FirstInv, IsHealthy, UnhealthyAfter
<1>5. stage' = "number" /\ CallBegins /\ wsIndex' = WebsocketUrl
  BY <1>3, <1>4 DEF Subscribe
<1>6. wsIndex' = 1
  <2> DEFINE first(p) == IsHealthy(p) /\ \A q \in 1 .. p - 1 : ~IsHealthy(q)
  <2>1. first(1)
    BY <1>4
  <2>2. \A p \in Endpoints : first(p) => p = 1
    BY <1>3, <1>4 DEF Endpoints
  <2>3. wsIndex' = CHOOSE p \in Endpoints : first(p)
    BY <1>5 DEF WebsocketUrl
  <2> HIDE DEF first
  <2> QED BY <1>3, <2>1, <2>2, <2>3
<1>7. /\ start' \in Endpoints /\ next' \in Endpoints
      /\ offset' \in 0 .. Len(Urls)
  BY <1>3, <1>5, CallType
<1>8. TypeOK'
  BY <1>1, <1>2, <1>3, <1>5, <1>6, <1>7 DEF Inv, TypeOK, Running, Calls, Ended
<1>9. LoadInv' /\ SettingsInv' /\ ChainInv' /\ WebsocketIsFirst' /\ FirstInv'
  BY <1>1, <1>2, <1>5, <1>6
  DEF Inv, LoadInv, SettingsInv, ChainInv, WebsocketIsFirst, FirstInv, Running
<1>10. nonceBy # 0 <=> ExecutionEnabled(settings)
  BY <1>1 DEF Inv, GainInv
<1>12. nonceBy' # 0 <=> ExecutionEnabled(settings')
  BY <1>1, <1>2, <1>10
<1>13. GainInv'
  BY <1>5, <1>12 DEF GainInv
<1> QED BY <1>8, <1>9, <1>13 DEF Inv

\* The calls for the network state, one after the other.
LEMMA StateStep ==
    ASSUME Inv, NEW p \in Endpoints,
           NumberAnswered(p) \/ BlockAnswered(p) \/ GasPriceAnswered(p)
    PROVE  Inv'
<1>1. /\ stage \in {"number", "block", "gasPrice"} /\ Answers(p)
      /\ stage' \in {"block", "gasPrice", "serving"}
      /\ UNCHANGED <<given, backoff, nonceBy, wsIndex, rpcHealthy, server>>
      /\ (CallBegins \/ UNCHANGED <<start, offset, next>>)
      /\ (numberBy' = p \/ (stage # "number" /\ numberBy' = numberBy))
  <2>1. CASE NumberAnswered(p)
    BY <2>1 DEF NumberAnswered
  <2>2. CASE BlockAnswered(p)
    BY <2>2 DEF BlockAnswered, gainVars
  <2>3. CASE GasPriceAnswered(p)
    BY <2>3 DEF GasPriceAnswered, gainVars
  <2> QED BY <2>1, <2>2, <2>3
<1>2. /\ Urls' = Urls /\ Endpoints' = Endpoints /\ world' = world
      /\ settings' = settings
  BY <1>1, Stays
<1>3. /\ Running /\ failures' \in [Endpoints -> Nat] /\ p # 0
  BY <1>1, AnswerType
<1>4. /\ start' \in Endpoints /\ next' \in Endpoints
      /\ offset' \in 0 .. Len(Urls) /\ numberBy' \in Endpoints \cup {0}
  BY <1>1, <1>3, WhenRunning, CallType
<1>5. TypeOK'
  BY <1>1, <1>2, <1>3, <1>4 DEF Inv, TypeOK, Running, Calls, Ended
<1>6. LoadInv' /\ SettingsInv' /\ ChainInv' /\ WebsocketIsFirst' /\ FirstInv'
  BY <1>1, <1>2, <1>3
  DEF Inv, LoadInv, SettingsInv, ChainInv, WebsocketIsFirst, FirstInv, Running
<1>7. GainInv'
  BY <1>1, <1>2, <1>3 DEF Inv, GainInv, ExecutionEnabled
<1> QED BY <1>5, <1>6, <1>7 DEF Inv

LEMMA BlockMissingStep ==
    ASSUME Inv, NEW p \in Endpoints, BlockMissing(p)
    PROVE  Inv'
<1>1. stage' = "exited" /\ UNCHANGED <<given, gainVars, server>>
  BY DEF BlockMissing
<1>2. server \in {"none", "starting", "listening", "failed"}
  BY DEF Inv, TypeOK
<1> QED BY <1>1, <1>2, EndStep DEF gainVars, Ended

\* A call of process_pending_hashes.
LEMMA OtherCallStep ==
    ASSUME Inv, NEW p \in Endpoints, OtherCall(p)
    PROVE  Inv'
<1>1. /\ stage \in {"number", "block", "gasPrice"} /\ Running
      /\ UNCHANGED <<given, stage, start, offset, gainVars, server>>
      /\ next' = (next % Len(Urls)) + 1
  BY DEF OtherCall, Running, Ended
<1>2. /\ Urls' = Urls /\ Endpoints' = Endpoints /\ world' = world
      /\ settings' = settings
  BY <1>1, Stays
<1>3. Len(Urls) \in Nat \ {0} /\ next \in Endpoints
      /\ failures \in [Endpoints -> Nat] /\ backoff \subseteq Endpoints
  BY <1>1, WhenRunning
<1>4. next' \in Endpoints
  <2> DEFINE n == Len(Urls)
  <2> HIDE DEF n
  <2>1. n \in Nat \ {0} /\ next \in Nat /\ next' = (next % n) + 1
    BY <1>1, <1>3 DEF n, Endpoints
  <2>2. next' \in 1 .. n
    BY <2>1
  <2> QED BY <2>2 DEF n, Endpoints
<1>5. failures' \in [Endpoints -> Nat] /\ backoff' \subseteq Endpoints
  <2>1. failures[p] + 1 \in Nat /\ 0 \in Nat
    BY <1>3
  <2>2. CASE failures' = [failures EXCEPT ![p] = 0] /\ UNCHANGED backoff
    BY <1>3, <2>2
  <2>3. CASE Failed(p)
    BY <1>3, <2>1, <2>3 DEF Failed
  <2> QED BY <2>2, <2>3 DEF OtherCall
<1>6. TypeOK'
  BY <1>1, <1>2, <1>4, <1>5 DEF Inv, TypeOK, Running, gainVars, Calls, Ended
<1>7. LoadInv' /\ SettingsInv' /\ ChainInv' /\ WebsocketIsFirst' /\ FirstInv'
  BY <1>1, <1>2
  DEF Inv, LoadInv, SettingsInv, ChainInv, WebsocketIsFirst, FirstInv, Running,
      gainVars
<1>8. GainInv'
  BY <1>1, <1>2 DEF Inv, GainInv, ExecutionEnabled, gainVars
<1> QED BY <1>6, <1>7, <1>8 DEF Inv

\* Every step preserves the invariant.
LEMMA InvStep == Inv /\ [Next]_vars => Inv'
<1> SUFFICES ASSUME Inv, [Next]_vars PROVE Inv'
  OBVIOUS
<1>1. server \in {"none", "starting", "listening", "failed"}
  BY DEF Inv, TypeOK
<1>2. CASE LoadFails \/ Halt
  BY <1>1, <1>2, EndStep DEF LoadFails, Halt, Exit, gainVars, Ended
<1>3. CASE Connect
  BY <1>3, ConnectStep
<1>4. CASE Snapshot
  BY <1>4, SnapshotStep
<1>5. CASE Subscribe
  BY <1>5, SubscribeStep
<1>6. CASE Skip \/ RequestFails
  BY <1>6, NextEndpointStep
<1>7. CASE NoneAnswers
  BY <1>7, NoneAnswersStep
<1>8. ASSUME NEW p \in Endpoints, Answered(p) PROVE Inv'
  BY <1>8, ChainIdStep, NonceStep, StateStep, BlockMissingStep DEF Answered
<1>9. CASE ServerListens \/ ServerFails
  BY <1>9, AsideStep DEF ServerListens, ServerFails, ServerGoesTo, poolVars
<1>10. ASSUME NEW p \in Endpoints, BackoffOver(p) PROVE Inv'
  BY <1>1, <1>10, AsideStep DEF BackoffOver
<1>11. ASSUME NEW p \in Endpoints, OtherCall(p) PROVE Inv'
  BY <1>11, OtherCallStep
<1>12. CASE UNCHANGED vars
  BY <1>1, <1>12, AsideStep DEF vars, poolVars
<1> QED
  BY <1>2, <1>3, <1>4, <1>5, <1>6, <1>7, <1>8, <1>9, <1>10, <1>11, <1>12
  DEF Next, MainStep

\* The inductive invariant holds in every reachable state.
THEOREM Invariance == Spec => []Inv
<1> QED BY InitInv, InvStep, PTL DEF Spec

\* The variables keep their types, whatever the endpoints do.
THEOREM StartupTypeCorrect == Spec => []TypeOK
<1>1. Inv => TypeOK
  BY DEF Inv
<1> QED BY <1>1, Invariance, PTL

\* Settings::load lets only settings through that meet the assumptions of the
\* other modules, NaN apart, and an emergency stop of the environment stands.
THEOREM SettingsAsAssumed == Spec => []StartsAsConfigured
<1>1. Inv => StartsAsConfigured
  <2> SUFFICES ASSUME Inv, Running PROVE StartsAsConfigured
    BY DEF StartsAsConfigured, Running
  <2>1. /\ world \in Worlds /\ settings = Effective(world) /\ Loads(settings)
        /\ ~settings.emergencyStop
    BY DEF Inv, TypeOK, SettingsInv
  <2> QED BY <2>1, LoadedSettings, EnvironmentWins DEF StartsAsConfigured
<1> QED BY <1>1, Invariance, PTL

\* verify_chain_id asks one endpoint: where all are on one chain, it is the
\* configured one for every call that follows.
THEOREM OneChainIsConfigured == Spec => []ConfiguredChainOnly
<1>1. Inv => ConfiguredChainOnly
  <2> SUFFICES ASSUME Inv, Running, stage # "chainId", OneChain,
                      NEW q \in Endpoints, Urls[q] = "http"
               PROVE  world.chain[q] = settings.chainId
    BY DEF ConfiguredChainOnly, Running
  <2> QED BY DEF Inv, ChainInv, OneChain
<1> QED BY <1>1, Invariance, PTL

\* /ready says yes only when main has a network state and, if and only if it may
\* submit, the nonce of its account, whichever endpoints have failed before.
THEOREM ReadyIsComplete == Spec => []ReadyAfterStartup
<1>1. Inv => ReadyAfterStartup
  BY DEF Inv, GainInv, ReadyAfterStartup, Ready
<1> QED BY <1>1, Invariance, PTL

\* A fact about websocket_url that its comment (connection.rs:190) and the docs
\* (ARCHITECTURE.md:10) deny: they say the URL is the first healthy endpoint's.  It
\* is the first endpoint's, healthy or dead, because no endpoint can have the three
\* failures that make it unhealthy when the URL is derived: the search that looks
\* for health there can find none wanting.
THEOREM WebsocketStaysFirst == Spec => []WebsocketIsFirst
<1>1. Inv => WebsocketIsFirst
  BY DEF Inv
<1> QED BY <1>1, Invariance, PTL

=============================================================================
