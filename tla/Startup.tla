------------------------------ MODULE Startup ------------------------------
(***************************************************************************)
(* main up to its loop (src/src/main.rs): the settings, the HTTP server,   *)
(* connect with verify_chain_id, the executor with the nonce of the        *)
(* account, the tasks of the subscription and the first network state.     *)
(* Every error ends the process.                                           *)
(*                                                                         *)
(* Each RPC is one pass of attempt_providers over the endpoints, on whose  *)
(* failure counters and backoffs the passes before leave their mark.  What *)
(* ProviderPool.tla has in time is a choice here: a backoff may be over.   *)
(***************************************************************************)
EXTENDS Settings

CONSTANT Worlds   \* settings and endpoints the bot may be started with

\* The values of a key are of its type.
ASSUME WorldAssumption ==
    \A w \in Worlds :
       LET c == Effective(w)
       IN  /\ {c.maxGas, c.minGas, c.bump, c.minRoi, c.minValue, c.maxSpend,
               c.softCap} \subseteq Int \cup {NaN}
           /\ {c.chainId, c.maxFailures, c.workers, c.maxRisk} \subseteq Int
           /\ c.emergencyStop \in BOOLEAN
           /\ RpcUrls(c.rpcUrls) \in Seq(STRING)

\* Failures from which an endpoint is unhealthy.
UnhealthyAfter == 3

VARIABLES
    world,      \* where the settings come from, and the endpoints behind them:
                \* the chain of each, those that never fail, those that lag
    settings,   \* what the sources make together
    stage,      \* where main is
    start,      \* start_index of the call under way
    offset,     \* offset of that call
    next,       \* round_robin_index modulo the number of endpoints
    failures,   \* consecutive_failures of each endpoint
    backoff,    \* endpoints in backoff
    numberBy,   \* the endpoint that answered get_block_number, or 0
    nonceBy,    \* the endpoint that answered get_account_nonce, or 0
    wsIndex,    \* the endpoint the WebSocket URL is derived from, or 0; a URL,
                \* and not a connection
    rpcHealthy, \* HealthStatus::rpc_healthy
    server      \* the task of the HTTP server

poolVars == <<start, offset, next, failures, backoff>>
gainVars == <<numberBy, nonceBy, wsIndex, rpcHealthy>>
given == <<world, settings>>
vars == <<given, stage, poolVars, gainVars, server>>

\* What main has, at these stages, an RPC under way for.
Calls == {"chainId", "nonce", "number", "block", "gasPrice"}
Ended == {"exited", "halted"}

Urls == RpcUrls(settings.rpcUrls)
Endpoints == 1 .. Len(Urls)

TypeOK ==
    /\ world \in Worlds /\ settings = Effective(world)
    /\ stage \in {"load", "snapshot", "subscribe", "serving"} \cup Calls \cup Ended
    /\ stage \notin {"load"} \cup Ended =>
         /\ start \in Endpoints /\ next \in Endpoints
         /\ offset \in 0 .. Len(Urls)
         /\ failures \in [Endpoints -> Nat] /\ backoff \subseteq Endpoints
         /\ {numberBy, nonceBy, wsIndex} \subseteq Endpoints \cup {0}
    /\ rpcHealthy \in BOOLEAN
    /\ server \in {"none", "starting", "listening", "failed"}

Init ==
    /\ world \in Worlds /\ settings = Effective(world)
    /\ stage = "load"
    /\ start = 1 /\ offset = 0 /\ next = 1
    /\ failures = <<>> /\ backoff = {}
    /\ numberBy = 0 /\ nonceBy = 0 /\ wsIndex = 0
    /\ rpcHealthy = FALSE /\ server = "none"

Exit(how) ==
    /\ stage' = how
    /\ UNCHANGED <<given, poolVars, gainVars, server>>

-----------------------------------------------------------------------------
(* Settings and server *)

\* The settings are rejected, or later the bind address.
LoadFails ==
    /\ stage = "load"
    /\ \/ ~Loads(settings)
       \/ Loads(settings) /\ ~settings.emergencyStop
            /\ settings.bindAddress # "valid"
    /\ Exit("exited")

Halt ==
    /\ stage = "load" /\ Loads(settings) /\ settings.emergencyStop
    /\ Exit("halted")

\* A call of attempt_providers begins, at the next endpoint of the rotation.
CallBegins ==
    start' = next /\ offset' = 0 /\ next' = (next % Len(Urls)) + 1

\* The task of the HTTP server is spawned, and connect has its endpoints; a URL
\* that is none ends it.
Connect ==
    /\ stage = "load" /\ Loads(settings)
    /\ ~settings.emergencyStop /\ settings.bindAddress = "valid"
    /\ server' = "starting"
    /\ failures' = [p \in Endpoints |-> 0]
    /\ IF \E p \in Endpoints : Urls[p] = "malformed"
       THEN stage' = "exited" /\ UNCHANGED <<start, offset, next>>
       ELSE stage' = "chainId" /\ CallBegins
    /\ UNCHANGED <<given, backoff, gainVars>>

\* The server's task: it listens, or it ends, on an error of bind or of accept,
\* with a warning that nobody acts on.
ServerGoesTo(state) ==
    /\ stage \notin Ended /\ server' = state
    /\ UNCHANGED <<given, stage, poolVars, gainVars>>

ServerListens == server = "starting" /\ ServerGoesTo("listening")

ServerFails == server \in {"starting", "listening"} /\ ServerGoesTo("failed")

-----------------------------------------------------------------------------
(* attempt_providers *)

\* The endpoint the call is at.
At == ((start - 1 + offset) % Len(Urls)) + 1

\* Mutants of AfterError: the first error ends the call; an endpoint is passed
\* over.
AfterError_Last == Len(Urls)
AfterError_Two == offset + 2

\* On to the next endpoint.
AfterError == offset + 1

InCall == stage \in Calls /\ offset < Len(Urls)

Skip ==
    /\ InCall /\ At \in backoff
    /\ offset' = offset + 1
    /\ UNCHANGED <<given, stage, start, next, failures, backoff, gainVars, server>>

\* record_failure.  An endpoint that speaks no HTTP never answers.
Failed(p) ==
    /\ failures' = [failures EXCEPT ![p] = @ + 1]
    /\ backoff' = backoff \cup {p}

RequestFails ==
    /\ InCall /\ At \notin backoff
    /\ Urls[At] = "http" => At \notin world.reliable
    /\ Failed(At) /\ offset' = AfterError
    /\ UNCHANGED <<given, stage, start, next, gainVars, server>>

\* Mutant of AfterAllFailed: no nonce is a warning.
AfterAllFailed_NoNonce == IF stage = "nonce" THEN "subscribe" ELSE "exited"

\* main returns the error of a call.
AfterAllFailed == "exited"

NoneAnswers ==
    /\ stage \in Calls /\ offset = Len(Urls)
    /\ stage' = AfterAllFailed
    /\ IF stage' \in Calls
       THEN CallBegins ELSE UNCHANGED <<start, offset, next>>
    /\ UNCHANGED <<given, failures, backoff, gainVars, server>>

\* record_success of endpoint p, which may answer the call of main.
Answers(p) ==
    /\ InCall /\ p = At /\ p \notin backoff /\ Urls[p] = "http"
    /\ failures' = [failures EXCEPT ![p] = 0]

\* The backoff of an endpoint is over.
BackoffOver(p) ==
    /\ stage \notin {"load"} \cup Ended /\ p \in backoff
    /\ backoff' = backoff \ {p}
    /\ UNCHANGED <<given, stage, start, offset, next, failures, gainVars, server>>

\* process_pending_hashes, which runs from Subscribe on, asks the same endpoints;
\* it moves the rotation, the counters and the backoffs.  (Once main serves, this
\* is ProviderPool.tla's.)
OtherCall(p) ==
    /\ stage \in {"number", "block", "gasPrice"}
    /\ p \notin backoff /\ p = next
    /\ next' = (next % Len(Urls)) + 1
    /\ \/ Urls[p] = "http" /\ failures' = [failures EXCEPT ![p] = 0]
          /\ UNCHANGED backoff
       \/ (Urls[p] = "http" => p \notin world.reliable)
          /\ failures[p] < UnhealthyAfter /\ Failed(p)  \* counting on is no news
    /\ UNCHANGED <<given, stage, start, offset, gainVars, server>>

-----------------------------------------------------------------------------
(* main, call by call *)

\* Mutant of OnConfiguredChain: the answer is not compared.
OnConfiguredChain_Unchecked(p) == TRUE

\* verify_chain_id compares the answer of the one endpoint that gave it.
OnConfiguredChain(p) == world.chain[p] = settings.chainId

ChainIdAnswered(p) ==
    /\ stage = "chainId" /\ Answers(p)
    /\ stage' = IF OnConfiguredChain(p) THEN "snapshot" ELSE "exited"
    /\ UNCHANGED <<given, start, offset, next, backoff, gainVars, server>>

IsHealthy(p) == failures[p] < UnhealthyAfter

\* health_snapshots, whose result /ready goes by from now on; then the executor,
\* with load_wallet, if there is a key.
Snapshot ==
    /\ stage = "snapshot"
    /\ rpcHealthy' = \E p \in Endpoints : IsHealthy(p)
    /\ IF ~ExecutionEnabled(settings)
       THEN stage' = "subscribe" /\ UNCHANGED <<start, offset, next>>
       ELSE IF settings.privateKey = "valid"
       THEN stage' = "nonce" /\ CallBegins
       ELSE stage' = "exited" /\ UNCHANGED <<start, offset, next>>
    /\ UNCHANGED <<given, failures, backoff, numberBy, nonceBy, wsIndex, server>>

\* sync_from_chain.
NonceAnswered(p) ==
    /\ stage = "nonce" /\ Answers(p)
    /\ nonceBy' = p /\ stage' = "subscribe"
    /\ UNCHANGED <<given, start, offset, next, backoff, numberBy, wsIndex,
                   rpcHealthy, server>>

\* websocket_url: of the first endpoint that is not unhealthy.
WebsocketUrl ==
    CHOOSE p \in Endpoints : IsHealthy(p) /\ \A q \in 1 .. p - 1 : ~IsHealthy(q)

\* subscribe derives the URL of the WebSocket, spawns subscription_loop with it and
\* process_pending_hashes, and returns.  Nothing connects here, and main does not
\* wait for it: connecting, subscribing and their failures are Mempool.tla's.
Subscribe ==
    /\ stage = "subscribe"
    /\ IF \E p \in Endpoints : IsHealthy(p)
       THEN wsIndex' = WebsocketUrl /\ stage' = "number" /\ CallBegins
       ELSE stage' = "exited" /\ UNCHANGED <<wsIndex, start, offset, next>>
    /\ UNCHANGED <<given, failures, backoff, numberBy, nonceBy, rpcHealthy, server>>

NumberAnswered(p) ==
    /\ stage = "number" /\ Answers(p)
    /\ numberBy' = p /\ stage' = "block" /\ CallBegins
    /\ UNCHANGED <<given, backoff, nonceBy, wsIndex, rpcHealthy, server>>

\* The block with that number; an endpoint that lags may not have it yet.
BlockAnswered(p) ==
    /\ stage = "block" /\ Answers(p)
    /\ stage' = "gasPrice" /\ CallBegins
    /\ UNCHANGED <<given, backoff, gainVars, server>>

BlockMissing(p) ==
    /\ stage = "block" /\ Answers(p) /\ p # numberBy /\ p \in world.lagging
    /\ stage' = "exited"
    /\ UNCHANGED <<given, start, offset, next, backoff, gainVars, server>>

\* The state is cached and the readiness flag set: main enters its loop.
GasPriceAnswered(p) ==
    /\ stage = "gasPrice" /\ Answers(p)
    /\ stage' = "serving"
    /\ UNCHANGED <<given, start, offset, next, backoff, gainVars, server>>

-----------------------------------------------------------------------------

Answered(p) ==
    \/ ChainIdAnswered(p) \/ NonceAnswered(p) \/ NumberAnswered(p)
    \/ BlockAnswered(p) \/ BlockMissing(p) \/ GasPriceAnswered(p)

MainStep ==
    \/ LoadFails \/ Halt \/ Connect \/ Snapshot \/ Subscribe
    \/ Skip \/ RequestFails \/ NoneAnswers
    \/ \E p \in Endpoints : Answered(p)

Next ==
    \/ MainStep \/ ServerListens \/ ServerFails
    \/ \E p \in Endpoints : BackoffOver(p) \/ OtherCall(p)

Spec == Init /\ [][Next]_vars

\* main is scheduled, and requests are under a timeout.
FairSpec == Spec /\ WF_vars(MainStep)

-----------------------------------------------------------------------------
(* Safety *)

\* What an accepted setting is good for: the assumptions of Transaction,
\* Profitability, RiskAssessment, Executor, ProviderPool and Runtime.  Not
\* asked of NaN and of bounds below zero, which validate lets through.
MeetsAssumptions(c) ==
    /\ c.minGas < c.maxGas /\ c.bump > 0 /\ c.minRoi > 0 /\ c.minValue >= 0
    /\ c.maxFailures > 0 /\ c.maxSpend > 0 /\ c.maxRisk \in 1 .. 100
    /\ c.softCap \in 0 .. 100 /\ c.workers > 0 /\ Urls # <<>>

HasNaN(c) ==
    NaN \in {c.maxGas, c.minGas, c.bump, c.minRoi, c.minValue, c.maxSpend,
             c.softCap}

\* From the first request on the settings in force meet the assumptions the
\* other modules make, wherever each of them was set, and an emergency stop in
\* the environment is not undone by another source.
StartsAsConfigured ==
    stage \notin {"load"} \cup Ended =>
       /\ HasNaN(settings) \/ MeetsAssumptions(settings)
       /\ "emergencyStop" \in DOMAIN world.env => ~world.env.emergencyStop

\* One answer is compared and four calls may be answered by any endpoint: when
\* the endpoints are on one chain it is the configured one, for the nonce, the
\* network state and the WebSocket's URL alike.
OneChain ==
    \A p, q \in Endpoints :
       Urls[p] = "http" /\ Urls[q] = "http" => world.chain[p] = world.chain[q]
ConfiguredChainOnly ==
    stage \notin {"load", "chainId"} \cup Ended /\ OneChain =>
       \A p \in Endpoints : Urls[p] = "http" => world.chain[p] = settings.chainId

\* GET /ready is answered with 200.
Ready == server = "listening" /\ stage = "serving" /\ rpcHealthy

\* While /ready says yes, whatever calls have failed on the way, main has a network
\* state, and the nonce if and only if it may submit.  /ready says no more: not
\* that a WebSocket has ever connected (main.rs:112 only has its tasks spawned),
\* and not that an endpoint is healthy now (rpc_healthy is computed at main.rs:86
\* and never again).
ReadyAfterStartup ==
    Ready => /\ numberBy # 0
             /\ nonceBy # 0 <=> ExecutionEnabled(settings)

(* Liveness *)

\* The bot comes up on any one endpoint that answers, whatever the others do,
\* if all are on the configured chain and do not lag behind each other.
Promising ==
    /\ Loads(settings) /\ ~settings.emergencyStop
    /\ settings.bindAddress = "valid" /\ settings.privateKey \in {"", "valid"}
    /\ \A p \in Endpoints : Urls[p] \in {"http", "ws"}
    /\ \E p \in Endpoints : Urls[p] = "http" /\ p \in world.reliable
    /\ \A p \in Endpoints : world.chain[p] = settings.chainId
    /\ world.lagging = {}
StartupSucceeds == Promising => <>(stage = "serving")

=============================================================================
