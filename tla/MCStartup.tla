----------------------------- MODULE MCStartup -----------------------------
(* Startup for TLC: settings with one thing unusual on good endpoints, and   *)
(* good settings on any two or three endpoints.                              *)
EXTENDS Startup, TLC

Plain ==
    [env |-> <<>>, dotenv |-> <<>>, file |-> <<>>, fileExists |-> TRUE,
     chain |-> <<1, 1, 1>>, reliable |-> {1}, lagging |-> {}]

\* One key set to a value that is at, or beyond, a bound.
OddSettings ==
    {[maxGas |-> v] : v \in {NaN, 1, 0, -1}} \cup {[minGas |-> v] : v \in {NaN, -1}}
    \cup {[bump |-> v] : v \in {NaN, 0}} \cup {[minRoi |-> v] : v \in {-1, 0}}
    \cup {[minValue |-> v] : v \in {-1, 0}} \cup {[maxSpend |-> v] : v \in {NaN, 0}}
    \cup {[maxFailures |-> v] : v \in {-1, 0, 1}}
    \cup {[maxRisk |-> v] : v \in {0, 1, 100, 101, 256}}
    \cup {[softCap |-> v] : v \in {NaN, -1, 0, 100, 101}}
    \cup {[workers |-> v] : v \in {0, 1}} \cup {[chainId |-> v] : v \in {-1, 2}}
    \cup {[bindAddress |-> "invalid"]}
    \cup {[privateKey |-> v] : v \in {"valid", "invalid"}}
    \cup {[emergencyStop |-> v] : v \in BOOLEAN}

UrlSettings(form, urls) == [rpcUrls |-> [form |-> form, urls |-> urls]]

OddUrls ==
    {UrlSettings("list", urls) :
       urls \in {<<>>, <<"empty">>, <<"http", "malformed">>, <<"other">>, <<"ws">>}}
    \cup {UrlSettings("comma", <<"http", "empty", "http">>),
          UrlSettings("comma", <<"empty", "empty">>),
          UrlSettings("single", <<"empty">>), UrlSettings("broken", <<>>)}

\* In the file, in a file that is not there, in the environment over a file.
Sourced ==
    {[Plain EXCEPT !.file = s] : s \in OddSettings \cup OddUrls}
    \cup {[Plain EXCEPT !.file = s, !.fileExists = FALSE] : s \in OddSettings}
    \cup {[Plain EXCEPT !.env = s, !.file = t, !.dotenv = t] :
            s \in {[emergencyStop |-> v] : v \in BOOLEAN},
            t \in {[emergencyStop |-> v] : v \in BOOLEAN}}

On(urls, key, chain, reliable, lagging) ==
    [Plain EXCEPT !.file = UrlSettings("list", urls) @@ key,
                  !.chain = chain, !.reliable = reliable, !.lagging = lagging]

Keys == {<<>>, [privateKey |-> "valid"]}
Pairs == {<<"http", "http">>, <<"ws", "http">>}

\* Two endpoints on any chains that fail and lag as they like; two or three of
\* which one can be relied on.
Networked ==
    {On(urls, key, chain, {}, {2}) :
       urls \in Pairs, key \in Keys,
       chain \in {<<1, 1, 1>>, <<2, 1, 1>>, <<1, 2, 2>>, <<2, 2, 2>>}}
    \cup {On(urls, key, <<1, 1, 1>>, {p}, {}) :
             urls \in Pairs, key \in Keys, p \in {1, 2}}
    \cup {On(<<"http", "http", "http">>, key, <<1, 1, 1>>, {3}, {}) :
             key \in Keys}

MCWorlds == Sourced \cup Networked
=============================================================================
