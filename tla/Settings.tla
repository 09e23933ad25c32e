------------------------------ MODULE Settings ------------------------------
(***************************************************************************)
(* Settings::load (src/src/config/settings.rs): the sources in the order   *)
(* of their priority, the forms of rpc_urls, and validate.                 *)
(*                                                                         *)
(* A source is a function from some of the keys to values.  The f64 of a   *)
(* key is an integer in a unit of its own, or NaN; a key that only logging *)
(* or the analysis of Analysis.tla reads without a check is left out.      *)
(***************************************************************************)
EXTENDS Integers, Sequences

CONSTANT NaN   \* f64::NAN, which `nan' is parsed to, and which no test catches

ASSUME NaNAssumption == NaN \notin Int

\* The comparisons of f64: none holds of NaN.
AtMost(x, y) == x # NaN /\ y # NaN /\ x =< y
Less(x, y) == x # NaN /\ y # NaN /\ x < y

\* A URL by what becomes of it: "http" and "ws" by scheme, "malformed" if no
\* more than a scheme, "other" with another scheme or none, or "empty".  An
\* rpc_urls is a string or a list: [form |-> ..., urls |-> ...].
ListOf(urls) == [form |-> "list", urls |-> urls]

\* The built-in defaults.  Rates are in percent, prices in gwei, and the spend
\* limit in thousandths of an ether.
Defaults ==
    [rpcUrls |-> ListOf(<<"http">>), chainId |-> 1,
     maxGas |-> 500, minGas |-> 1, bump |-> 15, minRoi |-> 15, minValue |-> 100,
     maxFailures |-> 5, maxSpend |-> 1000, emergencyStop |-> FALSE,
     privateKey |-> "", maxRisk |-> 70, softCap |-> 80,
     bindAddress |-> "valid", workers |-> 8]

\* A source that is added after another one: its keys override the other's.
Over(source, others) ==
    [key \in DOMAIN source \cup DOMAIN others |->
       IF key \in DOMAIN source THEN source[key] ELSE others[key]]

\* Mutant of Priority: the file is added after the environment.
Priority_FileLast(env, dotenv, file) ==
    Over(file, Over(env, Over(dotenv, Defaults)))

\* load_from_sources.  dotenv sets only variables that are not set yet.
Priority(env, dotenv, file) == Over(env, Over(dotenv, Over(file, Defaults)))

\* resolve_config_path and exists: a file that is not there is no error, and
\* leaves its keys to the defaults.
Effective(s) ==
    Priority(s.env, s.dotenv, IF s.fileExists THEN s.file ELSE <<>>)

\* deserialize_rpc_urls.
NotEmpty(url) == url # "empty"
RpcUrls(raw) ==
    IF raw.form = "comma" THEN SelectSeq(raw.urls, NotEmpty) ELSE raw.urls

\* try_deserialize: unsigned integers of their width, and no broken JSON.
Deserialises(c) ==
    /\ c.rpcUrls.form # "broken"
    /\ c.chainId >= 0 /\ c.maxFailures >= 0 /\ c.workers >= 0
    /\ c.maxRisk \in 0 .. 255

\* Mutant of MaxRiskValid: the upper bound is not tested.
MaxRiskValid_NoUpper(c) == c.maxRisk # 0
MaxRiskValid(c) == c.maxRisk # 0 /\ c.maxRisk =< 100

UrlsValid(urls) ==
    /\ urls # <<>>
    /\ \A i \in DOMAIN urls : urls[i] \in {"http", "ws", "malformed"}

\* validate.  It rejects what it finds too small or too large, except for
\* soft_gas_cap_ratio, which must be found inside its range.
Validates(c) ==
    /\ UrlsValid(RpcUrls(c.rpcUrls))
    /\ ~AtMost(c.maxGas, c.minGas)
    /\ ~AtMost(c.bump, 0) /\ ~AtMost(c.minRoi, 0) /\ ~Less(c.minValue, 0)
    /\ c.maxFailures # 0 /\ ~AtMost(c.maxSpend, 0)
    /\ MaxRiskValid(c)
    /\ AtMost(0, c.softCap) /\ AtMost(c.softCap, 100)
    /\ c.workers # 0

\* Settings::load succeeds with what the sources make.
Loads(c) == Deserialises(c) /\ Validates(c)

\* ReplacementExecutor::execution_enabled.
ExecutionEnabled(c) == c.privateKey # "" /\ ~c.emergencyStop

=============================================================================
