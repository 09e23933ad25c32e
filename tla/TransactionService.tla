------------------------- MODULE TransactionService -------------------------
(***************************************************************************)
(* What main and its workers promise to whoever sends transactions,        *)
(* whatever the cache, the refresh and the detector do: transactions are   *)
(* taken in the order in which they came, and only while the service is    *)
(* up; at most WorkerCount of them are worked on at a time; executions     *)
(* are made one at a time, in the order in which they were asked for; and  *)
(* nothing is taken once the service drains.                               *)
(***************************************************************************)
EXTENDS Naturals, FiniteSets, Sequences

CONSTANTS Txs, WorkerCount

VARIABLES
    phase,     \* "starting", "serving", "draining" or "stopped"
    queued,    \* the transactions that have come and are not worked on yet
    working,   \* those that are worked on
    line       \* of these, the ones that are executed, the first one now

vars == <<phase, queued, working, line>>

Holds(seq, tx) == \E i \in 1 .. Len(seq) : seq[i] = tx

Init ==
    /\ phase = "starting"
    /\ queued = <<>> /\ working = {} /\ line = <<>>

\* A transaction is nowhere in the service when it comes.
Come(tx) ==
    /\ phase # "stopped"
    /\ ~Holds(queued, tx) /\ tx \notin working
    /\ queued' = Append(queued, tx)
    /\ UNCHANGED <<phase, working, line>>

\* The one that has waited longest is given to a worker.
Take ==
    /\ phase = "serving" /\ queued # <<>>
    /\ Cardinality(working) < WorkerCount
    /\ working' = working \cup {Head(queued)}
    /\ queued' = Tail(queued)
    /\ UNCHANGED <<phase, line>>

\* It turns out to be an opportunity, and queues up for its execution.
Ask(tx) ==
    /\ phase # "stopped"
    /\ tx \in working /\ ~Holds(line, tx)
    /\ line' = Append(line, tx)
    /\ UNCHANGED <<phase, queued, working>>

\* It is settled: turned down, or executed.
TurnDown(tx) ==
    /\ phase # "stopped"
    /\ tx \in working /\ ~Holds(line, tx)
    /\ working' = working \ {tx}
    /\ UNCHANGED <<phase, queued, line>>

FinishExecution ==
    /\ phase # "stopped" /\ line # <<>> /\ Head(line) \in working
    /\ working' = working \ {Head(line)}
    /\ line' = Tail(line)
    /\ UNCHANGED <<phase, queued>>

\* The service comes up or fails to, is told to stop, and stops.
Move(from, to) ==
    /\ phase = from /\ phase' = to
    /\ UNCHANGED <<queued, working, line>>

Next ==
    \/ \E tx \in Txs : Come(tx) \/ Ask(tx) \/ TurnDown(tx)
    \/ Take \/ FinishExecution
    \/ Move("starting", "serving") \/ Move("starting", "stopped")
    \/ Move("serving", "draining") \/ Move("draining", "stopped")

Spec == Init /\ [][Next]_vars

=============================================================================
