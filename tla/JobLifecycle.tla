---------------------------- MODULE JobLifecycle ----------------------------
(***************************************************************************)
(* What the shared Job repository promises its callers, with its rows,     *)
(* snapshots and compare-and-swap left out: a Job is admitted once, moves  *)
(* along CanTransitionTo, stops in a terminal state, and a cancellation    *)
(* request that arrives before the Job is terminal excludes success for    *)
(* good.  The promise is the one the comment on job.Store makes:           *)
(* "observedCancelGeneration prevents a worker from sealing success after  *)
(* a newer cancellation request" (internal/job/job.go:141-143).            *)
(***************************************************************************)
EXTENDS Job

CONSTANT Jobs               \* Job identities

VARIABLES
    state,                  \* [Jobs -> Status \cup {"absent"}]
    canceling               \* the Jobs whose cancellation was requested

lvars == <<state, canceling>>

LInit ==
    /\ state = [j \in Jobs |-> "absent"]
    /\ canceling = {}

Admit(j) ==
    /\ state[j] = "absent"
    /\ state' = [state EXCEPT ![j] = "queued"]
    /\ UNCHANGED canceling

Move(j, next) ==
    /\ CanTransitionTo(state[j], next)
    /\ next = "succeeded" => j \notin canceling
    /\ state' = [state EXCEPT ![j] = next]
    /\ UNCHANGED canceling

AskCancel(j) ==
    /\ Recoverable(state[j])
    /\ canceling' = canceling \cup {j}
    /\ UNCHANGED state

LNext ==
    \E j \in Jobs :
        \/ Admit(j)
        \/ \E next \in Status : Move(j, next)
        \/ AskCancel(j)

LSpec == LInit /\ [][LNext]_lvars
=============================================================================
