-------------------------------- MODULE Job --------------------------------
(***************************************************************************)
(* The durable work protocol shared by every capability of Eco Guardian    *)
(* (internal/job/job.go): the states of a Job and the transitions between  *)
(* them.  Constant-level operators only; the modules that keep Jobs extend *)
(* this one.                                                               *)
(***************************************************************************)

Status == {"queued", "running", "succeeded", "failed", "canceled", "interrupted"}

Terminal(s) == s \in {"succeeded", "failed", "canceled"}

(* Status.CanTransitionTo, the relation of the shared repository.          *)
CanTransitionTo(s, next) ==
    \/ /\ s = "queued"
       /\ next \in {"running", "failed", "canceled", "interrupted"}
    \/ /\ s = "running"
       /\ next \in {"succeeded", "failed", "canceled", "interrupted"}
    \/ /\ s = "interrupted"
       /\ next \in {"succeeded", "failed", "canceled"}

(* The three states ListRecoverableJobs scans after a restart.             *)
Recoverable(s) == s \in {"queued", "running", "interrupted"}
=============================================================================
