------------------------------- MODULE MCRuntime -------------------------------
(* Each mode of the Graph settings: a bundled service that may be launched      *)
(* again on another port or after its exit, one that competes with an external  *)
(* service, and one that is reconnected, before and after the process started.  *)
EXTENDS RuntimeLifecycle

MCSettings ==
    {[mode |-> "disabled", endpoint |-> FALSE, attempts |-> 1, launches |-> 1,
      starts |-> 0, requests |-> 1],
     [mode |-> "external", endpoint |-> TRUE, attempts |-> 1, launches |-> 1,
      starts |-> 0, requests |-> 1],
     [mode |-> "bundled", endpoint |-> TRUE, attempts |-> 2, launches |-> 2,
      starts |-> 1, requests |-> 0],
     [mode |-> "bundled", endpoint |-> TRUE, attempts |-> 1, launches |-> 1,
      starts |-> 1, requests |-> 1],
     [mode |-> "bundled", endpoint |-> FALSE, attempts |-> 1, launches |-> 1,
      starts |-> 2, requests |-> 1]}
=============================================================================
