------------------------------ MODULE MCBackup ------------------------------
(***************************************************************************)
(* Two requests at a time.  Four loads keep the state space small: a date  *)
(* with retries and two failures; two dates, so that with a limit of one   *)
(* the second backup prunes the first, which a restore may be reading;     *)
(* writes with a manual backup; and a manual backup with releases that     *)
(* prune each other.                                                       *)
(***************************************************************************)
EXTENDS Backup, TLC

Load(kinds, dates, failures, artifacts) ==
    [kinds |-> kinds, dates |-> dates, trouble |-> failures, artifacts |-> artifacts]

MCLoads == {Load({"write", "retry"}, 1, 2, 0),
            Load({"write", "restore"}, 2, 1, 0),
            Load({"write", "manual"}, 1, 1, 0),
            Load({"release", "manual"}, 1, 1, 3)}

Symmetry == Permutations(Procs)
=============================================================================
