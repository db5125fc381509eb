---------------------------- MODULE MCThreadPool ----------------------------
(* Small instances of ThreadPool for TLC. *)
EXTENDS ThreadPool, TLC

CONSTANTS s1, s2, t1, t2, t3

MCSubmitters == {s1, s2}
MCOneSubmitter == {s1}
MCTasks == {t1, t2, t3}

(* Tasks and outside callers are interchangeable; workers are scanned in   *)
(* order and are not.                                                      *)
MCSymmetry == Permutations(MCTasks) \cup Permutations(MCSubmitters)
=============================================================================
