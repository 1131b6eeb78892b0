---------------------------- MODULE MCTaskReports ----------------------------
(* TaskReports on small sets: which operations the clients use is chosen in  *)
(* the configuration of each run.                                            *)
EXTENDS TaskReports, TLC

Symmetry == Permutations(Session) \cup Permutations(Photo)
==============================================================================
