---------------------------- MODULE MCEventArchive ----------------------------
(* EventArchive on small sets: a task with a working group and a photo, and a   *)
(* task without.                                                              *)
EXTENDS EventArchive, TLC

CONSTANTS t1, t2, p1

TaskOfPhoto == p1 :> t1
===============================================================================
