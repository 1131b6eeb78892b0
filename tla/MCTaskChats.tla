------------------------------ MODULE MCTaskChats ------------------------------
(* TaskChats on small sets; runs and managers are interchangeable.            *)
EXTENDS TaskChats, TLC

Symmetry == Permutations(Worker) \cup Permutations(Cleaner) \cup Permutations(Manager)
===============================================================================
