----------------------------- MODULE MCChatMembers -----------------------------
(* ChatMembers on small sets.                                                 *)
EXTENDS ChatMembers, TLC
===============================================================================
