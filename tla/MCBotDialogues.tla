---------------------------- MODULE MCBotDialogues ----------------------------
(* BotDialogues on small sets; slots, people and targets are interchangeable.  *)
(* A race needs the dialogue of a handler in flight and the one begun          *)
(* meanwhile: the wizards with each other, a wizard with a question whose      *)
(* target it overwrites and with one that has a key of its own, questions that *)
(* share a key of the data, and questions that do not.                         *)
EXTENDS BotDialogues, TLC

MixedDialogues ==
    {{"issue", "new_event"}, {"issue", "retention"}, {"new_event", "comment"},
     {"edit", "item", "photo"}, {"member", "retention"}, {"return_reason", "sector"}}

Symmetry == Permutations(Slot) \cup Permutations(User) \cup Permutations(Target)
===============================================================================
