--------------------------------- MODULE Outbox --------------------------------
(***************************************************************************)
(* What the transactional outbox promises those who write to it, whatever    *)
(* an event is about: an event is never lost, one run at a time has it, the   *)
(* events of a run are handled in the order they were written, and an event  *)
(* is settled only after its handler ended well, or as often in vain as it   *)
(* may be tried.  A run that crashes forgets what it has handled, so an      *)
(* event may be handled again: at least once, not once.  TaskChats           *)
(* implements this specification.                                            *)
(***************************************************************************)
EXTENDS Naturals

CONSTANTS Event,        \* events, numbered in the order they are written
          Worker,       \* runs of process_outbox
          MaxAttempts   \* _MAX_OUTBOX_ATTEMPTS

VARIABLES status,       \* status[e]: "unwritten", "pending" or "settled"
          attempts,     \* attempts[e]: how often it was handled and booked
          lease,        \* lease[w]: the events run w has locked
          outcome       \* outcome[w][e]: how run w ended with it, "none" so far

vars == <<status, attempts, lease, outcome>>

NoOutcome == [e \in Event |-> "none"]

Init ==
    /\ status \in [Event -> {"unwritten", "pending"}]
    /\ attempts = [e \in Event |-> 0]
    /\ lease = [w \in Worker |-> {}]
    /\ outcome = [w \in Worker |-> NoOutcome]

\* A request writes an event, together with what it is about.
Write(e) ==
    /\ status[e] = "unwritten"
    /\ \A f \in Event : f < e => status[f] # "unwritten"
    /\ status' = [status EXCEPT ![e] = "pending"]
    /\ attempts' = [attempts EXCEPT ![e] = 0]
    /\ UNCHANGED <<lease, outcome>>

\* A run locks some pending events that no other run has.
Lock(w) ==
    /\ lease[w] = {}
    /\ \E due \in SUBSET {e \in Event : status[e] = "pending"} :
          /\ \A v \in Worker : due \cap lease[v] = {}
          /\ lease' = [lease EXCEPT ![w] = due]
    /\ UNCHANGED <<status, attempts, outcome>>

\* The events a run has yet to handle.
Waiting(w) == {e \in lease[w] : outcome[w][e] = "none"}

\* The handler of the next event has committed its own work, or raised.
HandlerEnds(w, e) ==
    /\ e \in Waiting(w) /\ \A f \in Waiting(w) : e <= f
    /\ \E o \in {"done", "error"} : outcome' = [outcome EXCEPT ![w][e] = o]
    /\ UNCHANGED <<status, attempts, lease>>

\* Event e is not tried again after the attempt that run w made.
Last(w, e) == outcome[w][e] = "done" \/ attempts[e] + 1 >= MaxAttempts

\* Everything was handled: the run commits what came of it and ends.
Book(w) ==
    /\ Waiting(w) = {}
    /\ status' = [e \in Event |-> IF e \in lease[w] /\ Last(w, e) THEN "settled" ELSE status[e]]
    /\ attempts' = [e \in Event |-> IF e \in lease[w] THEN attempts[e] + 1 ELSE attempts[e]]
    /\ lease' = [lease EXCEPT ![w] = {}]
    /\ outcome' = [outcome EXCEPT ![w] = NoOutcome]

\* A run crashes: its locks are gone, and what it knew of its events.
Lose(w) ==
    /\ lease' = [lease EXCEPT ![w] = {}]
    /\ outcome' = [outcome EXCEPT ![w] = NoOutcome]
    /\ UNCHANGED <<status, attempts>>

\* What the events are about is deleted, and they with it, while no run has one.
Withdraw ==
    /\ \A w \in Worker : lease[w] = {}
    /\ status' = [e \in Event |-> IF status[e] = "pending" THEN "settled" ELSE status[e]]
    /\ UNCHANGED <<attempts, lease, outcome>>

Next ==
    \/ \E e \in Event : Write(e)
    \/ \E w \in Worker :
          Lock(w) \/ (\E e \in Event : HandlerEnds(w, e)) \/ Book(w) \/ Lose(w)
    \/ Withdraw

Spec == Init /\ [][Next]_vars
===============================================================================
