----------------------------- MODULE ReportReview -----------------------------
(***************************************************************************)
(* What the task report API promises its users, without sessions, locks or  *)
(* columns: a report is worked on while its task is open, handing it in      *)
(* freezes it, and only the decision of the leader sends it back to the      *)
(* members.  TaskReports implements this specification for the operations    *)
(* of the API (see README).                                                  *)
(***************************************************************************)
EXTENDS FiniteSets, Naturals

CONSTANTS Comment,     \* values of the report's comment, the empty one included
          Photo,       \* photos that can be attached
          PhotoLimit   \* most photos a report may hold

VARIABLES phase,       \* "open", "submitted" (awaits the leader) or "completed"
          comment,     \* the comment of the report
          photos       \* the photos attached to it

vars == <<phase, comment, photos>>

Init == phase = "open" /\ photos = {} /\ comment \in Comment

\* A member changes the comment or the photos of a report still being written.
Edit ==
    /\ phase = "open"
    /\ phase' = "open"
    /\ comment' \in Comment
    /\ photos' \in SUBSET Photo
    /\ Cardinality(photos') <= PhotoLimit

\* A member hands the report in: a group task waits for its leader, an
\* individual task is completed at once.
HandIn ==
    /\ phase = "open"
    /\ phase' \in {"submitted", "completed"}
    /\ comment' \in Comment
    /\ UNCHANGED photos

\* The leader accepts the report or sends it back.
Decide ==
    /\ phase = "submitted"
    /\ phase' \in {"open", "completed"}
    /\ UNCHANGED <<comment, photos>>

Next == Edit \/ HandIn \/ Decide

Spec == Init /\ [][Next]_vars
===============================================================================
