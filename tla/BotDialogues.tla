----------------------------- MODULE BotDialogues -----------------------------
(***************************************************************************)
(* The dialogues of one manager with the bot: the wizards that issue a task  *)
(* and create an event, and the dialogues of one question (a new title, a    *)
(* comment, a photo, a member, a date, a sector).                            *)
(*                                                                           *)
(* aiogram handles every update in an asyncio task of its own, so handlers   *)
(* for the same chat overlap.  The state filter is evaluated when an update  *)
(* is dispatched.  A handler is suspended only while it waits for the        *)
(* database or Telegram: the FSM storage is a dictionary in memory whose     *)
(* calls never yield, so what lies between two waits is one step here.  A    *)
(* restart of the process forgets every dialogue.                            *)
(*                                                                           *)
(* Texts, dates, the page and mode of the people picker, the participants of *)
(* an event and the checks that only refuse an answer are left out.          *)
(***************************************************************************)
EXTENDS Integers, FiniteSets, Functions

CONSTANTS Slot,       \* updates that are being handled at the same time
          User,       \* people who can be picked
          Creator,    \* the manager
          Target,     \* tasks, events and users a question can be about
          NoOne,      \* a key the data of the dialogue does not have
          Menus,      \* bound: dialogues a behaviour mixes, one of these sets
          MaxPasses,  \* bound: wizards ever started
          MaxBeside,  \* bound: those started in a behaviour that mixes in questions
          MaxDoubts   \* bound: commits of a wizard that are carried out but reported as failed

ASSUME PeopleAssumption == /\ Creator \notin User /\ NoOne \notin User \cup Target
                           /\ NoOne # Creator
                           /\ IsFiniteSet(User)
ASSUME PassAssumption == MaxPasses \in Nat /\ MaxBeside \in Nat /\ MaxDoubts \in Nat

Pass == 1..MaxPasses

TaskIssue == {"title", "description", "event", "kind", "people", "leader", "deadline",
              "checklist"}
EventCreateFlow == {"e_title", "e_starts_at", "e_ends_at", "e_budget", "e_description",
                    "e_people"}
Question == {"edit", "member", "item", "comment", "photo", "return_reason", "retention",
             "sector"}
Dialogue == Question \cup {"issue", "new_event"}
DialogueState == TaskIssue \cup EventCreateFlow \cup Question \cup {"none"}

\* Where the data of a dialogue keeps what its question is about.
Keys == {"task_id", "event_id", "admin_sector_user_id"}
Key(q) == CASE q = "retention" -> "event_id"
            [] q = "sector"    -> "admin_sector_user_id"
            [] OTHER           -> "task_id"

\* The data of the dialogue.  Three fields are not in the code: pass, the wizard the
\* data belongs to; asked, what the last question was about; late, whether a handler
\* changed the selection after it was over, or led to the wizard without a title.
Data == [pass : 0..MaxPasses, asked : Target \cup {NoOne}, late : BOOLEAN,
         titled : BOOLEAN, dated : BOOLEAN,
         kind : {"none", "individual", "group"},
         people : SUBSET User, leader : User \cup {Creator, NoOne},
         target : [Keys -> Target \cup {NoOne}]]
NoData == [pass |-> 0, asked |-> NoOne, late |-> FALSE, titled |-> FALSE, dated |-> FALSE,
           kind |-> "none", people |-> {}, leader |-> NoOne,
           target |-> [k \in Keys |-> NoOne]]

\* A handler: what it does, the wait it is in, the data it holds, the person it
\* was given, and whether another question was put, or for an answer about an event
\* another event chosen, before it read the data.
Wizardry == {"issue", "new_event", "describe", "done", "toggle", "search",
             "create_task", "create_event", "clear"}
Handler == [what : Wizardry \cup Question \cup {"idle", "ask"},
            at : {"sync", "work", "clear"}, data : Data,
            pick : User \cup {NoOne}, disturbed : BOOLEAN]
Idle == [what |-> "idle", at |-> "sync", data |-> NoData, pick |-> NoOne,
         disturbed |-> FALSE]

ASSUME MenuAssumption == Menus \subseteq SUBSET Dialogue

VARIABLES
    menu,       \* dialogues this behaviour mixes; never changes
    state,      \* FSM state of the chat
    data,       \* FSM data of the chat
    flight,     \* flight[s]: the handler that is suspended in slot s
    passes,     \* wizards started so far
    created,    \* created[p]: tasks or events that came of wizard p
    doubts,     \* doubts[p]: those of them whose commit was reported as failed
    overlapped  \* wizards a last answer was for while another one was being handled

ghosts == <<menu, passes, created, doubts, overlapped>>
vars   == <<state, data, flight, ghosts>>

TypeOK ==
    /\ menu \in Menus
    /\ state \in DialogueState
    /\ data \in Data
    /\ flight \in [Slot -> Handler]
    /\ passes \in 0..MaxPasses
    /\ created \in [Pass -> Nat] /\ doubts \in [Pass -> Nat]
    /\ overlapped \subseteq Pass
-------------------------------------------------------------------------------
(* Steps of every handler.                                                    *)

\* state.set_state and state.update_data of a handler that does not wait.
Goto(next, d) == state' = next /\ data' = d /\ UNCHANGED <<flight, ghosts>>

Suspend(s, h) == flight[s] = Idle /\ flight' = [flight EXCEPT ![s] = h]

Resumes(s, what, at) == flight[s].what = what /\ flight[s].at = at

Ends(s) == flight' = [flight EXCEPT ![s] = Idle]

\* state.clear()
Clear == state' = "none" /\ data' = NoData

\* A handler that waits for the database before it does anything.
Dispatch(s, what) ==
    /\ Suspend(s, [Idle EXCEPT !.what = what])
    /\ UNCHANGED <<state, data, ghosts>>

\* /cancel, and /start of a registered user.
CancelAction(s) == Dispatch(s, "clear")

ResumeClear(s) ==
    /\ Resumes(s, "clear", "sync")
    /\ Clear /\ Ends(s) /\ UNCHANGED ghosts

\* The process stops: what was not committed is lost, and so is every dialogue.
Restart ==
    /\ Clear
    /\ flight' = [s \in Slot |-> Idle]
    /\ UNCHANGED ghosts
-------------------------------------------------------------------------------
(* The wizard that issues a task.                                             *)

StartWizard(s, what) ==
    /\ what \in menu
    /\ passes < MaxPasses /\ (menu \cap Question # {} => passes < MaxBeside)
    /\ passes' = passes + 1
    /\ Suspend(s, [Idle EXCEPT !.what = what, !.data.pass = passes + 1])
    /\ UNCHANGED <<menu, state, data, created, doubts, overlapped>>

IssueTaskStart(s) == StartWizard(s, "issue")

ResumeIssue(s) ==
    /\ Resumes(s, "issue", "sync")
    /\ state' = "title" /\ data' = flight[s].data
    /\ Ends(s) /\ UNCHANGED ghosts

IssueTaskTitle == state = "title" /\ Goto("description", [data EXCEPT !.titled = TRUE])

\* The events are read before the state is set, whatever it is by then.
IssueTaskDescription(s) == state = "description" /\ Dispatch(s, "describe")

ResumeDescription(s) ==
    /\ Resumes(s, "describe", "sync")
    /\ state' = "event"
    /\ data' = [data EXCEPT !.late = @ \/ ~data.titled]
    /\ Ends(s) /\ UNCHANGED ghosts

\* The event of the task, or none, under the key that an answer about the retention of
\* an event reads.
IssueTaskEvent(t) ==
    /\ state = "event" /\ state' = "kind"
    /\ data' = [data EXCEPT !.target["event_id"] = t]
    /\ flight' = [s \in Slot |-> IF flight[s].what = "retention" /\ flight[s].at = "sync"
                                 THEN [flight[s] EXCEPT !.disturbed = TRUE] ELSE flight[s]]
    /\ UNCHANGED ghosts

\* Mutant of OfKind: the selection and the leader are kept.
KindChanged(k) == [data EXCEPT !.kind = k]

OfKind(k) == [data EXCEPT !.kind = k, !.people = {}, !.leader = NoOne]

IssueTaskKind(k) == state = "kind" /\ Goto("people", OfKind(k))

\* Mutant of Pickable: the manager can pick themselves.
AnybodyPickable == User \cup {Creator}

\* The manager is excluded from the search and refused by the button.
Pickable == User

\* A name that is typed adds, a button toggles.
PickPerson(s, how, u) ==
    /\ state = "people"
    /\ Suspend(s, [Idle EXCEPT !.what = how, !.pick = u])
    /\ UNCHANGED <<state, data, ghosts>>

IssueTaskPeople(s) == \E u \in Pickable : PickPerson(s, "search", u)
IssueTaskPerson(s) == \E u \in Pickable : PickPerson(s, "toggle", u)

\* The selection is read, and the person looked up.
ReadSelection(s) ==
    /\ Resumes(s, "search", "sync") \/ Resumes(s, "toggle", "sync")
    /\ flight' = [flight EXCEPT ![s].at = "work",
                                ![s].data = [NoData EXCEPT !.people = data.people]]
    /\ UNCHANGED <<state, data, ghosts>>

\* The selection that was read, with one person more or less, is written over
\* whatever the selection is now.
WriteSelection(s) ==
    LET before == flight[s].data.people
        person == {flight[s].pick}
        With(people) == [data EXCEPT !.people = people, !.late = @ \/ state # "people"]
    IN  /\ Resumes(s, "search", "work") \/ Resumes(s, "toggle", "work")
        /\ data' = IF ~ person \subseteq before
                   THEN With(before \cup person)
                   ELSE IF flight[s].what = "toggle"
                        THEN With(before \ person) ELSE data
        /\ Ends(s) /\ UNCHANGED <<state, ghosts>>

\* "-" and the button that ends the selection.
IssueTaskPeopleDone(s) == state = "people" /\ Dispatch(s, "done")

FinishTaskPeople(s) ==
    /\ Resumes(s, "done", "sync")
    /\ state' = CASE data.kind = "group" /\ data.people # {} -> "leader"
                  [] data.kind = "individual" /\ Cardinality(data.people) = 1 -> "deadline"
                  [] OTHER -> state
    /\ Ends(s) /\ UNCHANGED <<data, ghosts>>

IssueTaskLeader(l) ==
    /\ state = "leader" /\ l \in data.people \cup {Creator}
    /\ Goto("deadline", [data EXCEPT !.leader = l])

IssueTaskDeadline == state = "deadline" /\ Goto("checklist", data)
-------------------------------------------------------------------------------
(* The last answer of a wizard.                                               *)

Final == {"create_task", "create_event"}

BusyFinals == {s \in Slot : flight[s].what \in Final}

\* The dialogue there is now, if another last answer is being handled.
Overlapping(s) == IF BusyFinals \ {s} # {} THEN {data.pass} \cap Pass ELSE {}

LastAnswer(s, h) ==
    /\ Suspend(s, h)
    /\ overlapped' = overlapped \cup Overlapping(s)
    /\ UNCHANGED <<menu, state, data, passes, created, doubts>>

\* The data is read when the answer arrives, the key is random.
IssueTaskChecklist(s) ==
    /\ state = "checklist"
    /\ LastAnswer(s, [Idle EXCEPT !.what = "create_task", !.at = "work", !.data = data])

\* What create_task demands, a title and a kind: without them the payload is not built.
TaskAccepted(d) ==
    /\ d.titled /\ d.kind # "none"
    /\ d.kind = "group" => /\ d.leader # NoOne
                           /\ d.people # {}
                           /\ d.leader \in d.people \cup {Creator}
    /\ d.kind = "individual" => d.leader = NoOne /\ Cardinality(d.people) = 1

EventAccepted(d) == d.titled /\ d.dated

\* The record is committed; the dialogue is cleared later.
Record(s) ==
    /\ created' = [p \in Pass |-> IF p = flight[s].data.pass THEN created[p] + 1
                                  ELSE created[p]]
    /\ flight' = [flight EXCEPT ![s].at = "clear"]
    /\ UNCHANGED <<menu, state, data, passes, doubts, overlapped>>

CreateTask(s) ==
    /\ Resumes(s, "create_task", "work") /\ TaskAccepted(flight[s].data)
    /\ Record(s)

CreateEvent(s) ==
    /\ Resumes(s, "create_event", "work") /\ EventAccepted(flight[s].data)
    /\ Record(s)

\* Mutant of Cleared: the dialogue is left as it is after the record was created.
NotCleared == UNCHANGED <<state, data>>

\* Whatever the dialogue is by now.
Cleared == Clear

FinishHandler(s) ==
    /\ flight[s].at = "clear"
    /\ Cleared /\ Ends(s) /\ UNCHANGED ghosts

\* A refusal, a failure of the database, a key that is missing: the dialogue
\* stays, and the answer can be given again.
AnswerHttpError(s) ==
    /\ flight[s].at = "work" /\ flight[s].what \in Final \cup Question
    /\ Ends(s) /\ UNCHANGED <<state, data, ghosts>>

\* The commit is carried out, but reported as failed (the connection is lost): the
\* dialogue stays, and an answer that is given again has a new key.
CommitReplyLost(s) ==
    LET p == flight[s].data.pass IN
    /\ \/ Resumes(s, "create_task", "work") /\ TaskAccepted(flight[s].data)
       \/ Resumes(s, "create_event", "work") /\ EventAccepted(flight[s].data)
    /\ p \in Pass /\ SumFunction(doubts) < MaxDoubts
    /\ created' = [created EXCEPT ![p] = @ + 1]
    /\ doubts' = [doubts EXCEPT ![p] = @ + 1]
    /\ Ends(s) /\ UNCHANGED <<menu, state, data, passes, overlapped>>
-------------------------------------------------------------------------------
(* The wizard that creates an event.                                          *)

EventCreateStart(s) == StartWizard(s, "new_event")

ResumeEventStart(s) ==
    /\ Resumes(s, "new_event", "sync")
    /\ state' = "e_title" /\ data' = flight[s].data
    /\ Ends(s) /\ UNCHANGED ghosts

EventCreateTitle == state = "e_title" /\ Goto("e_starts_at", [data EXCEPT !.titled = TRUE])
EventCreateStartDate ==
    state = "e_starts_at" /\ Goto("e_ends_at", [data EXCEPT !.dated = TRUE])
EventCreateEndDate == state = "e_ends_at" /\ Goto("e_budget", data)
EventCreateBudget == state = "e_budget" /\ Goto("e_description", data)
EventCreateDescription == state = "e_description" /\ Goto("e_people", data)

EventPeopleDone(s) ==
    /\ state = "e_people"
    /\ LastAnswer(s, [Idle EXCEPT !.what = "create_event"])

\* create_event_from_state reads the data after the user was looked up.
CreateEventFromState(s) ==
    /\ Resumes(s, "create_event", "sync")
    /\ flight' = [flight EXCEPT ![s].at = "work", ![s].data = data]
    /\ overlapped' = overlapped \cup Overlapping(s)
    /\ UNCHANGED <<menu, state, data, passes, created, doubts>>
-------------------------------------------------------------------------------
(* Dialogues of one question.                                                 *)

\* Mutant of AskedAbout: a target that is still there from a question that was
\* never answered is kept.
AskedAboutFirst(q, t) ==
    [data EXCEPT !.asked = t, !.target[Key(q)] = IF @ = NoOne THEN t ELSE @]

AskedAbout(q, t) == [data EXCEPT !.asked = t, !.target[Key(q)] = t]

\* The question is put, over whatever dialogue there was; answers that are still
\* being handled may now read the new data.
Put(q, t, handlers) ==
    /\ q \in menu
    /\ state' = q /\ data' = AskedAbout(q, t)
    /\ flight' = [s \in Slot |-> IF handlers[s].what \in Question /\ handlers[s].at = "sync"
                                 THEN [handlers[s] EXCEPT !.disturbed = TRUE]
                                 ELSE handlers[s]]
    /\ UNCHANGED ghosts

TaskEditField(t)      == Put("edit", t, flight)
TaskMemberAddStart(t) == Put("member", t, flight)
ReportCommentStart(t) == Put("comment", t, flight)
ReportPhotoStart(t)   == Put("photo", t, flight)
ReportReturnStart(t)  == Put("return_reason", t, flight)

\* Handlers that look into the database first; data.target remembers the button.
AskLater(s, q, t) ==
    /\ q \in menu
    /\ Suspend(s, [Idle EXCEPT !.what = "ask", !.data.target[Key(q)] = t])
    /\ UNCHANGED <<state, data, ghosts>>

ChecklistAddStart(s, t)    == AskLater(s, "item", t)
EventRetentionStart(s, t)  == AskLater(s, "retention", t)
AdminUserSectorStart(s, t) == AskLater(s, "sector", t)

ResumeAsk(s) ==
    \E q \in {"item", "retention", "sector"} :
        /\ Resumes(s, "ask", "sync")
        /\ flight[s].data.target[Key(q)] # NoOne
        /\ Put(q, flight[s].data.target[Key(q)], [flight EXCEPT ![s] = Idle])

\* An answer: the user is looked up, the data is read, the route is called, the
\* dialogue is cleared.
Answer(s, q) ==
    /\ state = q
    /\ Suspend(s, [Idle EXCEPT !.what = q, !.data.asked = data.asked])
    /\ UNCHANGED <<state, data, ghosts>>

TaskEditValue(s)         == Answer(s, "edit")
TaskMemberAddFinish(s)   == Answer(s, "member")
ChecklistAddFinish(s)    == Answer(s, "item")
ReportCommentSave(s)     == Answer(s, "comment")
ReportPhotoSave(s)       == Answer(s, "photo")
ReportReturnFinish(s)    == Answer(s, "return_reason")
EventRetentionFinish(s)  == Answer(s, "retention")
AdminUserSectorFinish(s) == Answer(s, "sector")

ReadTarget(s) ==
    LET q == flight[s].what
        t == data.target[Key(q)]
    IN  /\ q \in Question /\ flight[s].at = "sync"
        /\ IF t # NoOne
           THEN /\ flight' = [flight EXCEPT ![s].at = "work", ![s].data.target[Key(q)] = t]
                /\ UNCHANGED <<state, data>>
           ELSE /\ Ends(s)
                /\ IF q = "sector" THEN Clear ELSE UNCHANGED <<state, data>>
        /\ UNCHANGED ghosts

CallRoute(s) ==
    /\ flight[s].what \in Question /\ flight[s].at = "work"
    /\ flight' = [flight EXCEPT ![s].at = "clear"]
    /\ UNCHANGED <<state, data, ghosts>>
-------------------------------------------------------------------------------
Init ==
    /\ menu \in Menus
    /\ state = "none" /\ data = NoData
    /\ flight = [s \in Slot |-> Idle]
    /\ passes = 0
    /\ created = [p \in Pass |-> 0] /\ doubts = [p \in Pass |-> 0]
    /\ overlapped = {}

IssueWizard(s) ==
    \/ IssueTaskStart(s) \/ ResumeIssue(s)
    \/ IssueTaskDescription(s) \/ ResumeDescription(s)
    \/ IssueTaskPeople(s) \/ IssueTaskPerson(s) \/ ReadSelection(s) \/ WriteSelection(s)
    \/ IssueTaskPeopleDone(s) \/ FinishTaskPeople(s)
    \/ IssueTaskChecklist(s) \/ CreateTask(s)

EventWizard(s) ==
    \/ EventCreateStart(s) \/ ResumeEventStart(s)
    \/ EventPeopleDone(s) \/ CreateEventFromState(s) \/ CreateEvent(s)

Ask(s) ==
    \/ \E t \in Target : \/ ChecklistAddStart(s, t) \/ EventRetentionStart(s, t)
                         \/ AdminUserSectorStart(s, t)
    \/ ResumeAsk(s)

Reply(s) ==
    \/ TaskEditValue(s) \/ TaskMemberAddFinish(s) \/ ChecklistAddFinish(s)
    \/ ReportCommentSave(s) \/ ReportPhotoSave(s) \/ ReportReturnFinish(s)
    \/ EventRetentionFinish(s) \/ AdminUserSectorFinish(s)
    \/ ReadTarget(s) \/ CallRoute(s)

\* Handlers that never wait before they are done with the dialogue.
Prompt ==
    \/ IssueTaskTitle \/ IssueTaskDeadline
    \/ \E t \in Target \cup {NoOne} : IssueTaskEvent(t)
    \/ \E k \in {"individual", "group"} : IssueTaskKind(k)
    \/ \E l \in User \cup {Creator} : IssueTaskLeader(l)
    \/ EventCreateTitle \/ EventCreateStartDate \/ EventCreateEndDate
    \/ EventCreateBudget \/ EventCreateDescription
    \/ \E t \in Target : \/ TaskEditField(t) \/ TaskMemberAddStart(t)
                         \/ ReportCommentStart(t) \/ ReportPhotoStart(t)
                         \/ ReportReturnStart(t)

Next ==
    \/ Prompt
    \/ \E s \in Slot : \/ IssueWizard(s) \/ EventWizard(s) \/ Ask(s) \/ Reply(s)
                       \/ CancelAction(s) \/ ResumeClear(s)
                       \/ FinishHandler(s) \/ AnswerHttpError(s) \/ CommitReplyLost(s)
    \/ Restart

Spec == Init /\ [][Next]_vars
-------------------------------------------------------------------------------
(* Safety.                                                                    *)

\* Whoever gets to the end of the wizard has a task that create_task accepts, and is
\* not left with /cancel only: also when the questions came twice, a late description
\* took the wizard back, or answers of different wizards overlapped.  Only a tap that is
\* handled after the selection was over, or a description that outlives its wizard, can
\* spoil the task.
WizardIsAccepted == state = "checklist" => TaskAccepted(data) \/ data.late

\* A wizard creates one task or event, and one more for each commit that was carried out
\* though the manager was told it failed; any other only if a last answer was handled for
\* it while another one was: not after a cancellation, a refusal, a restart or
\* a description that brings the wizard back.
OneRecordPerPass == \A p \in Pass : created[p] > 1 + doubts[p] => p \in overlapped

\* The route is called, with success or not, for what the manager was asked about,
\* unless another question is put, or, for an answer about an event, the event of
\* a task is chosen (in a wizard that a late description brought back) before the
\* answer has read the data.
AnswersGoWhereAsked ==
    \A s \in Slot : flight[s].what \in Question /\ flight[s].at # "sync"
                        /\ ~flight[s].disturbed =>
        flight[s].data.target[Key(flight[s].what)] = flight[s].data.asked
===============================================================================
