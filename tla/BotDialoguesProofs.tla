-------------------------- MODULE BotDialoguesProofs --------------------------
(* Theorems about BotDialogues, for every number of handlers at a time, people, *)
(* targets and wizards, and every mixture of dialogues.                       *)
EXTENDS BotDialogues, TLAPS

-------------------------------------------------------------------------------
(* Type correctness.                                                          *)

\* The empty data and a free slot are of their types.
LEMMA NullTypes == NoData \in Data /\ Idle \in Handler
<1>1. NoData \in Data
  BY PassAssumption DEF NoData, Data
<1> QED
  BY <1>1 DEF Idle, Handler, Wizardry

\* Every question keeps its target under a key of the data.
LEMMA KeyType == \A q : Key(q) \in Keys
BY DEF Key, Keys

\* The answers of a wizard leave data of the same type.
LEMMA WizardDataType ==
    ASSUME NEW d \in Data
    PROVE  /\ [d EXCEPT !.titled = TRUE] \in Data
           /\ [d EXCEPT !.dated = TRUE] \in Data
           /\ [d EXCEPT !.late = @ \/ ~d.titled] \in Data
           /\ \A l \in User \cup {Creator} : [d EXCEPT !.leader = l] \in Data
           /\ \A k \in {"individual", "group"} :
                  [d EXCEPT !.kind = k, !.people = {}, !.leader = NoOne] \in Data
           /\ \A people \in SUBSET User, late \in BOOLEAN :
                  [d EXCEPT !.people = people, !.late = late] \in Data
BY DEF Data

\* Putting a question leaves well-formed data.
LEMMA TargetType ==
    ASSUME NEW d \in Data, NEW k \in Keys, NEW t \in Target \cup {NoOne}
    PROVE  /\ [d EXCEPT !.target[k] = t] \in Data
           /\ [d EXCEPT !.asked = t] \in Data
           /\ [d EXCEPT !.asked = t, !.target[k] = t] \in Data
BY DEF Data

\* A handler that goes on, or is disturbed, is still one.
LEMMA HandlerType ==
    ASSUME NEW h \in Handler, NEW at \in {"sync", "work", "clear"}
    PROVE  /\ [h EXCEPT !.at = at] \in Handler
           /\ [h EXCEPT !.disturbed = TRUE] \in Handler
           /\ \A d \in Data : [h EXCEPT !.at = at, !.data = d] \in Handler
BY DEF Handler

\* A handler that does not wait before it is done with the dialogue.
LEMMA GotoType ==
    ASSUME TypeOK, NEW next \in DialogueState, NEW d \in Data, Goto(next, d)
    PROVE  TypeOK'
BY DEF Goto, TypeOK, ghosts

\* A handler is suspended, goes on or ends.
LEMMA HandlerMoves ==
    ASSUME TypeOK, NEW s \in Slot, NEW h \in Handler,
           flight' = [flight EXCEPT ![s] = h], state' \in DialogueState, data' \in Data,
           UNCHANGED ghosts
    PROVE  TypeOK'
BY DEF TypeOK, ghosts

\* state.clear() leaves a state and data of their types.
LEMMA ClearType == Clear => state' \in DialogueState /\ data' \in Data
BY NullTypes DEF Clear, DialogueState

\* Dispatching an update keeps the types.
LEMMA DispatchType ==
    ASSUME TypeOK, NEW s \in Slot, NEW what \in Wizardry, Dispatch(s, what)
    PROVE  TypeOK'
<1>1. [Idle EXCEPT !.what = what] \in Handler
  BY NullTypes DEF Handler
<1> QED
  BY <1>1, HandlerMoves DEF Dispatch, Suspend, TypeOK

\* A prompt that puts no question about a target keeps the types.
LEMMA PromptType ==
    ASSUME TypeOK, Prompt, \A t \in Target : ~(\/ TaskEditField(t) \/ TaskMemberAddStart(t)
                \/ ReportCommentStart(t) \/ ReportPhotoStart(t) \/ ReportReturnStart(t))
    PROVE  TypeOK'
<1> data \in Data
  BY DEF TypeOK
<1> USE DEF DialogueState, TaskIssue, EventCreateFlow
<1>1. CASE IssueTaskTitle
  BY <1>1, WizardDataType, GotoType DEF IssueTaskTitle
<1>2. CASE IssueTaskDeadline
  BY <1>2, GotoType DEF IssueTaskDeadline
<1>3. ASSUME NEW k \in {"individual", "group"}, IssueTaskKind(k) PROVE TypeOK'
  BY <1>3, WizardDataType, GotoType DEF IssueTaskKind, OfKind
<1>4. ASSUME NEW l \in User \cup {Creator}, IssueTaskLeader(l) PROVE TypeOK'
  BY <1>4, WizardDataType, GotoType DEF IssueTaskLeader
<1>5. CASE EventCreateTitle
  BY <1>5, WizardDataType, GotoType DEF EventCreateTitle
<1>6. CASE EventCreateStartDate
  BY <1>6, WizardDataType, GotoType DEF EventCreateStartDate
<1>7. CASE EventCreateEndDate \/ EventCreateBudget \/ EventCreateDescription
  BY <1>7, GotoType DEF EventCreateEndDate, EventCreateBudget, EventCreateDescription
<1>8. ASSUME NEW t \in Target \cup {NoOne}, IssueTaskEvent(t) PROVE TypeOK'
  <2>1. data' \in Data
    BY <1>8, TargetType DEF IssueTaskEvent, Keys
  <2>2. \A s \in Slot : [flight[s] EXCEPT !.disturbed = TRUE] \in Handler
    BY HandlerType DEF TypeOK
  <2>3. flight' \in [Slot -> Handler]
    BY <1>8, <2>2 DEF IssueTaskEvent, TypeOK
  <2> QED
    BY <1>8, <2>1, <2>3 DEF IssueTaskEvent, TypeOK, ghosts
<1> QED
  BY <1>1, <1>2, <1>3, <1>4, <1>5, <1>6, <1>7, <1>8 DEF Prompt

\* A wizard begins.
LEMMA StartType ==
    ASSUME TypeOK, NEW s \in Slot, NEW what \in {"issue", "new_event"}, StartWizard(s, what)
    PROVE  TypeOK'
<1>1. passes + 1 \in 0..MaxPasses
  BY PassAssumption DEF TypeOK, StartWizard
<1>2. [NoData EXCEPT !.pass = passes + 1] \in Data
  BY <1>1, NullTypes DEF Data
<1>3. [Idle EXCEPT !.what = what, !.data.pass = passes + 1] \in Handler
  BY <1>2, NullTypes DEF Handler, Wizardry, Idle
<1> QED
  BY <1>1, <1>3 DEF StartWizard, Suspend, TypeOK

\* The last answer of a wizard is taken.
LEMMA LastAnswerType ==
    ASSUME TypeOK, NEW s \in Slot, NEW h \in Handler, LastAnswer(s, h)
    PROVE  TypeOK'
BY DEF LastAnswer, Overlapping, Suspend, TypeOK

\* The record is committed.
LEMMA RecordType == ASSUME TypeOK, NEW s \in Slot, Record(s) PROVE TypeOK'
<1>1. [flight[s] EXCEPT !.at = "clear"] \in Handler
  BY HandlerType DEF TypeOK
<1>2. created' \in [Pass -> Nat]
  BY DEF Record, TypeOK
<1> QED
  BY <1>1, <1>2 DEF Record, TypeOK

\* Whoever handles a pick has been given a person.
Picks == \A s \in Slot : flight[s].what \in {"search", "toggle"} => flight[s].pick \in User

\* Every step of the wizard that issues a task keeps the types.
LEMMA IssueWizardType == ASSUME TypeOK, Picks, NEW s \in Slot, IssueWizard(s) PROVE TypeOK'
<1> data \in Data /\ flight[s] \in Handler /\ flight[s].data \in Data /\ state \in DialogueState
  BY DEF TypeOK, Handler
<1>1. CASE IssueTaskStart(s)
  BY <1>1, StartType DEF IssueTaskStart
<1>2. CASE ResumeIssue(s)
  BY <1>2, NullTypes, HandlerMoves DEF ResumeIssue, Ends, DialogueState, TaskIssue
<1>3. CASE IssueTaskDescription(s) \/ IssueTaskPeopleDone(s)
  BY <1>3, DispatchType DEF IssueTaskDescription, IssueTaskPeopleDone, Wizardry
<1>4. CASE ResumeDescription(s)
  <2>1. data' \in Data
    BY <1>4, WizardDataType DEF ResumeDescription
  <2> QED
    BY <1>4, <2>1, NullTypes, HandlerMoves
       DEF ResumeDescription, Ends, DialogueState, TaskIssue
<1>5. CASE IssueTaskPeople(s) \/ IssueTaskPerson(s)
  <2>1. PICK how \in {"search", "toggle"}, u \in User : PickPerson(s, how, u)
    BY <1>5 DEF IssueTaskPeople, IssueTaskPerson, Pickable
  <2>2. [Idle EXCEPT !.what = how, !.pick = u] \in Handler
    BY NullTypes DEF Handler, Wizardry
  <2> QED
    BY <2>1, <2>2, HandlerMoves DEF PickPerson, Suspend
<1>6. CASE ReadSelection(s)
  <2>1. [NoData EXCEPT !.people = data.people] \in Data
    BY NullTypes DEF Data
  <2>2. [flight[s] EXCEPT !.at = "work", !.data = [NoData EXCEPT !.people = data.people]]
            \in Handler
    BY <2>1, HandlerType
  <2> QED
    BY <1>6, <2>2, HandlerMoves DEF ReadSelection, TypeOK
<1>7. CASE WriteSelection(s)
  <2>1. flight[s].pick \in User /\ flight[s].data.people \subseteq User
    BY <1>7 DEF WriteSelection, Resumes, Picks, Data
  <2>2. (data.late \/ state # "people") \in BOOLEAN
    OBVIOUS
  <2>3. data' \in Data
    BY <1>7, <2>1, <2>2, WizardDataType DEF WriteSelection
  <2> QED
    BY <1>7, <2>3, NullTypes, HandlerMoves DEF WriteSelection, Ends
<1>8. CASE FinishTaskPeople(s)
  <2>1. state' \in DialogueState
    BY <1>8 DEF FinishTaskPeople, DialogueState, TaskIssue
  <2> QED
    BY <1>8, <2>1, NullTypes, HandlerMoves DEF FinishTaskPeople, Ends
<1>9. CASE IssueTaskChecklist(s)
  <2>1. [Idle EXCEPT !.what = "create_task", !.at = "work", !.data = data] \in Handler
    BY NullTypes DEF Handler, Wizardry
  <2> QED
    BY <1>9, <2>1, LastAnswerType DEF IssueTaskChecklist
<1>10. CASE CreateTask(s)
  BY <1>10, RecordType DEF CreateTask
<1> QED
  BY <1>1, <1>2, <1>3, <1>4, <1>5, <1>6, <1>7, <1>8, <1>9, <1>10 DEF IssueWizard

\* Every step of the wizard that creates an event keeps the types.
LEMMA EventWizardType == ASSUME TypeOK, NEW s \in Slot, EventWizard(s) PROVE TypeOK'
<1> data \in Data /\ flight[s] \in Handler /\ flight[s].data \in Data /\ state \in DialogueState
  BY DEF TypeOK, Handler
<1>1. CASE EventCreateStart(s)
  BY <1>1, StartType DEF EventCreateStart
<1>2. CASE ResumeEventStart(s)
  BY <1>2, NullTypes, HandlerMoves DEF ResumeEventStart, Ends, DialogueState, EventCreateFlow
<1>3. CASE EventPeopleDone(s)
  <2>1. [Idle EXCEPT !.what = "create_event"] \in Handler
    BY NullTypes DEF Handler, Wizardry
  <2> QED
    BY <1>3, <2>1, LastAnswerType DEF EventPeopleDone
<1>4. CASE CreateEventFromState(s)
  <2>1. [flight[s] EXCEPT !.at = "work", !.data = data] \in Handler
    BY HandlerType
  <2> QED
    BY <1>4, <2>1 DEF CreateEventFromState, Overlapping, TypeOK
<1>5. CASE CreateEvent(s)
  BY <1>5, RecordType DEF CreateEvent
<1> QED
  BY <1>1, <1>2, <1>3, <1>4, <1>5 DEF EventWizard

\* A question is put.
LEMMA PutType ==
    ASSUME TypeOK, NEW q \in Question, NEW t \in Target,
           NEW handlers \in [Slot -> Handler], Put(q, t, handlers)
    PROVE  TypeOK'
<1>1. data' \in Data
  BY KeyType, TargetType DEF Put, AskedAbout, TypeOK
<1>2. \A s \in Slot : [handlers[s] EXCEPT !.disturbed = TRUE] \in Handler
  BY HandlerType
<1>3. flight' \in [Slot -> Handler]
  BY <1>2 DEF Put
<1> QED
  BY <1>1, <1>3 DEF Put, TypeOK, ghosts, DialogueState

\* Putting a question keeps the types.
LEMMA AskType == ASSUME TypeOK, NEW s \in Slot, Ask(s) PROVE TypeOK'
<1>1. ASSUME NEW q \in Question, NEW t \in Target, AskLater(s, q, t) PROVE TypeOK'
  <2>1. [NoData EXCEPT !.target[Key(q)] = t] \in Data
    BY KeyType, NullTypes, TargetType
  <2>2. [Idle EXCEPT !.what = "ask", !.data.target[Key(q)] = t] \in Handler
    BY <2>1, NullTypes DEF Handler, Idle
  <2> QED
    BY <1>1, <2>2, HandlerMoves DEF AskLater, Suspend, TypeOK
<1>2. CASE ResumeAsk(s)
  <2>1. PICK q \in {"item", "retention", "sector"} :
            /\ flight[s].data.target[Key(q)] # NoOne
            /\ Put(q, flight[s].data.target[Key(q)], [flight EXCEPT ![s] = Idle])
    BY <1>2 DEF ResumeAsk
  <2>2. flight[s].data.target[Key(q)] \in Target
    BY <2>1, KeyType DEF TypeOK, Handler, Data
  <2>3. [flight EXCEPT ![s] = Idle] \in [Slot -> Handler]
    BY NullTypes DEF TypeOK
  <2> QED
    BY <2>1, <2>2, <2>3, PutType DEF Question
<1> QED
  BY <1>1, <1>2 DEF Ask, ChecklistAddStart, EventRetentionStart, AdminUserSectorStart, Question

\* Every step of an answer keeps the types.
LEMMA ReplyType == ASSUME TypeOK, NEW s \in Slot, Reply(s) PROVE TypeOK'
<1> data \in Data /\ flight[s] \in Handler /\ state \in DialogueState
  BY DEF TypeOK
<1>1. ASSUME NEW q \in Question, Answer(s, q) PROVE TypeOK'
  <2>1. [NoData EXCEPT !.asked = data.asked] \in Data
    BY NullTypes DEF Data
  <2>2. [Idle EXCEPT !.what = q, !.data.asked = data.asked] \in Handler
    BY <2>1, NullTypes DEF Handler, Idle
  <2> QED
    BY <1>1, <2>2, HandlerMoves DEF Answer, Suspend
<1>2. CASE ReadTarget(s)
  <2> DEFINE k == Key(flight[s].what)
  <2>1. data.target[k] \in Target \cup {NoOne} /\ flight[s].data \in Data
    BY KeyType DEF Data, Handler
  <2>2. [flight[s].data EXCEPT !.target[k] = data.target[k]] \in Data
    BY <2>1, KeyType, TargetType
  <2>3. [flight[s] EXCEPT !.at = "work", !.data.target[k] = data.target[k]] \in Handler
    BY <2>2 DEF Handler
  <2>4. state' \in DialogueState /\ data' \in Data
    BY <1>2, ClearType DEF ReadTarget
  <2>5. \E h \in Handler : flight' = [flight EXCEPT ![s] = h]
    BY <1>2, <2>3, NullTypes DEF ReadTarget, Ends, TypeOK
  <2> QED
    BY <1>2, <2>4, <2>5, HandlerMoves DEF ReadTarget
<1>3. CASE CallRoute(s)
  <2>1. [flight[s] EXCEPT !.at = "clear"] \in Handler
    BY HandlerType
  <2> QED
    BY <1>3, <2>1, HandlerMoves DEF CallRoute, TypeOK
<1> QED
  BY <1>1, <1>2, <1>3
     DEF Reply, TaskEditValue, TaskMemberAddFinish, ChecklistAddFinish, ReportCommentSave,
         ReportPhotoSave, ReportReturnFinish, EventRetentionFinish, AdminUserSectorFinish,
         Question

\* Every step keeps the types.
LEMMA NextType == ASSUME TypeOK, Picks, [Next]_vars PROVE TypeOK'
<1>1. ASSUME NEW t \in Target, \/ TaskEditField(t) \/ TaskMemberAddStart(t)
             \/ ReportCommentStart(t) \/ ReportPhotoStart(t) \/ ReportReturnStart(t)
      PROVE  TypeOK'
  <2>1. flight \in [Slot -> Handler]
    BY DEF TypeOK
  <2> QED
    BY <1>1, <2>1, PutType
       DEF TaskEditField, TaskMemberAddStart, ReportCommentStart, ReportPhotoStart,
           ReportReturnStart, Question
<1>2. CASE Prompt
  BY <1>1, <1>2, PromptType
<1>3. ASSUME NEW s \in Slot, IssueWizard(s) \/ EventWizard(s) \/ Ask(s) \/ Reply(s)
      PROVE  TypeOK'
  BY <1>3, IssueWizardType, EventWizardType, AskType, ReplyType
<1>4. ASSUME NEW s \in Slot, CancelAction(s) PROVE TypeOK'
  BY <1>4, DispatchType DEF CancelAction, Wizardry
<1>5. ASSUME NEW s \in Slot, ResumeClear(s) \/ FinishHandler(s) \/ AnswerHttpError(s)
      PROVE  TypeOK'
  <2>1. state' \in DialogueState /\ data' \in Data
    BY <1>5, ClearType DEF ResumeClear, FinishHandler, Cleared, AnswerHttpError, TypeOK
  <2> QED
    BY <1>5, <2>1, NullTypes, HandlerMoves
       DEF ResumeClear, FinishHandler, AnswerHttpError, Ends
<1>6. ASSUME NEW s \in Slot, CommitReplyLost(s) PROVE TypeOK'
  <2>1. created' \in [Pass -> Nat] /\ doubts' \in [Pass -> Nat]
    BY <1>6 DEF CommitReplyLost, TypeOK
  <2> QED
    BY <1>6, <2>1, NullTypes DEF CommitReplyLost, Ends, TypeOK
<1>7. CASE Restart
  BY <1>7, NullTypes, ClearType DEF Restart, TypeOK, ghosts
<1>8. CASE UNCHANGED vars
  BY <1>8 DEF vars, ghosts, TypeOK
<1> QED
  BY <1>2, <1>3, <1>4, <1>5, <1>6, <1>7, <1>8 DEF Next

\* The types hold when the bot starts.
LEMMA InitType == Init => TypeOK
BY NullTypes, PassAssumption DEF Init, TypeOK, DialogueState, Pass
-------------------------------------------------------------------------------
(* Answers.                                                                   *)

\* What a handler holds: a pick names a person, a wizard begins with no target, and an
\* answer that nothing has disturbed has read what it was asked about.
Sound(h) ==
    /\ h.what \in {"search", "toggle"} => h.pick \in User
    /\ h.what \in {"issue", "new_event"} => h.data.target = NoData.target
    /\ h.what \in Question /\ h.at # "sync" /\ ~h.disturbed =>
           h.data.target[Key(h.what)] = h.data.asked

\* An answer that has yet to read the data will find what it was asked about, or that
\* the dialogue is over.
Expects(h, d) ==
    h.what \in Question /\ h.at = "sync" /\ ~h.disturbed =>
        d.target[Key(h.what)] \in {h.data.asked, NoOne}

\* The question that waits for an answer is about what the data says.
QuestionPut == state \in Question => data.target[Key(state)] = data.asked

AskedInv ==
    /\ \A s \in Slot : Sound(flight[s]) /\ Expects(flight[s], data)
    /\ QuestionPut

DialogueInv == TypeOK /\ AskedInv

\* A free slot answers nothing.
LEMMA IdleAsksNothing == Sound(Idle) /\ \A d : Expects(Idle, d)
BY DEF Sound, Expects, Idle, Question

\* A step that leaves the target and begins no question.
LEMMA KeepsTarget ==
    ASSUME DialogueInv, NEW s \in Slot, NEW h, Sound(h), Expects(h, data),
           flight' = [flight EXCEPT ![s] = h],
           data'.target = data.target, data'.asked = data.asked,
           state' = state \/ state' \notin Question
    PROVE  AskedInv'
BY DEF DialogueInv, AskedInv, QuestionPut, Expects, TypeOK

\* A step that forgets the target: the dialogue is cleared, or a wizard begins.
LEMMA ForgetsTarget ==
    ASSUME DialogueInv, NEW s \in Slot, flight' = [flight EXCEPT ![s] = Idle],
           data'.target = NoData.target, state' \notin Question
    PROVE  AskedInv'
<1>1. \A q : data'.target[Key(q)] = NoOne
  BY KeyType DEF NoData
<1> QED
  BY <1>1, IdleAsksNothing DEF DialogueInv, AskedInv, QuestionPut, Expects, TypeOK

\* After state.clear() nothing is asked and no target is left.
LEMMA ClearForgets == Clear => data'.target = NoData.target /\ state' \notin Question
BY DEF Clear, Question

\* The wizards and the prompts of the wizards do not touch the target.
LEMMA GotoAsked ==
    ASSUME DialogueInv, NEW next, NEW d, next \notin Question, Goto(next, d),
           d.target = data.target, d.asked = data.asked
    PROVE  AskedInv'
BY DEF Goto, DialogueInv, AskedInv, QuestionPut, Expects

\* A question that is put is the one its key of the data is about.
LEMMA PutAsked ==
    ASSUME DialogueInv, NEW q \in Question, NEW t \in Target,
           NEW handlers \in [Slot -> Handler], Put(q, t, handlers),
           \A s \in Slot : Sound(handlers[s])
    PROVE  AskedInv'
<1>1. /\ data.asked \in Target \cup {NoOne}
      /\ data \in Data
      /\ data.target \in [Keys -> Target \cup {NoOne}]
  BY DEF DialogueInv, TypeOK, Data
<1>2. data'.asked = t /\ data'.target[Key(q)] = t /\ state' = q
  BY <1>1, KeyType DEF Put, AskedAbout, Data
<1>3. \A s \in Slot : Sound(flight'[s]) /\ Expects(flight'[s], data')
  <2> SUFFICES ASSUME NEW s \in Slot PROVE Sound(flight'[s]) /\ Expects(flight'[s], data')
    OBVIOUS
  <2>1. CASE handlers[s].what \in Question /\ handlers[s].at = "sync"
    <3>1. flight'[s] = [handlers[s] EXCEPT !.disturbed = TRUE]
      BY <2>1 DEF Put
    <3>2. flight'[s].disturbed /\ flight'[s].what = handlers[s].what
      BY <3>1 DEF Handler
    <3> QED
      BY <2>1, <3>2 DEF Sound, Expects, Question
  <2>2. CASE ~(handlers[s].what \in Question /\ handlers[s].at = "sync")
    BY <2>2 DEF Put, Sound, Expects
  <2> QED
    BY <2>1, <2>2
<1> QED
  BY <1>2, <1>3 DEF AskedInv, QuestionPut

\* The prompts of the wizards.
LEMMA PromptAsked ==
    ASSUME DialogueInv, Prompt, \A t \in Target : ~(\/ TaskEditField(t) \/ TaskMemberAddStart(t)
                \/ ReportCommentStart(t) \/ ReportPhotoStart(t) \/ ReportReturnStart(t))
    PROVE  AskedInv'
<1> data \in Data
  BY DEF DialogueInv, TypeOK
<1> USE DEF Question
<1>1. CASE IssueTaskTitle
  BY <1>1, GotoAsked DEF IssueTaskTitle, Data
<1>2. CASE IssueTaskDeadline
  BY <1>2, GotoAsked DEF IssueTaskDeadline
<1>3. ASSUME NEW k \in {"individual", "group"}, IssueTaskKind(k) PROVE AskedInv'
  BY <1>3, GotoAsked DEF IssueTaskKind, OfKind, Data
<1>4. ASSUME NEW l \in User \cup {Creator}, IssueTaskLeader(l) PROVE AskedInv'
  BY <1>4, GotoAsked DEF IssueTaskLeader, Data
<1>5. CASE EventCreateTitle
  BY <1>5, GotoAsked DEF EventCreateTitle, Data
<1>6. CASE EventCreateStartDate
  BY <1>6, GotoAsked DEF EventCreateStartDate, Data
<1>7. CASE EventCreateEndDate \/ EventCreateBudget \/ EventCreateDescription
  BY <1>7, GotoAsked DEF EventCreateEndDate, EventCreateBudget, EventCreateDescription
<1>8. ASSUME NEW t \in Target \cup {NoOne}, IssueTaskEvent(t) PROVE AskedInv'
  <2>1. \A k \in Keys : k # "event_id" => data'.target[k] = data.target[k]
    BY <1>8 DEF IssueTaskEvent, Data
  <2>2. ASSUME NEW s \in Slot PROVE Sound(flight'[s]) /\ Expects(flight'[s], data')
    <3>1. flight[s] \in Handler /\ Sound(flight[s]) /\ Expects(flight[s], data)
      BY DEF DialogueInv, TypeOK, AskedInv
    <3>2. CASE flight[s].what = "retention" /\ flight[s].at = "sync"
      <4>1. flight'[s] = [flight[s] EXCEPT !.disturbed = TRUE]
        BY <1>8, <3>2 DEF IssueTaskEvent
      <4>2. flight'[s].disturbed /\ flight'[s].what = "retention"
        BY <3>1, <3>2, <4>1 DEF Handler
      <4> QED
        BY <4>2 DEF Sound, Expects
    <3>3. CASE ~(flight[s].what = "retention" /\ flight[s].at = "sync")
      <4>1. flight'[s] = flight[s]
        BY <1>8, <3>3 DEF IssueTaskEvent
      <4>2. flight[s].what # "retention" => data'.target[Key(flight[s].what)]
                                                = data.target[Key(flight[s].what)]
        BY <2>1 DEF Key, Keys
      <4> QED
        BY <3>1, <3>3, <4>1, <4>2 DEF Expects
    <3> QED
      BY <3>2, <3>3
  <2>3. state' = "kind"
    BY <1>8 DEF IssueTaskEvent
  <2> QED
    BY <2>2, <2>3 DEF AskedInv, QuestionPut
<1> QED
  BY <1>1, <1>2, <1>3, <1>4, <1>5, <1>6, <1>7, <1>8 DEF Prompt

\* A handler that answers no question.
LEMMA OtherHandler ==
    ASSUME NEW h, h.what \notin Question, h.what \notin {"issue", "new_event"},
           h.what \in {"search", "toggle"} => h.pick \in User
    PROVE  Sound(h) /\ \A d : Expects(h, d)
BY DEF Sound, Expects

\* No step of the wizard changes what an open question is about.
LEMMA IssueWizardAsked == ASSUME DialogueInv, NEW s \in Slot, IssueWizard(s) PROVE AskedInv'
<1> data \in Data /\ flight[s] \in Handler /\ flight[s].data \in Data
  BY DEF DialogueInv, TypeOK, Handler
<1> Sound(flight[s])
  BY DEF DialogueInv, AskedInv
<1>1. CASE IssueTaskStart(s)
  <2> DEFINE h == [Idle EXCEPT !.what = "issue", !.data.pass = passes + 1]
  <2>1. h.what = "issue" /\ h.data.target = NoData.target
    BY DEF Idle, NoData
  <2>2. Sound(h) /\ Expects(h, data)
    BY <2>1 DEF Sound, Expects, Question
  <2> QED
    BY <1>1, <2>2, KeepsTarget DEF IssueTaskStart, StartWizard, Suspend
<1>2. CASE ResumeIssue(s)
  <2>1. data'.target = NoData.target /\ state' \notin Question
    BY <1>2 DEF ResumeIssue, Resumes, Sound, Question
  <2> QED
    BY <1>2, <2>1, ForgetsTarget DEF ResumeIssue, Ends
<1>3. CASE IssueTaskDescription(s) \/ IssueTaskPeopleDone(s)
  <2>1. PICK what \in {"describe", "done"} : Dispatch(s, what)
    BY <1>3 DEF IssueTaskDescription, IssueTaskPeopleDone
  <2>2. [Idle EXCEPT !.what = what].what = what
    BY DEF Idle
  <2>3. Sound([Idle EXCEPT !.what = what]) /\ Expects([Idle EXCEPT !.what = what], data)
    BY <2>2, OtherHandler DEF Question
  <2> QED
    BY <2>1, <2>3, KeepsTarget DEF Dispatch, Suspend
<1>4. CASE ResumeDescription(s)
  <2>1. data'.target = data.target /\ data'.asked = data.asked /\ state' \notin Question
    BY <1>4 DEF ResumeDescription, Data, Question
  <2> QED
    BY <1>4, <2>1, IdleAsksNothing, KeepsTarget DEF ResumeDescription, Ends
<1>5. CASE IssueTaskPeople(s) \/ IssueTaskPerson(s)
  <2>1. PICK how \in {"search", "toggle"}, u \in User : PickPerson(s, how, u)
    BY <1>5 DEF IssueTaskPeople, IssueTaskPerson, Pickable
  <2> DEFINE h == [Idle EXCEPT !.what = how, !.pick = u]
  <2>2. h.what = how /\ h.pick = u
    BY DEF Idle
  <2>3. Sound(h) /\ Expects(h, data)
    BY <2>2, OtherHandler DEF Question
  <2> QED
    BY <2>1, <2>3, KeepsTarget DEF PickPerson, Suspend
<1>6. CASE ReadSelection(s)
  <2> DEFINE h == [flight[s] EXCEPT !.at = "work",
                                   !.data = [NoData EXCEPT !.people = data.people]]
  <2>1. h.what = flight[s].what /\ h.pick = flight[s].pick /\ h.what \in {"search", "toggle"}
    BY <1>6 DEF ReadSelection, Resumes, Handler
  <2>2. Sound(h) /\ Expects(h, data)
    BY <2>1, OtherHandler DEF Sound, Question
  <2>3. flight' = [flight EXCEPT ![s] = h]
    BY <1>6 DEF ReadSelection, DialogueInv, TypeOK
  <2> QED
    BY <1>6, <2>2, <2>3, KeepsTarget DEF ReadSelection
<1>7. CASE WriteSelection(s)
  <2>1. data'.target = data.target /\ data'.asked = data.asked
    BY <1>7 DEF WriteSelection, Data
  <2> QED
    BY <1>7, <2>1, IdleAsksNothing, KeepsTarget DEF WriteSelection, Ends
<1>8. CASE FinishTaskPeople(s)
  <2>1. state' = state \/ state' \notin Question
    BY <1>8 DEF FinishTaskPeople, Question
  <2> QED
    BY <1>8, <2>1, IdleAsksNothing, KeepsTarget DEF FinishTaskPeople, Ends
<1>9. CASE IssueTaskChecklist(s)
  <2> DEFINE h == [Idle EXCEPT !.what = "create_task", !.at = "work", !.data = data]
  <2>1. h.what = "create_task"
    BY DEF Idle
  <2>2. Sound(h) /\ Expects(h, data)
    BY <2>1, OtherHandler DEF Question
  <2> QED
    BY <1>9, <2>2, KeepsTarget DEF IssueTaskChecklist, LastAnswer, Suspend
<1>10. CASE CreateTask(s)
  <2> DEFINE h == [flight[s] EXCEPT !.at = "clear"]
  <2>1. h.what = "create_task"
    BY <1>10 DEF CreateTask, Resumes, Handler
  <2>2. Sound(h) /\ Expects(h, data)
    BY <2>1, OtherHandler DEF Question
  <2>3. flight' = [flight EXCEPT ![s] = h]
    BY <1>10 DEF CreateTask, Record, DialogueInv, TypeOK
  <2> QED
    BY <1>10, <2>2, <2>3, KeepsTarget DEF CreateTask, Record
<1> QED
  BY <1>1, <1>2, <1>3, <1>4, <1>5, <1>6, <1>7, <1>8, <1>9, <1>10 DEF IssueWizard

\* Nor does one of the wizard that creates an event.
LEMMA EventWizardAsked == ASSUME DialogueInv, NEW s \in Slot, EventWizard(s) PROVE AskedInv'
<1> data \in Data /\ flight[s] \in Handler /\ flight[s].data \in Data
  BY DEF DialogueInv, TypeOK, Handler
<1> Sound(flight[s])
  BY DEF DialogueInv, AskedInv
<1>1. CASE EventCreateStart(s)
  <2> DEFINE h == [Idle EXCEPT !.what = "new_event", !.data.pass = passes + 1]
  <2>1. h.what = "new_event" /\ h.data.target = NoData.target
    BY DEF Idle, NoData
  <2>2. Sound(h) /\ Expects(h, data)
    BY <2>1 DEF Sound, Expects, Question
  <2> QED
    BY <1>1, <2>2, KeepsTarget DEF EventCreateStart, StartWizard, Suspend
<1>2. CASE ResumeEventStart(s)
  <2>1. data'.target = NoData.target /\ state' \notin Question
    BY <1>2 DEF ResumeEventStart, Resumes, Sound, Question
  <2> QED
    BY <1>2, <2>1, ForgetsTarget DEF ResumeEventStart, Ends
<1>3. CASE EventPeopleDone(s)
  <2>1. [Idle EXCEPT !.what = "create_event"].what = "create_event"
    BY DEF Idle
  <2>2. /\ Sound([Idle EXCEPT !.what = "create_event"])
        /\ Expects([Idle EXCEPT !.what = "create_event"], data)
    BY <2>1, OtherHandler DEF Question
  <2> QED
    BY <1>3, <2>2, KeepsTarget DEF EventPeopleDone, LastAnswer, Suspend
<1>4. CASE CreateEventFromState(s) \/ CreateEvent(s)
  <2>1. PICK at \in {"work", "clear"}, d \in Data :
            flight' = [flight EXCEPT ![s] = [flight[s] EXCEPT !.at = at, !.data = d]]
    <3>1. CASE CreateEventFromState(s)
      BY <3>1 DEF CreateEventFromState, DialogueInv, TypeOK
    <3>2. CASE CreateEvent(s)
      <4>1. [flight[s] EXCEPT !.at = "clear"]
                = [flight[s] EXCEPT !.at = "clear", !.data = flight[s].data]
        BY DEF Handler
      <4> QED
        BY <3>2, <4>1 DEF CreateEvent, Record, DialogueInv, TypeOK
    <3> QED
      BY <1>4, <3>1, <3>2
  <2> DEFINE h == [flight[s] EXCEPT !.at = at, !.data = d]
  <2>2. h.what = "create_event"
    BY <1>4 DEF CreateEventFromState, CreateEvent, Resumes, Handler
  <2>3. Sound(h) /\ Expects(h, data)
    BY <2>2, OtherHandler DEF Question
  <2>4. UNCHANGED <<state, data>>
    BY <1>4 DEF CreateEventFromState, CreateEvent, Record
  <2> QED
    BY <2>1, <2>3, <2>4, KeepsTarget
<1> QED
  BY <1>1, <1>2, <1>3, <1>4 DEF EventWizard

\* A question begins with its target; those that look it up first remember the button.
LEMMA AskAsked == ASSUME DialogueInv, NEW s \in Slot, Ask(s) PROVE AskedInv'
<1>1. ASSUME NEW q \in Question, NEW t \in Target, AskLater(s, q, t) PROVE AskedInv'
  <2> DEFINE h == [Idle EXCEPT !.what = "ask", !.data.target[Key(q)] = t]
  <2>1. h.what = "ask"
    BY DEF Idle
  <2>2. Sound(h) /\ Expects(h, data)
    BY <2>1, OtherHandler DEF Question
  <2> QED
    BY <1>1, <2>2, KeepsTarget DEF AskLater, Suspend
<1>2. CASE ResumeAsk(s)
  <2>1. PICK q \in {"item", "retention", "sector"} :
            /\ flight[s].data.target[Key(q)] # NoOne
            /\ Put(q, flight[s].data.target[Key(q)], [flight EXCEPT ![s] = Idle])
    BY <1>2 DEF ResumeAsk
  <2>2. flight[s].data.target[Key(q)] \in Target
    BY <2>1, KeyType DEF DialogueInv, TypeOK, Handler, Data
  <2> DEFINE handlers == [flight EXCEPT ![s] = Idle]
  <2>3. handlers \in [Slot -> Handler]
    BY NullTypes DEF DialogueInv, TypeOK
  <2>4. \A r \in Slot : Sound(handlers[r])
    BY IdleAsksNothing DEF DialogueInv, AskedInv, TypeOK
  <2> HIDE DEF handlers
  <2> QED
    BY <2>1, <2>2, <2>3, <2>4, PutAsked DEF Question, handlers
<1> QED
  BY <1>1, <1>2 DEF Ask, ChecklistAddStart, EventRetentionStart, AdminUserSectorStart, Question

\* An answer remembers the question, reads the data, calls the route.
LEMMA ReplyAsked == ASSUME DialogueInv, NEW s \in Slot, Reply(s) PROVE AskedInv'
<1> data \in Data /\ flight[s] \in Handler /\ flight[s].data \in Data
  BY DEF DialogueInv, TypeOK, Handler
<1>1. ASSUME NEW q \in Question, Answer(s, q) PROVE AskedInv'
  <2> DEFINE h == [Idle EXCEPT !.what = q, !.data.asked = data.asked]
  <2>1. h.what = q /\ h.at = "sync" /\ h.data.asked = data.asked
    BY DEF Idle, NoData
  <2>2. data.target[Key(q)] = data.asked
    BY <1>1 DEF Answer, DialogueInv, AskedInv, QuestionPut
  <2>3. Sound(h) /\ Expects(h, data)
    BY <2>1, <2>2 DEF Sound, Expects, Question
  <2> QED
    BY <1>1, <2>3, KeepsTarget DEF Answer, Suspend
<1>2. CASE ReadTarget(s)
  <2> DEFINE k == Key(flight[s].what)
             t == data.target[k]
             h == [flight[s] EXCEPT !.at = "work", !.data.target[k] = t]
  <2>1. CASE t # NoOne
    <3>1. flight' = [flight EXCEPT ![s] = h] /\ UNCHANGED <<state, data>>
      BY <1>2, <2>1 DEF ReadTarget, DialogueInv, TypeOK
    <3>2. /\ h.what = flight[s].what /\ h.at = "work" /\ h.disturbed = flight[s].disturbed
          /\ h.data.asked = flight[s].data.asked /\ h.data.target[k] = t
      BY KeyType DEF Handler, Data
    <3>3. flight[s].what \in Question /\ flight[s].at = "sync"
      BY <1>2 DEF ReadTarget
    <3>4. ~flight[s].disturbed => t = flight[s].data.asked
      BY <2>1, <3>3 DEF DialogueInv, AskedInv, Expects
    <3>5. Sound(h) /\ Expects(h, data)
      BY <3>2, <3>3, <3>4 DEF Sound, Expects, Question
    <3> QED
      BY <3>1, <3>5, KeepsTarget
  <2>2. CASE t = NoOne
    <3>1. Ends(s) /\ (Clear \/ UNCHANGED <<state, data>>)
      BY <1>2, <2>2 DEF ReadTarget
    <3>2. CASE Clear
      BY <3>1, <3>2, ClearForgets, ForgetsTarget DEF Ends
    <3>3. CASE UNCHANGED <<state, data>>
      BY <3>1, <3>3, IdleAsksNothing, KeepsTarget DEF Ends
    <3> QED
      BY <3>1, <3>2, <3>3
  <2> QED
    BY <2>1, <2>2
<1>3. CASE CallRoute(s)
  <2> DEFINE h == [flight[s] EXCEPT !.at = "clear"]
  <2>1. /\ h.what = flight[s].what /\ h.at = "clear" /\ h.disturbed = flight[s].disturbed
        /\ h.data = flight[s].data /\ h.what \in Question /\ flight[s].at # "sync"
    BY <1>3 DEF CallRoute, Handler
  <2>2. Sound(flight[s])
    BY DEF DialogueInv, AskedInv
  <2>3. Sound(h) /\ Expects(h, data)
    BY <2>1, <2>2 DEF Sound, Expects, Question
  <2>4. flight' = [flight EXCEPT ![s] = h] /\ UNCHANGED <<state, data>>
    BY <1>3 DEF CallRoute, DialogueInv, TypeOK
  <2> QED
    BY <2>3, <2>4, KeepsTarget
<1> QED
  BY <1>1, <1>2, <1>3
     DEF Reply, TaskEditValue, TaskMemberAddFinish, ChecklistAddFinish, ReportCommentSave,
         ReportPhotoSave, ReportReturnFinish, EventRetentionFinish, AdminUserSectorFinish,
         Question

\* Every step keeps what open questions and answers under way are about.
LEMMA NextAsked == ASSUME DialogueInv, [Next]_vars PROVE AskedInv'
<1>1. ASSUME NEW t \in Target, \/ TaskEditField(t) \/ TaskMemberAddStart(t)
             \/ ReportCommentStart(t) \/ ReportPhotoStart(t) \/ ReportReturnStart(t)
      PROVE  AskedInv'
  <2>1. flight \in [Slot -> Handler] /\ \A s \in Slot : Sound(flight[s])
    BY DEF DialogueInv, AskedInv, TypeOK
  <2> QED
    BY <1>1, <2>1, PutAsked
       DEF TaskEditField, TaskMemberAddStart, ReportCommentStart, ReportPhotoStart,
           ReportReturnStart, Question
<1>2. CASE Prompt
  BY <1>1, <1>2, PromptAsked
<1>3. ASSUME NEW s \in Slot, IssueWizard(s) \/ EventWizard(s) \/ Ask(s) \/ Reply(s)
      PROVE  AskedInv'
  BY <1>3, IssueWizardAsked, EventWizardAsked, AskAsked, ReplyAsked
<1>4. ASSUME NEW s \in Slot, CancelAction(s) PROVE AskedInv'
  <2>1. [Idle EXCEPT !.what = "clear"].what = "clear"
    BY DEF Idle
  <2>2. Sound([Idle EXCEPT !.what = "clear"]) /\ Expects([Idle EXCEPT !.what = "clear"], data)
    BY <2>1, OtherHandler DEF Question
  <2> QED
    BY <1>4, <2>2, KeepsTarget DEF CancelAction, Dispatch, Suspend
<1>5. ASSUME NEW s \in Slot, ResumeClear(s) \/ FinishHandler(s) PROVE AskedInv'
  BY <1>5, ClearForgets, ForgetsTarget DEF ResumeClear, FinishHandler, Cleared, Ends
<1>6. ASSUME NEW s \in Slot, AnswerHttpError(s) \/ CommitReplyLost(s) PROVE AskedInv'
  BY <1>6, IdleAsksNothing, KeepsTarget DEF AnswerHttpError, CommitReplyLost, Ends
<1>7. CASE Restart
  BY <1>7, IdleAsksNothing, ClearForgets DEF Restart, AskedInv, QuestionPut
<1>8. CASE UNCHANGED vars
  BY <1>8 DEF vars, DialogueInv, AskedInv, QuestionPut
<1> QED
  BY <1>2, <1>3, <1>4, <1>5, <1>6, <1>7, <1>8 DEF Next

\* At first nothing is asked.
LEMMA InitAsked == Init => AskedInv
BY IdleAsksNothing DEF Init, AskedInv, QuestionPut, Question

\* The invariant of the questions, with the types it needs.
LEMMA DialogueInvariant == Spec => []DialogueInv
<1>1. Init => DialogueInv
  BY InitType, InitAsked DEF DialogueInv
<1>2. DialogueInv /\ [Next]_vars => DialogueInv'
  <2>1. DialogueInv => Picks
    BY DEF DialogueInv, AskedInv, Sound, Picks
  <2> QED
    BY <2>1, NextType, NextAsked DEF DialogueInv
<1> QED
  BY <1>1, <1>2, PTL DEF Spec

\* The FSM state and data, and what the suspended handlers carry, stay of their type;
\* among others a manager never picks themselves.
THEOREM DialogueTypes == Spec => []TypeOK
<1>1. DialogueInv => TypeOK
  BY DEF DialogueInv
<1> QED
  BY <1>1, DialogueInvariant, PTL

\* Every answer handler of core.py calls the route for what the manager was asked about,
\* unless another question was put, or (for the retention of an event) issue_task_event
\* wrote an event, before it read the data: neither a cancellation, a wizard that begins
\* or ends, a restart, nor data left by a question that was never answered, or by
\* a wizard, leads it elsewhere.
THEOREM AnswersArrive == Spec => []AnswersGoWhereAsked
<1>1. DialogueInv => AnswersGoWhereAsked
  BY DEF DialogueInv, AskedInv, Sound, AnswersGoWhereAsked
<1> QED
  BY <1>1, DialogueInvariant, PTL
-------------------------------------------------------------------------------
(* The wizard that issues a task.                                             *)

\* The steps after the title.
AfterTitle == TaskIssue \ {"title"}

\* A team create_task accepts.
TeamChosen(d) ==
    \/ d.kind = "group" /\ d.people # {} /\ d.leader \in d.people \cup {Creator}
    \/ d.kind = "individual" /\ Cardinality(d.people) = 1 /\ d.leader = NoOne

\* What the wizard has gathered when it is at a step.
Gathered(step, d) ==
    /\ d.kind # "none" \/ step \in AfterTitle => d.titled
    /\ d.leader # NoOne =>
           d.kind = "group" /\ d.people # {} /\ d.leader \in d.people \cup {Creator}
    /\ step = "leader" => d.kind = "group" /\ d.people # {}
    /\ step \in {"deadline", "checklist"} => TeamChosen(d)

\* A wizard that begins has gathered nothing.
StartsEmpty(h) ==
    h.what \in {"issue", "new_event"} =>
        h.data.kind = "none" /\ h.data.leader = NoOne

WizardInv ==
    /\ \A s \in Slot : StartsEmpty(flight[s])
    /\ state = "people" => data.leader = NoOne
    /\ data.late \/ Gathered(state, data)

\* A step that keeps what was gathered and goes to a place that needs nothing.
LEMMA KeepsGathered ==
    ASSUME TypeOK, WizardInv, state' = state \/ state' \notin AfterTitle,
           \/ data' = data
           \/ /\ data'.late = data.late /\ (data.titled => data'.titled)
              /\ data'.kind = data.kind /\ data'.people = data.people
              /\ data'.leader = data.leader
    PROVE  /\ state' = "people" => data'.leader = NoOne
           /\ data'.late \/ Gathered(state', data')
BY DEF WizardInv, Gathered, TeamChosen, AfterTitle, TaskIssue

\* After state.clear() nothing needs to have been gathered.
LEMMA ClearedGathers ==
    Clear => /\ state' = "people" => data'.leader = NoOne
             /\ data'.late \/ Gathered(state', data')
BY DEF Clear, NoData, Gathered, AfterTitle, TaskIssue

\* A wizard that is begun has gathered what its first step needs.
LEMMA PromptGathers ==
    ASSUME TypeOK, WizardInv, Prompt
    PROVE  /\ state' = "people" => data'.leader = NoOne
           /\ data'.late \/ Gathered(state', data')
<1> DEFINE G == /\ state' = "people" => data'.leader = NoOne
                /\ data'.late \/ Gathered(state', data')
<1> data \in Data
  BY DEF TypeOK
<1>1. CASE IssueTaskTitle
  <2>1. data'.titled /\ data'.kind = data.kind /\ data'.people = data.people
        /\ data'.leader = data.leader /\ data'.late = data.late /\ state' = "description"
    BY <1>1 DEF IssueTaskTitle, Goto, Data
  <2> QED
    BY <2>1 DEF WizardInv, Gathered
<1>2. ASSUME NEW t \in Target \cup {NoOne}, IssueTaskEvent(t) PROVE G
  <2>1. /\ data'.titled = data.titled /\ data'.late = data.late /\ data'.kind = data.kind
        /\ data'.people = data.people /\ data'.leader = data.leader
        /\ state = "event" /\ state' = "kind"
    BY <1>2 DEF IssueTaskEvent, Data
  <2> QED
    BY <2>1 DEF WizardInv, Gathered, AfterTitle, TaskIssue
<1>3. ASSUME NEW k \in {"individual", "group"}, IssueTaskKind(k) PROVE G
  <2>1. data'.titled = data.titled /\ data'.late = data.late /\ data'.leader = NoOne
        /\ state = "kind" /\ state' = "people"
    BY <1>3 DEF IssueTaskKind, OfKind, Goto, Data
  <2> QED
    BY <2>1 DEF WizardInv, Gathered, AfterTitle, TaskIssue
<1>4. ASSUME NEW l \in User \cup {Creator}, IssueTaskLeader(l) PROVE G
  <2>1. /\ data'.titled = data.titled /\ data'.late = data.late /\ data'.leader = l
        /\ data'.kind = data.kind /\ data'.people = data.people
        /\ state = "leader" /\ state' = "deadline" /\ l \in data.people \cup {Creator}
    BY <1>4 DEF IssueTaskLeader, Goto, Data
  <2> QED
    BY <2>1 DEF WizardInv, Gathered, TeamChosen, AfterTitle, TaskIssue
<1>5. CASE IssueTaskDeadline
  BY <1>5 DEF IssueTaskDeadline, Goto, WizardInv, Gathered, AfterTitle, TaskIssue
<1>6. CASE EventCreateTitle \/ EventCreateStartDate \/ EventCreateEndDate \/ EventCreateBudget
           \/ EventCreateDescription
  BY <1>6, KeepsGathered
     DEF EventCreateTitle, EventCreateStartDate, EventCreateEndDate, EventCreateBudget,
         EventCreateDescription, Goto, Data, AfterTitle, TaskIssue
<1>7. ASSUME NEW t \in Target, \/ TaskEditField(t) \/ TaskMemberAddStart(t)
             \/ ReportCommentStart(t) \/ ReportPhotoStart(t) \/ ReportReturnStart(t)
      PROVE  G
  <2>1. PICK q \in Question : state' = q /\ data' = AskedAbout(q, t)
    BY <1>7 DEF TaskEditField, TaskMemberAddStart, ReportCommentStart, ReportPhotoStart,
                ReportReturnStart, Put, Question
  <2> QED
    BY <2>1, KeepsGathered DEF AskedAbout, Data, Question, AfterTitle, TaskIssue
<1> QED
  BY <1>1, <1>2, <1>3, <1>4, <1>5, <1>6, <1>7 DEF Prompt

\* A step of the wizard gathers what the next one needs, or is late.
LEMMA IssueWizardGathers ==
    ASSUME TypeOK, Picks, WizardInv, NEW s \in Slot, IssueWizard(s)
    PROVE  /\ state' = "people" => data'.leader = NoOne
           /\ data'.late \/ Gathered(state', data')
<1> data \in Data
  BY DEF TypeOK
<1>1. CASE \/ IssueTaskStart(s) \/ IssueTaskDescription(s) \/ IssueTaskPeopleDone(s)
           \/ IssueTaskPeople(s) \/ IssueTaskPerson(s) \/ ReadSelection(s)
           \/ IssueTaskChecklist(s) \/ CreateTask(s)
  BY <1>1, KeepsGathered
     DEF IssueTaskStart, StartWizard, IssueTaskDescription, IssueTaskPeopleDone, Dispatch,
         IssueTaskPeople, IssueTaskPerson, PickPerson, ReadSelection, IssueTaskChecklist,
         LastAnswer, CreateTask, Record
<1>2. CASE ResumeIssue(s)
  BY <1>2 DEF ResumeIssue, Resumes, WizardInv, StartsEmpty, Gathered, AfterTitle, TaskIssue
<1>3. CASE ResumeDescription(s)
  <2>1. /\ data'.late = (data.late \/ ~data.titled) /\ data'.titled = data.titled
        /\ data'.kind = data.kind /\ data'.people = data.people
        /\ data'.leader = data.leader /\ state' = "event"
    BY <1>3 DEF ResumeDescription, Data
  <2> QED
    BY <2>1 DEF WizardInv, Gathered
<1>4. CASE WriteSelection(s)
  <2>1. CASE data' = data
    BY <1>4, <2>1, KeepsGathered DEF WriteSelection
  <2>2. CASE data' # data
    <3>1. /\ data'.late = (data.late \/ state # "people") /\ data'.titled = data.titled
          /\ data'.kind = data.kind /\ data'.leader = data.leader /\ state' = state
      BY <1>4, <2>2 DEF WriteSelection, Data
    <3> QED
      BY <3>1 DEF WizardInv, Gathered
  <2> QED
    BY <2>1, <2>2
<1>5. CASE FinishTaskPeople(s)
  <2>1. CASE data.kind = "group" /\ data.people # {}
    BY <1>5, <2>1 DEF FinishTaskPeople, WizardInv, Gathered
  <2>2. CASE data.kind = "individual" /\ Cardinality(data.people) = 1
    BY <1>5, <2>2 DEF FinishTaskPeople, WizardInv, Gathered, TeamChosen
  <2>3. CASE /\ ~(data.kind = "group" /\ data.people # {})
             /\ ~(data.kind = "individual" /\ Cardinality(data.people) = 1)
    BY <1>5, <2>3, KeepsGathered DEF FinishTaskPeople
  <2> QED
    BY <2>1, <2>2, <2>3
<1> QED
  BY <1>1, <1>2, <1>3, <1>4, <1>5 DEF IssueWizard

\* Other dialogues do not touch what the wizard has gathered.
LEMMA OthersGather ==
    ASSUME TypeOK, WizardInv, NEW s \in Slot, EventWizard(s) \/ Ask(s) \/ Reply(s)
    PROVE  /\ state' = "people" => data'.leader = NoOne
           /\ data'.late \/ Gathered(state', data')
<1> data \in Data
  BY DEF TypeOK
<1>1. CASE EventWizard(s)
  <2>1. CASE ResumeEventStart(s)
    BY <2>1 DEF ResumeEventStart, Resumes, WizardInv, StartsEmpty, Gathered, AfterTitle,
                TaskIssue
  <2>2. CASE ~ResumeEventStart(s)
    BY <1>1, <2>2, KeepsGathered
       DEF EventWizard, EventCreateStart, StartWizard, EventPeopleDone, LastAnswer,
           CreateEventFromState, CreateEvent, Record
  <2> QED
    BY <2>1, <2>2
<1>2. CASE Ask(s)
  <2>1. CASE ResumeAsk(s)
    <3>1. PICK q \in {"item", "retention", "sector"} :
              \E t : state' = q /\ data' = AskedAbout(q, t)
      BY <2>1 DEF ResumeAsk, Put
    <3> QED
      BY <3>1, KeepsGathered DEF AskedAbout, Data, AfterTitle, TaskIssue
  <2>2. CASE ~ResumeAsk(s)
    BY <1>2, <2>2, KeepsGathered
       DEF Ask, ChecklistAddStart, EventRetentionStart, AdminUserSectorStart, AskLater
  <2> QED
    BY <2>1, <2>2
<1>3. CASE Reply(s)
  <2>1. CASE ReadTarget(s)
    <3>1. Clear \/ UNCHANGED <<state, data>>
      BY <2>1 DEF ReadTarget
    <3> QED
      BY <3>1, ClearedGathers, KeepsGathered
  <2>2. CASE ~ReadTarget(s)
    BY <1>3, <2>2, KeepsGathered
       DEF Reply, TaskEditValue, TaskMemberAddFinish, ChecklistAddFinish, ReportCommentSave,
           ReportPhotoSave, ReportReturnFinish, EventRetentionFinish, AdminUserSectorFinish,
           Answer, CallRoute
  <2> QED
    BY <2>1, <2>2
<1> QED
  BY <1>1, <1>2, <1>3

\* Handlers that begin a wizard come from StartWizard only.
LEMMA NextStartsEmpty ==
    ASSUME TypeOK, WizardInv, Next PROVE \A s \in Slot : StartsEmpty(flight'[s])
<1> SUFFICES ASSUME NEW r \in Slot PROVE StartsEmpty(flight'[r])
  OBVIOUS
<1> flight \in [Slot -> Handler] /\ StartsEmpty(flight[r]) /\ StartsEmpty(Idle)
  BY DEF TypeOK, WizardInv, StartsEmpty, Idle
<1>1. ASSUME NEW s \in Slot, NEW h, flight' = [flight EXCEPT ![s] = h], StartsEmpty(h)
      PROVE  StartsEmpty(flight'[r])
  BY <1>1
<1>2. ASSUME NEW s \in Slot, NEW h, flight' = [flight EXCEPT ![s] = h],
             h.what \notin {"issue", "new_event"}
      PROVE  StartsEmpty(flight'[r])
  BY <1>2 DEF StartsEmpty
<1>3. CASE UNCHANGED flight
  BY <1>3
<1>4. ASSUME NEW s \in Slot, NEW what \in {"issue", "new_event"}, StartWizard(s, what)
      PROVE  StartsEmpty(flight'[r])
  <2>1. StartsEmpty([Idle EXCEPT !.what = what, !.data.pass = passes + 1])
    BY DEF StartsEmpty, Idle, NoData
  <2> QED
    BY <1>1, <1>4, <2>1 DEF StartWizard, Suspend
<1>5. ASSUME NEW q, NEW t, NEW handlers, Put(q, t, handlers),
             handlers = flight \/ \E s \in Slot : handlers = [flight EXCEPT ![s] = Idle]
      PROVE  StartsEmpty(flight'[r])
  <2>1. StartsEmpty(handlers[r])
    BY <1>5
  <2>2. handlers[r] \in Handler
    BY <1>5, NullTypes
  <2>3. StartsEmpty([handlers[r] EXCEPT !.disturbed = TRUE])
    BY <2>1, <2>2 DEF StartsEmpty, Handler
  <2> QED
    BY <1>5, <2>1, <2>3 DEF Put
<1>6. CASE Prompt
  <2>1. CASE UNCHANGED flight
    BY <1>3, <2>1
  <2>2. CASE \E t \in Target, q \in Question : Put(q, t, flight)
    BY <1>5, <2>2
  <2>3. ASSUME NEW t, IssueTaskEvent(t) PROVE StartsEmpty(flight'[r])
    <3>1. flight'[r] \in {flight[r], [flight[r] EXCEPT !.disturbed = TRUE]}
      BY <2>3 DEF IssueTaskEvent
    <3>2. flight'[r].what = flight[r].what /\ flight'[r].data = flight[r].data
      BY <3>1 DEF Handler
    <3> QED
      BY <3>2 DEF StartsEmpty
  <2> QED
    BY <1>6, <2>1, <2>2, <2>3
       DEF Prompt, IssueTaskTitle, IssueTaskDeadline, IssueTaskKind,
           IssueTaskLeader, EventCreateTitle, EventCreateStartDate, EventCreateEndDate,
           EventCreateBudget, EventCreateDescription, Goto, TaskEditField,
           TaskMemberAddStart, ReportCommentStart, ReportPhotoStart, ReportReturnStart,
           Question
<1>7. ASSUME NEW s \in Slot, IssueWizard(s) PROVE StartsEmpty(flight'[r])
  <2> flight[s] \in Handler
    OBVIOUS
  <2>1. CASE IssueTaskStart(s)
    BY <1>4, <2>1 DEF IssueTaskStart
  <2>2. CASE ResumeIssue(s) \/ ResumeDescription(s) \/ WriteSelection(s) \/ FinishTaskPeople(s)
    BY <1>1, <2>2 DEF ResumeIssue, ResumeDescription, WriteSelection, FinishTaskPeople, Ends
  <2>3. CASE IssueTaskDescription(s) \/ IssueTaskPeopleDone(s)
    <3>1. PICK what \in {"describe", "done"} : Dispatch(s, what)
      BY <2>3 DEF IssueTaskDescription, IssueTaskPeopleDone
    <3>2. [Idle EXCEPT !.what = what].what = what
      BY DEF Idle
    <3> QED
      BY <1>2, <3>1, <3>2 DEF Dispatch, Suspend
  <2>4. CASE IssueTaskPeople(s) \/ IssueTaskPerson(s)
    <3>1. PICK how \in {"search", "toggle"}, u \in User : PickPerson(s, how, u)
      BY <2>4 DEF IssueTaskPeople, IssueTaskPerson, Pickable
    <3>2. [Idle EXCEPT !.what = how, !.pick = u].what = how
      BY DEF Idle
    <3> QED
      BY <1>2, <3>1, <3>2 DEF PickPerson, Suspend
  <2>5. CASE ReadSelection(s)
    <3>1. flight'[s].what = flight[s].what /\ \A x \in Slot \ {s} : flight'[x] = flight[x]
      BY <2>5 DEF ReadSelection, Handler
    <3> QED
      BY <2>5, <3>1 DEF ReadSelection, Resumes, StartsEmpty
  <2>6. CASE IssueTaskChecklist(s)
    <3>1. [Idle EXCEPT !.what = "create_task", !.at = "work", !.data = data].what
             = "create_task"
      BY DEF Idle
    <3> QED
      BY <1>2, <2>6, <3>1 DEF IssueTaskChecklist, LastAnswer, Suspend
  <2>7. CASE CreateTask(s)
    <3>1. flight'[s].what = flight[s].what /\ \A x \in Slot \ {s} : flight'[x] = flight[x]
      BY <2>7 DEF CreateTask, Record, Handler
    <3> QED
      BY <2>7, <3>1 DEF CreateTask, Resumes, StartsEmpty
  <2> QED
    BY <1>7, <2>1, <2>2, <2>3, <2>4, <2>5, <2>6, <2>7 DEF IssueWizard
<1>8. ASSUME NEW s \in Slot, EventWizard(s) PROVE StartsEmpty(flight'[r])
  <2> flight[s] \in Handler
    OBVIOUS
  <2>1. CASE EventCreateStart(s)
    BY <1>4, <2>1 DEF EventCreateStart
  <2>2. CASE ResumeEventStart(s)
    BY <1>1, <2>2 DEF ResumeEventStart, Ends
  <2>3. CASE EventPeopleDone(s)
    <3>1. [Idle EXCEPT !.what = "create_event"].what = "create_event"
      BY DEF Idle
    <3> QED
      BY <1>2, <2>3, <3>1 DEF EventPeopleDone, LastAnswer, Suspend
  <2>4. CASE CreateEventFromState(s) \/ CreateEvent(s)
    <3>1. flight'[s].what = flight[s].what /\ \A x \in Slot \ {s} : flight'[x] = flight[x]
      BY <2>4 DEF CreateEventFromState, CreateEvent, Record, Handler
    <3> QED
      BY <2>4, <3>1 DEF CreateEventFromState, CreateEvent, Resumes, StartsEmpty
  <2> QED
    BY <1>8, <2>1, <2>2, <2>3, <2>4 DEF EventWizard
<1>9. ASSUME NEW s \in Slot, Ask(s) PROVE StartsEmpty(flight'[r])
  <2>1. CASE ResumeAsk(s)
    BY <1>5, <2>1 DEF ResumeAsk
  <2>2. ASSUME NEW q, NEW t, AskLater(s, q, t) PROVE StartsEmpty(flight'[r])
    <3>1. [Idle EXCEPT !.what = "ask", !.data.target[Key(q)] = t].what = "ask"
      BY DEF Idle
    <3> QED
      BY <1>2, <2>2, <3>1 DEF AskLater, Suspend
  <2> QED
    BY <1>9, <2>1, <2>2 DEF Ask, ChecklistAddStart, EventRetentionStart, AdminUserSectorStart
<1>10. ASSUME NEW s \in Slot, Reply(s) PROVE StartsEmpty(flight'[r])
  <2> flight[s] \in Handler
    OBVIOUS
  <2>1. ASSUME NEW q \in Question, Answer(s, q) PROVE StartsEmpty(flight'[r])
    <3>1. [Idle EXCEPT !.what = q, !.data.asked = data.asked].what = q
      BY DEF Idle
    <3> QED
      BY <1>2, <2>1, <3>1 DEF Answer, Suspend, Question
  <2>2. CASE ReadTarget(s) \/ CallRoute(s)
    <3>1. CASE Ends(s)
      BY <1>1, <3>1 DEF Ends
    <3>2. CASE ~Ends(s)
      <4>1. flight'[s].what = flight[s].what /\ \A x \in Slot \ {s} : flight'[x] = flight[x]
        BY <2>2, <3>2 DEF ReadTarget, CallRoute, Handler
      <4> QED
        BY <2>2, <4>1 DEF ReadTarget, CallRoute, Question, StartsEmpty
    <3> QED
      BY <3>1, <3>2
  <2> QED
    BY <1>10, <2>1, <2>2
       DEF Reply, TaskEditValue, TaskMemberAddFinish, ChecklistAddFinish, ReportCommentSave,
           ReportPhotoSave, ReportReturnFinish, EventRetentionFinish, AdminUserSectorFinish,
           Question
<1>11. ASSUME NEW s \in Slot, CancelAction(s) PROVE StartsEmpty(flight'[r])
  <2>1. [Idle EXCEPT !.what = "clear"].what = "clear"
    BY DEF Idle
  <2> QED
    BY <1>2, <1>11, <2>1 DEF CancelAction, Dispatch, Suspend
<1>12. ASSUME NEW s \in Slot, \/ ResumeClear(s) \/ FinishHandler(s) \/ AnswerHttpError(s)
                              \/ CommitReplyLost(s)
       PROVE  StartsEmpty(flight'[r])
  BY <1>1, <1>12 DEF ResumeClear, FinishHandler, AnswerHttpError, CommitReplyLost, Ends
<1>13. CASE Restart
  BY <1>13 DEF Restart
<1> QED
  BY <1>6, <1>7, <1>8, <1>9, <1>10, <1>11, <1>12, <1>13 DEF Next

\* Every step keeps WizardInv.
LEMMA NextGathers == ASSUME TypeOK, Picks, WizardInv, [Next]_vars PROVE WizardInv'
<1>1. CASE Next
  <2> DEFINE G == /\ state' = "people" => data'.leader = NoOne
                  /\ data'.late \/ Gathered(state', data')
  <2>1. ASSUME Prompt PROVE G
    BY <2>1, PromptGathers
  <2>2. ASSUME NEW s \in Slot, IssueWizard(s) \/ EventWizard(s) \/ Ask(s) \/ Reply(s) PROVE G
    BY <2>2, IssueWizardGathers, OthersGather
  <2>3. ASSUME NEW s \in Slot, CancelAction(s) \/ AnswerHttpError(s) \/ CommitReplyLost(s)
        PROVE  G
    BY <2>3, KeepsGathered DEF CancelAction, Dispatch, AnswerHttpError, CommitReplyLost
  <2>4. ASSUME NEW s \in Slot, ResumeClear(s) \/ FinishHandler(s) PROVE G
    BY <2>4, ClearedGathers DEF ResumeClear, FinishHandler, Cleared
  <2>5. ASSUME Restart PROVE G
    BY <2>5, ClearedGathers DEF Restart
  <2>6. G
    BY <1>1, <2>1, <2>2, <2>3, <2>4, <2>5 DEF Next
  <2> QED
    BY <1>1, <2>6, NextStartsEmpty DEF WizardInv
<1>2. CASE UNCHANGED vars
  BY <1>2 DEF vars, WizardInv
<1> QED
  BY <1>1, <1>2

\* Whoever gets to the end of the wizard of core.py has a task that create_task accepts,
\* unless a tap was handled after the selection was over, or a description outlived its
\* wizard: for any number of overlapping handlers, wizards, questions and restarts.
THEOREM WizardEndsWell == Spec => []WizardIsAccepted
<1>1. Init => WizardInv
  BY DEF Init, WizardInv, StartsEmpty, Idle, NoData, Gathered, AfterTitle, TaskIssue
<1>2. DialogueInv /\ WizardInv /\ [Next]_vars => WizardInv'
  BY NextGathers DEF DialogueInv, AskedInv, Sound, Picks
<1>3. DialogueInv /\ WizardInv => WizardIsAccepted
  <2> SUFFICES ASSUME DialogueInv, WizardInv, state = "checklist", ~data.late
               PROVE  TaskAccepted(data)
    BY DEF WizardIsAccepted
  <2>1. data.titled /\ TeamChosen(data)
    BY DEF WizardInv, Gathered, AfterTitle, TaskIssue
  <2>2. CASE data.kind = "group"
    <3>1. data.people # {} /\ data.leader \in data.people \cup {Creator}
      BY <2>1, <2>2 DEF TeamChosen
    <3>2. data.people \subseteq User
      BY DEF DialogueInv, TypeOK, Data
    <3>3. data.leader # NoOne
      BY <3>1, <3>2, PeopleAssumption
    <3> QED
      BY <2>1, <2>2, <3>1, <3>3 DEF TaskAccepted
  <2>3. CASE data.kind = "individual"
    BY <2>1, <2>3 DEF TeamChosen, TaskAccepted
  <2> QED
    BY <2>1, <2>2, <2>3 DEF TeamChosen
<1> QED
  BY <1>1, <1>2, <1>3, DialogueInvariant, PTL DEF Spec
-------------------------------------------------------------------------------
(* One record for each wizard.                                                *)

\* The handler has taken the dialogue of wizard p for the one its answer ends.
Attached(h, p) == h.what \in Final /\ h.at \in {"work", "clear"} /\ h.data.pass = p

\* The record of wizard p is committed, its handler about to clear the dialogue.
Recorded(h, p) == Attached(h, p) /\ h.at = "clear"

\* Nothing is left that could create a record for wizard p.
Over(p) == data.pass # p /\ \A s \in Slot : ~Attached(flight[s], p)

Starting(h) == h.what \in {"issue", "new_event"}

\* A wizard that is about to begin has a number of its own.
FreshPass(s) ==
    /\ flight[s].data.pass \in Pass
    /\ created[flight[s].data.pass] = doubts[flight[s].data.pass]
    /\ data.pass # flight[s].data.pass
    /\ \A r \in Slot : r # s => flight[r].data.pass # flight[s].data.pass

OneAnswer(p) ==
    \A s, r \in Slot : Attached(flight[s], p) /\ Attached(flight[r], p) => s = r

CreatedOnce(p) ==
    \/ created[p] = doubts[p]
    \/ created[p] = doubts[p] + 1 /\ (Over(p) \/ \E s \in Slot : Recorded(flight[s], p))

PassInv ==
    /\ data.pass <= passes
    /\ \A s \in Slot : flight[s].data.pass <= passes
    /\ \A p \in Pass : p > passes => created[p] = doubts[p]
    /\ \A s \in Slot : Starting(flight[s]) => FreshPass(s)
    /\ \A p \in Pass : p \notin overlapped => OneAnswer(p) /\ CreatedOnce(p)

\* The numbers of passes, opened, for the arithmetic below.
LEMMA PassNumbers ==
    ASSUME TypeOK
    PROVE  /\ data.pass \in Nat /\ \A s \in Slot : flight[s].data.pass \in Nat
           /\ passes \in Nat /\ flight \in [Slot -> Handler] /\ data \in Data
           /\ created \in [Pass -> Nat] /\ doubts \in [Pass -> Nat]
           /\ \A p \in Pass : p \in Nat \ {0}
BY PassAssumption DEF TypeOK, Handler, Data, Pass

\* A handler goes on without taking a wizard, and gives one up only when it has
\* nothing recorded or clears the dialogue.
LEMMA KeepsPass ==
    ASSUME TypeOK, PassInv, NEW s \in Slot, NEW h, flight' = [flight EXCEPT ![s] = h],
           h.data.pass \in {0, flight[s].data.pass}, ~Starting(h),
           \A p \in Pass : Attached(h, p) => Attached(flight[s], p),
           \A p \in Pass : Recorded(flight[s], p)
                            => Recorded(h, p) \/ (data'.pass = 0 /\ ~Attached(h, p)),
           data'.pass \in {0, data.pass},
           UNCHANGED <<passes, created, doubts>>, overlapped \subseteq overlapped'
    PROVE  PassInv'
<1> USE PassNumbers
<1>1. \A r \in Slot : flight'[r] = IF r = s THEN h ELSE flight[r]
  OBVIOUS
<1>2. data'.pass <= passes' /\ \A r \in Slot : flight'[r].data.pass <= passes'
  BY <1>1 DEF PassInv
<1>3. ASSUME NEW r \in Slot, Starting(flight'[r]) PROVE FreshPass(r)'
  <2>1. r # s /\ flight'[r] = flight[r] /\ FreshPass(r)
    BY <1>1, <1>3 DEF PassInv
  <2> QED
    BY <1>1, <2>1 DEF FreshPass
<1>4. ASSUME NEW p \in Pass, p \notin overlapped' PROVE OneAnswer(p)' /\ CreatedOnce(p)'
  <2>1. OneAnswer(p) /\ CreatedOnce(p)
    BY <1>4 DEF PassInv
  <2>2. \A r \in Slot : Attached(flight'[r], p) => Attached(flight[r], p)
    BY <1>1
  <2>3. OneAnswer(p)'
    BY <2>1, <2>2 DEF OneAnswer
  <2>4. CASE created[p] = doubts[p]
    BY <2>3, <2>4 DEF CreatedOnce
  <2>5. CASE created[p] = doubts[p] + 1 /\ Over(p)
    BY <2>2, <2>3, <2>5 DEF CreatedOnce, Over
  <2>6. ASSUME created[p] = doubts[p] + 1, NEW r \in Slot, Recorded(flight[r], p) PROVE CreatedOnce(p)'
    <3>1. CASE Recorded(flight'[r], p)
      BY <2>6, <3>1 DEF CreatedOnce
    <3>2. CASE ~Recorded(flight'[r], p)
      <4>1. r = s /\ data'.pass = 0 /\ ~Recorded(h, p)
        BY <1>1, <2>6, <3>2
      <4>2. \A x \in Slot : Attached(flight[x], p) => x = s
        BY <2>1, <2>6, <4>1 DEF OneAnswer, Recorded
      <4>3. ~Attached(h, p)
        BY <2>6, <4>1
      <4> QED
        BY <1>1, <2>2, <2>6, <4>1, <4>2, <4>3 DEF CreatedOnce, Over
    <3> QED
      BY <3>1, <3>2
  <2> QED
    BY <2>1, <2>3, <2>4, <2>5, <2>6 DEF CreatedOnce
<1> QED
  BY <1>2, <1>3, <1>4 DEF PassInv

\* The prompts and questions: no handler takes or gives up a wizard.
LEMMA SamePass ==
    ASSUME TypeOK, PassInv, data'.pass = data.pass, UNCHANGED <<passes, created, doubts, overlapped>>,
           \A s \in Slot : /\ flight'[s].data.pass = flight[s].data.pass
                           /\ flight'[s].what = flight[s].what
                           /\ flight'[s].at = flight[s].at
    PROVE  PassInv'
<1>1. \A s \in Slot : Starting(flight'[s]) => FreshPass(s)'
  BY DEF PassInv, Starting, FreshPass
<1>2. \A s \in Slot, p \in Pass : /\ Attached(flight'[s], p) <=> Attached(flight[s], p)
                                  /\ Recorded(flight'[s], p) <=> Recorded(flight[s], p)
  BY DEF Attached, Recorded
<1>3. ASSUME NEW p \in Pass, p \notin overlapped' PROVE OneAnswer(p)' /\ CreatedOnce(p)'
  BY <1>2, <1>3 DEF PassInv, OneAnswer, CreatedOnce, Over
<1> QED
  BY <1>1, <1>3 DEF PassInv

\* A wizard gets the next number.
LEMMA StartPass ==
    ASSUME TypeOK, PassInv, NEW s \in Slot, NEW what \in {"issue", "new_event"},
           StartWizard(s, what)
    PROVE  PassInv'
<1> USE PassNumbers
<1> DEFINE h == [Idle EXCEPT !.what = what, !.data.pass = passes + 1]
<1>1. /\ flight' = [flight EXCEPT ![s] = h] /\ flight[s] = Idle
      /\ passes' = passes + 1 /\ passes < MaxPasses
      /\ UNCHANGED <<data, created, doubts, overlapped>>
  BY DEF StartWizard, Suspend
<1>2. h.what = what /\ h.data.pass = passes + 1
  BY DEF Idle, NoData
<1> HIDE DEF h
<1>3. \A r \in Slot : flight'[r] = IF r = s THEN h ELSE flight[r]
  BY <1>1
<1>4. data'.pass <= passes' /\ \A r \in Slot : flight'[r].data.pass <= passes'
  BY <1>1, <1>2, <1>3 DEF PassInv
<1>5. passes + 1 \in Pass /\ created[passes + 1] = doubts[passes + 1]
  BY <1>1, PassAssumption DEF Pass, PassInv
<1>6. ASSUME NEW r \in Slot, Starting(flight'[r]) PROVE FreshPass(r)'
  <2>1. CASE r = s
    BY <1>1, <1>2, <1>3, <1>5, <2>1 DEF FreshPass, PassInv
  <2>2. CASE r # s
    <3>1. FreshPass(r) /\ flight'[r] = flight[r] /\ flight[r].data.pass # passes + 1
      BY <1>3, <1>6, <2>2 DEF PassInv
    <3> QED
      BY <1>1, <1>2, <1>3, <3>1 DEF FreshPass
  <2> QED
    BY <2>1, <2>2
<1>7. \A r \in Slot, p \in Pass : /\ Attached(flight'[r], p) <=> Attached(flight[r], p)
                                  /\ Recorded(flight'[r], p) <=> Recorded(flight[r], p)
  BY <1>1, <1>2, <1>3 DEF Attached, Recorded, Final, Idle
<1>8. ASSUME NEW p \in Pass, p \notin overlapped' PROVE OneAnswer(p)' /\ CreatedOnce(p)'
  BY <1>1, <1>7, <1>8 DEF PassInv, OneAnswer, CreatedOnce, Over
<1>9. \A p \in Pass : p > passes' => created'[p] = doubts'[p]
  BY <1>1 DEF PassInv
<1> QED
  BY <1>4, <1>6, <1>8, <1>9 DEF PassInv

\* The wizard takes the dialogue over.
LEMMA ResumePass ==
    ASSUME TypeOK, PassInv, NEW s \in Slot, Starting(flight[s]),
           flight' = [flight EXCEPT ![s] = Idle], data' = flight[s].data,
           UNCHANGED <<passes, created, doubts, overlapped>>
    PROVE  PassInv'
<1> USE PassNumbers
<1>1. \A r \in Slot : flight'[r] = IF r = s THEN Idle ELSE flight[r]
  OBVIOUS
<1>2. Idle.data.pass = 0 /\ ~Starting(Idle) /\ \A p : ~Attached(Idle, p)
  BY DEF Idle, NoData, Starting, Attached, Final
<1>3. FreshPass(s)
  BY DEF PassInv
<1>4. ASSUME NEW r \in Slot, Starting(flight'[r]) PROVE FreshPass(r)'
  <2>1. r # s /\ FreshPass(r) /\ flight'[r] = flight[r]
    BY <1>1, <1>2, <1>4 DEF PassInv
  <2> QED
    BY <1>1, <1>2, <1>3, <2>1 DEF FreshPass
<1>5. \A r \in Slot, p \in Pass : /\ Attached(flight'[r], p) <=> Attached(flight[r], p)
                                  /\ Recorded(flight'[r], p) <=> Recorded(flight[r], p)
  BY <1>1, <1>2 DEF Starting, Attached, Recorded, Final
<1>6. ASSUME NEW p \in Pass, p \notin overlapped' PROVE OneAnswer(p)' /\ CreatedOnce(p)'
  <2>1. OneAnswer(p) /\ CreatedOnce(p)
    BY <1>6 DEF PassInv
  <2>2. p = flight[s].data.pass => created[p] = doubts[p]
    BY <1>3 DEF FreshPass
  <2> QED
    BY <1>5, <2>1, <2>2 DEF OneAnswer, CreatedOnce, Over
<1>7. data'.pass <= passes' /\ \A r \in Slot : flight'[r].data.pass <= passes'
  BY <1>1, <1>2 DEF PassInv
<1> QED
  BY <1>4, <1>6, <1>7 DEF PassInv

\* A last answer takes the dialogue there is.
LEMMA AttachPass ==
    ASSUME TypeOK, PassInv, NEW s \in Slot, NEW h, flight' = [flight EXCEPT ![s] = h],
           h.what \in Final, h.at = "work", h.data.pass = data.pass,
           ~Starting(flight[s]), \A p \in Pass : ~Attached(flight[s], p),
           UNCHANGED <<data, passes, created, doubts>>,
           overlapped' = overlapped \cup Overlapping(s)
    PROVE  PassInv'
<1> USE PassNumbers
<1>1. \A r \in Slot : flight'[r] = IF r = s THEN h ELSE flight[r]
  OBVIOUS
<1>2. ~Starting(h)
  BY DEF Starting, Final
<1>3. ASSUME NEW r \in Slot, Starting(flight'[r]) PROVE FreshPass(r)'
  <2>1. r # s /\ FreshPass(r) /\ flight'[r] = flight[r]
    BY <1>1, <1>2, <1>3 DEF PassInv
  <2> QED
    BY <1>1, <2>1 DEF FreshPass
<1>4. ASSUME NEW p \in Pass, p \notin overlapped' PROVE OneAnswer(p)' /\ CreatedOnce(p)'
  <2>1. OneAnswer(p) /\ CreatedOnce(p)
    BY <1>4 DEF PassInv
  <2>2. CASE p # data.pass
    <3>1. \A r \in Slot : /\ Attached(flight'[r], p) <=> Attached(flight[r], p)
                          /\ Recorded(flight'[r], p) <=> Recorded(flight[r], p)
      BY <1>1, <2>2 DEF Attached, Recorded
    <3> QED
      BY <2>1, <3>1 DEF OneAnswer, CreatedOnce, Over
  <2>3. CASE p = data.pass
    <3>1. BusyFinals \ {s} = {}
      BY <1>4, <2>3 DEF Overlapping
    <3>2. \A r \in Slot : r # s => ~Attached(flight[r], p)
      BY <3>1 DEF BusyFinals, Attached
    <3>3. \A r \in Slot : ~Attached(flight[r], p) /\ ~Recorded(flight[r], p)
      BY <3>2 DEF Recorded
    <3>4. created[p] = doubts[p]
      BY <2>1, <2>3, <3>3 DEF CreatedOnce, Over
    <3>5. OneAnswer(p)'
      BY <1>1, <3>2 DEF OneAnswer
    <3> QED
      BY <3>4, <3>5 DEF CreatedOnce
  <2> QED
    BY <2>2, <2>3
<1>5. \A r \in Slot : flight'[r].data.pass <= passes'
  BY <1>1 DEF PassInv
<1> QED
  BY <1>3, <1>4, <1>5 DEF PassInv

\* The record is committed.
LEMMA RecordPass ==
    ASSUME TypeOK, PassInv, NEW s \in Slot, flight[s].what \in Final, flight[s].at = "work",
           Record(s)
    PROVE  PassInv'
<1> USE PassNumbers
<1> DEFINE q == flight[s].data.pass
           h == [flight[s] EXCEPT !.at = "clear"]
<1>1. /\ flight' = [flight EXCEPT ![s] = h] /\ UNCHANGED <<data, passes, doubts, overlapped>>
      /\ \A p \in Pass : created'[p] = IF p = q THEN created[p] + 1 ELSE created[p]
  BY DEF Record
<1>2. h.what = flight[s].what /\ h.at = "clear" /\ h.data.pass = q
  BY DEF Handler
<1> HIDE DEF h
<1>3. \A r \in Slot : flight'[r] = IF r = s THEN h ELSE flight[r]
  BY <1>1
<1>4. ASSUME NEW r \in Slot, Starting(flight'[r]) PROVE FreshPass(r)'
  <2>1. r # s /\ FreshPass(r) /\ flight'[r] = flight[r]
    BY <1>2, <1>3, <1>4 DEF PassInv, Starting, Final
  <2> QED
    BY <1>1, <1>2, <1>3, <2>1 DEF FreshPass
<1>5. \A r \in Slot, p \in Pass : Attached(flight'[r], p) <=> Attached(flight[r], p)
  BY <1>2, <1>3 DEF Attached
<1>6. ASSUME NEW p \in Pass, p \notin overlapped' PROVE OneAnswer(p)' /\ CreatedOnce(p)'
  <2>1. OneAnswer(p) /\ CreatedOnce(p)
    BY <1>1, <1>6 DEF PassInv
  <2>2. OneAnswer(p)'
    BY <1>5, <2>1 DEF OneAnswer
  <2>3. CASE p = q
    <3>1. Attached(flight[s], p) /\ ~Recorded(flight[s], p)
      BY <2>3 DEF Attached, Recorded
    <3>2. \A r \in Slot : ~Recorded(flight[r], p)
      BY <2>1, <3>1 DEF OneAnswer, Recorded
    <3>3. created[p] = doubts[p]
      BY <2>1, <3>1, <3>2 DEF CreatedOnce, Over
    <3>4. Recorded(flight'[s], p)
      BY <1>2, <1>3, <2>3 DEF Recorded, Attached
    <3> QED
      BY <1>1, <2>2, <2>3, <3>3, <3>4 DEF CreatedOnce
  <2>4. CASE p # q
    <3>1. \A r \in Slot : Recorded(flight[r], p) => Recorded(flight'[r], p)
      BY <1>3, <2>4 DEF Recorded, Attached
    <3> QED
      BY <1>1, <1>5, <2>1, <2>2, <2>4, <3>1 DEF CreatedOnce, Over
  <2> QED
    BY <2>3, <2>4
<1>7. \A r \in Slot : flight'[r].data.pass <= passes'
  BY <1>1, <1>2, <1>3 DEF PassInv
<1>8. \A p \in Pass : p > passes' => created'[p] = doubts'[p]
  BY <1>1 DEF PassInv
<1> QED
  BY <1>1, <1>4, <1>6, <1>7, <1>8 DEF PassInv

\* A handler that has no part in a wizard is suspended or goes on.
LEMMA OtherPass ==
    ASSUME TypeOK, PassInv, NEW s \in Slot, NEW h, flight' = [flight EXCEPT ![s] = h],
           flight[s].what \notin Final, h.what \notin Final \cup {"issue", "new_event"},
           h.data.pass \in {0, flight[s].data.pass}, data'.pass \in {0, data.pass},
           UNCHANGED <<passes, created, doubts, overlapped>>
    PROVE  PassInv'
<1>1. ~Starting(h) /\ \A p \in Pass : ~Attached(h, p) /\ ~Recorded(flight[s], p)
  BY DEF Starting, Attached, Recorded
<1> QED
  BY <1>1, KeepsPass

\* A free slot belongs to no pass and begins none.
LEMMA IdlePass ==
    Idle.what = "idle" /\ Idle.data.pass = 0 /\ ~Starting(Idle) /\ \A p : ~Attached(Idle, p)
BY DEF Idle, NoData, Starting, Attached, Final

\* A dispatched answer takes its pass from the data, or overlaps with another.
LEMMA DispatchPass ==
    ASSUME TypeOK, PassInv, NEW s \in Slot, NEW what, what \in {"describe", "done", "clear"},
           Dispatch(s, what)
    PROVE  PassInv'
<1>1. [Idle EXCEPT !.what = what].what = what /\ [Idle EXCEPT !.what = what].data.pass = 0
  BY DEF Idle, NoData
<1> QED
  BY <1>1, IdlePass, OtherPass DEF Dispatch, Suspend, Final, ghosts

\* A question leaves the pass alone.
LEMMA PutPass ==
    ASSUME TypeOK, PassInv, NEW q, NEW t, Put(q, t, flight)
    PROVE  PassInv'
<1> USE PassNumbers
<1>1. data'.pass = data.pass
  BY DEF Put, AskedAbout, Data
<1>2. \A s \in Slot : /\ flight'[s].data.pass = flight[s].data.pass
                      /\ flight'[s].what = flight[s].what /\ flight'[s].at = flight[s].at
  BY DEF Put, Handler
<1> QED
  BY <1>1, <1>2, SamePass DEF Put, ghosts

\* A prompt keeps PassInv: a wizard it begins has a number of its own.
LEMMA PromptPass == ASSUME TypeOK, PassInv, Prompt PROVE PassInv'
<1> USE PassNumbers
<1>1. ASSUME NEW t \in Target, \/ TaskEditField(t) \/ TaskMemberAddStart(t)
             \/ ReportCommentStart(t) \/ ReportPhotoStart(t) \/ ReportReturnStart(t)
      PROVE  PassInv'
  BY <1>1, PutPass
     DEF TaskEditField, TaskMemberAddStart, ReportCommentStart, ReportPhotoStart,
         ReportReturnStart
<1>2. ASSUME NEW next, NEW d, Goto(next, d), d.pass = data.pass PROVE PassInv'
  BY <1>2, SamePass DEF Goto, ghosts
<1>3. /\ [data EXCEPT !.titled = TRUE].pass = data.pass
      /\ [data EXCEPT !.dated = TRUE].pass = data.pass
      /\ \A l : [data EXCEPT !.leader = l].pass = data.pass
      /\ \A k : [data EXCEPT !.kind = k, !.people = {}, !.leader = NoOne].pass = data.pass
  BY DEF Data
<1>4. ASSUME NEW t, IssueTaskEvent(t) PROVE PassInv'
  <2>1. data'.pass = data.pass
    BY <1>4 DEF IssueTaskEvent, Data
  <2>2. \A s \in Slot : /\ flight'[s].data.pass = flight[s].data.pass
                        /\ flight'[s].what = flight[s].what /\ flight'[s].at = flight[s].at
    BY <1>4 DEF IssueTaskEvent, Handler
  <2> QED
    BY <1>4, <2>1, <2>2, SamePass DEF IssueTaskEvent, ghosts
<1> QED
  BY <1>1, <1>2, <1>3, <1>4
     DEF Prompt, IssueTaskTitle, IssueTaskDeadline, IssueTaskKind, OfKind,
         IssueTaskLeader, EventCreateTitle, EventCreateStartDate, EventCreateEndDate,
         EventCreateBudget, EventCreateDescription

\* A step of the wizard creates the record of its pass once.
LEMMA IssueWizardPass == ASSUME TypeOK, PassInv, NEW s \in Slot, IssueWizard(s) PROVE PassInv'
<1> USE PassNumbers
<1> flight[s] \in Handler /\ flight[s].data \in Data
  BY DEF Handler
<1>1. CASE IssueTaskStart(s)
  BY <1>1, StartPass DEF IssueTaskStart
<1>2. CASE ResumeIssue(s)
  BY <1>2, ResumePass DEF ResumeIssue, Resumes, Starting, Ends, ghosts
<1>3. CASE IssueTaskDescription(s) \/ IssueTaskPeopleDone(s)
  BY <1>3, DispatchPass DEF IssueTaskDescription, IssueTaskPeopleDone
<1>4. CASE ResumeDescription(s) \/ WriteSelection(s) \/ FinishTaskPeople(s)
  <2>1. data'.pass = data.pass
    BY <1>4 DEF ResumeDescription, WriteSelection, FinishTaskPeople, Data
  <2>2. flight[s].what \notin Final
    BY <1>4 DEF ResumeDescription, WriteSelection, FinishTaskPeople, Resumes, Final
  <2> QED
    BY <1>4, <2>1, <2>2, IdlePass, OtherPass
       DEF ResumeDescription, WriteSelection, FinishTaskPeople, Ends, Final, ghosts
<1>5. CASE IssueTaskPeople(s) \/ IssueTaskPerson(s)
  <2>1. PICK how \in {"search", "toggle"}, u \in User : PickPerson(s, how, u)
    BY <1>5 DEF IssueTaskPeople, IssueTaskPerson, Pickable
  <2> DEFINE h == [Idle EXCEPT !.what = how, !.pick = u]
  <2>2. h.what = how /\ h.data.pass = 0
    BY DEF Idle, NoData
  <2> QED
    BY <2>1, <2>2, IdlePass, OtherPass DEF PickPerson, Suspend, Final, ghosts
<1>6. CASE ReadSelection(s)
  <2> DEFINE h == [flight[s] EXCEPT !.at = "work",
                                   !.data = [NoData EXCEPT !.people = data.people]]
  <2>1. h.what \in {"search", "toggle"} /\ h.data.pass = 0
    BY <1>6 DEF ReadSelection, Resumes, Handler, NoData
  <2>2. flight' = [flight EXCEPT ![s] = h] /\ flight[s].what \notin Final
    BY <1>6 DEF ReadSelection, Resumes, Final
  <2> QED
    BY <1>6, <2>1, <2>2, OtherPass DEF ReadSelection, Final, ghosts
<1>7. CASE IssueTaskChecklist(s)
  <2> DEFINE h == [Idle EXCEPT !.what = "create_task", !.at = "work", !.data = data]
  <2>1. h.what \in Final /\ h.at = "work" /\ h.data.pass = data.pass
    BY DEF Idle, Final
  <2> QED
    BY <1>7, <2>1, IdlePass, AttachPass DEF IssueTaskChecklist, LastAnswer, Suspend
<1>8. CASE CreateTask(s)
  BY <1>8, RecordPass DEF CreateTask, Resumes, Final
<1> QED
  BY <1>1, <1>2, <1>3, <1>4, <1>5, <1>6, <1>7, <1>8 DEF IssueWizard

\* So does one of the wizard that creates an event.
LEMMA EventWizardPass == ASSUME TypeOK, PassInv, NEW s \in Slot, EventWizard(s) PROVE PassInv'
<1> USE PassNumbers
<1> flight[s] \in Handler /\ flight[s].data \in Data
  BY DEF Handler
<1>1. CASE EventCreateStart(s)
  BY <1>1, StartPass DEF EventCreateStart
<1>2. CASE ResumeEventStart(s)
  BY <1>2, ResumePass DEF ResumeEventStart, Resumes, Starting, Ends, ghosts
<1>3. CASE EventPeopleDone(s)
  <2> DEFINE h == [Idle EXCEPT !.what = "create_event"]
  <2>1. h.what = "create_event" /\ h.at = "sync" /\ h.data.pass = 0
    BY DEF Idle, NoData
  <2>2. ~Starting(h) /\ \A p \in Pass : ~Attached(h, p) /\ ~Recorded(flight[s], p)
    BY <1>3, <2>1, IdlePass
       DEF EventPeopleDone, LastAnswer, Suspend, Starting, Attached, Recorded
  <2> QED
    BY <1>3, <2>1, <2>2, KeepsPass DEF EventPeopleDone, LastAnswer, Suspend
<1>4. CASE CreateEventFromState(s)
  <2> DEFINE h == [flight[s] EXCEPT !.at = "work", !.data = data]
  <2>1. h.what \in Final /\ h.at = "work" /\ h.data.pass = data.pass
    BY <1>4 DEF CreateEventFromState, Resumes, Handler, Final
  <2>2. ~Starting(flight[s]) /\ \A p \in Pass : ~Attached(flight[s], p)
    BY <1>4 DEF CreateEventFromState, Resumes, Starting, Attached
  <2>3. flight' = [flight EXCEPT ![s] = h]
    BY <1>4 DEF CreateEventFromState
  <2> QED
    BY <1>4, <2>1, <2>2, <2>3, AttachPass DEF CreateEventFromState
<1>5. CASE CreateEvent(s)
  BY <1>5, RecordPass DEF CreateEvent, Resumes, Final
<1> QED
  BY <1>1, <1>2, <1>3, <1>4, <1>5 DEF EventWizard

\* A question that is put keeps PassInv.
LEMMA AskPass == ASSUME TypeOK, PassInv, NEW s \in Slot, Ask(s) PROVE PassInv'
<1> USE PassNumbers
<1>1. ASSUME NEW q, NEW t, AskLater(s, q, t) PROVE PassInv'
  <2> DEFINE h == [Idle EXCEPT !.what = "ask", !.data.target[Key(q)] = t]
  <2>1. h.what = "ask" /\ h.data.pass = 0
    BY DEF Idle, NoData
  <2> QED
    BY <1>1, <2>1, IdlePass, OtherPass DEF AskLater, Suspend, Final, ghosts
<1>2. CASE ResumeAsk(s)
  <2>1. PICK q, t : Put(q, t, [flight EXCEPT ![s] = Idle])
    BY <1>2 DEF ResumeAsk
  <2>2. data'.pass = data.pass
    BY <2>1 DEF Put, AskedAbout, Data
  <2> DEFINE handlers == [flight EXCEPT ![s] = Idle]
  <2>3. /\ flight[s].what = "ask"
        /\ \A r \in Slot : /\ handlers[r] \in Handler
                           /\ handlers[r] = IF r = s THEN Idle ELSE flight[r]
    BY <1>2, NullTypes DEF ResumeAsk, Resumes
  <2> HIDE DEF handlers
  <2>4. \A r \in Slot : /\ flight'[r].data.pass = handlers[r].data.pass
                        /\ flight'[r].what = handlers[r].what /\ flight'[r].at = handlers[r].at
    BY <2>1, <2>3 DEF Put, Handler, handlers
  <2>5. \A r \in Slot, p \in Pass : /\ Attached(flight'[r], p) <=> Attached(flight[r], p)
                                    /\ Recorded(flight'[r], p) <=> Recorded(flight[r], p)
    BY <2>3, <2>4, IdlePass DEF Attached, Recorded, Final
  <2>6. ASSUME NEW r \in Slot, Starting(flight'[r]) PROVE FreshPass(r)'
    <3>1. r # s /\ Starting(flight[r])
      BY <2>3, <2>4, <2>6, IdlePass DEF Starting
    <3>2. FreshPass(r)
      BY <3>1 DEF PassInv
    <3> QED
      BY <2>1, <2>2, <2>3, <2>4, <3>1, <3>2, IdlePass DEF FreshPass, Put, ghosts
  <2>7. ASSUME NEW p \in Pass, p \notin overlapped' PROVE OneAnswer(p)' /\ CreatedOnce(p)'
    BY <2>1, <2>2, <2>5, <2>7 DEF PassInv, OneAnswer, CreatedOnce, Over, Put, ghosts
  <2>8. \A r \in Slot : flight'[r].data.pass <= passes'
    BY <2>1, <2>3, <2>4, IdlePass DEF PassInv, Put, ghosts
  <2> QED
    BY <2>1, <2>2, <2>6, <2>7, <2>8 DEF PassInv, Put, ghosts
<1> QED
  BY <1>1, <1>2 DEF Ask, ChecklistAddStart, EventRetentionStart, AdminUserSectorStart

\* An answer to a question creates no record of a wizard.
LEMMA ReplyPass == ASSUME TypeOK, PassInv, NEW s \in Slot, Reply(s) PROVE PassInv'
<1> USE PassNumbers
<1> flight[s] \in Handler /\ flight[s].data \in Data
  BY DEF Handler
<1>1. ASSUME NEW q \in Question, Answer(s, q) PROVE PassInv'
  <2> DEFINE h == [Idle EXCEPT !.what = q, !.data.asked = data.asked]
  <2>1. h.what = q /\ h.data.pass = 0
    BY DEF Idle, NoData
  <2> QED
    BY <1>1, <2>1, IdlePass, OtherPass DEF Answer, Suspend, Final, Question, ghosts
<1>2. CASE ReadTarget(s)
  <2> DEFINE k == Key(flight[s].what)
             h == [flight[s] EXCEPT !.at = "work", !.data.target[k] = data.target[k]]
  <2>1. h.what = flight[s].what /\ h.data.pass = flight[s].data.pass
    BY DEF Handler, Data
  <2>2. flight[s].what \in Question
    BY <1>2 DEF ReadTarget
  <2>3. data'.pass \in {0, data.pass}
    BY <1>2 DEF ReadTarget, Clear, NoData
  <2>4. flight' = [flight EXCEPT ![s] = h] \/ flight' = [flight EXCEPT ![s] = Idle]
    BY <1>2 DEF ReadTarget, Ends
  <2> HIDE DEF h
  <2> QED
    BY <1>2, <2>1, <2>2, <2>3, <2>4, IdlePass, OtherPass DEF ReadTarget, Question, Final, ghosts
<1>3. CASE CallRoute(s)
  <2> DEFINE h == [flight[s] EXCEPT !.at = "clear"]
  <2>1. h.what = flight[s].what /\ h.data.pass = flight[s].data.pass
    BY DEF Handler
  <2>2. flight[s].what \in Question /\ flight' = [flight EXCEPT ![s] = h]
    BY <1>3 DEF CallRoute
  <2> HIDE DEF h
  <2> QED
    BY <1>3, <2>1, <2>2, OtherPass DEF CallRoute, Question, Final, ghosts
<1> QED
  BY <1>1, <1>2, <1>3
     DEF Reply, TaskEditValue, TaskMemberAddFinish, ChecklistAddFinish, ReportCommentSave,
         ReportPhotoSave, ReportReturnFinish, EventRetentionFinish, AdminUserSectorFinish,
         Question

\* /cancel, the end of a handler, a refusal.
LEMMA EndPass ==
    ASSUME TypeOK, PassInv, NEW s \in Slot,
           ResumeClear(s) \/ FinishHandler(s) \/ AnswerHttpError(s)
    PROVE  PassInv'
<1>1. flight' = [flight EXCEPT ![s] = Idle] /\ UNCHANGED <<passes, created, doubts, overlapped>>
  BY DEF ResumeClear, FinishHandler, AnswerHttpError, Ends, ghosts
<1>2. data'.pass = 0 \/ (data' = data /\ flight[s].at = "work")
  BY DEF ResumeClear, FinishHandler, AnswerHttpError, Cleared, Clear, NoData
<1>3. \A p \in Pass : Recorded(flight[s], p) => data'.pass = 0 /\ ~Attached(Idle, p)
  BY <1>2, IdlePass DEF Recorded
<1> QED
  BY <1>1, <1>2, <1>3, IdlePass, KeepsPass

\* A commit that is carried out and reported as failed: the wizard had no record but
\* doubtful ones, and has one more of them.
LEMMA LostPass ==
    ASSUME TypeOK, PassInv, NEW s \in Slot, CommitReplyLost(s)
    PROVE  PassInv'
<1> USE PassNumbers
<1> DEFINE q == flight[s].data.pass
<1>1. /\ flight' = [flight EXCEPT ![s] = Idle] /\ UNCHANGED <<data, passes, overlapped>>
      /\ q \in Pass /\ created' = [created EXCEPT ![q] = @ + 1]
      /\ doubts' = [doubts EXCEPT ![q] = @ + 1]
      /\ flight[s].what \in Final /\ flight[s].at = "work"
  BY DEF CommitReplyLost, Resumes, Ends, Final
<1>2. \A r \in Slot : flight'[r] = IF r = s THEN Idle ELSE flight[r]
  BY <1>1
<1>3. \A p \in Pass : /\ p # q => created'[p] = created[p] /\ doubts'[p] = doubts[p]
                      /\ created[p] = doubts[p] => created'[p] = doubts'[p]
  BY <1>1
<1>4. \A r \in Slot, p \in Pass : Attached(flight'[r], p) => r # s /\ Attached(flight[r], p)
  BY <1>2, IdlePass
<1>5. ASSUME NEW r \in Slot, Starting(flight'[r]) PROVE FreshPass(r)'
  <2>1. r # s /\ FreshPass(r) /\ flight'[r] = flight[r]
    BY <1>2, <1>5, IdlePass DEF PassInv
  <2> QED
    BY <1>1, <1>2, <1>3, <2>1, IdlePass DEF FreshPass
<1>6. ASSUME NEW p \in Pass, p \notin overlapped' PROVE OneAnswer(p)' /\ CreatedOnce(p)'
  <2>1. OneAnswer(p) /\ CreatedOnce(p)
    BY <1>1, <1>6 DEF PassInv
  <2>2. OneAnswer(p)'
    BY <1>4, <2>1 DEF OneAnswer
  <2>3. CASE p = q
    <3>1. Attached(flight[s], p) /\ ~Recorded(flight[s], p)
      BY <1>1, <2>3 DEF Attached, Recorded
    <3>2. \A r \in Slot : ~Recorded(flight[r], p)
      BY <2>1, <3>1 DEF OneAnswer, Recorded
    <3>3. created[p] = doubts[p]
      BY <2>1, <3>1, <3>2 DEF CreatedOnce, Over
    <3> QED
      BY <1>3, <2>2, <3>3 DEF CreatedOnce
  <2>4. CASE p # q
    <3>1. \A r \in Slot : Recorded(flight[r], p) => Recorded(flight'[r], p)
      BY <1>1, <1>2, <2>4 DEF Recorded, Attached
    <3> QED
      BY <1>1, <1>3, <1>4, <2>1, <2>2, <2>4, <3>1 DEF CreatedOnce, Over
  <2> QED
    BY <2>3, <2>4
<1>7. \A r \in Slot : flight'[r].data.pass <= passes'
  BY <1>1, <1>2, IdlePass DEF PassInv
<1>8. \A p \in Pass : p > passes' => created'[p] = doubts'[p]
  BY <1>1, <1>3 DEF PassInv
<1> QED
  BY <1>1, <1>5, <1>6, <1>7, <1>8 DEF PassInv

\* Every step keeps PassInv.
LEMMA NextPass == ASSUME TypeOK, PassInv, [Next]_vars PROVE PassInv'
<1>1. CASE Prompt
  BY <1>1, PromptPass
<1>2. ASSUME NEW s \in Slot, IssueWizard(s) \/ EventWizard(s) \/ Ask(s) \/ Reply(s)
      PROVE  PassInv'
  BY <1>2, IssueWizardPass, EventWizardPass, AskPass, ReplyPass
<1>3. ASSUME NEW s \in Slot, CancelAction(s) PROVE PassInv'
  BY <1>3, DispatchPass DEF CancelAction
<1>4. ASSUME NEW s \in Slot, ResumeClear(s) \/ FinishHandler(s) \/ AnswerHttpError(s)
      PROVE  PassInv'
  BY <1>4, EndPass
<1>5. ASSUME NEW s \in Slot, CommitReplyLost(s) PROVE PassInv'
  BY <1>5, LostPass
<1>6. CASE Restart
  <2>1. /\ \A s \in Slot : flight'[s] = Idle
        /\ data'.pass = 0 /\ UNCHANGED <<passes, created, doubts, overlapped>>
    BY <1>6 DEF Restart, Clear, NoData, ghosts
  <2>2. \A p \in Pass : p \notin overlapped' => OneAnswer(p)' /\ CreatedOnce(p)'
    BY <2>1, PassNumbers, IdlePass DEF PassInv, OneAnswer, CreatedOnce, Over
  <2> QED
    BY <2>1, <2>2, PassNumbers, IdlePass DEF PassInv
<1>7. CASE UNCHANGED vars
  BY <1>7, SamePass DEF vars, ghosts
<1> QED
  BY <1>1, <1>2, <1>3, <1>4, <1>5, <1>6, <1>7 DEF Next

\* At first there is no wizard and no record.
LEMMA InitPass == Init => PassInv
<1> SUFFICES ASSUME Init PROVE PassInv
  OBVIOUS
<1>1. \A s \in Slot : flight[s] = Idle
  BY DEF Init
<1>2. data.pass = 0 /\ passes = 0 /\ \A p \in Pass : created[p] = doubts[p]
  BY DEF Init, NoData
<1> QED
  BY <1>1, <1>2, IdlePass DEF PassInv, OneAnswer, CreatedOnce

\* The random idempotency key of issue_task_checklist protects nothing.  A wizard creates
\* a second record for each commit that was carried out though it was reported as failed,
\* and else only by a last answer handled for it while another one is: no cancellation,
\* refusal, restart or late description makes it create one.
THEOREM WizardRecordsOnce == Spec => []OneRecordPerPass
<1>1. TypeOK /\ PassInv => OneRecordPerPass
  BY PassNumbers DEF PassInv, CreatedOnce, OneRecordPerPass
<1> QED
  BY <1>1, InitPass, NextPass, DialogueTypes, PTL DEF Spec
===============================================================================
