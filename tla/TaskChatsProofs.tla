---------------------------- MODULE TaskChatsProofs ----------------------------
(* Theorems about TaskChats, for any number of overlapping runs and managers  *)
(* and any bounds; with any of the faults, except where a theorem says not.   *)
EXTENDS TaskChats, FiniteSetTheorems, TLAPS

-------------------------------------------------------------------------------
(* The inductive invariant.                                                   *)

Stalled == {"pending", "creating"}

\* Run w has locked event e: it still has to handle it, is handling it, or has
\* handled it and not yet committed the bookkeeping.
Held(w, e) == e \in batch[w] \/ current[w] = e \/ verdict[w][e] # "none"

\* One run at a time holds an event, and only while it is unprocessed; an event
\* that can still be attempted has attempts left.
EventsInv ==
    /\ \A e \in Event : event[e].type = "none" => event[e].processed
    /\ \A e \in Event : Pending(e) => event[e].attempts < MaxAttempts
    /\ \A w \in Worker, e \in Event : Held(w, e) => Pending(e)
    /\ \A v \in Worker, w \in Worker, e \in Event : Held(v, e) /\ Held(w, e) => v = w

\* A handler runs for one event, which keeps its task from being deleted; only a
\* handler that provisions starts from a stalled chat; what a run is about to
\* commit is never PENDING or CREATING.
HandlerInv ==
    /\ \A w \in Worker :
          /\ current[w] # 0 <=> at[w] \in {"create", "flush", "configure", "brief", "commit"}
          /\ current[w] # 0 => task # "gone"
          /\ at[w] = "brief" => seen[w].status \notin Stalled
    /\ task = "gone" => chat.status = "absent"
    /\ \A r \in Run : at[r] \in {"verify", "delete", "commit"} => mine[r].status \notin Stalled

\* Event e will still be handled, by a handler that finds the chat stalled and
\* therefore writes the status it ends with.
WillSettle(e) ==
    /\ Pending(e)
    /\ event[e].type # "TASK_CHAT_BRIEF_REFRESH_REQUESTED"
    /\ \A w \in Worker :
          /\ current[w] = e => seen[w].status \in Stalled
          /\ current[w] # e => verdict[w][e] = "none"

StallInv == chat.status \in Stalled => \E e \in Event : WillSettle(e)

ChatInv == TypeOK /\ EventsInv /\ HandlerInv /\ StallInv

-------------------------------------------------------------------------------
(* Type correctness.                                                          *)

\* No row is a value of the row's type.
LEMMA NoChatType == NoChat \in ChatRow
BY DEF NoChat, ChatRow, ChatStatus, NoGroup

\* A commit that writes only what differs leaves a row.
LEMMA MergeType ==
    ASSUME NEW stored \in ChatRow, NEW loaded \in ChatRow, NEW new \in ChatRow,
           NEW flushed \in BOOLEAN
    PROVE  Merge(stored, loaded, new, flushed) \in ChatRow
BY DEF Merge, ChatRow

\* A booked event is one; unprocessed, it has attempts left.
LEMMA BookedType ==
    ASSUME NEW r \in EventRow, r.attempts < MaxAttempts, NEW outcome \in {"done", "error"}
    PROVE  /\ Booked(r, outcome) \in EventRow
           /\ Booked(r, outcome).type = r.type
           /\ ~Booked(r, outcome).processed => Booked(r, outcome).attempts < MaxAttempts
<1>1. r.attempts + 1 \in 0..MaxAttempts
  BY BoundAssumption DEF EventRow
<1>2. CASE outcome = "done"
  BY <1>1, <1>2 DEF Booked, EventRow
<1>3. CASE outcome # "done" /\ r.attempts + 1 >= MaxAttempts
  BY <1>1, <1>3 DEF Booked, EventRow
<1>4. CASE outcome # "done" /\ ~(r.attempts + 1 >= MaxAttempts)
  <2>1. r.attempts + 1 < MaxAttempts
    BY <1>4, BoundAssumption DEF EventRow
  <2> QED
    BY <1>1, <1>4, <2>1 DEF Booked, EventRow
<1> QED
  BY <1>2, <1>3, <1>4

\* A new event keeps the type of the events.
LEMMA EnqueueType ==
    ASSUME TypeOK, NEW type \in EventType, Enqueue(type)
    PROVE  event' \in [Event -> EventRow]
BY BoundAssumption DEF TypeOK, Enqueue, Fresh, EventRow, EventType

\* The types hold at first.
LEMMA InitType == Init => TypeOK
<1> SUFFICES ASSUME Init PROVE TypeOK
  OBVIOUS
<1>1. chat \in ChatRow
  BY DEF Init, NoChat, ChatRow, ChatStatus, NoGroup
<1>2. event \in [Event -> EventRow]
  BY BoundAssumption DEF Init, NoEvent, EventRow, EventType
<1> QED
  BY <1>1, <1>2, NoChatType, BoundAssumption DEF Init, TypeOK

\* A run of process_outbox between its handlers.
LEMMA OutboxType ==
    ASSUME TypeOK, EventsInv, NEW w \in Worker, FetchOutbox(w) \/ FinishOutbox(w)
    PROVE  TypeOK'
<1>1. CASE FetchOutbox(w)
  BY <1>1 DEF FetchOutbox, TypeOK, dbVars, Run
<1>2. CASE FinishOutbox(w)
  <2>1. ASSUME NEW e \in Event, verdict[w][e] # "none"
        PROVE  Booked(event[e], verdict[w][e]) \in EventRow
    BY <2>1, BookedType DEF TypeOK, EventsInv, Held
  <2>2. event' \in [Event -> EventRow]
    BY <1>2, <2>1 DEF FinishOutbox, TypeOK
  <2> QED
    BY <1>2, <2>2 DEF FinishOutbox, TypeOK, Run
<1> QED
  BY <1>1, <1>2

\* A crash keeps the types.
LEMMA CrashType == ASSUME TypeOK, NEW r \in Run, Crash(r) PROVE TypeOK'
BY NoChatType, BoundAssumption DEF Crash, TypeOK, dbVars

\* A step of a handler keeps the types.
LEMMA HandlerType ==
    ASSUME TypeOK, NEW w \in Worker, Handle(w), ~FinishOutbox(w)
    PROVE  TypeOK'
<1> w \in Run
  BY DEF Run
<1>1. CASE \E e \in Event : SkipEvent(w, e)
  BY <1>1, NoChatType DEF SkipEvent, NextEvent, Settle, TypeOK, dbVars
<1>2. CASE \E e \in Event : StartHandler(w, e)
  <2>1. [chat EXCEPT !.status = "creating"] \in ChatRow
    BY DEF TypeOK, ChatRow, ChatStatus
  <2> QED
    BY <1>2, <2>1 DEF StartHandler, NextEvent, TypeOK, dbVars
<1>11. CASE \E e \in Event : StartRefresh(w, e)
  BY <1>11 DEF StartRefresh, NextEvent, TypeOK, dbVars
<1>3. ASSUME NEW status \in ChatStatus, NEW outcome \in {"done", "error"},
             ReadyToCommit(w, status, outcome)
      PROVE  /\ mine' \in [Run -> ChatRow]
             /\ verdict' \in [Worker -> [Event -> {"none", "done", "error"}]]
             /\ at' \in [Run -> {"idle", "next", "create", "flush", "configure", "brief",
                                 "commit", "verify", "delete"}]
  <2>1. [mine[w] EXCEPT !.status = status] \in ChatRow
    BY DEF TypeOK, ChatRow
  <2> QED
    BY <1>3, <2>1 DEF ReadyToCommit, TypeOK
<1>4. Broken(mine[w]) \in ChatStatus /\ {"failed", "degraded", "ready"} \subseteq ChatStatus
  BY DEF Broken, ChatStatus
<1>5. Create => made' \in 0..MaxGroups /\ live' \subseteq 1..made'
  BY BoundAssumption DEF Create, TypeOK
<1>6. CASE CreateSupergroup(w)
  <2>1. mine[w] \in ChatRow /\ made + 1 \in Nat
    BY BoundAssumption DEF TypeOK
  <2>2. [mine[w] EXCEPT !.tgId = made + 1] \in ChatRow
    BY <2>1 DEF ChatRow
  <2> QED
    BY <1>5, <1>6, <2>2 DEF CreateSupergroup, TypeOK, dbVars
<1>7. CASE CreateFails(w)
  <2>1. PICK status \in ChatStatus, outcome \in {"done", "error"} :
               ReadyToCommit(w, status, outcome)
    BY <1>4, <1>7 DEF CreateFails
  <2>2. made' \in 0..MaxGroups /\ live' \subseteq 1..made'
    BY <1>5, <1>7 DEF CreateFails, TypeOK
  <2> QED
    BY <1>3, <1>7, <2>1, <2>2 DEF CreateFails, TypeOK, dbVars
<1>8. CASE FlushChat(w)
  BY <1>8 DEF FlushChat, TypeOK, dbVars
<1>9. CASE ConfigureReady(w) \/ ConfigureFails(w)
  <2>1. PICK status \in ChatStatus, outcome \in {"done", "error"} :
               ReadyToCommit(w, status, outcome)
    BY <1>4, <1>9 DEF ConfigureReady, ConfigureFails
  <2> QED
    BY <1>3, <1>9, <2>1 DEF ConfigureReady, ConfigureFails, TypeOK, dbVars
<1>12. CASE RefreshBrief(w)
  <2>1. CASE \E outcome \in {"done", "error"} : Settle(w, current[w], outcome)
    <3>1. PICK outcome \in {"done", "error"} : Settle(w, current[w], outcome)
      BY <2>1
    <3>2. verdict' \in [Worker -> [Event -> {"none", "done", "error"}]]
      BY <3>1 DEF Settle, TypeOK
    <3>3. seen' \in [Run -> ChatRow] /\ mine' \in [Run -> ChatRow]
      BY <3>1, NoChatType DEF Settle, TypeOK
    <3> QED
      BY <1>12, <3>1, <3>2, <3>3 DEF RefreshBrief, Settle, TypeOK, dbVars
  <2>2. CASE ReadyToCommit(w, "degraded", "done") /\ UNCHANGED <<current, seen>>
    BY <1>3, <1>4, <1>12, <2>2 DEF RefreshBrief, TypeOK, dbVars
  <2> QED
    BY <1>12, <2>1, <2>2 DEF RefreshBrief
<1>10. CASE CommitHandler(w)
  <2>1. chat' \in ChatRow
    BY <1>10, MergeType DEF CommitHandler, TypeOK
  <2> QED
    BY <1>10, <2>1, NoChatType DEF CommitHandler, Settle, TypeOK
<1> QED
  BY <1>1, <1>2, <1>6, <1>7, <1>8, <1>9, <1>10, <1>11, <1>12 DEF Handle

\* A step of the cleanup keeps the types.
LEMMA CleanType == ASSUME TypeOK, NEW c \in Cleaner, Clean(c) PROVE TypeOK'
<1> c \in Run
  BY DEF Run
<1>1. CASE StartCleanup(c)
  <2>1. [chat EXCEPT !.warned = TRUE] \in ChatRow
    BY DEF TypeOK, ChatRow
  <2> QED
    BY <1>1, <2>1 DEF StartCleanup, TypeOK, dbVars
<1>2. CASE VerifyArchive(c)
  <2>1. [mine[c] EXCEPT !.status = "cleanup_pending"] \in ChatRow
    BY DEF TypeOK, ChatRow, ChatStatus
  <2> QED
    BY <1>2, <2>1 DEF VerifyArchive, TypeOK, dbVars
<1>3. CASE DeleteSupergroup(c)
  <2>1. [mine[c] EXCEPT !.status = "deleted"] \in ChatRow
    BY DEF TypeOK, ChatRow, ChatStatus
  <2> QED
    BY <1>3, <2>1 DEF DeleteSupergroup, TypeOK, dbVars
<1>4. CASE FinishCleanup(c)
  <2>1. chat' \in ChatRow
    BY <1>4, MergeType DEF FinishCleanup, TypeOK
  <2> QED
    BY <1>4, <2>1, NoChatType DEF FinishCleanup, TypeOK
<1> QED
  BY <1>1, <1>2, <1>3, <1>4 DEF Clean

\* A step of a manager's request keeps the types.
LEMMA ManageType ==
    ASSUME TypeOK, NEW m \in Manager,
           Manage(m) \/ \E o \in ManagerOps : StartRequest(m, o)
    PROVE  TypeOK'
<1>1. CASE \E o \in ManagerOps : StartRequest(m, o)
  BY <1>1 DEF StartRequest, TypeOK, dbVars, runVars
<1>2. RequestEnds(m) => request' \in [Manager -> [op : ManagerOps \cup {"none"}, chat : ChatRow]]
  BY NoChatType DEF RequestEnds, TypeOK
<1>3. ASSUME NEW o, NEW status \in ChatStatus,
             NEW type \in EventType,
             RequestProvisioning(m, o, status, type)
      PROVE  TypeOK'
  <2>1. [request[m].chat EXCEPT !.status = status] \in ChatRow
    BY DEF TypeOK, ChatRow
  <2>2. chat' \in ChatRow
    BY <1>3, <2>1, MergeType DEF RequestProvisioning, TypeOK
  <2> QED
    BY <1>2, <1>3, <2>2, EnqueueType DEF RequestProvisioning, TypeOK, runVars
<1>4. CASE RetryTaskChat(m) \/ RecoverTaskChat(m)
  BY <1>3, <1>4 DEF RetryTaskChat, RecoverTaskChat, ChatStatus, EventType
<1>7. CASE UpdateTask(m)
  BY <1>2, <1>7, EnqueueType DEF UpdateTask, EventType, TypeOK, runVars
<1>5. CASE DeleteTask(m)
  <2>1. ASSUME NEW r \in EventRow PROVE [r EXCEPT !.processed = TRUE] \in EventRow
    BY DEF EventRow
  <2>2. event' \in [Event -> EventRow]
    BY <1>5, <2>1 DEF DeleteTask, TypeOK
  <2> QED
    BY <1>2, <1>5, <2>2, NoChatType DEF DeleteTask, TypeOK, runVars
<1>6. CASE RequestFails(m)
  BY <1>2, <1>6 DEF RequestFails, TypeOK, dbVars, runVars
<1> QED
  BY <1>1, <1>4, <1>5, <1>6, <1>7 DEF Manage

\* Every step keeps the types.
LEMMA TypeStep == ASSUME TypeOK, EventsInv, [Next]_vars PROVE TypeOK'
<1>1. CASE TaskProgresses
  BY <1>1 DEF TaskProgresses, TypeOK, runVars
<1>2. CASE UNCHANGED vars
  BY <1>2 DEF vars, dbVars, runVars, TypeOK
<1> QED
  BY <1>1, <1>2, OutboxType, CrashType, HandlerType, CleanType, ManageType
     DEF Next, Handle

-------------------------------------------------------------------------------
(* Events: who holds them, and how often they are attempted.                  *)

\* At first no run holds an event.
LEMMA EventsInit == Init => EventsInv
<1> SUFFICES ASSUME Init PROVE EventsInv
  OBVIOUS
<1>1. \A w \in Worker, e \in Event : ~Held(w, e)
  BY DEF Init, Held, Event
<1>2. \A e \in Event : event[e].type = "none" => event[e].processed
  BY DEF Init, NoEvent
<1>3. \A e \in Event : event[e].attempts = 0
  BY DEF Init, NoEvent
<1> QED
  BY <1>1, <1>2, <1>3, BoundAssumption DEF EventsInv

\* A step that writes no event and locks none keeps what holds of them.
LEMMA HeldShrinks ==
    ASSUME EventsInv, UNCHANGED event,
           \A w \in Worker, e \in Event : Held(w, e)' => Held(w, e)
    PROVE  EventsInv'
BY DEF EventsInv, Pending

\* Handlers neither take nor book events.
LEMMA HandlerKeepsEvents ==
    ASSUME TypeOK, EventsInv, NEW w \in Worker, Handle(w), ~FinishOutbox(w)
    PROVE  EventsInv'
<1>1. ASSUME NEW e \in Event, NEW outcome, Settle(w, e, outcome), Held(w, e),
             UNCHANGED event,
             batch' = batch \/ batch' = [batch EXCEPT ![w] = @ \ {e}]
      PROVE  EventsInv'
  <2>1. \A v \in Worker, f \in Event : Held(v, f)' => Held(v, f)
    BY <1>1 DEF Settle, Held, TypeOK, Event
  <2> QED
    BY <1>1, <2>1, HeldShrinks
<1>2. CASE \E e \in Event : SkipEvent(w, e)
  <2>1. PICK e \in Event : SkipEvent(w, e)
    BY <1>2
  <2> QED
    BY <1>1, <2>1 DEF SkipEvent, NextEvent, Held, dbVars
<1>3. CASE \E e \in Event : StartHandler(w, e)
  <2>1. \A v \in Worker, f \in Event : Held(v, f)' => Held(v, f)
    BY <1>3 DEF StartHandler, NextEvent, Held, TypeOK
  <2> QED
    BY <1>3, <2>1, HeldShrinks DEF StartHandler, dbVars
<1>8. CASE \E e \in Event : StartRefresh(w, e)
  <2>1. \A v \in Worker, f \in Event : Held(v, f)' => Held(v, f)
    BY <1>8 DEF StartRefresh, NextEvent, Held, TypeOK
  <2> QED
    BY <1>8, <2>1, HeldShrinks DEF StartRefresh, dbVars
<1>4. ASSUME NEW status, NEW outcome, ReadyToCommit(w, status, outcome),
             UNCHANGED <<event, batch, current>>
      PROVE  EventsInv'
  <2>1. \A v \in Worker, f \in Event : Held(v, f)' => Held(v, f)
    BY <1>4 DEF ReadyToCommit, Held, TypeOK
  <2> QED
    BY <1>4, <2>1, HeldShrinks
<1>5. CASE CreateSupergroup(w) \/ FlushChat(w)
  BY <1>5, HeldShrinks DEF CreateSupergroup, FlushChat, Held, dbVars
<1>6. CASE CreateFails(w) \/ ConfigureReady(w) \/ ConfigureFails(w)
  BY <1>4, <1>6 DEF CreateFails, ConfigureReady, ConfigureFails, dbVars
<1>9. CASE RefreshBrief(w)
  <2>1. CASE \E outcome \in {"done", "error"} : Settle(w, current[w], outcome)
    <3>1. \A v \in Worker, f \in Event : Held(v, f)' => Held(v, f)
      BY <1>9, <2>1 DEF RefreshBrief, Settle, Held, TypeOK, Event
    <3> QED
      BY <1>9, <3>1, HeldShrinks DEF RefreshBrief, dbVars
  <2>2. CASE ReadyToCommit(w, "degraded", "done") /\ UNCHANGED <<current, seen>>
    BY <1>4, <1>9, <2>2 DEF RefreshBrief, dbVars
  <2> QED
    BY <1>9, <2>1, <2>2 DEF RefreshBrief
<1>7. CASE CommitHandler(w)
  <2>1. \A v \in Worker, f \in Event : Held(v, f)' => Held(v, f)
    BY <1>7 DEF CommitHandler, Settle, Held, TypeOK, Event
  <2> QED
    BY <1>7, <2>1, HeldShrinks DEF CommitHandler
<1> QED
  BY <1>2, <1>3, <1>5, <1>6, <1>7, <1>8, <1>9 DEF Handle

\* A fetched event was held by nobody, a booked one by its run.
LEMMA OutboxKeepsEvents ==
    ASSUME TypeOK, EventsInv, HandlerInv, NEW w \in Worker, FetchOutbox(w) \/ FinishOutbox(w)
    PROVE  EventsInv'
<1>1. CASE FetchOutbox(w)
  <2>1. PICK due \in SUBSET {e \in Event : Pending(e)} \ {{}} :
               /\ due \cap LockedEvents = {}
               /\ batch' = [batch EXCEPT ![w] = due]
    BY <1>1 DEF FetchOutbox
  <2>2. \A v \in Worker, e \in Event : Held(v, e)' => Held(v, e) \/ (v = w /\ e \in due)
    BY <1>1, <2>1 DEF FetchOutbox, Held, TypeOK
  <2>3. \A v \in Worker, e \in due : ~Held(v, e)
    BY <2>1 DEF LockedEvents, Held
  <2> QED
    BY <1>1, <2>1, <2>2, <2>3 DEF EventsInv, FetchOutbox, Pending, dbVars
<1>2. CASE FinishOutbox(w)
  <2>0. current[w] = 0 /\ batch[w] = {}
    BY <1>2 DEF FinishOutbox, HandlerInv
  <2>1. ASSUME NEW v \in Worker, NEW e \in Event, Held(v, e)'
        PROVE  v # w /\ Held(v, e) /\ verdict[w][e] = "none"
    <3>1. v # w
      BY <1>2, <2>0, <2>1 DEF FinishOutbox, Held, TypeOK, Event
    <3>2. Held(v, e)
      BY <1>2, <2>1, <3>1 DEF FinishOutbox, Held, TypeOK
    <3> QED
      BY <3>1, <3>2 DEF EventsInv, Held
  <2>2. \A e \in Event : verdict[w][e] = "none" => event'[e] = event[e]
    BY <1>2 DEF FinishOutbox
  <2>3. ASSUME NEW e \in Event, verdict[w][e] # "none"
        PROVE  /\ event'[e].type # "none"
               /\ ~event'[e].processed => event'[e].attempts < MaxAttempts
    <3>1. Pending(e) /\ event[e].type # "none" /\ event[e].attempts < MaxAttempts
      BY <2>3 DEF EventsInv, Held, Pending
    <3>2. event[e] \in EventRow /\ verdict[w][e] \in {"done", "error"}
      BY <2>3 DEF TypeOK
    <3>3. event'[e] = Booked(event[e], verdict[w][e])
      BY <1>2, <2>3 DEF FinishOutbox
    <3> QED
      BY <3>1, <3>2, <3>3, BookedType
  <2> QED
    BY <2>1, <2>2, <2>3 DEF EventsInv, Pending
<1> QED
  BY <1>1, <1>2

\* Requests add events nobody holds, and delete none that is held.
LEMMA ManagerKeepsEvents ==
    ASSUME TypeOK, EventsInv, NEW m \in Manager,
           Manage(m) \/ \E o \in ManagerOps : StartRequest(m, o)
    PROVE  EventsInv'
<1>1. CASE RetryTaskChat(m) \/ RecoverTaskChat(m) \/ UpdateTask(m)
  <2>1. PICK e \in Fresh, type \in EventType :
               event' = [event EXCEPT ![e] = [type |-> type, attempts |-> 0, processed |-> FALSE]]
    BY <1>1
       DEF RetryTaskChat, RecoverTaskChat, RequestProvisioning, UpdateTask, Enqueue, EventType
  <2>2. \A w \in Worker, f \in Event : Held(w, f)' = Held(w, f)
    BY <1>1 DEF RetryTaskChat, RecoverTaskChat, RequestProvisioning, UpdateTask, runVars, Held
  <2>3. e \in Event /\ \A w \in Worker : ~Held(w, e)
    BY <2>1 DEF Fresh, EventsInv, Pending
  <2>4. /\ event'[e].type # "none" /\ event'[e].attempts = 0 /\ ~event'[e].processed
        /\ \A f \in Event \ {e} : event'[f] = event[f]
    BY <2>1, <2>3 DEF TypeOK, EventType
  <2> QED
    BY <2>2, <2>3, <2>4, BoundAssumption DEF EventsInv, Pending
<1>2. CASE DeleteTask(m)
  <2>1. \A w \in Worker, e \in Event : ~Held(w, e)'
    BY <1>2 DEF DeleteTask, LockedEvents, Held, runVars
  <2>2. \A e \in Event : event'[e].processed
    <3>1. \A e \in Event : event[e] \in EventRow
      BY DEF TypeOK
    <3> QED
      BY <1>2, <3>1 DEF DeleteTask, EventsInv, EventRow
  <2> QED
    BY <2>1, <2>2 DEF EventsInv, Pending
<1>3. CASE RequestFails(m) \/ \E o \in ManagerOps : StartRequest(m, o)
  BY <1>3, HeldShrinks DEF RequestFails, StartRequest, Held, dbVars, runVars
<1> QED
  BY <1>1, <1>2, <1>3 DEF Manage

\* Every step keeps EventsInv.
LEMMA EventsStep ==
    ASSUME TypeOK, EventsInv, HandlerInv, [Next]_vars
    PROVE  EventsInv'
<1>1. CASE \E c \in Cleaner : Clean(c)
  BY <1>1, HeldShrinks
     DEF Clean, StartCleanup, VerifyArchive, DeleteSupergroup, FinishCleanup, Held, dbVars
<1>2. CASE \E r \in Run : Crash(r)
  <2>1. \A w \in Worker, e \in Event : Held(w, e)' => Held(w, e)
    BY <1>2 DEF Crash, Held, TypeOK, Event
  <2> QED
    BY <1>2, <2>1, HeldShrinks DEF Crash, dbVars
<1>3. CASE TaskProgresses \/ UNCHANGED vars
  BY <1>3, HeldShrinks DEF TaskProgresses, vars, dbVars, runVars, Held
<1> QED
  BY <1>1, <1>2, <1>3, OutboxKeepsEvents, HandlerKeepsEvents, ManagerKeepsEvents
     DEF Next, Handle

-------------------------------------------------------------------------------
(* Handlers: where they are, and what they commit.                            *)

\* At first no handler is under way.
LEMMA HandlerInit == Init => HandlerInv
BY DEF Init, HandlerInv, Run

\* A run at an event keeps delete_task waiting.
LEMMA DeletionWaits ==
    ASSUME TypeOK, NEW m \in Manager, DeleteTask(m)
    PROVE  \A w \in Worker : current[w] = 0
BY DEF DeleteTask, LockedEvents, TypeOK

\* A handler commits neither PENDING nor CREATING.
LEMMA HandleKeepsHandlerInv ==
    ASSUME TypeOK, HandlerInv, NEW w \in Worker, Handle(w)
    PROVE  HandlerInv'
<1> w \in Run
  BY DEF Run
<1> USE DEF Stalled
<1>1. ASSUME NEW e, NEW outcome, Settle(w, e, outcome), UNCHANGED task,
             task = "gone" => chat'.status = "absent"
      PROVE  HandlerInv'
  BY <1>1 DEF Settle, HandlerInv, TypeOK
<1>2. CASE \E e \in Event : SkipEvent(w, e)
  BY <1>1, <1>2 DEF SkipEvent, HandlerInv, dbVars
<1>3. CASE \E e \in Event : StartHandler(w, e)
  <2>1. PICK e \in Event : StartHandler(w, e)
    BY <1>3
  <2>2. e # 0 /\ current' = [current EXCEPT ![w] = e] /\ task # "gone"
    BY <2>1 DEF StartHandler, Event
  <2>3. PICK p \in {"create", "configure"} : at' = [at EXCEPT ![w] = p]
    BY <2>1 DEF StartHandler
  <2>4. \A r \in Run \ {w} : mine'[r] = mine[r] /\ seen'[r] = seen[r]
    BY <2>1 DEF StartHandler, TypeOK
  <2>5. UNCHANGED <<task, chat>>
    BY <2>1 DEF StartHandler, dbVars
  <2> QED
    BY <2>2, <2>3, <2>4, <2>5 DEF HandlerInv, TypeOK, Run
<1>10. CASE \E e \in Event : StartRefresh(w, e)
  <2>1. PICK e \in Event : StartRefresh(w, e)
    BY <1>10
  <2>2. e # 0 /\ current' = [current EXCEPT ![w] = e] /\ task # "gone"
    BY <2>1 DEF StartRefresh, Event
  <2>3. at' = [at EXCEPT ![w] = "brief"]
    BY <2>1 DEF StartRefresh
  <2>4. \A r \in Run \ {w} : mine'[r] = mine[r] /\ seen'[r] = seen[r]
    BY <2>1 DEF StartRefresh, TypeOK
  <2>5. UNCHANGED <<task, chat>>
    BY <2>1 DEF StartRefresh, dbVars
  <2>6. seen'[w].status = "ready"
    BY <2>1 DEF StartRefresh, TypeOK
  <2> QED
    BY <2>2, <2>3, <2>4, <2>5, <2>6 DEF HandlerInv, TypeOK, Run
<1>4. CASE CreateSupergroup(w) \/ FlushChat(w)
  <2>1. PICK p \in {"flush", "configure"} : at' = [at EXCEPT ![w] = p]
    BY <1>4 DEF CreateSupergroup, FlushChat
  <2>2. current[w] # 0
    BY <1>4 DEF CreateSupergroup, FlushChat, HandlerInv
  <2>3. \A r \in Run \ {w} : mine'[r] = mine[r]
    BY <1>4 DEF CreateSupergroup, FlushChat, TypeOK
  <2>4. UNCHANGED <<task, chat, current, seen>>
    BY <1>4 DEF CreateSupergroup, FlushChat, dbVars
  <2> QED
    BY <2>1, <2>2, <2>3, <2>4 DEF HandlerInv, TypeOK, Run
<1>5. ASSUME NEW status, status \notin Stalled, NEW outcome, ReadyToCommit(w, status, outcome),
             current[w] # 0, UNCHANGED <<task, chat, current, seen>>
      PROVE  HandlerInv'
  <2>1. mine'[w].status = status
    BY <1>5 DEF ReadyToCommit, TypeOK, ChatRow
  <2> QED
    BY <1>5, <2>1 DEF ReadyToCommit, HandlerInv, TypeOK, Run
<1>6. Broken(mine[w]) \notin Stalled
  BY DEF Broken
<1>7. CASE CreateFails(w) \/ ConfigureReady(w) \/ ConfigureFails(w)
  <2>1. current[w] # 0
    BY <1>7 DEF CreateFails, ConfigureReady, ConfigureFails, HandlerInv
  <2> QED
    BY <1>5, <1>6, <1>7, <2>1 DEF CreateFails, ConfigureReady, ConfigureFails, dbVars
<1>11. CASE RefreshBrief(w)
  <2>1. current[w] # 0 /\ task # "gone"
    BY <1>11 DEF RefreshBrief, HandlerInv
  <2>2. CASE \E outcome \in {"done", "error"} : Settle(w, current[w], outcome)
    BY <1>1, <1>11, <2>1, <2>2 DEF RefreshBrief, dbVars
  <2>3. CASE ReadyToCommit(w, "degraded", "done") /\ UNCHANGED <<current, seen>>
    BY <1>5, <1>11, <2>1, <2>3 DEF RefreshBrief, dbVars
  <2> QED
    BY <1>11, <2>2, <2>3 DEF RefreshBrief
<1>8. CASE CommitHandler(w)
  <2>1. task # "gone"
    BY <1>8 DEF CommitHandler, HandlerInv
  <2> QED
    BY <1>1, <1>8, <2>1 DEF CommitHandler
<1>9. CASE FinishOutbox(w)
  BY <1>9 DEF FinishOutbox, HandlerInv, TypeOK
<1> QED
  BY <1>2, <1>3, <1>4, <1>7, <1>8, <1>9, <1>10, <1>11 DEF Handle

\* The cleanup commits neither of them either.
LEMMA CleanKeepsHandlerInv ==
    ASSUME TypeOK, HandlerInv, NEW c \in Cleaner, Clean(c)
    PROVE  HandlerInv'
<1> c \in Run /\ c \notin Worker
  BY RunAssumption DEF Run
<1> USE DEF Stalled
<1>1. CASE StartCleanup(c)
  <2>1. mine'[c].status = chat.status /\ chat.status \notin Stalled
    BY <1>1 DEF StartCleanup, TypeOK, ChatRow
  <2> QED
    BY <1>1, <2>1 DEF StartCleanup, HandlerInv, TypeOK, dbVars, Run
<1>2. CASE VerifyArchive(c)
  <2>1. mine'[c].status = "cleanup_pending"
    BY <1>2 DEF VerifyArchive, TypeOK, ChatRow
  <2> QED
    BY <1>2, <2>1 DEF VerifyArchive, HandlerInv, TypeOK, dbVars, Run
<1>3. CASE DeleteSupergroup(c)
  <2>1. mine'[c].status \notin Stalled
    BY <1>3 DEF DeleteSupergroup, HandlerInv, TypeOK, ChatRow
  <2> QED
    BY <1>3, <2>1 DEF DeleteSupergroup, HandlerInv, TypeOK, dbVars, Run
<1>4. CASE FinishCleanup(c)
  BY <1>4 DEF FinishCleanup, HandlerInv, TypeOK, Run
<1> QED
  BY <1>1, <1>2, <1>3, <1>4 DEF Clean

\* Every step keeps HandlerInv.
LEMMA HandlerStep ==
    ASSUME TypeOK, HandlerInv, [Next]_vars
    PROVE  HandlerInv'
<1>1. ASSUME NEW w \in Worker, FetchOutbox(w) PROVE HandlerInv'
  BY <1>1 DEF FetchOutbox, HandlerInv, TypeOK, dbVars, Run
<1>2. ASSUME NEW r \in Run, Crash(r) PROVE HandlerInv'
  BY <1>2 DEF Crash, HandlerInv, TypeOK, dbVars, Run
<1>3. ASSUME NEW m \in Manager, Manage(m) PROVE HandlerInv'
  <2>1. CASE RetryTaskChat(m) \/ RecoverTaskChat(m)
    <3>1. task # "gone"
      BY <2>1 DEF RetryTaskChat, RecoverTaskChat, RequestProvisioning, HandlerInv
    <3> QED
      BY <2>1, <3>1
         DEF RetryTaskChat, RecoverTaskChat, RequestProvisioning, HandlerInv, runVars
  <2>2. CASE DeleteTask(m)
    BY <2>2, DeletionWaits DEF DeleteTask, NoChat, HandlerInv, runVars
  <2>3. CASE UpdateTask(m) \/ RequestFails(m)
    BY <2>3 DEF UpdateTask, RequestFails, HandlerInv, dbVars, runVars
  <2> QED
    BY <1>3, <2>1, <2>2, <2>3 DEF Manage
<1>4. ASSUME NEW m \in Manager, NEW o \in ManagerOps, StartRequest(m, o) PROVE HandlerInv'
  BY <1>4 DEF StartRequest, HandlerInv, dbVars, runVars
<1>5. CASE TaskProgresses \/ UNCHANGED vars
  BY <1>5 DEF TaskProgresses, HandlerInv, vars, dbVars, runVars
<1> QED
  BY <1>1, <1>2, <1>3, <1>4, <1>5, HandleKeepsHandlerInv, CleanKeepsHandlerInv DEF Next

-------------------------------------------------------------------------------
(* No chat is left stalled.                                                   *)

\* At first a stalled chat has the event that will settle it.
LEMMA StallInit == Init => StallInv
<1> SUFFICES ASSUME Init PROVE StallInv
  OBVIOUS
<1>1. 1 \in Event /\ WillSettle(1)
  BY BoundAssumption DEF Init, Event, WillSettle, Pending
<1> QED
  BY <1>1 DEF StallInv

\* A step that writes neither the chat nor the events, and neither starts nor
\* ends a handler, leaves them as they are.
LEMMA StallUntouched ==
    ASSUME StallInv, UNCHANGED <<chat, event, current>>,
           \A w \in Worker : seen'[w] = seen[w] /\ \A e \in Event :
               verdict'[w][e] = "none" \/ verdict'[w][e] = verdict[w][e] \/ current[w] = e
    PROVE  StallInv'
BY DEF StallInv, WillSettle, Pending

\* A handler or a cleanup commits: a chat that is still stalled afterwards was
\* not written by it.
LEMMA StallAfterMerge ==
    ASSUME NEW stored, NEW loaded, NEW new, NEW flushed \in BOOLEAN,
           new.status \notin Stalled,
           Merge(stored, loaded, new, flushed).status \in Stalled
    PROVE  stored.status \in Stalled /\ loaded.status \notin Stalled
BY DEF Merge

\* A run that books its event has committed a status that is no stall.
LEMMA HandleKeepsStallInv ==
    ASSUME TypeOK, EventsInv, HandlerInv, StallInv, NEW w \in Worker, Handle(w)
    PROVE  StallInv'
<1> w \in Run
  BY DEF Run
<1>1. CASE \E e \in Event : SkipEvent(w, e)
  <2>1. PICK e \in Event : SkipEvent(w, e)
    BY <1>1
  <2>2. SUFFICES ASSUME chat.status \in Stalled
                 PROVE  \E f \in Event : WillSettle(f)'
    BY <2>1 DEF StallInv, SkipEvent, dbVars
  <2>3. event[e].type = "TASK_CHAT_BRIEF_REFRESH_REQUESTED"
    BY <2>1, <2>2 DEF SkipEvent, HandlerInv, Stalled
  <2>4. PICK f \in Event : WillSettle(f)
    BY <2>2 DEF StallInv
  <2>5. f # e /\ current[w] = 0
    BY <2>1, <2>3, <2>4 DEF WillSettle, SkipEvent, NextEvent, HandlerInv
  <2>6. /\ current' = [current EXCEPT ![w] = 0] /\ UNCHANGED event
        /\ \A v \in Worker : verdict'[v][f] = verdict[v][f]
        /\ \A v \in Worker \ {w} : seen'[v] = seen[v]
    BY <2>1, <2>5 DEF SkipEvent, Settle, TypeOK, dbVars, Run
  <2>7. WillSettle(f)'
    BY <2>4, <2>5, <2>6 DEF WillSettle, Pending, TypeOK, Event
  <2> QED
    BY <2>7
<1>2. CASE \E e \in Event : StartHandler(w, e)
  <2>1. PICK e \in Event : StartHandler(w, e)
    BY <1>2
  <2>2. SUFFICES ASSUME chat.status \in Stalled
                 PROVE  \E f \in Event : WillSettle(f)'
    BY <2>1 DEF StallInv, StartHandler, dbVars
  <2>3. PICK f \in Event : WillSettle(f)
    BY <2>2 DEF StallInv
  <2>4. current[w] = 0
    BY <2>1 DEF StartHandler, NextEvent, HandlerInv
  <2>5. verdict[w][f] = "none"
    BY <2>3, <2>4 DEF WillSettle, Event
  <2>6. /\ current' = [current EXCEPT ![w] = e] /\ seen' = [seen EXCEPT ![w] = chat]
        /\ UNCHANGED <<event, verdict>>
    BY <2>1 DEF StartHandler, dbVars
  <2>7. WillSettle(f)'
    BY <2>2, <2>3, <2>5, <2>6 DEF WillSettle, Pending, TypeOK
  <2> QED
    BY <2>7
<1>8. CASE \E e \in Event : StartRefresh(w, e)
  <2>1. chat'.status \notin Stalled
    BY <1>8 DEF StartRefresh, Stalled, dbVars
  <2> QED
    BY <2>1 DEF StallInv
<1>3. ASSUME NEW status, NEW outcome, ReadyToCommit(w, status, outcome),
             UNCHANGED <<chat, event, current, seen>>
      PROVE  StallInv'
  <2>1. \A v \in Worker, e \in Event :
           verdict'[v][e] = verdict[v][e] \/ current[v] = e
    BY <1>3 DEF ReadyToCommit, TypeOK
  <2> QED
    BY <1>3, <2>1, StallUntouched
<1>4. CASE CreateSupergroup(w) \/ FlushChat(w)
  BY <1>4, StallUntouched DEF CreateSupergroup, FlushChat, dbVars
<1>5. CASE CreateFails(w) \/ ConfigureReady(w) \/ ConfigureFails(w)
  BY <1>3, <1>5 DEF CreateFails, ConfigureReady, ConfigureFails, dbVars
<1>9. CASE RefreshBrief(w)
  <2>1. CASE \E outcome \in {"done", "error"} : Settle(w, current[w], outcome)
    <3>1. SUFFICES ASSUME chat.status \in Stalled
                   PROVE  \E e \in Event : WillSettle(e)'
      BY <1>9 DEF StallInv, RefreshBrief, dbVars
    <3>2. PICK e \in Event : WillSettle(e)
      BY <3>1 DEF StallInv
    <3>3. current[w] # e /\ verdict[w][e] = "none"
      BY <1>9, <3>2 DEF RefreshBrief, HandlerInv, WillSettle
    <3>4. /\ current' = [current EXCEPT ![w] = 0] /\ UNCHANGED event
          /\ \A v \in Worker : verdict'[v][e] = verdict[v][e]
          /\ \A v \in Worker \ {w} : seen'[v] = seen[v]
      BY <1>9, <2>1, <3>3 DEF RefreshBrief, Settle, TypeOK, dbVars, Run
    <3>5. WillSettle(e)'
      BY <3>2, <3>3, <3>4 DEF WillSettle, Pending, TypeOK, Event
    <3> QED
      BY <3>5
  <2>2. CASE ReadyToCommit(w, "degraded", "done") /\ UNCHANGED <<current, seen>>
    BY <1>3, <1>9, <2>2 DEF RefreshBrief, dbVars
  <2> QED
    BY <1>9, <2>1, <2>2 DEF RefreshBrief
<1>6. CASE CommitHandler(w)
  <2>1. SUFFICES ASSUME chat'.status \in Stalled
                 PROVE  \E e \in Event : WillSettle(e)'
    BY DEF StallInv
  <2>2. mine[w].status \notin Stalled
    BY <1>6 DEF CommitHandler, HandlerInv
  <2>3. chat.status \in Stalled /\ seen[w].status \notin Stalled
    BY <1>6, <2>1, <2>2, StallAfterMerge DEF CommitHandler
  <2>4. PICK e \in Event : WillSettle(e)
    BY <2>3 DEF StallInv
  <2>5. current[w] # e /\ verdict[w][e] = "none"
    BY <2>3, <2>4 DEF WillSettle
  <2>6. /\ current' = [current EXCEPT ![w] = 0] /\ UNCHANGED event
        /\ \A v \in Worker : verdict'[v][e] = verdict[v][e]
        /\ \A v \in Worker \ {w} : seen'[v] = seen[v]
    BY <1>6, <2>5 DEF CommitHandler, Settle, TypeOK, Run
  <2>7. WillSettle(e)'
    BY <2>4, <2>5, <2>6 DEF WillSettle, Pending, TypeOK, Event
  <2> QED
    BY <2>7
<1>7. CASE FinishOutbox(w)
  <2>1. SUFFICES ASSUME chat.status \in Stalled
                 PROVE  \E e \in Event : WillSettle(e)'
    BY <1>7 DEF StallInv, FinishOutbox
  <2>2. PICK e \in Event : WillSettle(e)
    BY <2>1 DEF StallInv
  <2>3. verdict[w][e] = "none"
    BY <1>7, <2>2 DEF FinishOutbox, HandlerInv, WillSettle, Event
  <2>4. event'[e] = event[e]
    BY <1>7, <2>3 DEF FinishOutbox
  <2>5. WillSettle(e)'
    BY <1>7, <2>2, <2>3, <2>4 DEF FinishOutbox, WillSettle, Pending, TypeOK
  <2> QED
    BY <2>5
<1> QED
  BY <1>1, <1>2, <1>4, <1>5, <1>6, <1>7, <1>8, <1>9 DEF Handle

\* The cleanup does not start from a stalled chat.
LEMMA CleanKeepsStallInv ==
    ASSUME TypeOK, HandlerInv, StallInv, NEW c \in Cleaner, Clean(c)
    PROVE  StallInv'
<1> c \in Run /\ c \notin Worker
  BY RunAssumption DEF Run
<1>1. \A w \in Worker : seen'[w] = seen[w]
  BY DEF Clean, StartCleanup, VerifyArchive, DeleteSupergroup, FinishCleanup, TypeOK, Run
<1>2. CASE StartCleanup(c) \/ VerifyArchive(c) \/ DeleteSupergroup(c)
  BY <1>1, <1>2, StallUntouched DEF StartCleanup, VerifyArchive, DeleteSupergroup, dbVars
<1>3. CASE FinishCleanup(c)
  <2>1. mine[c].status \notin Stalled
    BY <1>3 DEF FinishCleanup, HandlerInv
  <2>2. chat'.status \in Stalled => chat.status \in Stalled
    BY <1>3, <2>1, StallAfterMerge DEF FinishCleanup
  <2> QED
    BY <1>1, <1>3, <2>2 DEF FinishCleanup, StallInv, WillSettle, Pending
<1> QED
  BY <1>2, <1>3 DEF Clean

\* A retry that sets CREATING adds an event that will settle it.
LEMMA ManageKeepsStallInv ==
    ASSUME TypeOK, EventsInv, HandlerInv, StallInv, NEW m \in Manager, Manage(m)
    PROVE  StallInv'
<1>1. CASE RetryTaskChat(m) \/ RecoverTaskChat(m)
  <2>1. PICK e \in Fresh, type \in {"TASK_CREATED", "TASK_CHAT_RECOVERY_REQUESTED"} :
               event' = [event EXCEPT ![e] = [type |-> type, attempts |-> 0, processed |-> FALSE]]
    BY <1>1 DEF RetryTaskChat, RecoverTaskChat, RequestProvisioning, Enqueue
  <2>2. e \in Event /\ \A w \in Worker : ~Held(w, e)
    BY <2>1 DEF Fresh, EventsInv, Pending
  <2>3. ~event'[e].processed /\ event'[e].type # "TASK_CHAT_BRIEF_REFRESH_REQUESTED"
    BY <2>1, <2>2 DEF TypeOK
  <2>4. UNCHANGED <<current, verdict, seen>>
    BY <1>1 DEF RetryTaskChat, RecoverTaskChat, RequestProvisioning, runVars
  <2>5. WillSettle(e)'
    BY <2>2, <2>3, <2>4 DEF WillSettle, Pending, Held
  <2> QED
    BY <2>2, <2>5 DEF StallInv
<1>2. CASE DeleteTask(m)
  BY <1>2 DEF DeleteTask, NoChat, StallInv, Stalled
<1>4. CASE UpdateTask(m)
  <2>1. PICK e \in Fresh, type \in EventType :
               event' = [event EXCEPT ![e] = [type |-> type, attempts |-> 0, processed |-> FALSE]]
    BY <1>4 DEF UpdateTask, Enqueue, EventType
  <2>2. UNCHANGED <<chat, current, verdict, seen>>
    BY <1>4 DEF UpdateTask, runVars
  <2>3. \A f \in Event : Pending(f) => event'[f] = event[f]
    BY <2>1 DEF Fresh, EventsInv, Pending, TypeOK
  <2> QED
    BY <2>2, <2>3 DEF StallInv, WillSettle, Pending
<1>3. CASE RequestFails(m)
  BY <1>3, StallUntouched DEF RequestFails, dbVars, runVars
<1> QED
  BY <1>1, <1>2, <1>3, <1>4 DEF Manage

\* Every step keeps StallInv.
LEMMA StallStep ==
    ASSUME TypeOK, EventsInv, HandlerInv, StallInv, [Next]_vars
    PROVE  StallInv'
<1>1. ASSUME NEW w \in Worker, FetchOutbox(w) PROVE StallInv'
  BY <1>1, StallUntouched DEF FetchOutbox, dbVars
<1>2. ASSUME NEW r \in Run, Crash(r) PROVE StallInv'
  <2>1. SUFFICES ASSUME chat.status \in Stalled
                 PROVE  \E e \in Event : WillSettle(e)'
    BY <1>2 DEF StallInv, Crash, dbVars
  <2>2. PICK e \in Event : WillSettle(e)
    BY <2>1 DEF StallInv
  <2>3. WillSettle(e)'
    BY <1>2, <2>2 DEF Crash, WillSettle, Pending, TypeOK, dbVars, Event
  <2> QED
    BY <2>3
<1>3. ASSUME NEW m \in Manager, NEW o \in ManagerOps, StartRequest(m, o) PROVE StallInv'
  BY <1>3, StallUntouched DEF StartRequest, dbVars, runVars
<1>4. CASE TaskProgresses \/ UNCHANGED vars
  BY <1>4, StallUntouched DEF TaskProgresses, vars, dbVars, runVars
<1> QED
  BY <1>1, <1>2, <1>3, <1>4, HandleKeepsStallInv, CleanKeepsStallInv, ManageKeepsStallInv
     DEF Next
-------------------------------------------------------------------------------
(* The theorems.                                                              *)

\* The inductive invariant of the module.
LEMMA ChatInvariant == Spec => []ChatInv
<1>1. Init => ChatInv
  BY InitType, EventsInit, HandlerInit, StallInit DEF ChatInv
<1>2. ChatInv /\ [Next]_vars => ChatInv'
  BY TypeStep, EventsStep, HandlerStep, StallStep DEF ChatInv
<1> QED
  BY <1>1, <1>2, PTL DEF Spec

\* Every variable keeps its type; in particular no outbox event is attempted
\* more often than _MAX_OUTBOX_ATTEMPTS.
THEOREM ChatTypes == Spec => []TypeOK
<1>1. ChatInv => TypeOK
  BY DEF ChatInv
<1> QED
  BY <1>1, ChatInvariant, PTL

\* A chat shown as being worked on always has an unprocessed outbox event,
\* through crashes, overlapping runs, exhausted attempts and stale managers.
THEOREM NoSilentStallTheorem == Spec => []NoSilentStall
<1>1. ChatInv => NoSilentStall
  BY DEF ChatInv, StallInv, WillSettle, NoSilentStall, Stalled
<1> QED
  BY <1>1, ChatInvariant, PTL
-------------------------------------------------------------------------------
(* One group.  A second one is only ever created by a manager who retries, by   *)
(* an answer of Telegram that is lost, or by a crash after the first one.       *)

\* Nobody retries a group from the API, and Telegram's answers arrive.
OneCreator == "retry" \notin ManagerOp /\ "lost_reply" \notin Fault

\* Run w created a group that its commit will record.
Carries(w) ==
    /\ current[w] = 1 /\ at[w] \in {"flush", "configure", "commit"}
    /\ mine[w].tgId # NoGroup /\ seen[w].tgId = NoGroup

\* The first event of the task is the only one that asks for a group.
FirstEventCreates ==
    /\ \A m \in Manager : request[m].op \in ManagerOp \cup {"none"}
    /\ \A e \in Event \ {1} : event[e].type # "TASK_CREATED"

\* A commit never takes the group off the row of the chat.
GroupIsKept == \A r \in Run : mine[r].tgId = seen[r].tgId \/ mine[r].tgId # NoGroup

\* Every group but one has been paid for by a crash, and the last one is recorded,
\* or carried by the one run that handles the first event.
GroupsPaid ==
    /\ made <= 1 + crashes
    /\ \A w \in Worker : at[w] \in {"create", "flush"} => seen[w].tgId = NoGroup
    /\ \A w \in Worker : at[w] = "create" => current[w] = 1 /\ made <= crashes
    /\ \A w \in Worker : at[w] = "flush" => Carries(w)
    /\ made > crashes => \/ task = "gone" \/ chat.tgId # NoGroup
                         \/ \E w \in Worker : Carries(w)

GroupInv == ChatInv /\ FirstEventCreates /\ GroupIsKept /\ GroupsPaid

\* A commit never forgets the id of the group it finds.
LEMMA MergeKeepsGroup ==
    ASSUME NEW stored, NEW loaded, NEW new, NEW flushed \in BOOLEAN,
           new.tgId = loaded.tgId \/ new.tgId # NoGroup, stored.tgId # NoGroup
    PROVE  Merge(stored, loaded, new, flushed).tgId # NoGroup
BY DEF Merge

\* A step that changes neither the number of groups nor the point of a run that
\* creates or carries one, and keeps the group on the row.
LEMMA PaidUntouched ==
    ASSUME GroupsPaid, UNCHANGED <<made, crashes>>, task = "gone" => task' = "gone",
           chat.tgId # NoGroup => task' = "gone" \/ chat'.tgId # NoGroup,
           \A w \in Worker : \/ UNCHANGED <<at[w], current[w], seen[w], mine[w]>>
                             \/ at'[w] \notin {"create", "flush"} /\ ~Carries(w)
    PROVE  GroupsPaid'
<1>1. \A w \in Worker : at'[w] \in {"create", "flush"} => 
          UNCHANGED <<at[w], current[w], seen[w], mine[w]>>
  OBVIOUS
<1>2. \A w \in Worker : Carries(w) => Carries(w)'
  BY DEF Carries
<1> QED
  BY <1>1, <1>2 DEF GroupsPaid

\* At first there is no group.
LEMMA GroupsInit == Init => FirstEventCreates /\ GroupIsKept /\ GroupsPaid
<1> SUFFICES ASSUME Init PROVE FirstEventCreates /\ GroupIsKept /\ GroupsPaid
  OBVIOUS
<1>1. FirstEventCreates
  BY DEF Init, FirstEventCreates, NoEvent
<1>2. GroupIsKept
  BY DEF Init, GroupIsKept
<1>3. GroupsPaid
  BY DEF Init, GroupsPaid, Run
<1> QED
  BY <1>1, <1>2, <1>3

\* Without retries the first event stays the only one that creates.
LEMMA FirstEventStep ==
    ASSUME OneCreator, TypeOK, EventsInv, FirstEventCreates, [Next]_vars
    PROVE  FirstEventCreates'
<1> USE DEF FirstEventCreates
<1>1. ASSUME UNCHANGED <<event, request>> PROVE FirstEventCreates'
  BY <1>1
<1>2. ASSUME NEW w \in Worker, FinishOutbox(w) PROVE FirstEventCreates'
  <2>1. ASSUME NEW e \in Event PROVE event'[e].type = event[e].type
    <3>1. CASE verdict[w][e] = "none"
      BY <1>2, <3>1 DEF FinishOutbox
    <3>2. CASE verdict[w][e] # "none"
      BY <1>2, <3>2, BookedType DEF FinishOutbox, TypeOK, EventsInv, Held
    <3> QED
      BY <3>1, <3>2
  <2> QED
    BY <1>2, <2>1 DEF FinishOutbox
<1>3. ASSUME NEW m \in Manager, Manage(m) PROVE FirstEventCreates'
  <2>0. RequestEnds(m) => \A n \in Manager : request'[n].op \in ManagerOp \cup {"none"}
    BY DEF RequestEnds, TypeOK
  <2>1. ~RetryTaskChat(m)
    BY DEF RetryTaskChat, RequestProvisioning, OneCreator
  <2>2. CASE RecoverTaskChat(m) \/ UpdateTask(m)
    <3>1. PICK e \in Event, type \in EventType \ {"TASK_CREATED"} :
            event' = [event EXCEPT ![e] = [type |-> type, attempts |-> 0, processed |-> FALSE]]
      BY <2>2 DEF RecoverTaskChat, RequestProvisioning, UpdateTask, Enqueue, EventType, Fresh
    <3>2. \A f \in Event \ {1} : event'[f].type # "TASK_CREATED"
      BY <3>1 DEF TypeOK
    <3> QED
      BY <2>0, <2>2, <3>2 DEF RecoverTaskChat, RequestProvisioning, UpdateTask
  <2>3. CASE DeleteTask(m)
    <3>1. \A e \in Event : event'[e].type = event[e].type
      BY <2>3 DEF DeleteTask, TypeOK, EventRow
    <3> QED
      BY <2>0, <2>3, <3>1 DEF DeleteTask
  <2>4. CASE RequestFails(m)
    BY <2>0, <2>4 DEF RequestFails, dbVars
  <2> QED
    BY <1>3, <2>1, <2>2, <2>3, <2>4 DEF Manage
<1>4. ASSUME NEW m \in Manager, NEW o \in ManagerOps, StartRequest(m, o)
      PROVE  FirstEventCreates'
  BY <1>4 DEF StartRequest, TypeOK, dbVars
<1>5. ASSUME NEW w \in Worker, Handle(w), ~FinishOutbox(w) PROVE UNCHANGED <<event, request>>
  BY <1>5
     DEF Handle, SkipEvent, StartHandler, StartRefresh, CreateSupergroup, CreateFails,
         FlushChat, ConfigureReady, ConfigureFails, RefreshBrief, CommitHandler, dbVars
<1>6. ASSUME NEW c \in Cleaner, Clean(c) PROVE UNCHANGED <<event, request>>
  BY <1>6 DEF Clean, StartCleanup, VerifyArchive, DeleteSupergroup, FinishCleanup, dbVars
<1>7. CASE (\E w \in Worker : FetchOutbox(w)) \/ (\E r \in Run : Crash(r))
           \/ TaskProgresses \/ UNCHANGED vars
  BY <1>1, <1>7 DEF FetchOutbox, Crash, TaskProgresses, vars, dbVars
<1> QED
  BY <1>1, <1>2, <1>3, <1>4, <1>5, <1>6, <1>7 DEF Next

\* Every step keeps GroupIsKept: no run takes the group off the row.
LEMMA GroupIsKeptStep ==
    ASSUME TypeOK, GroupIsKept, [Next]_vars
    PROVE  GroupIsKept'
<1> USE DEF GroupIsKept
<1>1. ASSUME NEW r \in Run, \A q \in Run \ {r} : UNCHANGED <<seen[q], mine[q]>>,
             mine'[r].tgId = seen'[r].tgId \/ mine'[r].tgId # NoGroup
      PROVE  GroupIsKept'
  BY <1>1
<1>2. ASSUME UNCHANGED <<seen, mine>> PROVE GroupIsKept'
  BY <1>2
<1>3. ASSUME NEW w \in Worker, Handle(w) PROVE GroupIsKept'
  <2> w \in Run
    BY DEF Run
  <2>1. ASSUME NEW e, NEW outcome, Settle(w, e, outcome) PROVE GroupIsKept'
    BY <2>1 DEF Settle, TypeOK
  <2>2. ASSUME NEW status, NEW outcome, ReadyToCommit(w, status, outcome), UNCHANGED seen
        PROVE  GroupIsKept'
    BY <2>2 DEF ReadyToCommit, TypeOK, ChatRow
  <2>3. CASE \E e \in Event : SkipEvent(w, e)
    BY <2>1, <2>3 DEF SkipEvent
  <2>4. CASE \E e \in Event : StartHandler(w, e)
    BY <2>4 DEF StartHandler, TypeOK, ChatRow
  <2>5. CASE \E e \in Event : StartRefresh(w, e)
    BY <2>5 DEF StartRefresh, TypeOK
  <2>6. CASE CreateSupergroup(w)
    BY <2>6, BoundAssumption DEF CreateSupergroup, TypeOK, ChatRow, NoGroup
  <2>7. CASE CreateFails(w) \/ ConfigureReady(w) \/ ConfigureFails(w)
    BY <2>2, <2>7 DEF CreateFails, ConfigureReady, ConfigureFails
  <2>8. CASE RefreshBrief(w)
    BY <2>1, <2>2, <2>8 DEF RefreshBrief
  <2>9. CASE CommitHandler(w)
    BY <2>1, <2>9 DEF CommitHandler
  <2>10. CASE FlushChat(w) \/ FinishOutbox(w)
    BY <2>10 DEF FlushChat, FinishOutbox
  <2> QED
    BY <1>3, <2>3, <2>4, <2>5, <2>6, <2>7, <2>8, <2>9, <2>10 DEF Handle
<1>4. ASSUME NEW c \in Cleaner, Clean(c) PROVE GroupIsKept'
  <2> c \in Run
    BY DEF Run
  <2>1. CASE StartCleanup(c)
    BY <2>1 DEF StartCleanup, TypeOK, ChatRow
  <2>2. CASE VerifyArchive(c) \/ DeleteSupergroup(c)
    <3>1. /\ mine'[c].tgId = mine[c].tgId /\ UNCHANGED seen
          /\ \A r \in Run \ {c} : mine'[r] = mine[r]
      BY <2>2 DEF VerifyArchive, DeleteSupergroup, TypeOK, ChatRow
    <3> QED
      BY <3>1
  <2>3. CASE FinishCleanup(c)
    BY <2>3 DEF FinishCleanup, TypeOK
  <2> QED
    BY <1>4, <2>1, <2>2, <2>3 DEF Clean
<1>5. ASSUME NEW r \in Run, Crash(r) PROVE GroupIsKept'
  BY <1>5 DEF Crash, TypeOK
<1>6. ASSUME NEW m \in Manager, Manage(m) \/ \E o \in ManagerOps : StartRequest(m, o)
      PROVE  UNCHANGED <<seen, mine>>
  BY <1>6
     DEF Manage, RetryTaskChat, RecoverTaskChat, RequestProvisioning, UpdateTask, DeleteTask,
         RequestFails, StartRequest, runVars
<1>7. CASE (\E w \in Worker : FetchOutbox(w)) \/ TaskProgresses \/ UNCHANGED vars
  BY <1>7 DEF FetchOutbox, TaskProgresses, vars, runVars
<1> QED
  BY <1>2, <1>3, <1>4, <1>5, <1>6, <1>7 DEF Next

\* A handler creates a group only where no id is recorded.
LEMMA HandlerKeepsPaid ==
    ASSUME OneCreator, ChatInv, FirstEventCreates, GroupIsKept, GroupsPaid,
           NEW w \in Worker, Handle(w)
    PROVE  GroupsPaid'
<1> w \in Run
  BY DEF Run
<1> USE DEF ChatInv
<1>1. CASE \E e \in Event : SkipEvent(w, e)
  <2>1. at[w] = "next" /\ at' = [at EXCEPT ![w] = "next"]
    BY <1>1 DEF SkipEvent, NextEvent, Settle
  <2>2. \A v \in Worker \ {w} : UNCHANGED <<at[v], current[v], seen[v], mine[v]>>
    BY <1>1 DEF SkipEvent, Settle, TypeOK, Run
  <2> QED
    BY <1>1, <2>1, <2>2, PaidUntouched DEF SkipEvent, Carries, TypeOK, dbVars
<1>2. CASE \E e \in Event : StartRefresh(w, e)
  <2>1. at[w] = "next" /\ at' = [at EXCEPT ![w] = "brief"]
    BY <1>2 DEF StartRefresh, NextEvent
  <2>2. \A v \in Worker \ {w} : UNCHANGED <<at[v], current[v], seen[v], mine[v]>>
    BY <1>2 DEF StartRefresh, TypeOK, Run
  <2> QED
    BY <1>2, <2>1, <2>2, PaidUntouched DEF StartRefresh, Carries, TypeOK, dbVars
<1>3. CASE \E e \in Event : StartHandler(w, e)
  <2>1. PICK e \in Event : StartHandler(w, e)
    BY <1>3
  <2>2. /\ at[w] = "next" /\ task # "gone" /\ e \in batch[w]
        /\ current' = [current EXCEPT ![w] = e]
        /\ UNCHANGED <<task, chat, made, crashes>>
    BY <2>1 DEF StartHandler, NextEvent, dbVars
  <2>3. \A v \in Worker \ {w} : UNCHANGED <<at[v], current[v], seen[v], mine[v]>>
    BY <2>1 DEF StartHandler, TypeOK, Run
  <2>4. CASE chat.tgId # NoGroup
    <3>1. at' = [at EXCEPT ![w] = "configure"]
      BY <2>1, <2>4 DEF StartHandler
    <3> QED
      BY <2>2, <2>3, <3>1, PaidUntouched DEF Carries, TypeOK
  <2>5. CASE chat.tgId = NoGroup
    <3>1. at' = [at EXCEPT ![w] = "create"] /\ seen' = [seen EXCEPT ![w] = chat]
      BY <2>1, <2>5 DEF StartHandler
    <3>2. e = 1
      BY <2>1, <2>2, <2>5
         DEF StartHandler, FirstEventCreates, EventsInv, Held, Pending, TypeOK, EventRow,
             EventType
    <3>3. \A v \in Worker : ~Carries(v)
      BY <2>2, <3>2 DEF Carries, EventsInv, Held
    <3>4. made <= crashes
      BY <2>2, <2>5, <3>3, BoundAssumption DEF GroupsPaid, TypeOK
    <3> QED
      BY <2>2, <2>3, <2>5, <3>1, <3>2, <3>4, BoundAssumption DEF GroupsPaid, TypeOK, Carries
  <2> QED
    BY <2>4, <2>5
<1>4. CASE CreateSupergroup(w)
  <2>1. /\ at[w] = "create" /\ made' = made + 1 /\ at' = [at EXCEPT ![w] = "flush"]
        /\ UNCHANGED <<task, chat, crashes, current, seen>>
    BY <1>4 DEF CreateSupergroup, Create, dbVars
  <2>2. current[w] = 1 /\ made <= crashes /\ seen[w].tgId = NoGroup
    BY <2>1 DEF GroupsPaid
  <2>3. mine'[w].tgId # NoGroup /\ \A v \in Worker \ {w} : mine'[v] = mine[v]
    BY <1>4, BoundAssumption DEF CreateSupergroup, TypeOK, ChatRow, NoGroup, Run
  <2>4. \A v \in Worker : at[v] = "create" => v = w
    BY <2>1, <2>2 DEF GroupsPaid, EventsInv, Held, Event, TypeOK
  <2>5. Carries(w)'
    BY <2>1, <2>2, <2>3 DEF Carries, TypeOK
  <2>6. \A v \in Worker : at'[v] = "flush" => Carries(v)'
    BY <2>1, <2>3, <2>5 DEF GroupsPaid, Carries, TypeOK
  <2>7. \A v \in Worker : at'[v] # "create"
    BY <2>1, <2>4 DEF TypeOK
  <2>8. \A v \in Worker : at'[v] \in {"create", "flush"} => seen'[v].tgId = NoGroup
    BY <2>1, <2>2 DEF GroupsPaid, TypeOK
  <2>9. made' <= 1 + crashes'
    BY <2>1, <2>2, BoundAssumption DEF TypeOK
  <2> QED
    BY <2>5, <2>6, <2>7, <2>8, <2>9 DEF GroupsPaid
<1>5. ASSUME NEW status, NEW outcome, ReadyToCommit(w, status, outcome), at[w] # "flush",
             UNCHANGED <<task, chat, made, crashes, current, seen>>
      PROVE  GroupsPaid'
  <2>1. /\ at' = [at EXCEPT ![w] = "commit"] /\ mine'[w].tgId = mine[w].tgId
        /\ \A v \in Worker \ {w} : mine'[v] = mine[v]
    BY <1>5 DEF ReadyToCommit, TypeOK, ChatRow, Run
  <2>2. \A v \in Worker : Carries(v) => Carries(v)'
    BY <1>5, <2>1 DEF Carries, TypeOK
  <2>3. \A v \in Worker : at'[v] \in {"create", "flush"} => at'[v] = at[v]
    BY <2>1 DEF TypeOK
  <2> QED
    BY <1>5, <2>2, <2>3 DEF GroupsPaid
<1>6. CASE CreateFails(w)
  BY <1>5, <1>6 DEF CreateFails, OneCreator, dbVars
<1>7. CASE ConfigureReady(w) \/ ConfigureFails(w)
  BY <1>5, <1>7 DEF ConfigureReady, ConfigureFails, dbVars
<1>8. CASE FlushChat(w)
  <2>1. /\ at[w] = "flush" /\ at' = [at EXCEPT ![w] = "configure"]
        /\ UNCHANGED <<task, chat, made, crashes, current, seen, mine>>
    BY <1>8 DEF FlushChat, dbVars
  <2>2. \A v \in Worker : Carries(v) => Carries(v)'
    BY <2>1 DEF Carries, TypeOK
  <2>3. \A v \in Worker : at'[v] \in {"create", "flush"} => at'[v] = at[v]
    BY <2>1 DEF TypeOK
  <2> QED
    BY <2>1, <2>2, <2>3 DEF GroupsPaid
<1>9. CASE RefreshBrief(w)
  <2>1. CASE \E outcome \in {"done", "error"} : Settle(w, current[w], outcome)
    <3>1. at[w] = "brief" /\ at' = [at EXCEPT ![w] = "next"]
      BY <1>9, <2>1 DEF RefreshBrief, Settle
    <3>2. \A v \in Worker \ {w} : UNCHANGED <<at[v], current[v], seen[v], mine[v]>>
      BY <2>1 DEF Settle, TypeOK, Run
    <3> QED
      BY <1>9, <3>1, <3>2, PaidUntouched DEF RefreshBrief, Carries, TypeOK, dbVars
  <2>2. CASE ReadyToCommit(w, "degraded", "done") /\ UNCHANGED <<current, seen>>
    BY <1>5, <1>9, <2>2 DEF RefreshBrief, dbVars
  <2> QED
    BY <1>9, <2>1, <2>2 DEF RefreshBrief
<1>10. CASE CommitHandler(w)
  <2>1. /\ at[w] = "commit" /\ at' = [at EXCEPT ![w] = "next"]
        /\ UNCHANGED <<task, made, crashes>>
        /\ \A v \in Worker \ {w} : UNCHANGED <<at[v], current[v], seen[v], mine[v]>>
    BY <1>10 DEF CommitHandler, Settle, TypeOK, Run
  <2>2. chat.tgId # NoGroup => chat'.tgId # NoGroup
    BY <1>10, MergeKeepsGroup DEF CommitHandler, GroupIsKept
  <2>3. CASE Carries(w)
    <3>1. chat'.tgId # NoGroup
      BY <1>10, <2>3 DEF CommitHandler, Carries, Merge
    <3>2. \A v \in Worker : at'[v] \in {"create", "flush"} =>
             v # w /\ UNCHANGED <<at[v], current[v], seen[v], mine[v]>>
      BY <2>1 DEF TypeOK
    <3> QED
      BY <2>1, <3>1, <3>2 DEF GroupsPaid, Carries
  <2>4. CASE ~Carries(w)
    BY <2>1, <2>2, <2>4, PaidUntouched DEF TypeOK
  <2> QED
    BY <2>3, <2>4
<1>11. CASE FinishOutbox(w)
  BY <1>11, PaidUntouched DEF FinishOutbox, Carries, TypeOK
<1> QED
  BY <1>1, <1>2, <1>3, <1>4, <1>6, <1>7, <1>8, <1>9, <1>10, <1>11 DEF Handle

\* Every step keeps GroupsPaid: a group too many has cost a crash.
LEMMA PaidStep ==
    ASSUME OneCreator, ChatInv, FirstEventCreates, GroupIsKept, GroupsPaid, [Next]_vars
    PROVE  GroupsPaid'
<1> USE DEF ChatInv
<1>1. ASSUME NEW w \in Worker, FetchOutbox(w) PROVE GroupsPaid'
  BY <1>1, PaidUntouched DEF FetchOutbox, Carries, TypeOK, dbVars
<1>2. ASSUME NEW c \in Cleaner, Clean(c) PROVE GroupsPaid'
  <2>1. c \notin Worker /\ c \in Run
    BY RunAssumption DEF Run
  <2>2. /\ UNCHANGED <<task, made, crashes, current>>
        /\ \A r \in Run \ {c} : at'[r] = at[r] /\ seen'[r] = seen[r] /\ mine'[r] = mine[r]
    <3>1. CASE StartCleanup(c)
      BY <3>1 DEF StartCleanup, TypeOK, dbVars
    <3>2. CASE VerifyArchive(c)
      BY <3>2 DEF VerifyArchive, TypeOK, dbVars
    <3>3. CASE DeleteSupergroup(c)
      BY <3>3 DEF DeleteSupergroup, TypeOK, dbVars
    <3>4. CASE FinishCleanup(c)
      BY <3>4 DEF FinishCleanup, TypeOK
    <3> QED
      BY <1>2, <3>1, <3>2, <3>3, <3>4 DEF Clean
  <2>3. chat.tgId # NoGroup => chat'.tgId # NoGroup
    <3>1. CASE FinishCleanup(c)
      BY <2>1, <3>1, MergeKeepsGroup DEF FinishCleanup, GroupIsKept
    <3>2. CASE StartCleanup(c) \/ VerifyArchive(c) \/ DeleteSupergroup(c)
      BY <3>2 DEF StartCleanup, VerifyArchive, DeleteSupergroup, dbVars
    <3> QED
      BY <1>2, <3>1, <3>2 DEF Clean
  <2> QED
    BY <2>1, <2>2, <2>3, PaidUntouched DEF Run
<1>3. ASSUME NEW r \in Run, Crash(r) PROVE GroupsPaid'
  <2>1. /\ crashes' = crashes + 1 /\ at' = [at EXCEPT ![r] = "idle"]
        /\ UNCHANGED <<task, chat, made>>
        /\ \A w \in Worker \ {r} : UNCHANGED <<current[w], seen[w], mine[w]>>
    BY <1>3 DEF Crash, TypeOK, Run, dbVars
  <2>2. made' <= crashes'
    BY <2>1, BoundAssumption DEF GroupsPaid, TypeOK
  <2>3. \A w \in Worker : at'[w] \in {"create", "flush"} => w # r /\ at'[w] = at[w]
    BY <2>1 DEF TypeOK
  <2> QED
    BY <2>1, <2>2, <2>3, BoundAssumption DEF GroupsPaid, Carries, TypeOK
<1>4. ASSUME NEW m \in Manager, Manage(m) PROVE GroupsPaid'
  <2>1. UNCHANGED <<made, crashes, at, current, seen, mine>>
    BY <1>4
       DEF Manage, RetryTaskChat, RecoverTaskChat, RequestProvisioning, UpdateTask, DeleteTask,
           RequestFails, runVars
  <2>2. task = "gone" => task' = "gone"
    BY <1>4
       DEF Manage, RetryTaskChat, RecoverTaskChat, RequestProvisioning, UpdateTask, DeleteTask,
           RequestFails, dbVars
  <2>3. ASSUME NEW o, NEW status, NEW type, RequestProvisioning(m, o, status, type),
               chat.tgId # NoGroup
        PROVE  chat'.tgId # NoGroup
    BY <2>3 DEF RequestProvisioning, Merge, TypeOK, ChatRow
  <2>4. chat.tgId # NoGroup => task' = "gone" \/ chat'.tgId # NoGroup
    BY <1>4, <2>3
       DEF Manage, RetryTaskChat, RecoverTaskChat, UpdateTask, DeleteTask, RequestFails, dbVars
  <2> QED
    BY <2>1, <2>2, <2>4, PaidUntouched
<1>5. ASSUME NEW m \in Manager, NEW o \in ManagerOps, StartRequest(m, o) PROVE GroupsPaid'
  BY <1>5, PaidUntouched DEF StartRequest, dbVars, runVars
<1>6. CASE TaskProgresses \/ UNCHANGED vars
  BY <1>6, PaidUntouched DEF TaskProgresses, vars, dbVars, runVars
<1> QED
  BY <1>1, <1>2, <1>3, <1>4, <1>5, <1>6, HandlerKeepsPaid DEF Next

\* The inductive invariant about the groups.
LEMMA GroupInvariant == ASSUME OneCreator PROVE Spec => []GroupInv
<1>1. Init => GroupInv
  BY InitType, EventsInit, HandlerInit, StallInit, GroupsInit DEF GroupInv, ChatInv
<1>2. GroupInv /\ [Next]_vars => GroupInv'
  BY TypeStep, EventsStep, HandlerStep, StallStep, FirstEventStep, GroupIsKeptStep, PaidStep
     DEF GroupInv, ChatInv
<1> QED
  BY <1>1, <1>2, PTL DEF Spec

\* A subset of an interval is no larger than the interval.
LEMMA IntervalCardinality ==
    ASSUME NEW n \in Nat, NEW S \in SUBSET (1..n)
    PROVE  Cardinality(S) \in Nat /\ Cardinality(S) <= n
<1>1. IsFiniteSet(1..n) /\ Cardinality(1..n) = n
  BY FS_Interval
<1> QED
  BY <1>1, FS_Subset, FS_CardinalityType

GroupsCostCrashes == Cardinality(live) <= 1 + crashes

\* A task never has more than one supergroup for each crash of a run, and one: if
\* nobody retries from the API and Telegram's answers arrive, nothing but a crash
\* between the creation of the group and its commit makes the worker create another.
THEOREM CrashTheorem == ASSUME OneCreator PROVE Spec => []GroupsCostCrashes
<1>1. ASSUME GroupInv PROVE GroupsCostCrashes
  <2>1. made \in Nat /\ crashes \in Nat /\ live \in SUBSET (1..made) /\ made <= 1 + crashes
    BY <1>1, BoundAssumption DEF GroupInv, ChatInv, GroupsPaid, TypeOK
  <2>2. Cardinality(live) <= made /\ Cardinality(live) \in Nat
    BY <2>1, IntervalCardinality
  <2> QED
    BY <2>1, <2>2 DEF GroupsCostCrashes
<1> QED
  BY <1>1, GroupInvariant, PTL

\* The worker creates one supergroup for a task, whatever fails or overlaps, as long
\* as no run crashes, nobody retries from the API and Telegram's answers arrive.
THEOREM OneGroupTheorem ==
    ASSUME OneCreator, MaxCrashes = 0
    PROVE  Spec => []AtMostOneGroup
<1>1. ASSUME GroupInv, GroupsCostCrashes PROVE AtMostOneGroup
  BY <1>1 DEF GroupInv, ChatInv, TypeOK, GroupsCostCrashes, AtMostOneGroup
<1> QED
  BY <1>1, GroupInvariant, CrashTheorem, PTL
===============================================================================
