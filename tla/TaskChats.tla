------------------------------- MODULE TaskChats -------------------------------
(***************************************************************************)
(* The working group of one group task: its row in task_chats, the outbox    *)
(* events about it, the supergroups that exist in Telegram, and everything   *)
(* that acts on them at the same time: overlapping runs of process_outbox    *)
(* and process_cleanup (celery starts one a minute, prefork workers overlap) *)
(* and managers who retry, recover or delete from the API or the bot.        *)
(*                                                                           *)
(* A run of process_outbox locks the due events (FOR UPDATE SKIP LOCKED) and *)
(* handles them one by one; each handler commits a session of its own, and   *)
(* the bookkeeping of the whole batch is committed at the end.  A crash in   *)
(* between loses the bookkeeping and whatever Telegram answered.             *)
(*                                                                           *)
(* Members, invitations and the pinned brief are folded into the outcome of  *)
(* configure_task_chat.  Retry delays are left out: an unprocessed event may *)
(* be due or not.                                                            *)
(***************************************************************************)
EXTENDS Integers, FiniteSets

CONSTANTS Worker,       \* runs of process_outbox that may overlap
          Cleaner,      \* runs of process_cleanup that may overlap
          Manager,      \* managers acting at the same time
          NoRun,        \* nobody holds the row of the chat
          ManagerOp,    \* what managers do, a subset of ManagerOps
          Fault,        \* what may go wrong, a subset of Faults
          MaxAttempts,  \* _MAX_OUTBOX_ATTEMPTS
          MaxEvents,    \* bound: outbox events ever written for this task
          MaxGroups,    \* bound: supergroups ever created
          MaxCrashes    \* bound: crashes of runs

ManagerOps == {"retry", "recover", "update", "delete"}
\* "retryable", "permanent": answers of Telegram; "lost_reply": Telegram creates
\* the group and the connection fails before the answer; "undeletable": Telegram
\* refuses to delete a group; "storage": report photos cannot be verified.
Faults == {"retryable", "permanent", "lost_reply", "undeletable", "storage"}

ASSUME RunAssumption == /\ NoRun \notin Worker \cup Cleaner
                        /\ Worker \cap Cleaner = {}
ASSUME ChoiceAssumption == ManagerOp \subseteq ManagerOps /\ Fault \subseteq Faults
ASSUME BoundAssumption ==
    /\ MaxAttempts \in Nat \ {0} /\ MaxEvents \in Nat \ {0}
    /\ MaxGroups \in Nat /\ MaxCrashes \in Nat

Event == 1..MaxEvents
NoGroup == 0     \* telegram_chat_id is NULL
Group == 1..MaxGroups

ChatStatus == {"pending", "creating", "ready", "degraded", "cleanup_pending",
               "deleted", "failed"}
ChatRow == [status : ChatStatus \cup {"absent"}, tgId : Nat, warned : BOOLEAN]
NoChat == [status |-> "absent", tgId |-> NoGroup, warned |-> FALSE]

EventType == {"TASK_CREATED", "TASK_CHAT_RECOVERY_REQUESTED",
              "TASK_CHAT_BRIEF_REFRESH_REQUESTED"}
EventRow == [type : EventType \cup {"none"},
             attempts : 0..MaxAttempts, processed : BOOLEAN]
NoEvent == [type |-> "none", attempts |-> 0, processed |-> TRUE]

VARIABLES
    task,       \* "open"; closed with the cleanup "far", "soon" (24 h) or "due"; "gone"
    chat,       \* committed row of task_chats
    event,      \* event[e]: committed row of outbox_events
    live,       \* supergroups that exist in Telegram
    made,       \* number of supergroups created so far
    crashes,    \* crashes so far
    rowLock,    \* run whose uncommitted UPDATE holds the row of the chat
    at,         \* at[r]: the point a run has reached
    batch,      \* batch[w]: events the run has locked and still has to handle
    verdict,    \* verdict[w]: how the handlers of its batch ended
    current,    \* current[w]: the event being handled
    seen,       \* seen[r]: the TaskChat object as the run loaded it
    mine,       \* mine[r]: the same object as the run has changed it
    request     \* request[m]: what manager m is doing and the TaskChat object it read

dbVars  == <<task, chat, event>>
runVars == <<at, batch, verdict, current, seen, mine>>
vars    == <<dbVars, live, made, crashes, rowLock, runVars, request>>

Run == Worker \cup Cleaner

TypeOK ==
    /\ task \in {"open", "far", "soon", "due", "gone"}
    /\ chat \in ChatRow
    /\ event \in [Event -> EventRow]
    /\ made \in 0..MaxGroups
    /\ live \subseteq 1..made
    /\ crashes \in 0..MaxCrashes
    /\ rowLock \in Run \cup {NoRun}
    /\ at \in [Run -> {"idle", "next", "create", "flush", "configure", "brief",
                       "commit", "verify", "delete"}]
    /\ batch \in [Worker -> SUBSET Event]
    /\ verdict \in [Worker -> [Event -> {"none", "done", "error"}]]
    /\ current \in [Worker -> Event \cup {0}]
    /\ seen \in [Run -> ChatRow]
    /\ mine \in [Run -> ChatRow]
    /\ request \in [Manager -> [op : ManagerOps \cup {"none"}, chat : ChatRow]]
-------------------------------------------------------------------------------
Closed == task \in {"far", "soon", "due"}

Pending(e) == ~event[e].processed

\* Mutant of LockedEvents: the batch is read without FOR UPDATE SKIP LOCKED.
NothingLocked == {}

LockedEvents == {e \in Event : \E w \in Worker : verdict[w][e] # "none" \/ e \in batch[w]
                                                 \/ current[w] = e}

RowFree == rowLock = NoRun

\* The columns a commit writes: those whose value differs from the loaded one,
\* and the status if it was flushed before (the flush wrote another value).
Merge(stored, loaded, new, flushed) ==
    [status |-> IF flushed \/ new.status # loaded.status THEN new.status ELSE stored.status,
     tgId   |-> IF new.tgId # loaded.tgId THEN new.tgId ELSE stored.tgId,
     warned |-> IF new.warned # loaded.warned THEN new.warned ELSE stored.warned]

\* The first event that was never written.
Fresh == {e \in Event : event[e].type = "none" /\ \A f \in Event : f < e => event[f].type # "none"}

Enqueue(type) ==
    \E e \in Fresh :
        event' = [event EXCEPT ![e] = [type |-> type, attempts |-> 0, processed |-> FALSE]]
-------------------------------------------------------------------------------
(* process_outbox: locking a batch, the bookkeeping, a crash.                 *)

FetchOutbox(w) ==
    /\ at[w] = "idle"
    /\ \E due \in SUBSET {e \in Event : Pending(e)} \ {{}} :
          /\ due \cap LockedEvents = {}
          /\ batch' = [batch EXCEPT ![w] = due]
    /\ at' = [at EXCEPT ![w] = "next"]
    /\ UNCHANGED <<dbVars, live, made, crashes, rowLock, verdict, current, seen, mine, request>>

\* The handler of the current event returned or raised.
Settle(w, e, outcome) ==
    /\ verdict' = [verdict EXCEPT ![w][e] = outcome]
    /\ current' = [current EXCEPT ![w] = 0]
    /\ at' = [at EXCEPT ![w] = "next"]
    /\ seen' = [seen EXCEPT ![w] = NoChat]
    /\ mine' = [mine EXCEPT ![w] = NoChat]

\* Mutants of Booked: an event is given up one attempt too late; attempts are
\* not counted.
BookedOneTooLate(row, outcome) ==
    [row EXCEPT !.attempts = @ + 1,
                !.processed = outcome = "done" \/ row.attempts + 1 > MaxAttempts]
BookedUncounted(row, outcome) ==
    [row EXCEPT !.processed = outcome = "done" \/ row.attempts + 1 >= MaxAttempts]

\* The event after the handler: an exception counts an attempt, the last of
\* which gives the event up.
Booked(row, outcome) ==
    [row EXCEPT !.attempts = @ + 1,
                !.processed = outcome = "done" \/ row.attempts + 1 >= MaxAttempts]

FinishOutbox(w) ==
    /\ at[w] = "next" /\ batch[w] = {}
    /\ event' = [e \in Event |-> IF verdict[w][e] = "none" THEN event[e]
                                 ELSE Booked(event[e], verdict[w][e])]
    /\ verdict' = [verdict EXCEPT ![w] = [e \in Event |-> "none"]]
    /\ at' = [at EXCEPT ![w] = "idle"]
    /\ UNCHANGED <<task, chat, live, made, crashes, rowLock, batch, current, seen, mine, request>>

Crash(r) ==
    /\ at[r] # "idle" /\ crashes < MaxCrashes
    /\ crashes' = crashes + 1
    /\ at' = [at EXCEPT ![r] = "idle"]
    /\ rowLock' = IF rowLock = r THEN NoRun ELSE rowLock
    /\ seen' = [seen EXCEPT ![r] = NoChat]
    /\ mine' = [mine EXCEPT ![r] = NoChat]
    /\ batch' = [w \in Worker |-> IF w = r THEN {} ELSE batch[w]]
    /\ current' = [w \in Worker |-> IF w = r THEN 0 ELSE current[w]]
    /\ verdict' = [w \in Worker |-> IF w = r THEN [e \in Event |-> "none"] ELSE verdict[w]]
    /\ UNCHANGED <<dbVars, live, made, request>>
-------------------------------------------------------------------------------
(* provision_task_chat, _recover_task_chat and _refresh_task_chat_brief.      *)

\* Mutant of NextEvent: the events come in no order.
AnyEvent(w, e) ==
    /\ at[w] = "next"
    /\ e \in batch[w]
    /\ batch' = [batch EXCEPT ![w] = @ \ {e}]

\* Events are handled in the order they were created.
NextEvent(w, e) ==
    /\ at[w] = "next"
    /\ e \in batch[w] /\ \A f \in batch[w] : e <= f
    /\ batch' = [batch EXCEPT ![w] = @ \ {e}]

\* Nothing to do: the task is gone, its group was provisioned before, or there
\* is no working group whose brief could be refreshed.
SkipEvent(w, e) ==
    /\ NextEvent(w, e)
    /\ \/ task = "gone"
       \/ event[e].type = "TASK_CREATED" /\ chat.status = "ready"
       \/ event[e].type = "TASK_CHAT_BRIEF_REFRESH_REQUESTED" /\ chat.status # "ready"
    /\ Settle(w, e, "done")
    /\ UNCHANGED <<dbVars, live, made, crashes, rowLock, request>>

StartRefresh(w, e) ==
    /\ NextEvent(w, e)
    /\ task # "gone"
    /\ event[e].type = "TASK_CHAT_BRIEF_REFRESH_REQUESTED" /\ chat.status = "ready"
    /\ current' = [current EXCEPT ![w] = e]
    /\ seen' = [seen EXCEPT ![w] = chat]
    /\ mine' = [mine EXCEPT ![w] = chat]
    /\ at' = [at EXCEPT ![w] = "brief"]
    /\ UNCHANGED <<dbVars, live, made, crashes, rowLock, verdict, request>>

StartHandler(w, e) ==
    /\ NextEvent(w, e)
    /\ task # "gone"
    /\ event[e].type # "TASK_CHAT_BRIEF_REFRESH_REQUESTED"
    /\ event[e].type = "TASK_CREATED" => chat.status # "ready"
    /\ event[e].type = "TASK_CHAT_RECOVERY_REQUESTED" => chat.tgId # NoGroup
    /\ current' = [current EXCEPT ![w] = e]
    /\ seen' = [seen EXCEPT ![w] = chat]
    /\ mine' = [mine EXCEPT ![w] = [chat EXCEPT !.status = "creating"]]
    /\ at' = [at EXCEPT ![w] = IF chat.tgId = NoGroup THEN "create" ELSE "configure"]
    /\ UNCHANGED <<dbVars, live, made, crashes, rowLock, verdict, request>>

Create == made < MaxGroups /\ made' = made + 1 /\ live' = live \cup {made + 1}

\* Mutant of Broken: the except clauses leave the status CREATING.
LeftCreating(c) == c.status

\* The status the except clauses set: FAILED without a group, DEGRADED with one.
Broken(c) == IF c.tgId = NoGroup THEN "failed" ELSE "degraded"

\* The rest of a handler is its commit, which ends in this outcome for the event.
ReadyToCommit(w, status, outcome) ==
    /\ mine' = [mine EXCEPT ![w].status = status]
    /\ verdict' = [verdict EXCEPT ![w][current[w]] = outcome]
    /\ at' = [at EXCEPT ![w] = "commit"]

CreateSupergroup(w) ==
    /\ at[w] = "create"
    /\ Create
    /\ mine' = [mine EXCEPT ![w].tgId = made + 1]
    /\ at' = [at EXCEPT ![w] = "flush"]
    /\ UNCHANGED <<dbVars, crashes, rowLock, batch, verdict, current, seen, request>>

\* Telegram answers with an error: a retryable one (which may hide that the
\* group was created) raises, a permanent one marks the chat FAILED and returns.
CreateFails(w) ==
    /\ at[w] = "create"
    /\ \/ /\ "retryable" \in Fault
          /\ ReadyToCommit(w, Broken(mine[w]), "error") /\ UNCHANGED <<live, made>>
       \/ /\ "lost_reply" \in Fault
          /\ ReadyToCommit(w, Broken(mine[w]), "error") /\ Create
       \/ /\ "permanent" \in Fault
          /\ ReadyToCommit(w, "failed", "done") /\ UNCHANGED <<live, made>>
    /\ UNCHANGED <<dbVars, crashes, rowLock, batch, current, seen, request>>

\* session.flush(): the UPDATE of the chat takes its row until the commit.  (The
\* row is there: delete_task waits for the run that has locked the event.)
FlushChat(w) ==
    /\ at[w] = "flush"
    /\ RowFree
    /\ rowLock' = w
    /\ at' = [at EXCEPT ![w] = "configure"]
    /\ UNCHANGED <<dbVars, live, made, crashes, batch, verdict, current, seen, mine, request>>

\* configure_task_chat on a group that exists: bot, brief and members are in
\* place, and the queries in between have flushed the chat.
ConfigureReady(w) ==
    /\ at[w] = "configure"
    /\ mine[w].tgId \in live
    /\ rowLock \in {NoRun, w}
    /\ rowLock' = w
    /\ ReadyToCommit(w, "ready", "done")
    /\ UNCHANGED <<dbVars, live, made, crashes, batch, current, seen, request>>

\* The bot or the brief fails for good (DEGRADED, the event is done), or any
\* call asks for a retry: before the queries, or after one flushed the chat.
ConfigureFails(w) ==
    /\ at[w] = "configure"
    /\ \/ /\ "permanent" \in Fault \/ mine[w].tgId \notin live
          /\ ReadyToCommit(w, "degraded", "done")
          /\ UNCHANGED rowLock
       \/ /\ "retryable" \in Fault
          /\ ReadyToCommit(w, "degraded", "error")
          /\ UNCHANGED rowLock \/ (RowFree /\ rowLock' = w)
    /\ UNCHANGED <<dbVars, live, made, crashes, batch, current, seen, request>>

\* A brief that was posted, or a retry: the status is left alone.  A brief that
\* cannot be posted degrades the chat.
RefreshBrief(w) ==
    /\ at[w] = "brief"
    /\ \/ mine[w].tgId \in live /\ Settle(w, current[w], "done")
       \/ "retryable" \in Fault /\ Settle(w, current[w], "error")
       \/ /\ "permanent" \in Fault \/ mine[w].tgId \notin live
          /\ ReadyToCommit(w, "degraded", "done")
          /\ UNCHANGED <<current, seen>>
    /\ UNCHANGED <<dbVars, live, made, crashes, rowLock, batch, request>>

CommitHandler(w) ==
    /\ at[w] = "commit"
    /\ rowLock \in {NoRun, w}
    /\ chat' = Merge(chat, seen[w], mine[w], rowLock = w)
    /\ rowLock' = NoRun
    /\ Settle(w, current[w], verdict[w][current[w]])
    /\ UNCHANGED <<task, event, live, made, crashes, batch, request>>
-------------------------------------------------------------------------------
(* process_cleanup.  It takes no row lock when it selects the chats.          *)

\* Mutant of DueForDeletion: a group is deleted only after its warning was sent.
DueAfterWarning == task = "due" /\ chat.warned

\* cleanup_at has passed.
DueForDeletion == task = "due"

StartCleanup(c) ==
    /\ at[c] = "idle"
    /\ Closed /\ chat.status \in {"ready", "cleanup_pending"} /\ chat.tgId # NoGroup
    /\ seen' = [seen EXCEPT ![c] = chat]
    /\ \/ /\ task = "soon" /\ ~chat.warned
          /\ mine' = [mine EXCEPT ![c] = [chat EXCEPT !.warned = TRUE]]
          /\ at' = [at EXCEPT ![c] = "commit"]
       \/ /\ DueForDeletion
          /\ mine' = [mine EXCEPT ![c] = chat]
          /\ at' = [at EXCEPT ![c] = "verify"]
    /\ UNCHANGED <<dbVars, live, made, crashes, rowLock, batch, verdict, current, request>>

\* archive_is_persisted, then status CLEANUP_PENDING, flushed by the query for
\* the invite links to revoke; a row that is gone makes the flush raise.
VerifyArchive(c) ==
    /\ at[c] = "verify"
    /\ mine' = [mine EXCEPT ![c].status = "cleanup_pending"]
    /\ \/ /\ RowFree \/ seen[c].status = "cleanup_pending"
          /\ rowLock' = IF seen[c].status = "cleanup_pending" THEN rowLock ELSE c
          /\ at' = [at EXCEPT ![c] = IF chat.status = "absent"
                                        /\ seen[c].status # "cleanup_pending"
                                     THEN "commit" ELSE "delete"]
       \/ /\ "storage" \in Fault
          /\ at' = [at EXCEPT ![c] = "commit"]
          /\ UNCHANGED rowLock
    /\ UNCHANGED <<dbVars, live, made, crashes, batch, verdict, current, seen, request>>

DeleteSupergroup(c) ==
    /\ at[c] = "delete"
    /\ \/ /\ seen[c].tgId \in live
          /\ live' = live \ {seen[c].tgId}
          /\ mine' = [mine EXCEPT ![c].status = "deleted"]
       \/ /\ "undeletable" \in Fault \/ seen[c].tgId \notin live
          /\ UNCHANGED <<live, mine>>
    /\ at' = [at EXCEPT ![c] = "commit"]
    /\ UNCHANGED <<dbVars, made, crashes, rowLock, batch, verdict, current, seen, request>>

FinishCleanup(c) ==
    /\ at[c] = "commit"
    /\ rowLock \in {NoRun, c}
    /\ chat' = IF chat.status = "absent" THEN chat
               ELSE Merge(chat, seen[c], mine[c], rowLock = c)
    /\ rowLock' = NoRun
    /\ at' = [at EXCEPT ![c] = "idle"]
    /\ seen' = [seen EXCEPT ![c] = NoChat]
    /\ mine' = [mine EXCEPT ![c] = NoChat]
    /\ UNCHANGED <<task, event, live, made, crashes, batch, verdict, current, request>>
-------------------------------------------------------------------------------
(* Managers: the request reads the chat, then commits.                        *)

Allowed(o) ==
    CASE o = "retry"   -> chat.status # "ready" /\ chat.tgId = NoGroup
      [] o = "recover" -> chat.status # "ready" /\ chat.tgId # NoGroup
      [] o = "update"  -> task = "open"
      [] o = "delete"  -> chat.tgId = NoGroup

StartRequest(m, o) ==
    /\ request[m].op = "none"
    /\ o \in ManagerOp
    /\ task # "gone" /\ Allowed(o)
    /\ o # "delete" => Fresh # {}
    /\ request' = [request EXCEPT ![m] = [op |-> o, chat |-> chat]]
    /\ UNCHANGED <<dbVars, live, made, crashes, rowLock, runVars>>

RequestEnds(m) == request' = [request EXCEPT ![m] = [op |-> "none", chat |-> NoChat]]

\* retry_task_chat and recover_task_chat write a status and an outbox event.
RequestProvisioning(m, o, status, type) ==
    /\ request[m].op = o
    /\ chat.status # "absent"
    /\ RowFree \/ request[m].chat.status = status
    /\ chat' = Merge(chat, request[m].chat, [request[m].chat EXCEPT !.status = status], FALSE)
    /\ Enqueue(type)
    /\ RequestEnds(m)
    /\ UNCHANGED <<task, live, made, crashes, rowLock, runVars>>

RetryTaskChat(m) == RequestProvisioning(m, "retry", "pending", "TASK_CREATED")

RecoverTaskChat(m) ==
    RequestProvisioning(m, "recover", "creating", "TASK_CHAT_RECOVERY_REQUESTED")

\* update_task asks for a new brief.
UpdateTask(m) ==
    /\ request[m].op = "update"
    /\ task # "gone"
    /\ Enqueue("TASK_CHAT_BRIEF_REFRESH_REQUESTED")
    /\ RequestEnds(m)
    /\ UNCHANGED <<task, chat, live, made, crashes, rowLock, runVars>>

\* delete_task deletes the events of the task, waiting for a run that has locked
\* one, and the row of the chat by ON DELETE CASCADE.
DeleteTask(m) ==
    /\ request[m].op = "delete"
    /\ LockedEvents = {} /\ RowFree
    /\ task' = "gone" /\ chat' = NoChat
    /\ event' = [e \in Event |-> IF event[e].type = "none" THEN event[e]
                                 ELSE [event[e] EXCEPT !.processed = TRUE]]
    /\ RequestEnds(m)
    /\ UNCHANGED <<live, made, crashes, rowLock, runVars>>

RequestFails(m) ==
    /\ request[m].op # "none"
    /\ chat.status = "absent" \/ (request[m].op # "delete" /\ Fresh = {})
    /\ RequestEnds(m)
    /\ UNCHANGED <<dbVars, live, made, crashes, rowLock, runVars>>
-------------------------------------------------------------------------------
\* The task is completed or cancelled, and time passes towards its cleanup.
TaskProgresses ==
    /\ \/ task = "open" /\ task' = "far"
       \/ task = "far" /\ task' = "soon"
       \/ task = "soon" /\ task' = "due"
    /\ UNCHANGED <<chat, event, live, made, crashes, rowLock, runVars, request>>

\* create_task has written the task, its chat and the first event.
Init ==
    /\ task = "open"
    /\ chat = [NoChat EXCEPT !.status = "pending"]
    /\ event = [e \in Event |->
                  IF e = 1 THEN [type |-> "TASK_CREATED", attempts |-> 0, processed |-> FALSE]
                  ELSE NoEvent]
    /\ live = {} /\ made = 0 /\ crashes = 0
    /\ rowLock = NoRun
    /\ at = [r \in Run |-> "idle"]
    /\ batch = [w \in Worker |-> {}]
    /\ verdict = [w \in Worker |-> [e \in Event |-> "none"]]
    /\ current = [w \in Worker |-> 0]
    /\ seen = [r \in Run |-> NoChat] /\ mine = [r \in Run |-> NoChat]
    /\ request = [m \in Manager |-> [op |-> "none", chat |-> NoChat]]

Handle(w) ==
    \/ \E e \in Event : SkipEvent(w, e) \/ StartHandler(w, e) \/ StartRefresh(w, e)
    \/ CreateSupergroup(w) \/ CreateFails(w) \/ FlushChat(w)
    \/ ConfigureReady(w) \/ ConfigureFails(w) \/ RefreshBrief(w) \/ CommitHandler(w)
    \/ FinishOutbox(w)

Clean(c) == StartCleanup(c) \/ VerifyArchive(c) \/ DeleteSupergroup(c) \/ FinishCleanup(c)

Manage(m) ==
    RetryTaskChat(m) \/ RecoverTaskChat(m) \/ UpdateTask(m) \/ DeleteTask(m) \/ RequestFails(m)

Next ==
    \/ \E w \in Worker : FetchOutbox(w) \/ Handle(w)
    \/ \E c \in Cleaner : Clean(c)
    \/ \E r \in Run : Crash(r)
    \/ \E m \in Manager : Manage(m) \/ \E o \in ManagerOps : StartRequest(m, o)
    \/ TaskProgresses

Spec == Init /\ [][Next]_vars

\* Celery beat starts both jobs every minute and postgres grants row locks in
\* turn; managers, crashes and the course of the task are under no obligation.
FairSpec ==
    /\ Spec
    /\ \A w \in Worker : WF_vars(FetchOutbox(w)) /\ WF_vars(Handle(w))
    /\ \A c \in Cleaner : WF_vars(Clean(c))
-------------------------------------------------------------------------------
(* Safety.                                                                    *)

\* A chat that says it is being worked on (PENDING, CREATING) has an outbox
\* event that will provision it: neither a crash, nor an event given up after
\* its last attempt, nor a manager writing over a handler's result leaves the
\* card saying "being created" with nothing left that could change it.
NoSilentStall ==
    chat.status \in {"pending", "creating"} =>
        \E e \in Event : Pending(e) /\ event[e].type # "TASK_CHAT_BRIEF_REFRESH_REQUESTED"

\* The worker creates one supergroup for a task (operations-runbook step 3).
AtMostOneGroup == Cardinality(live) <= 1

\* The outbox, seen without what its events are about.  An event is handled once
\* the transaction of its handler is over: until then the outcome does not count.
Status(e) ==
    IF event[e].type = "none" THEN "unwritten"
    ELSE IF Pending(e) THEN "pending" ELSE "settled"

Locked(w) == {e \in Event : e \in batch[w] \/ current[w] = e \/ verdict[w][e] # "none"}

Queue == INSTANCE Outbox WITH
    status   <- [e \in Event |-> Status(e)],
    attempts <- [e \in Event |-> event[e].attempts],
    lease    <- [w \in Worker |-> Locked(w)],
    outcome  <- [w \in Worker |-> [e \in Event |->
                   IF current[w] = e THEN "none" ELSE verdict[w][e]]]

\* The worker, the requests and the deletion of the task do to the outbox what
\* Outbox promises: no event is lost, handled by two runs at once or out of order,
\* or settled before the handler has committed.
OutboxSpec == Queue!Spec

(* Liveness.                                                                  *)

\* Every outbox event is processed or given up, whatever Telegram answers.
EventsSettle == \A e \in Event : Pending(e) ~> ~Pending(e)

\* The group recorded for a closed task disappears once its cleanup is due,
\* unless its configuration failed for good: a DEGRADED group is left to people.
GroupIsDeleted ==
    \A g \in Group :
        (task = "due" /\ chat.tgId = g) ~> (g \notin live \/ chat.status = "degraded")
===============================================================================
