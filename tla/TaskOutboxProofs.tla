--------------------------- MODULE TaskOutboxProofs ----------------------------
(***************************************************************************)
(* TaskChats implements Outbox.                                              *)
(***************************************************************************)
EXTENDS TaskChatsProofs

\* A run without a batch holds nothing; the event it handles comes before those it
\* still has to handle, none of which has an outcome; what is committed has one.
LeaseOf(w) ==
    /\ at[w] = "idle" => Locked(w) = {}
    /\ \A e \in batch[w] : verdict[w][e] = "none" /\ current[w] < e
    /\ at[w] = "commit" => verdict[w][current[w]] # "none"

LeaseInv == \A w \in Worker : LeaseOf(w)

\* How run w ended with event e.
Outcome(w, e) == IF current[w] = e THEN "none" ELSE verdict[w][e]

\* What Queue puts for the variables of Outbox.
QStatus   == [e \in Event |-> Status(e)]
QAttempts == [e \in Event |-> event[e].attempts]
QLease    == [w \in Worker |-> Locked(w)]
QOutcome  == [w \in Worker |-> [e \in Event |->
                IF current[w] = e THEN "none" ELSE verdict[w][e]]]

-------------------------------------------------------------------------------
(* Who holds what.                                                            *)

\* At first no run holds an event.
LEMMA InitLease == Init => LeaseInv
BY DEF Init, LeaseInv, LeaseOf, Locked, Event, Run

\* A step of run w alone.
LEMMA LeaseKept ==
    ASSUME LeaseInv, NEW w, LeaseOf(w)',
           \A v \in Worker \ {w} : /\ at'[v] = at[v] /\ batch'[v] = batch[v]
                                   /\ verdict'[v] = verdict[v] /\ current'[v] = current[v]
    PROVE  LeaseInv'
BY DEF LeaseInv, LeaseOf, Locked

\* The end of a handler, or of an event that needed none.
LEMMA SettleLease ==
    ASSUME TypeOK, LeaseInv, NEW w \in Worker, NEW e \in Event, NEW outcome,
           Settle(w, e, outcome), e \notin batch'[w],
           \A v \in Worker : batch'[v] \subseteq batch[v] /\ (v # w => batch'[v] = batch[v])
    PROVE  LeaseInv'
<1>1. \A f \in Event : f # e => verdict'[w][f] = verdict[w][f]
  BY DEF Settle, TypeOK
<1>2. at'[w] = "next" /\ current'[w] = 0
  BY DEF Settle, TypeOK, Run
<1>3. \A f \in batch'[w] : f \in Event /\ f # e /\ f \in batch[w]
  BY DEF TypeOK
<1>4. LeaseOf(w)'
  BY <1>1, <1>2, <1>3 DEF LeaseInv, LeaseOf, Event
<1> QED
  BY <1>4, LeaseKept DEF Settle, TypeOK

\* A handler has an outcome before it commits.
LEMMA ReadyLease ==
    ASSUME TypeOK, HandlerInv, LeaseInv, NEW w \in Worker, NEW status,
           NEW outcome \in {"done", "error"}, ReadyToCommit(w, status, outcome),
           current[w] # 0, UNCHANGED <<batch, current>>
    PROVE  LeaseInv'
<1>1. current[w] \in Event /\ verdict'[w][current[w]] = outcome
  BY DEF ReadyToCommit, TypeOK
<1>2. at'[w] = "commit"
  BY DEF ReadyToCommit, TypeOK, Run
<1>3. \A f \in batch[w] : f # current[w] /\ f \in Event
  BY <1>1 DEF LeaseInv, LeaseOf, TypeOK, Event
<1>4. \A f \in batch[w] : verdict'[w][f] = verdict[w][f]
  BY <1>3 DEF ReadyToCommit, TypeOK
<1>5. LeaseOf(w)'
  BY <1>1, <1>2, <1>4 DEF LeaseInv, LeaseOf
<1> QED
  BY <1>5, LeaseKept DEF ReadyToCommit, TypeOK

\* Every step of a run of the outbox keeps LeaseInv.
LEMMA HandleLease ==
    ASSUME TypeOK, HandlerInv, LeaseInv, NEW w \in Worker, FetchOutbox(w) \/ Handle(w)
    PROVE  LeaseInv'
<1> w \in Run
  BY DEF Run
<1>1. CASE FetchOutbox(w)
  <2>1. Locked(w) = {}
    BY <1>1 DEF FetchOutbox, LeaseInv, LeaseOf
  <2>2. at'[w] = "next" /\ current'[w] = current[w] /\ verdict' = verdict
    BY <1>1 DEF FetchOutbox, TypeOK
  <2>3. current[w] = 0 /\ \A e \in Event : verdict[w][e] = "none"
    BY <2>1 DEF Locked, TypeOK
  <2>4. batch'[w] \subseteq Event
    BY <1>1 DEF FetchOutbox, TypeOK
  <2>5. LeaseOf(w)'
    BY <2>2, <2>3, <2>4 DEF LeaseOf, Event
  <2> QED
    BY <1>1, <2>5, LeaseKept DEF FetchOutbox, TypeOK
<1>2. ASSUME NEW e \in Event, SkipEvent(w, e) PROVE LeaseInv'
  BY <1>2, SettleLease DEF SkipEvent, NextEvent, TypeOK
<1>3. ASSUME NEW e \in Event, StartHandler(w, e) \/ StartRefresh(w, e) PROVE LeaseInv'
  <2>1. /\ NextEvent(w, e) /\ current' = [current EXCEPT ![w] = e] /\ verdict' = verdict
        /\ \E p \in {"create", "configure", "brief"} : at' = [at EXCEPT ![w] = p]
    BY <1>3 DEF StartHandler, StartRefresh
  <2>2. current'[w] = e /\ at'[w] \notin {"idle", "commit"}
    BY <2>1 DEF TypeOK
  <2>3. \A f \in batch'[w] : f \in batch[w] /\ f \in Event /\ e < f
    BY <2>1 DEF NextEvent, TypeOK, Event
  <2>4. LeaseOf(w)'
    BY <2>1, <2>2, <2>3 DEF LeaseInv, LeaseOf
  <2> QED
    BY <2>1, <2>4, LeaseKept DEF NextEvent, TypeOK
<1>4. CASE CreateSupergroup(w) \/ FlushChat(w)
  <2>1. PICK p \in {"flush", "configure"} : at' = [at EXCEPT ![w] = p]
    BY <1>4 DEF CreateSupergroup, FlushChat
  <2>2. UNCHANGED <<batch, verdict, current>>
    BY <1>4 DEF CreateSupergroup, FlushChat
  <2>3. LeaseOf(w)'
    BY <2>1, <2>2 DEF LeaseInv, LeaseOf, TypeOK
  <2> QED
    BY <2>1, <2>2, <2>3, LeaseKept DEF TypeOK
<1>5. CASE CreateFails(w) \/ ConfigureReady(w) \/ ConfigureFails(w)
  <2>1. current[w] # 0
    BY <1>5 DEF CreateFails, ConfigureReady, ConfigureFails, HandlerInv
  <2> QED
    BY <1>5, <2>1, ReadyLease DEF CreateFails, ConfigureReady, ConfigureFails
<1>6. CASE RefreshBrief(w)
  <2>1. current[w] \in Event /\ current[w] \notin batch[w] /\ UNCHANGED batch
    BY <1>6 DEF RefreshBrief, HandlerInv, LeaseInv, LeaseOf, TypeOK, Event
  <2>2. CASE \E outcome \in {"done", "error"} : Settle(w, current[w], outcome)
    BY <2>1, <2>2, SettleLease
  <2>3. CASE ReadyToCommit(w, "degraded", "done") /\ UNCHANGED current
    BY <2>1, <2>3, ReadyLease DEF Event
  <2> QED
    BY <1>6, <2>2, <2>3 DEF RefreshBrief
<1>7. CASE CommitHandler(w)
  <2>1. current[w] \in Event /\ current[w] \notin batch[w] /\ UNCHANGED batch
    BY <1>7 DEF CommitHandler, HandlerInv, LeaseInv, LeaseOf, TypeOK, Event
  <2> QED
    BY <1>7, <2>1, SettleLease DEF CommitHandler
<1>8. CASE FinishOutbox(w)
  <2>1. current[w] = 0 /\ batch[w] = {} /\ UNCHANGED <<batch, current>>
    BY <1>8 DEF FinishOutbox, HandlerInv
  <2>2. verdict'[w] = [e \in Event |-> "none"] /\ at'[w] = "idle"
    BY <1>8 DEF FinishOutbox, TypeOK
  <2>3. LeaseOf(w)'
    BY <2>1, <2>2 DEF LeaseOf, Locked, Event
  <2> QED
    BY <1>8, <2>1, <2>3, LeaseKept DEF FinishOutbox, TypeOK
<1> QED
  BY <1>1, <1>2, <1>3, <1>4, <1>5, <1>6, <1>7, <1>8 DEF Handle

\* A crash gives up what the run held.
LEMMA CrashLease ==
    ASSUME TypeOK, LeaseInv, NEW r \in Run, Crash(r)
    PROVE  LeaseInv'
<1>1. ASSUME r \in Worker PROVE LeaseOf(r)'
  <2>1. /\ at'[r] = "idle" /\ batch'[r] = {} /\ current'[r] = 0
        /\ verdict'[r] = [e \in Event |-> "none"]
    BY <1>1 DEF Crash, TypeOK
  <2> QED
    BY <2>1 DEF LeaseOf, Locked, Event
<1>2. \A v \in Worker \ {r} : /\ at'[v] = at[v] /\ batch'[v] = batch[v]
                              /\ verdict'[v] = verdict[v] /\ current'[v] = current[v]
  BY DEF Crash, TypeOK, Run
<1> QED
  BY <1>1, <1>2, LeaseKept DEF LeaseInv, LeaseOf, Locked

\* Every step keeps LeaseInv.
LEMMA LeaseStep ==
    ASSUME TypeOK, HandlerInv, LeaseInv, [Next]_vars
    PROVE  LeaseInv'
<1>1. ASSUME UNCHANGED <<batch, verdict, current>>, \A w \in Worker : at'[w] = at[w]
      PROVE  LeaseInv'
  BY <1>1 DEF LeaseInv, LeaseOf, Locked
<1>2. ASSUME NEW c \in Cleaner, Clean(c) PROVE LeaseInv'
  <2>1. UNCHANGED <<batch, verdict, current>> /\ \E p : at' = [at EXCEPT ![c] = p]
    BY <1>2 DEF Clean, StartCleanup, VerifyArchive, DeleteSupergroup, FinishCleanup
  <2> QED
    BY <1>1, <2>1, RunAssumption DEF TypeOK, Run
<1>3. ASSUME NEW m \in Manager, Manage(m) \/ \E o \in ManagerOps : StartRequest(m, o)
      PROVE  LeaseInv'
  BY <1>1, <1>3 DEF Manage, RetryTaskChat, RecoverTaskChat, RequestProvisioning, UpdateTask,
     DeleteTask, RequestFails, StartRequest, runVars
<1>4. CASE TaskProgresses \/ UNCHANGED vars
  BY <1>1, <1>4 DEF TaskProgresses, vars, runVars
<1> QED
  BY <1>2, <1>3, <1>4, HandleLease, CrashLease DEF Next
-------------------------------------------------------------------------------
(* Every step is a step of Outbox.                                            *)

\* A step that Outbox does not see.
LEMMA Stutters ==
    ASSUME UNCHANGED event, \A w \in Worker : Locked(w)' = Locked(w),
           \A w \in Worker, e \in Event : Outcome(w, e)' = Outcome(w, e)
    PROVE  UNCHANGED Queue!vars
BY DEF Queue!vars, Status, Pending, Outcome

\* The initial states are initial states of Outbox.
LEMMA QueueInit == Init => Queue!Init
<1> SUFFICES ASSUME Init PROVE Queue!Init
  OBVIOUS
<1>1. \A e \in Event : Status(e) \in {"unwritten", "pending"} /\ event[e].attempts = 0
  BY DEF Init, NoEvent, Status, Pending
<1>2. \A w \in Worker : /\ Locked(w) = {} /\ current[w] = 0
                         /\ verdict[w] = [e \in Event |-> "none"]
  BY DEF Init, Locked, Event
<1> QED
  BY <1>1, <1>2 DEF Queue!Init, Queue!NoOutcome

\* An event that is added is the next one.
LEMMA EnqueueWrites ==
    ASSUME TypeOK, NEW type \in EventType, Enqueue(type), UNCHANGED runVars
    PROVE  \E e \in Event : Queue!Write(e)
<1>1. PICK e \in Fresh :
        event' = [event EXCEPT ![e] = [type |-> type, attempts |-> 0, processed |-> FALSE]]
  BY DEF Enqueue
<1>2. e \in Event /\ event[e].type = "none" /\ \A f \in Event : f < e => event[f].type # "none"
  BY <1>1 DEF Fresh
<1>3. event'[e] = [type |-> type, attempts |-> 0, processed |-> FALSE] /\ type # "none"
  BY <1>1, <1>2 DEF TypeOK, EventType
<1>4. \A f \in Event \ {e} : event'[f] = event[f]
  BY <1>1 DEF TypeOK
<1>5. Status(e)' = "pending" /\ \A f \in Event \ {e} : Status(f)' = Status(f)
  BY <1>3, <1>4 DEF Status, Pending
<1>6. Status(e) = "unwritten" /\ \A f \in Event : f < e => Status(f) # "unwritten"
  BY <1>2 DEF Status, Pending
<1>7. UNCHANGED <<QLease, QOutcome>>
  BY DEF runVars, Locked, QLease, QOutcome
<1>8. QStatus' = [QStatus EXCEPT ![e] = "pending"]
  BY <1>5 DEF QStatus
<1>9. QAttempts' = [QAttempts EXCEPT ![e] = 0]
  <2>1. event'[e].attempts = 0 /\ \A f \in Event \ {e} : event'[f].attempts = event[f].attempts
    BY <1>3, <1>4
  <2> QED
    BY <2>1 DEF QAttempts
<1>10. QStatus[e] = "unwritten" /\ \A f \in Event : f < e => QStatus[f] # "unwritten"
  BY <1>2, <1>6 DEF QStatus
<1> QED
  BY <1>2, <1>7, <1>8, <1>9, <1>10 DEF Queue!Write, QStatus, QAttempts, QLease, QOutcome

\* A batch that is fetched is locked, and nobody else has an event of it.
LEMMA FetchLocks ==
    ASSUME TypeOK, EventsInv, LeaseInv, NEW w \in Worker, FetchOutbox(w)
    PROVE  Queue!Lock(w)
<1>1. PICK due \in SUBSET {e \in Event : Pending(e)} \ {{}} :
        due \cap LockedEvents = {} /\ batch' = [batch EXCEPT ![w] = due]
  BY DEF FetchOutbox
<1>2. Locked(w) = {} /\ UNCHANGED <<event, current, verdict>>
  BY DEF FetchOutbox, LeaseInv, LeaseOf, dbVars
<1>3. \A v \in Worker : due \cap Locked(v) = {}
  BY <1>1 DEF LockedEvents, Locked
<1>4. Locked(w)' = due
  BY <1>1, <1>2 DEF Locked, TypeOK
<1>5. \A v \in Worker \ {w} : Locked(v)' = Locked(v)
  BY <1>1, <1>2 DEF Locked, TypeOK
<1>6. due \in SUBSET {e \in Event : Status(e) = "pending"}
  BY <1>1 DEF Status, Pending, EventsInv
<1>7. UNCHANGED <<QStatus, QAttempts, QOutcome>>
  BY <1>2 DEF QStatus, QAttempts, QOutcome, Status, Pending
<1>8. QLease' = [QLease EXCEPT ![w] = due] /\ QLease[w] = {}
  BY <1>2, <1>4, <1>5 DEF QLease
<1>9. due \in SUBSET {e \in Event : QStatus[e] = "pending"}
  BY <1>6 DEF QStatus
<1>10. \A v \in Worker : due \cap QLease[v] = {}
  BY <1>3 DEF QLease
<1> QED
  BY <1>7, <1>8, <1>9, <1>10 DEF Queue!Lock, QStatus, QAttempts, QLease, QOutcome

\* A handler that is over, or was not needed, ends with the next event of its run.
LEMMA SettleEnds ==
    ASSUME TypeOK, LeaseInv, NEW w \in Worker, NEW e \in Event,
           NEW o \in {"done", "error"}, Settle(w, e, o), UNCHANGED event,
           \/ current[w] = e /\ UNCHANGED batch
           \/ /\ current[w] = 0 /\ e \in batch[w] /\ \A f \in batch[w] : e <= f
              /\ batch' = [batch EXCEPT ![w] = @ \ {e}]
    PROVE  Queue!HandlerEnds(w, e)
<1>1. /\ current'[w] = 0 /\ verdict'[w] = [verdict[w] EXCEPT ![e] = o]
      /\ \A v \in Worker \ {w} : /\ current'[v] = current[v] /\ verdict'[v] = verdict[v]
                                 /\ batch'[v] = batch[v]
  BY DEF Settle, TypeOK
<1>2. verdict'[w][e] = o /\ \A f \in Event \ {e} : verdict'[w][f] = verdict[w][f]
  BY <1>1 DEF TypeOK
<1>3. current[w] \in {0, e} /\ 0 \notin Event
  BY DEF Event
<1>4. \A f \in Event \ {e} : f \in batch'[w] <=> f \in batch[w]
  BY DEF TypeOK
<1>5. \A v \in Worker : Locked(v)' = Locked(v)
  <2>1. \A v \in Worker \ {w} : Locked(v)' = Locked(v)
    BY <1>1 DEF Locked
  <2>2. e \in Locked(w) /\ e \in Locked(w)'
    BY <1>2 DEF Locked
  <2>3. \A f \in Event \ {e} : f \in Locked(w)' <=> f \in Locked(w)
    BY <1>1, <1>2, <1>3, <1>4 DEF Locked
  <2>4. Locked(w) \subseteq Event /\ Locked(w)' \subseteq Event
    BY DEF Locked
  <2> QED
    BY <2>1, <2>2, <2>3, <2>4
<1>6. QLease' = QLease /\ QStatus' = QStatus /\ QAttempts' = QAttempts
  BY <1>5 DEF QLease, QStatus, QAttempts, Status, Pending
<1>7. QOutcome' = [QOutcome EXCEPT ![w][e] = o]
  <2>1. \A v \in Worker \ {w} : QOutcome'[v] = QOutcome[v]
    BY <1>1 DEF QOutcome
  <2>2. \A f \in Event : Outcome(w, f)' = IF f = e THEN o ELSE Outcome(w, f)
    BY <1>1, <1>2, <1>3 DEF Outcome
  <2>3. /\ QOutcome[w] = [f \in Event |-> Outcome(w, f)]
        /\ QOutcome'[w] = [f \in Event |-> Outcome(w, f)']
    BY DEF QOutcome, Outcome
  <2>4. QOutcome'[w] = [QOutcome[w] EXCEPT ![e] = o]
    BY <2>2, <2>3
  <2> QED
    BY <2>1, <2>4 DEF QOutcome
<1>8. e \in QLease[w] /\ QOutcome[w][e] = "none"
  BY <1>3 DEF QLease, QOutcome, Locked, LeaseInv, LeaseOf
<1>9. ASSUME NEW f \in QLease[w], QOutcome[w][f] = "none" PROVE e <= f
  <2>1. f \in Event /\ (f \in batch[w] \/ f = current[w])
    BY <1>9 DEF QLease, QOutcome, Locked
  <2>2. f \in batch[w] => current[w] < f
    BY DEF LeaseInv, LeaseOf
  <2> QED
    BY <1>3, <2>1, <2>2 DEF Event
<1> QED
  BY <1>6, <1>7, <1>8, <1>9
     DEF Queue!HandlerEnds, Queue!Waiting, QStatus, QAttempts, QLease, QOutcome

\* A step of a handler before its end is not seen.
LEMMA InsideHandler ==
    ASSUME TypeOK, LeaseInv, NEW w \in Worker, UNCHANGED <<event, current, batch>>,
           current[w] # 0,
           \A v \in Worker, e \in Event :
               v # w \/ e # current[w] => verdict'[v][e] = verdict[v][e]
    PROVE  UNCHANGED Queue!vars
<1>1. \A v \in Worker : Locked(v)' = Locked(v)
  BY DEF Locked
<1>2. \A v \in Worker, e \in Event : Outcome(v, e)' = Outcome(v, e)
  BY DEF Outcome
<1> QED
  BY <1>1, <1>2, Stutters

\* The bookkeeping at the end of a run.
LEMMA FinishBooks ==
    ASSUME TypeOK, EventsInv, HandlerInv, NEW w \in Worker, FinishOutbox(w)
    PROVE  Queue!Book(w)
<1>1. current[w] = 0 /\ batch[w] = {} /\ UNCHANGED <<batch, current>>
  BY DEF FinishOutbox, HandlerInv
<1>2. \A e \in Event : e \in Locked(w) <=> verdict[w][e] # "none"
  BY <1>1 DEF Locked, Event
<1>3. verdict'[w] = [e \in Event |-> "none"] /\ \A v \in Worker \ {w} : verdict'[v] = verdict[v]
  BY DEF FinishOutbox, TypeOK
<1>4. Locked(w)' = {} /\ \A v \in Worker \ {w} : Locked(v)' = Locked(v)
  BY <1>1, <1>3 DEF Locked, Event
<1>5. QLease' = [QLease EXCEPT ![w] = {}]
  BY <1>4 DEF QLease
<1>6. QOutcome' = [QOutcome EXCEPT ![w] = [e \in Event |-> "none"]]
  BY <1>1, <1>3 DEF QOutcome
<1>7. \A e \in Event : e \in QLease[w] <=> verdict[w][e] # "none"
  BY <1>2 DEF QLease
<1>8. \A e \in Event : QOutcome[w][e] = verdict[w][e]
  BY <1>1 DEF QOutcome, Event
<1>9. ASSUME NEW e \in Event
      PROVE  /\ Status(e)' = IF e \in QLease[w] /\ (\/ QOutcome[w][e] = "done"
                                                   \/ QAttempts[e] + 1 >= MaxAttempts)
                             THEN "settled" ELSE Status(e)
             /\ event'[e].attempts = IF e \in QLease[w] THEN QAttempts[e] + 1
                                     ELSE QAttempts[e]
  <2>1. QAttempts[e] = event[e].attempts
    BY DEF QAttempts
  <2>2. CASE verdict[w][e] = "none"
    <3>1. event'[e] = event[e]
      BY <2>2 DEF FinishOutbox
    <3> QED
      BY <1>7, <2>1, <2>2, <3>1 DEF Status, Pending
  <2>3. CASE verdict[w][e] # "none"
    <3>1. Pending(e) /\ event[e].type # "none" /\ event[e] \in EventRow
      BY <2>3 DEF EventsInv, Held, Pending, TypeOK
    <3>2. event'[e] = Booked(event[e], verdict[w][e])
      BY <2>3 DEF FinishOutbox
    <3>3. /\ event'[e].type = event[e].type /\ event'[e].attempts = event[e].attempts + 1
          /\ event'[e].processed <=> \/ verdict[w][e] = "done"
                                     \/ event[e].attempts + 1 >= MaxAttempts
      BY <3>1, <3>2 DEF Booked, EventRow
    <3> QED
      BY <1>7, <1>8, <2>1, <2>3, <3>1, <3>3 DEF Status, Pending
  <2> QED
    BY <2>2, <2>3
<1>10. {e \in QLease[w] : QOutcome[w][e] = "none"} = {}
  BY <1>7, <1>8 DEF QLease, Locked
<1>11. QStatus' = [e \in Event |-> IF e \in QLease[w] /\ (\/ QOutcome[w][e] = "done"
                                                       \/ QAttempts[e] + 1 >= MaxAttempts)
                                   THEN "settled" ELSE QStatus[e]]
  BY <1>9 DEF QStatus
<1>12. QAttempts' = [e \in Event |-> IF e \in QLease[w] THEN QAttempts[e] + 1
                                     ELSE QAttempts[e]]
  BY <1>9 DEF QAttempts
<1> QED
  BY <1>5, <1>6, <1>10, <1>11, <1>12
     DEF Queue!Book, Queue!Waiting, Queue!Last, Queue!NoOutcome, QStatus, QAttempts, QLease,
         QOutcome

\* A run that crashes loses what it held; a crash of the cleanup is not seen.
LEMMA CrashLoses ==
    ASSUME TypeOK, NEW r \in Run, Crash(r)
    PROVE  (\E w \in Worker : Queue!Lose(w)) \/ UNCHANGED Queue!vars
<1>1. CASE r \in Worker
  <2>1. /\ batch'[r] = {} /\ current'[r] = 0 /\ verdict'[r] = [e \in Event |-> "none"]
        /\ \A v \in Worker \ {r} : /\ batch'[v] = batch[v] /\ current'[v] = current[v]
                                   /\ verdict'[v] = verdict[v]
    BY <1>1 DEF Crash, TypeOK
  <2>2. QLease' = [QLease EXCEPT ![r] = {}]
    <3>1. Locked(r)' = {} /\ \A v \in Worker \ {r} : Locked(v)' = Locked(v)
      BY <2>1 DEF Locked, Event
    <3> QED
      BY <1>1, <3>1 DEF QLease
  <2>3. QOutcome' = [QOutcome EXCEPT ![r] = [e \in Event |-> "none"]]
    BY <1>1, <2>1 DEF QOutcome
  <2>4. UNCHANGED <<QStatus, QAttempts>>
    BY DEF Crash, dbVars, QStatus, QAttempts, Status, Pending
  <2>5. Queue!Lose(r)
    BY <2>2, <2>3, <2>4 DEF Queue!Lose, Queue!NoOutcome, QStatus, QAttempts, QLease, QOutcome
  <2> QED
    BY <1>1, <2>5
<1>2. CASE r \notin Worker
  <2>1. \A v \in Worker : batch'[v] = batch[v] /\ current'[v] = current[v]
                          /\ verdict'[v] = verdict[v]
    BY <1>2 DEF Crash
  <2>2. UNCHANGED event
    BY DEF Crash, dbVars
  <2> QED
    BY <2>1, <2>2, Stutters DEF Locked, Outcome
<1> QED
  BY <1>1, <1>2

\* The deletion of the task withdraws its events.
LEMMA DeleteWithdraws ==
    ASSUME TypeOK, EventsInv, NEW m \in Manager, DeleteTask(m)
    PROVE  Queue!Withdraw
<1>1. \A w \in Worker : QLease[w] = {}
  BY DEF DeleteTask, LockedEvents, QLease, Locked
<1>2. ASSUME NEW e \in Event
      PROVE  /\ Status(e)' = IF Status(e) = "pending" THEN "settled" ELSE Status(e)
             /\ event'[e].attempts = event[e].attempts
  <2>1. event[e] \in EventRow /\ (event[e].type = "none" => ~Pending(e))
    BY DEF TypeOK, EventsInv, Pending
  <2>2. CASE event[e].type = "none"
    BY <2>1, <2>2 DEF DeleteTask, Status, Pending
  <2>3. CASE event[e].type # "none"
    <3>1. event'[e] = [event[e] EXCEPT !.processed = TRUE]
      BY <2>3 DEF DeleteTask
    <3>2. event'[e].type = event[e].type /\ event'[e].processed
          /\ event'[e].attempts = event[e].attempts
      BY <2>1, <3>1 DEF EventRow
    <3> QED
      BY <2>3, <3>2 DEF Status, Pending
  <2> QED
    BY <2>2, <2>3
<1>3. QStatus' = [e \in Event |-> IF QStatus[e] = "pending" THEN "settled" ELSE QStatus[e]]
  BY <1>2 DEF QStatus
<1>4. UNCHANGED <<QAttempts, QLease, QOutcome>>
  BY <1>2 DEF DeleteTask, runVars, QAttempts, QLease, QOutcome, Locked
<1> QED
  BY <1>1, <1>3, <1>4 DEF Queue!Withdraw, QStatus, QAttempts, QLease, QOutcome

\* Every step of a run of the outbox is one of Outbox.
LEMMA RunStep ==
    ASSUME TypeOK, EventsInv, HandlerInv, LeaseInv,
           NEW w \in Worker, FetchOutbox(w) \/ Handle(w)
    PROVE  [Queue!Next]_(Queue!vars)
<1>1. ASSUME NEW e \in Event, SkipEvent(w, e) PROVE Queue!HandlerEnds(w, e)
  <2>1. current[w] = 0
    BY <1>1 DEF SkipEvent, NextEvent, HandlerInv
  <2> QED
    BY <1>1, <2>1, SettleEnds DEF SkipEvent, NextEvent, dbVars
<1>2. ASSUME NEW e \in Event, StartHandler(w, e) \/ StartRefresh(w, e)
      PROVE  UNCHANGED Queue!vars
  <2>1. /\ NextEvent(w, e) /\ current[w] = 0
        /\ current' = [current EXCEPT ![w] = e] /\ UNCHANGED <<event, verdict>>
    BY <1>2 DEF StartHandler, StartRefresh, NextEvent, HandlerInv, dbVars
  <2>2. /\ current'[w] = e /\ e \in batch[w] /\ batch'[w] = batch[w] \ {e}
        /\ \A v \in Worker \ {w} : current'[v] = current[v] /\ batch'[v] = batch[v]
    BY <2>1 DEF NextEvent, TypeOK
  <2>3. \A v \in Worker : Locked(v)' = Locked(v)
    BY <2>1, <2>2 DEF Locked, Event
  <2>4. verdict[w][e] = "none"
    BY <2>2 DEF LeaseInv, LeaseOf
  <2>5. \A v \in Worker, f \in Event : Outcome(v, f)' = Outcome(v, f)
    BY <2>1, <2>2, <2>4 DEF Outcome, Event
  <2> QED
    BY <2>1, <2>3, <2>5, Stutters
<1>3. ASSUME NEW status, NEW o, ReadyToCommit(w, status, o), current[w] # 0,
             UNCHANGED <<event, current, batch>>
      PROVE  UNCHANGED Queue!vars
  BY <1>3, InsideHandler DEF ReadyToCommit, TypeOK
<1>4. CASE CreateSupergroup(w) \/ FlushChat(w)
  BY <1>4, InsideHandler DEF CreateSupergroup, FlushChat, HandlerInv, dbVars
<1>5. CASE CreateFails(w) \/ ConfigureReady(w) \/ ConfigureFails(w)
  <2>1. current[w] # 0
    BY <1>5 DEF CreateFails, ConfigureReady, ConfigureFails, HandlerInv
  <2> QED
    BY <1>3, <1>5, <2>1 DEF CreateFails, ConfigureReady, ConfigureFails, dbVars
<1>6. CASE RefreshBrief(w)
  <2>1. current[w] # 0 /\ current[w] \in Event /\ UNCHANGED <<event, batch>>
    BY <1>6 DEF RefreshBrief, HandlerInv, TypeOK, dbVars
  <2>2. CASE \E o \in {"done", "error"} : Settle(w, current[w], o)
    <3>1. PICK e \in Event : e = current[w]
      BY <2>1
    <3>2. Queue!HandlerEnds(w, e)
      BY <2>1, <2>2, <3>1, SettleEnds
    <3> QED
      BY <3>2 DEF Queue!Next
  <2>3. CASE ReadyToCommit(w, "degraded", "done") /\ UNCHANGED current
    BY <1>3, <2>1, <2>3
  <2> QED
    BY <1>6, <2>2, <2>3 DEF RefreshBrief
<1>7. CASE CommitHandler(w)
  <2>1. /\ current[w] \in Event /\ UNCHANGED <<event, batch>>
        /\ verdict[w][current[w]] \in {"done", "error"}
    BY <1>7 DEF CommitHandler, HandlerInv, LeaseInv, LeaseOf, TypeOK
  <2>2. PICK e \in Event : e = current[w]
    BY <2>1
  <2>3. Queue!HandlerEnds(w, e)
    BY <1>7, <2>1, <2>2, SettleEnds DEF CommitHandler
  <2> QED
    BY <2>3 DEF Queue!Next
<1> QED
  BY <1>1, <1>2, <1>4, <1>5, <1>6, <1>7, FetchLocks, FinishBooks DEF Handle, Queue!Next

\* Every step is a step of Outbox, or changes nothing it speaks of.
LEMMA QueueStep ==
    ASSUME TypeOK, EventsInv, HandlerInv, LeaseInv, [Next]_vars
    PROVE  [Queue!Next]_(Queue!vars)
<1>1. ASSUME UNCHANGED <<event, batch, verdict, current>> PROVE UNCHANGED Queue!vars
  BY <1>1, Stutters DEF Locked, Outcome
<1>2. ASSUME NEW c \in Cleaner, Clean(c) PROVE UNCHANGED Queue!vars
  BY <1>1, <1>2 DEF Clean, StartCleanup, VerifyArchive, DeleteSupergroup, FinishCleanup, dbVars
<1>3. ASSUME NEW m \in Manager, Manage(m) \/ \E o \in ManagerOps : StartRequest(m, o)
      PROVE  [Queue!Next]_(Queue!vars)
  <2>1. CASE RetryTaskChat(m) \/ RecoverTaskChat(m) \/ UpdateTask(m)
    <3>1. PICK type \in EventType : Enqueue(type) /\ UNCHANGED runVars
      BY <2>1 DEF RetryTaskChat, RecoverTaskChat, RequestProvisioning, UpdateTask, EventType
    <3> QED
      BY <3>1, EnqueueWrites DEF Queue!Next
  <2>2. CASE DeleteTask(m)
    BY <2>2, DeleteWithdraws DEF Queue!Next
  <2>3. CASE RequestFails(m) \/ \E o \in ManagerOps : StartRequest(m, o)
    BY <1>1, <2>3 DEF RequestFails, StartRequest, dbVars, runVars
  <2> QED
    BY <1>3, <2>1, <2>2, <2>3 DEF Manage
<1>4. CASE \E r \in Run : Crash(r)
  BY <1>4, CrashLoses DEF Queue!Next
<1>5. CASE TaskProgresses \/ UNCHANGED vars
  BY <1>1, <1>5 DEF TaskProgresses, vars, dbVars, runVars
<1> QED
  BY <1>2, <1>3, <1>4, <1>5, RunStep DEF Next

\* However many runs of the worker overlap, crash and repeat what others did, and
\* whatever managers write or delete meanwhile: no event of the outbox is lost or
\* reordered within a run, no two runs have the same one, and none is settled before
\* its handler has committed or has been tried as often as it may be.
THEOREM OutboxTheorem == Spec => OutboxSpec
<1>1. LeaseInv /\ ChatInv /\ [Next]_vars => LeaseInv'
  BY LeaseStep DEF ChatInv
<1>2. LeaseInv /\ ChatInv /\ [Next]_vars => [Queue!Next]_(Queue!vars)
  BY QueueStep DEF ChatInv
<1>3. Spec => Queue!Init /\ [][Queue!Next]_(Queue!vars)
  BY <1>1, <1>2, InitLease, QueueInit, ChatInvariant, PTL DEF Spec
<1> QED
  BY <1>3 DEF OutboxSpec, Queue!Spec
===============================================================================
