---------------------------- MODULE ChatMembersProofs ----------------------------
(* Theorems about ChatMembers, for any number of overlapping runs and bots, any *)
(* of the faults and any bounds.                                                *)
EXTENDS ChatMembers, FiniteSetTheorems, TLAPS

-------------------------------------------------------------------------------
(* The inductive invariant.                                                   *)

\* A run whose handler is at work.
Busy(w) == run[w].at \notin {"idle", "book"}

\* A run that is under way has locked an event that may still be tried, and one that
\* is about to send a link has created it.
RunsInv ==
    \A w \in Worker :
        /\ run[w].at # "idle" => /\ run[w].event \in Event
                                /\ run[w].event.attempts < MaxAttempts
        /\ run[w].at = "notify" => run[w].mine.link \in Link

\* The usable links while run w handles an event: none from the moment the old one
\* is revoked until the new one is sent, and then the one w is about to commit.
WayOf(w) ==
    /\ run[w].seen.link = entry.link
    /\ run[w].at \in {"insert", "invite", "link", "notify"} => links = {}
    /\ run[w].at \in {"revoke", "kick"} => run[w].mine.link = entry.link
                                           /\ links \subseteq {entry.link}
    /\ run[w].at = "commit" => links \subseteq {run[w].mine.link}

\* While runs do not overlap and no link is astray, the usable link is the one the
\* row names, or the one of the only run at work; the jobs keep the link of the row.
OneWay ==
    /\ \A v, w \in Worker : Busy(v) /\ Busy(w) => v = w
    /\ \A w \in Worker : Busy(w) => WayOf(w)
    /\ (\A w \in Worker : ~Busy(w)) => links \subseteq {entry.link}
    /\ ~RowFree => job.entry.link = entry.link

WayInv == stray \/ overlap \/ OneWay

MemberInv == TypeOK /\ RunsInv /\ WayInv

-------------------------------------------------------------------------------
(* Type correctness.                                                          *)

\* No row, an idle run and an idle bot are of their types.
LEMMA RowTypes == NoEntry \in Entry /\ IdleRun \in RunState /\ IdleBot \in BotState
BY DEF NoEntry, Entry, MembershipState, NoLink, IdleRun, RunState, IdleBot, BotState

\* A commit that writes only what differs leaves a row.
LEMMA MergeType ==
    ASSUME NEW stored \in Entry, NEW seen \in Entry, NEW new \in Entry
    PROVE  Merge(stored, seen, new) \in Entry
BY DEF Merge, Entry

\* A row with another state, or without its link, is a row.
LEMMA EntryExcept ==
    ASSUME NEW row \in Entry
    PROVE  /\ \A s \in MembershipState : [row EXCEPT !.state = s] \in Entry
           /\ [row EXCEPT !.link = NoLink] \in Entry
           /\ \A s \in MembershipState : [row EXCEPT !.state = s].link = row.link
BY DEF Entry

\* A new event is one more of its kind, with attempts left.
LEMMA EnqueuedType ==
    ASSUME TypeOK, NEW type \in EventType
    PROVE  /\ Enqueued(type) \in [Event -> Nat]
           /\ \A e \in Event : Enqueued(type)[e] > 0 => e.attempts < MaxAttempts
<1>1. [type |-> type, attempts |-> 0] \in Event
  BY BoundAssumption DEF Event
<1> QED
  BY <1>1, BoundAssumption DEF Enqueued, TypeOK

\* The row of a run and the point it is at, in one go.
LEMMA GoesType ==
    ASSUME TypeOK, RunsInv, NEW w \in Worker, run[w].at # "idle", NEW row \in Entry,
           NEW to \in {"revoke", "invite", "link", "notify", "kick", "commit", "book"},
           to = "notify" => row.link \in Link, Goes(w, to, row)
    PROVE  run' \in [Worker -> RunState] /\ RunsInv'
<1>1. [run[w] EXCEPT !.at = to, !.mine = row] \in RunState
  BY DEF TypeOK, RunState
<1>2. run' = [run EXCEPT ![w] = [run[w] EXCEPT !.at = to, !.mine = row]]
  BY DEF Goes, TypeOK
<1>3. run'[w].event = run[w].event
  BY <1>2 DEF TypeOK, RunState
<1> QED
  BY <1>1, <1>2, <1>3 DEF TypeOK, RunsInv, RunState

\* A run that postpones its event, or gives it up, stays a run.
LEMMA RetryableType ==
    ASSUME TypeOK, RunsInv, NEW w \in Worker, run[w].at # "idle", NEW row \in Entry,
           Retryable(w, row)
    PROVE  run' \in [Worker -> RunState] /\ RunsInv' /\ incidents' \in 0..MaxIncidents
<1> DEFINE new == [run[w] EXCEPT !.at = IF Configures(w) THEN "commit" ELSE "book",
                                 !.mine = row, !.verdict = "error",
                                 !.fresh = Configures(w) /\ @]
<1>0. run[w] \in RunState
  BY DEF TypeOK
<1>1. Configures(w) \in BOOLEAN /\ (Configures(w) /\ run[w].fresh) \in BOOLEAN
  BY <1>0 DEF Configures, RunState
<1>2. new \in RunState /\ new.event = run[w].event /\ new.at # "notify"
  BY <1>0, <1>1 DEF RunState
<1>3. run' = [run EXCEPT ![w] = new]
  BY DEF Retryable, TypeOK
<1>4. incidents' \in 0..MaxIncidents
  BY BoundAssumption DEF Retryable, Incident, TypeOK
<1> HIDE DEF new
<1> QED
  BY <1>2, <1>3, <1>4 DEF TypeOK, RunsInv

\* The types hold at first, and no run holds an event.
LEMMA TypeInit == Init => TypeOK /\ RunsInv
<1> SUFFICES ASSUME Init PROVE TypeOK /\ RunsInv
  OBVIOUS
<1>1. pending \in [Event -> Nat]
  BY DEF Init
<1>2. \A e \in Event : pending[e] > 0 => e.attempts < MaxAttempts
  BY BoundAssumption DEF Init
<1>3. NoJob \in [name : {"none", "reminders", "reconcile"}, entry : Entry]
  BY RowTypes DEF NoJob
<1>4. /\ assigned \in BOOLEAN /\ private \in BOOLEAN /\ named \in BOOLEAN
      /\ {active, known, ready, missed, kept, stray, overlap, lost} \subseteq BOOLEAN
  BY Zenon DEF Init
<1>8. edits \in 0..MaxEdits /\ incidents \in 0..MaxIncidents
  BY BoundAssumption DEF Init
<1>5. /\ run \in [Worker -> RunState] /\ bot \in [Bot -> BotState] /\ entry \in Entry
      /\ updates \in [Update -> Nat]
  BY RowTypes DEF Init
<1>6. RunsInv
  BY DEF Init, RunsInv, IdleRun
<1>7. /\ presence \in {"out", "brought", "linked"} /\ links \subseteq Link
      /\ job \in [name : {"none", "reminders", "reconcile"}, entry : Entry]
  BY <1>3 DEF Init
<1> QED
  BY <1>1, <1>2, <1>4, <1>5, <1>6, <1>7, <1>8 DEF TypeOK

\* A run takes an event.
LEMMA TakeType ==
    ASSUME TypeOK, RunsInv, NEW w \in Worker, NEW e \in Event, pending[e] > 0,
           NEW new \in RunState, new.event = e, new.at # "notify",
           run' = [run EXCEPT ![w] = new], pending' = [pending EXCEPT ![e] = @ - 1]
    PROVE  /\ run' \in [Worker -> RunState] /\ RunsInv'
           /\ pending' \in [Event -> Nat]
           /\ \A f \in Event : pending'[f] > 0 => f.attempts < MaxAttempts
<1>3. run' \in [Worker -> RunState] /\ RunsInv'
  BY DEF TypeOK, RunsInv
<1>4. pending' \in [Event -> Nat] /\ \A f \in Event : pending'[f] > 0 => pending[f] > 0
  BY DEF TypeOK
<1> QED
  BY <1>3, <1>4 DEF TypeOK

\* A run that has taken an event is one.
LEMMA TakenType ==
    ASSUME NEW at \in {"insert", "revoke", "invite", "kick", "commit", "book"},
           NEW e \in Event, NEW seen \in Entry, NEW row \in Entry
    PROVE  [IdleRun EXCEPT !.at = at, !.event = e, !.seen = seen, !.mine = row] \in RunState
BY DEF IdleRun, RunState

\* A run that takes an event keeps the types.
LEMMA StartType ==
    ASSUME TypeOK, RunsInv, NEW w \in Worker, NEW e \in Event, Start(w, e)
    PROVE  TypeOK' /\ RunsInv'
<1>1. ASSUME NEW at \in {"insert", "revoke", "invite", "kick", "commit", "book"},
             NEW row \in Entry, Take(w, e, at, row), missed' \in BOOLEAN
      PROVE  TypeOK' /\ RunsInv'
  <2> DEFINE new == [IdleRun EXCEPT !.at = at, !.event = e, !.seen = entry, !.mine = row]
  <2>0. new \in RunState /\ new.event = e /\ new.at # "notify"
    BY TakenType DEF TypeOK, IdleRun
  <2>1. /\ pending[e] > 0 /\ run' = [run EXCEPT ![w] = new]
        /\ pending' = [pending EXCEPT ![e] = @ - 1]
    BY <1>1 DEF Take
  <2> HIDE DEF new
  <2>2. /\ run' \in [Worker -> RunState] /\ RunsInv'
        /\ pending' \in [Event -> Nat]
        /\ \A f \in Event : pending'[f] > 0 => f.attempts < MaxAttempts
    BY <2>0, <2>1, TakeType
  <2> QED
    BY <1>1, <2>2 DEF Take, TypeOK, telegram, user
<1>2. NewRow \in Entry /\ Begins \in {"insert", "revoke", "invite"} /\ entry \in Entry
  BY RowTypes, EntryExcept DEF NewRow, Begins, TypeOK, MembershipState
<1>3. CASE StartInvite(w, e)
  BY <1>1, <1>2, <1>3 DEF StartInvite, TypeOK
<1>4. CASE SkipInvite(w, e)
  BY <1>1, <1>2, <1>4 DEF SkipInvite, TypeOK
<1>5. CASE PostponeInvite(w, e)
  <2> DEFINE new == [IdleRun EXCEPT !.at = "book", !.event = e, !.verdict = "error"]
  <2>0. new \in RunState /\ new.event = e /\ new.at # "notify"
    BY RowTypes DEF IdleRun, RunState
  <2>1. /\ pending[e] > 0 /\ run' = [run EXCEPT ![w] = new]
        /\ pending' = [pending EXCEPT ![e] = @ - 1]
    BY <1>5 DEF PostponeInvite
  <2> HIDE DEF new
  <2>2. /\ run' \in [Worker -> RunState] /\ RunsInv'
        /\ pending' \in [Event -> Nat]
        /\ \A f \in Event : pending'[f] > 0 => f.attempts < MaxAttempts
    BY <2>0, <2>1, TakeType
  <2> QED
    BY <1>5, <2>2 DEF PostponeInvite, TypeOK, telegram, user, ghosts
<1>6. CASE StartConfigure(w, e)
  BY <1>1, <1>2, <1>6 DEF StartConfigure
<1>7. CASE SkipCreate(w, e)
  BY <1>1, <1>2, <1>7 DEF SkipCreate, TypeOK
<1>8. CASE StartRemove(w, e)
  BY <1>1, <1>2, <1>8 DEF StartRemove, TypeOK
<1> QED
  BY <1>3, <1>4, <1>5, <1>6, <1>7, <1>8 DEF Start

\* A user who comes or goes keeps the types of presence and updates.
LEMMA MovesType ==
    ASSUME TypeOK, NEW to \in {"out", "brought", "linked"}, NEW kind \in Update,
           Moves(to, kind)
    PROVE  presence' \in {"out", "brought", "linked"} /\ updates' \in [Update -> Nat]
BY DEF Moves, TypeOK

\* While some link is unused, the new one is unused too.
LEMMA NewLinkType == ASSUME \E l \in Link : ~InUse(l) PROVE NewLink \in Link /\ ~InUse(NewLink)
BY DEF NewLink

\* Every step of a run keeps the types.
LEMMA HandleType ==
    ASSUME TypeOK, RunsInv, NEW w \in Worker, Handle(w)
    PROVE  TypeOK' /\ RunsInv'
<1>0. run[w] \in RunState /\ run[w].mine \in Entry /\ run[w].seen \in Entry
  BY DEF TypeOK, RunState
<1>1. /\ \A s \in MembershipState : [run[w].mine EXCEPT !.state = s] \in Entry
      /\ [run[w].mine EXCEPT !.link = NoLink] \in Entry
  BY <1>0, EntryExcept
<1>2. {"joined", "failed", "removed"} \subseteq MembershipState
  BY DEF MembershipState
<1>3. Incident => incidents' \in 0..MaxIncidents
  BY BoundAssumption DEF Incident, TypeOK
<1>4. CASE InsertEntry(w)
  <2>1. /\ [run[w] EXCEPT !.at = "invite", !.fresh = TRUE] \in RunState
        /\ [run[w] EXCEPT !.at = "book", !.verdict = "error"] \in RunState
    BY <1>0 DEF RunState
  <2>2. /\ run' \in [Worker -> RunState] /\ run'[w].event = run[w].event
        /\ run'[w].at # "notify" /\ \A v \in Worker \ {w} : run'[v] = run[v]
    BY <1>0, <1>4, <2>1 DEF InsertEntry, TypeOK, RunState
  <2>3. RunsInv'
    BY <1>4, <2>2 DEF InsertEntry, At, RunsInv
  <2> QED
    BY <1>4, <2>2, <2>3 DEF InsertEntry, TypeOK, database, telegram, user, ghosts
<1>5. CASE RevokeInvite(w)
  <2>1. run[w].at # "idle" /\ links' \subseteq Link /\ stray' \in BOOLEAN
    BY <1>5 DEF RevokeInvite, At, Revoked, TypeOK
  <2>2. run' \in [Worker -> RunState] /\ RunsInv' /\ incidents' \in 0..MaxIncidents
    BY <1>0, <1>1, <1>3, <1>5, <2>1, GoesType, RetryableType DEF RevokeInvite, Permanent, TypeOK
  <2> QED
    BY <1>5, <2>1, <2>2 DEF RevokeInvite, TypeOK, database, user
<1>6. CASE InviteDirectly(w)
  <2>1. run[w].at # "idle"
    BY <1>6 DEF InviteDirectly, At
  <2>2. presence' \in {"out", "brought", "linked"} /\ updates' \in [Update -> Nat]
    BY <1>6, MovesType DEF InviteDirectly, Update, TypeOK
  <2>3. run' \in [Worker -> RunState] /\ RunsInv' /\ incidents' \in 0..MaxIncidents
    BY <1>0, <1>1, <1>2, <1>3, <1>6, <2>1, GoesType, RetryableType
       DEF InviteDirectly, Permanent, TypeOK
  <2> QED
    BY <1>6, <2>2, <2>3 DEF InviteDirectly, TypeOK, database, user, ghosts
<1>7. CASE CreateInvite(w)
  <2>1. run[w].at # "idle"
    BY <1>7 DEF CreateInvite, At
  <2>2. (\E l \in Link : ~InUse(l)) => [state |-> "invited", link |-> NewLink] \in Entry
    BY NewLinkType DEF Entry, MembershipState
  <2>3. run' \in [Worker -> RunState] /\ RunsInv' /\ incidents' \in 0..MaxIncidents
    <3>1. CASE Retryable(w, run[w].mine)
      BY <1>0, <2>1, <3>1, RetryableType
    <3>2. CASE Permanent /\ Goes(w, "commit", [run[w].mine EXCEPT !.state = "failed"])
      BY <1>1, <1>2, <1>3, <2>1, <3>2, GoesType DEF Permanent
    <3>3. CASE /\ \E l \in Link : ~InUse(l)
               /\ Goes(w, "notify", [state |-> "invited", link |-> NewLink])
               /\ UNCHANGED incidents
      <4> DEFINE row == [state |-> "invited", link |-> NewLink]
      <4>1. row \in Entry /\ row.link \in Link
        BY <2>2, <3>3, NewLinkType
      <4>2. Goes(w, "notify", row)
        BY <3>3
      <4> HIDE DEF row
      <4>3. run' \in [Worker -> RunState] /\ RunsInv'
        BY <2>1, <4>1, <4>2, GoesType
      <4> QED
        BY <3>3, <4>3 DEF TypeOK
    <3> QED
      BY <1>7, <3>1, <3>2, <3>3 DEF CreateInvite
  <2> QED
    BY <1>7, <2>3 DEF CreateInvite, TypeOK, database, telegram, user, ghosts
<1>8. CASE SendLink(w)
  <2>1. run[w].at = "notify" /\ stray' \in BOOLEAN
    BY <1>8 DEF SendLink, At, TypeOK
  <2>2. run' \in [Worker -> RunState] /\ RunsInv' /\ incidents' \in 0..MaxIncidents
    BY <1>0, <1>3, <1>8, <2>1, GoesType, RetryableType DEF SendLink, TypeOK
  <2>3. links' \subseteq Link
    BY <1>8, <2>1 DEF SendLink, RunsInv, TypeOK
  <2> QED
    BY <1>8, <2>1, <2>2, <2>3 DEF SendLink, TypeOK, database, user
<1>9. CASE RemoveUser(w)
  <2>1. run[w].at # "idle" /\ kept' \in BOOLEAN
    BY <1>9 DEF RemoveUser, At, TypeOK
  <2>2. presence' \in {"out", "brought", "linked"} /\ updates' \in [Update -> Nat]
    BY <1>9, MovesType DEF RemoveUser, Update, TypeOK
  <2>3. run' \in [Worker -> RunState] /\ RunsInv' /\ incidents' \in 0..MaxIncidents
    BY <1>0, <1>1, <1>2, <1>3, <1>9, <2>1, GoesType, RetryableType
       DEF RemoveUser, Permanent, TypeOK
  <2> QED
    BY <1>9, <2>1, <2>2, <2>3 DEF RemoveUser, TypeOK, database, user
<1>10. CASE CommitHandler(w)
  <2>1. entry' \in Entry
    BY <1>0, <1>10, MergeType DEF CommitHandler, TypeOK
  <2>2. ready' \in BOOLEAN /\ known' \in BOOLEAN
    BY <1>10 DEF CommitHandler, TypeOK
  <2> DEFINE new == [IdleRun EXCEPT !.at = "book", !.event = run[w].event,
                                    !.verdict = run[w].verdict]
  <2>3. new \in RunState /\ new.event = run[w].event /\ new.at = "book"
    BY <1>0, RowTypes DEF RunState, IdleRun
  <2>4. run' = [run EXCEPT ![w] = new] /\ run[w].at # "idle"
    BY <1>10 DEF CommitHandler, At
  <2> HIDE DEF new
  <2>5. run' \in [Worker -> RunState] /\ RunsInv'
    BY <2>3, <2>4 DEF TypeOK, RunsInv
  <2> QED
    BY <1>10, <2>1, <2>2, <2>5 DEF CommitHandler, TypeOK, telegram, user, ghosts
<1>11. CASE FinishEvent(w)
  <2> DEFINE e == run[w].event
             next == [e EXCEPT !.attempts = @ + 1]
  <2>1. e \in Event /\ e.attempts < MaxAttempts
    BY <1>11 DEF FinishEvent, At, RunsInv
  <2>2. ~Exhausted(e) => next \in Event /\ next.attempts < MaxAttempts
    BY <2>1, BoundAssumption DEF Exhausted, Event
  <2>3. \/ pending' = pending
        \/ ~Exhausted(e) /\ pending' = [pending EXCEPT ![next] = @ + 1]
    BY <1>11 DEF FinishEvent
  <2>4. missed' \in BOOLEAN /\ kept' \in BOOLEAN
    BY <1>11 DEF FinishEvent, TypeOK
  <2>5. run' \in [Worker -> RunState] /\ RunsInv'
    BY <1>11, RowTypes DEF FinishEvent, TypeOK, RunsInv, IdleRun
  <2> HIDE DEF e, next
  <2>6. /\ pending' \in [Event -> Nat]
        /\ \A f \in Event : pending'[f] > 0 => f.attempts < MaxAttempts
    BY <2>2, <2>3 DEF TypeOK
  <2> QED
    BY <1>11, <2>4, <2>5, <2>6 DEF FinishEvent, TypeOK, telegram, user
<1> QED
  BY <1>4, <1>5, <1>6, <1>7, <1>8, <1>9, <1>10, <1>11 DEF Handle

\* The handler of updates keeps the types.
LEMMA BotType ==
    ASSUME TypeOK, NEW b \in Bot,
           CommitUpdate(b) \/ LoseUpdate(b) \/ \E k \in Update : LoadUpdate(b, k)
    PROVE  TypeOK'
<1>1. CASE CommitUpdate(b)
  <2>1. bot[b] \in BotState /\ bot[b].seen \in Entry
    BY DEF TypeOK, BotState
  <2>2. entry' \in Entry
    <3>1. PICK s \in MembershipState :
             entry' = Merge(entry, bot[b].seen, [bot[b].seen EXCEPT !.state = s])
      BY <1>1 DEF CommitUpdate, Departed, MembershipState
    <3>2. [bot[b].seen EXCEPT !.state = s] \in Entry
      BY <2>1, EntryExcept
    <3> QED
      BY <2>1, <3>1, <3>2, MergeType DEF TypeOK
  <2>3. bot' \in [Bot -> BotState]
    BY <1>1, RowTypes DEF CommitUpdate, TypeOK
  <2>4. /\ pending' \in [Event -> Nat]
        /\ \A e \in Event : pending'[e] > 0 => e.attempts < MaxAttempts
    BY <1>1, EnqueuedType DEF CommitUpdate, TypeOK, EventType
  <2> QED
    BY <1>1, <2>2, <2>3, <2>4 DEF CommitUpdate, TypeOK, telegram, user, ghosts
<1>2. ASSUME NEW k \in Update, LoadUpdate(b, k) PROVE TypeOK'
  <2>1. [update |-> k, seen |-> entry, assigned |-> assigned] \in BotState
    BY DEF TypeOK, BotState
  <2>2. bot' \in [Bot -> BotState]
    BY <1>2, <2>1 DEF LoadUpdate, TypeOK
  <2>3. updates' \in [Update -> Nat] /\ lost' \in BOOLEAN
    BY <1>2 DEF LoadUpdate, TypeOK
  <2> QED
    BY <1>2, <2>2, <2>3 DEF LoadUpdate, TypeOK, database, user
<1>3. CASE LoseUpdate(b)
  <2>1. bot' \in [Bot -> BotState] /\ lost' \in BOOLEAN
    BY <1>3, RowTypes DEF LoseUpdate, TypeOK
  <2> QED
    BY <1>3, <2>1 DEF LoseUpdate, TypeOK, database, telegram, user
<1> QED
  BY <1>1, <1>2, <1>3

\* The two jobs keep the types.
LEMMA JobType ==
    ASSUME TypeOK, RemindInvited \/ ReconcileMembers \/ CommitJob
    PROVE  TypeOK'
<1>1. ASSUME NEW name \in {"reminders", "reconcile"}, NEW row \in Entry, LocksRow(name, row)
      PROVE  TypeOK'
  BY <1>1 DEF LocksRow, TypeOK, database, telegram, user, ghosts
<1>2. \A s \in MembershipState : [entry EXCEPT !.state = s] \in Entry
  BY EntryExcept DEF TypeOK
<1>3. CASE RemindInvited \/ ReconcileMembers
  BY <1>1, <1>2, <1>3 DEF RemindInvited, ReconcileMembers, Confirmed, MembershipState
<1>4. CASE CommitJob
  <2>1. entry' \in Entry /\ job' \in [name : {"none", "reminders", "reconcile"}, entry : Entry]
    BY <1>4, RowTypes DEF CommitJob, TypeOK, NoJob
  <2>2. /\ pending' \in [Event -> Nat]
        /\ \A e \in Event : pending'[e] > 0 => e.attempts < MaxAttempts
    BY <1>4, EnqueuedType DEF CommitJob, TypeOK, EventType
  <2> QED
    BY <1>4, <2>1, <2>2 DEF CommitJob, TypeOK, telegram, user, ghosts
<1> QED
  BY <1>3, <1>4

\* Requests of managers keep the types.
LEMMA ManageType == ASSUME TypeOK, Manage PROVE TypeOK'
<1>1. Edit => edits' \in 0..MaxEdits
  BY BoundAssumption DEF Edit, TypeOK
<1>2. ASSUME NEW type \in EventType, pending' = Enqueued(type) \/ pending' = pending
      PROVE  /\ pending' \in [Event -> Nat]
             /\ \A e \in Event : pending'[e] > 0 => e.attempts < MaxAttempts
  BY <1>2, EnqueuedType DEF TypeOK
<1>3. CASE AddMember
  BY <1>1, <1>2, <1>3 DEF AddMember, EventType, TypeOK, telegram, user
<1>4. CASE RemoveMember
  <2>1. kept' \in BOOLEAN
    BY <1>4 DEF RemoveMember
  <2> QED
    BY <1>1, <1>2, <1>4, <2>1 DEF RemoveMember, EventType, TypeOK, telegram, user
<1>5. CASE RetryMember
  BY <1>1, <1>2, <1>5 DEF RetryMember, EventType, TypeOK, telegram, user, ghosts
<1>6. CASE RecoverChat
  BY <1>1, <1>2, <1>6 DEF RecoverChat, EventType, TypeOK, telegram, user, ghosts
<1>7. CASE Degrade \/ Deactivate
  BY <1>1, <1>7 DEF Degrade, Deactivate, TypeOK, telegram, user, ghosts
<1> QED
  BY <1>3, <1>4, <1>5, <1>6, <1>7 DEF Manage

\* Every step keeps the types, and who holds an event has attempts left.
LEMMA TypeStep ==
    ASSUME TypeOK, RunsInv, [Next]_vars
    PROVE  TypeOK' /\ RunsInv'
<1>1. ASSUME UNCHANGED run PROVE RunsInv'
  BY <1>1 DEF RunsInv
<1>2. ASSUME NEW b \in Bot,
             CommitUpdate(b) \/ LoseUpdate(b) \/ \E k \in Update : LoadUpdate(b, k)
      PROVE  TypeOK' /\ RunsInv'
  BY <1>1, <1>2, BotType DEF CommitUpdate, LoadUpdate, LoseUpdate
<1>3. CASE RemindInvited \/ ReconcileMembers \/ CommitJob
  BY <1>1, <1>3, JobType DEF RemindInvited, ReconcileMembers, LocksRow, CommitJob
<1>4. CASE Manage
  BY <1>1, <1>4, ManageType
     DEF Manage, AddMember, RemoveMember, RetryMember, RecoverChat, Degrade, Deactivate
<1>5. ASSUME NEW w \in Worker, Crash(w) PROVE TypeOK' /\ RunsInv'
  <2>1. run[w].event \in Event /\ run[w].event.attempts < MaxAttempts
    BY <1>5 DEF Crash, At, RunsInv
  <2>2. /\ pending' \in [Event -> Nat]
        /\ \A e \in Event : pending'[e] > 0 => e.attempts < MaxAttempts
    BY <1>5, <2>1 DEF Crash, TypeOK
  <2>3. run' \in [Worker -> RunState] /\ RunsInv' /\ stray' \in BOOLEAN
    BY <1>5, RowTypes DEF Crash, TypeOK, RunsInv, IdleRun
  <2>4. /\ presence' \in {"out", "brought", "linked"} /\ links' \subseteq Link
        /\ updates' \in [Update -> Nat]
    BY <1>5 DEF Crash, TypeOK
  <2> QED
    BY <1>5, <2>1, <2>2, <2>3, <2>4, BoundAssumption DEF Crash, Incident, TypeOK, user
<1>6. CASE JoinByLink \/ Leave
  <2>1. presence' \in {"out", "brought", "linked"} /\ updates' \in [Update -> Nat]
    BY <1>6, MovesType DEF JoinByLink, Leave, Update
  <2> QED
    BY <1>1, <1>6, <2>1, BoundAssumption
       DEF JoinByLink, Leave, Incident, TypeOK, database, user, ghosts
<1>7. CASE UNCHANGED vars
  BY <1>1, <1>7 DEF vars, database, telegram, user, ghosts, TypeOK
<1>8. CASE ChangeUsername
  <2>1. named' \in BOOLEAN /\ active' \in BOOLEAN
    BY <1>8, Zenon DEF ChangeUsername, TypeOK
  <2> QED
    BY <1>1, <1>8, <2>1, BoundAssumption DEF ChangeUsername, Incident, TypeOK, ghosts
<1> QED
  BY <1>2, <1>3, <1>4, <1>5, <1>6, <1>7, <1>8, StartType, HandleType DEF Next, Progress

-------------------------------------------------------------------------------
(* One way in.                                                                *)

\* A step of somebody else: handlers go on where they are, links only disappear,
\* and the row keeps its link.
LEMMA WayUntouched ==
    ASSUME OneWay, links' \subseteq links, entry'.link = entry.link,
           \A v \in Worker : run'[v] = run[v] \/ (~Busy(v) /\ ~Busy(v)'),
           job'.name # "none" => job'.entry.link = entry.link
    PROVE  OneWay'
<1>1. \A v \in Worker : Busy(v)' => Busy(v) /\ run'[v] = run[v]
  BY DEF Busy
<1>2. \A v \in Worker : Busy(v) => Busy(v)'
  BY DEF Busy
<1>3. ASSUME NEW v \in Worker, Busy(v)' PROVE WayOf(v)'
  BY <1>1, <1>3 DEF OneWay, WayOf
<1> QED
  BY <1>1, <1>2, <1>3 DEF OneWay, RowFree

\* A step of the one handler at work.
LEMMA WayOfHandler ==
    ASSUME OneWay, NEW w \in Worker, Busy(w),
           \A v \in Worker \ {w} : run'[v] = run[v],
           Busy(w)' => WayOf(w)',
           ~Busy(w)' => links' \subseteq {entry'.link},
           job'.name # "none" => job'.entry.link = entry'.link
    PROVE  OneWay'
<1>1. \A v \in Worker \ {w} : ~Busy(v) /\ ~Busy(v)'
  BY DEF OneWay, Busy
<1> QED
  BY <1>1 DEF OneWay, RowFree

\* A run that takes an event sends nothing, or overlaps with another.
LEMMA StartKeepsWay ==
    ASSUME TypeOK, OneWay, NEW w \in Worker, NEW e \in Event, Start(w, e)
    PROVE  overlap' \/ OneWay'
<1>1. ASSUME NEW at \in {"insert", "revoke", "invite", "kick", "commit", "book"},
             NEW row, Take(w, e, at, row), row.link = entry.link,
             at \in {"insert", "invite"} => entry.link = NoLink
      PROVE  overlap' \/ OneWay'
  <2>0. SUFFICES ASSUME ~overlap' PROVE OneWay'
    OBVIOUS
  <2>1. \A v \in Worker : run[v].at = "idle"
    BY <1>1, <2>0 DEF Take, Starts, Others
  <2>2. links \subseteq {entry.link} /\ links \subseteq Link
    BY <2>1 DEF OneWay, Busy, TypeOK
  <2>3. /\ run'[w].at = at /\ run'[w].seen = entry /\ run'[w].mine = row
        /\ \A v \in Worker \ {w} : run'[v] = run[v]
    BY <1>1 DEF Take, TypeOK, IdleRun
  <2>4. UNCHANGED <<entry, links, job>>
    BY <1>1 DEF Take, telegram, user
  <2>5. at \in {"insert", "invite"} => links = {}
    BY <1>1, <2>2 DEF Link, NoLink
  <2>6. Busy(w)' => WayOf(w)'
    BY <1>1, <2>2, <2>3, <2>4, <2>5 DEF WayOf, Busy
  <2>7. \A v \in Worker \ {w} : ~Busy(v)'
    BY <2>1, <2>3 DEF Busy
  <2> QED
    BY <2>2, <2>4, <2>6, <2>7 DEF OneWay, RowFree
<1>2. /\ NewRow.link = entry.link /\ Begins \in {"insert", "revoke", "invite"}
      /\ Begins \in {"insert", "invite"} => entry.link = NoLink
  BY DEF NewRow, Begins, NoEntry
<1>3. CASE PostponeInvite(w, e)
  <2>1. run[w].at = "idle" /\ run'[w].at = "book" /\ \A v \in Worker \ {w} : run'[v] = run[v]
    BY <1>3 DEF PostponeInvite, Starts, TypeOK, IdleRun
  <2>2. UNCHANGED <<entry, links, job>>
    BY <1>3 DEF PostponeInvite, telegram, user
  <2> QED
    BY <2>1, <2>2, WayUntouched DEF Busy, OneWay, RowFree
<1>4. CASE StartInvite(w, e) \/ StartConfigure(w, e)
  BY <1>1, <1>2, <1>4 DEF StartInvite, StartConfigure
<1>5. CASE SkipInvite(w, e) \/ SkipCreate(w, e) \/ StartRemove(w, e)
  BY <1>1, <1>5 DEF SkipInvite, SkipCreate, StartRemove
<1> QED
  BY <1>3, <1>4, <1>5 DEF Start

\* What a handler goes on with: the point, the row, and nothing else.
LEMMA GoesOn ==
    ASSUME TypeOK, NEW w \in Worker, NEW to, NEW row, Goes(w, to, row)
    PROVE  /\ run'[w].at = to /\ run'[w].mine = row /\ run'[w].seen = run[w].seen
           /\ \A v \in Worker \ {w} : run'[v] = run[v]
BY DEF Goes, TypeOK, RunState

\* A postponed event leaves the row of its run as it is.
LEMMA RetriesLater ==
    ASSUME TypeOK, NEW w \in Worker, NEW row, Retryable(w, row)
    PROVE  /\ run'[w].at = (IF Configures(w) THEN "commit" ELSE "book")
           /\ run'[w].mine = row /\ run'[w].seen = run[w].seen
           /\ \A v \in Worker \ {w} : run'[v] = run[v]
BY DEF Retryable, TypeOK, RunState

\* A run revokes the old link before it sends another, or strays.
LEMMA HandleKeepsWay ==
    ASSUME TypeOK, RunsInv, OneWay, NEW w \in Worker, Handle(w)
    PROVE  stray' \/ OneWay'
<1>0. run[w] \in RunState /\ run[w].mine \in Entry
  BY DEF TypeOK, RunState
<1>1. \A s \in MembershipState : [run[w].mine EXCEPT !.state = s].link = run[w].mine.link
  BY <1>0, EntryExcept
<1>2. {"joined", "failed", "removed"} \subseteq MembershipState
  BY DEF MembershipState
\* The handler goes on to point "to" with row "row", and nobody writes the database.
<1>3. ASSUME NEW to, NEW row, Busy(w), UNCHANGED <<entry, job>>,
             run'[w].at = to, run'[w].mine = row, run'[w].seen = run[w].seen,
             \A v \in Worker \ {w} : run'[v] = run[v],
             \/ to \in {"invite", "link", "notify"} /\ links' = {}
             \/ to = "commit" /\ links' \subseteq {row.link}
             \/ to = "book" /\ links' \subseteq {entry.link}
      PROVE  OneWay'
  <2>1. run[w].seen.link = entry.link
    BY <1>3 DEF OneWay, WayOf
  <2>2. Busy(w)' => WayOf(w)'
    BY <1>3, <2>1 DEF WayOf, Busy
  <2> QED
    BY <1>3, <2>2, WayOfHandler DEF Busy, OneWay, RowFree
\* The same for an answer that asks for a retry.
<1>4. ASSUME Busy(w), UNCHANGED <<entry, job>>, Retryable(w, run[w].mine),
             Configures(w) => links' \subseteq {run[w].mine.link},
             ~Configures(w) => links' \subseteq {entry.link}
      PROVE  OneWay'
  BY <1>3, <1>4, RetriesLater
<1>5. CASE InsertEntry(w)
  <2>1. Busy(w) /\ links = {}
    BY <1>5 DEF InsertEntry, At, Busy, OneWay, WayOf
  <2>2. \/ run'[w].at = "invite"
        \/ run'[w].at = "book"
    BY <1>0, <1>5 DEF InsertEntry, TypeOK, RunState
  <2>3. /\ run'[w].mine = run[w].mine /\ run'[w].seen = run[w].seen
        /\ \A v \in Worker \ {w} : run'[v] = run[v]
    BY <1>0, <1>5 DEF InsertEntry, TypeOK, RunState
  <2> QED
    BY <1>3, <1>5, <2>1, <2>2, <2>3 DEF InsertEntry, database, telegram, user
<1>6. CASE RevokeInvite(w)
  <2>1. /\ Busy(w) /\ links \subseteq {entry.link} /\ run[w].mine.link = entry.link
        /\ UNCHANGED <<entry, job>>
    BY <1>6 DEF RevokeInvite, At, Busy, OneWay, WayOf, database
  <2>2. CASE /\ links' = Revoked(links, run[w].mine.link)
             /\ Goes(w, "invite", [run[w].mine EXCEPT !.link = NoLink])
    <3>1. links' = {}
      BY <2>1, <2>2 DEF Revoked
    <3> QED
      BY <1>3, <2>1, <2>2, <3>1, GoesOn
  <2>3. CASE Retryable(w, run[w].mine) /\ UNCHANGED links
    BY <1>4, <2>1, <2>3
  <2> QED
    BY <1>6, <2>2, <2>3 DEF RevokeInvite
<1>7. CASE InviteDirectly(w)
  <2>1. Busy(w) /\ links' = {} /\ UNCHANGED <<entry, job>>
    BY <1>7 DEF InviteDirectly, At, Busy, OneWay, WayOf, database
  <2>2. CASE Retryable(w, run[w].mine)
    BY <1>4, <2>1, <2>2
  <2>3. ASSUME NEW to \in {"commit", "link"}, NEW row, Goes(w, to, row) PROVE OneWay'
    BY <1>3, <2>1, <2>3, GoesOn
  <2> QED
    BY <1>7, <2>2, <2>3 DEF InviteDirectly
<1>8. CASE CreateInvite(w)
  <2>1. Busy(w) /\ links' = {} /\ UNCHANGED <<entry, job>>
    BY <1>8 DEF CreateInvite, At, Busy, OneWay, WayOf, database, telegram, user
  <2>2. CASE Retryable(w, run[w].mine)
    BY <1>4, <2>1, <2>2
  <2>3. ASSUME NEW to \in {"commit", "notify"}, NEW row, Goes(w, to, row) PROVE OneWay'
    BY <1>3, <2>1, <2>3, GoesOn
  <2> QED
    BY <1>8, <2>2, <2>3 DEF CreateInvite
<1>9. CASE SendLink(w)
  <2>1. Busy(w) /\ links = {} /\ UNCHANGED <<entry, job>>
    BY <1>9 DEF SendLink, At, Busy, OneWay, WayOf, database
  <2>2. CASE links' = links \cup {run[w].mine.link} /\ Goes(w, "commit", run[w].mine)
    BY <1>3, <2>1, <2>2, GoesOn
  <2>3. CASE Retryable(w, run[w].mine) /\ UNCHANGED links
    BY <1>4, <2>1, <2>3
  <2>4. CASE /\ Retryable(w, run[w].mine) /\ links' = links \cup {run[w].mine.link}
             /\ stray' = (stray \/ ~Configures(w))
    BY <1>4, <2>1, <2>4
  <2> QED
    BY <1>9, <2>2, <2>3, <2>4 DEF SendLink
<1>10. CASE RemoveUser(w)
  <2>1. /\ Busy(w) /\ links' \subseteq {entry.link} /\ run[w].mine.link = entry.link
        /\ UNCHANGED <<entry, job>>
    BY <1>10 DEF RemoveUser, At, Busy, OneWay, WayOf, database
  <2>2. CASE Retryable(w, run[w].mine)
    BY <1>4, <2>1, <2>2
  <2>3. ASSUME NEW row, Goes(w, "commit", row), row.link = entry.link PROVE OneWay'
    BY <1>3, <2>1, <2>3, GoesOn
  <2> QED
    BY <1>1, <1>2, <1>10, <2>1, <2>2, <2>3 DEF RemoveUser
<1>11. CASE CommitHandler(w)
  <2>1. /\ Busy(w) /\ links' \subseteq {run[w].mine.link} /\ run[w].seen.link = entry.link
        /\ job'.name = "none"
    BY <1>11 DEF CommitHandler, At, Busy, OneWay, WayOf, RowFree, telegram, user
  <2>2. entry'.link = run[w].mine.link
    BY <1>11, <2>1 DEF CommitHandler, Merge
  <2>3. run'[w].at = "book" /\ \A v \in Worker \ {w} : run'[v] = run[v]
    BY <1>11 DEF CommitHandler, TypeOK, IdleRun
  <2> QED
    BY <2>1, <2>2, <2>3, WayOfHandler DEF Busy
<1>12. CASE FinishEvent(w)
  <2>1. run[w].at = "book" /\ run'[w].at = "idle" /\ \A v \in Worker \ {w} : run'[v] = run[v]
    BY <1>12 DEF FinishEvent, At, TypeOK, IdleRun
  <2>2. UNCHANGED <<entry, links, job>>
    BY <1>12 DEF FinishEvent, telegram, user
  <2> QED
    BY <2>1, <2>2, WayUntouched DEF Busy, OneWay, RowFree
<1> QED
  BY <1>5, <1>6, <1>7, <1>8, <1>9, <1>10, <1>11, <1>12 DEF Handle

\* A crash leaves at most one link in use, or a stray one.
LEMMA CrashKeepsWay ==
    ASSUME TypeOK, OneWay, NEW w \in Worker, Crash(w)
    PROVE  stray' \/ OneWay'
<1>1. /\ run'[w].at = "idle" /\ \A v \in Worker \ {w} : run'[v] = run[v]
      /\ UNCHANGED <<entry, job>> /\ links' \subseteq links
  BY DEF Crash, TypeOK, IdleRun
<1>2. CASE run[w].at = "book"
  BY <1>1, <1>2, WayUntouched DEF Busy, OneWay, RowFree
<1>3. CASE run[w].at # "book"
  <2>1. Busy(w) /\ ~Busy(w)' /\ run[w].at \in {"insert", "revoke", "invite", "link", "notify",
                                               "kick", "commit"}
    BY <1>1, <1>3 DEF Crash, At, Busy, TypeOK, RunState
  <2>2. stray' \/ links' \subseteq {entry.link}
    BY <2>1 DEF Crash, At, OneWay, WayOf
  <2> QED
    BY <1>1, <2>1, <2>2, WayOfHandler DEF OneWay, RowFree
<1> QED
  BY <1>2, <1>3

\* That a link strayed or runs overlapped is never forgotten.
LEMMA GhostsStay ==
    ASSUME [Next]_vars
    PROVE  (stray => stray') /\ (overlap => overlap')
<1>1. ASSUME NEW w \in Worker, NEW e \in Event, Start(w, e)
      PROVE  UNCHANGED stray /\ (overlap => overlap')
  <2>1. ASSUME NEW at, NEW row, Take(w, e, at, row)
        PROVE  UNCHANGED stray /\ (overlap => overlap')
    BY <2>1, Zenon DEF Take
  <2>2. CASE PostponeInvite(w, e)
    BY <2>2 DEF PostponeInvite, ghosts
  <2>3. CASE StartConfigure(w, e)
    BY <2>1, <2>3 DEF StartConfigure
  <2>4. CASE StartInvite(w, e) \/ SkipInvite(w, e) \/ SkipCreate(w, e) \/ StartRemove(w, e)
    BY <2>1, <2>4 DEF StartInvite, SkipInvite, SkipCreate, StartRemove
  <2> QED
    BY <1>1, <2>2, <2>3, <2>4 DEF Start
<1>2. ASSUME NEW w \in Worker, Handle(w) \/ Crash(w)
      PROVE  UNCHANGED overlap /\ (stray => stray')
  <2>1. CASE RevokeInvite(w)
    BY <2>1 DEF RevokeInvite
  <2>4. CASE SendLink(w)
    <3>1. UNCHANGED overlap /\ (stray' = stray \/ stray' = (stray \/ ~Configures(w)))
      BY <2>4 DEF SendLink
    <3>2. stray' = stray => (stray => stray')
      OBVIOUS
    <3>3. stray' = (stray \/ ~Configures(w)) => (stray => stray')
      BY Zenon
    <3> QED
      BY <3>1, <3>2, <3>3
  <2>5. CASE Crash(w)
    BY <2>5, Zenon DEF Crash
  <2>2. CASE InsertEntry(w) \/ InviteDirectly(w) \/ CreateInvite(w) \/ CommitHandler(w)
    BY <2>2 DEF InsertEntry, InviteDirectly, CreateInvite, CommitHandler, ghosts
  <2>3. CASE RemoveUser(w) \/ FinishEvent(w)
    BY <2>3 DEF RemoveUser, FinishEvent
  <2> QED
    BY <1>2, <2>1, <2>2, <2>3, <2>4, <2>5 DEF Handle
<1>3. ASSUME NEW b \in Bot,
             CommitUpdate(b) \/ LoseUpdate(b) \/ \E k \in Update : LoadUpdate(b, k)
      PROVE  UNCHANGED <<stray, overlap>>
  BY <1>3 DEF CommitUpdate, LoadUpdate, LoseUpdate, ghosts
<1>4. CASE RemindInvited \/ ReconcileMembers \/ CommitJob
  BY <1>4 DEF RemindInvited, ReconcileMembers, LocksRow, CommitJob, ghosts
<1>5. CASE Manage
  BY <1>5 DEF Manage, AddMember, RemoveMember, RetryMember, Degrade, RecoverChat, Deactivate,
              ghosts
<1>6. CASE JoinByLink \/ Leave \/ ChangeUsername \/ UNCHANGED vars
  BY <1>6 DEF JoinByLink, Leave, ChangeUsername, vars, ghosts
<1> QED
  BY <1>1, <1>2, <1>3, <1>4, <1>5, <1>6 DEF Next, Progress

\* Every step keeps WayInv.
LEMMA WayStep ==
    ASSUME TypeOK, RunsInv, WayInv, [Next]_vars
    PROVE  WayInv'
<1>1. (stray => stray') /\ (overlap => overlap')
  BY GhostsStay
<1>2. SUFFICES ASSUME OneWay PROVE stray' \/ overlap' \/ OneWay'
  BY <1>1 DEF WayInv
<1>3. ASSUME NEW w \in Worker, NEW e \in Event, Start(w, e) PROVE overlap' \/ OneWay'
  BY <1>2, <1>3, StartKeepsWay
<1>4. ASSUME NEW w \in Worker, Handle(w) \/ Crash(w) PROVE stray' \/ OneWay'
  BY <1>2, <1>4, HandleKeepsWay, CrashKeepsWay
<1>5. ASSUME links' \subseteq links, UNCHANGED <<entry, run, job>> PROVE OneWay'
  BY <1>2, <1>5, WayUntouched DEF OneWay, RowFree
<1>6. ASSUME NEW b \in Bot, CommitUpdate(b) PROVE OneWay'
  <2>1. bot[b].seen \in Entry
    BY DEF TypeOK, BotState
  <2>2. entry'.link = entry.link
    BY <1>6, <2>1 DEF CommitUpdate, Departed, Merge, Entry
  <2> QED
    BY <1>2, <1>6, <2>2, WayUntouched DEF CommitUpdate, telegram, user, OneWay, RowFree
<1>7. CASE RemindInvited \/ ReconcileMembers
  <2>1. PICK name \in {"reminders", "reconcile"}, s \in MembershipState :
               LocksRow(name, [entry EXCEPT !.state = s])
    BY <1>7 DEF RemindInvited, ReconcileMembers, Confirmed, MembershipState
  <2>2. job'.entry.link = entry.link
    BY <2>1 DEF LocksRow, TypeOK, Entry
  <2> QED
    BY <1>2, <2>1, <2>2, WayUntouched DEF LocksRow, database, telegram, user
<1>8. CASE CommitJob
  BY <1>2, <1>8, WayUntouched DEF CommitJob, NoJob, OneWay, RowFree, telegram, user
<1>9. ASSUME NEW b \in Bot, NEW k \in Update, LoadUpdate(b, k) PROVE OneWay'
  BY <1>5, <1>9 DEF LoadUpdate, database
<1>10. CASE Manage
  BY <1>5, <1>10
     DEF Manage, AddMember, RemoveMember, RetryMember, Degrade, RecoverChat, Deactivate,
         telegram, user
<1>11. CASE JoinByLink \/ Leave \/ ChangeUsername \/ UNCHANGED vars
  BY <1>5, <1>11 DEF JoinByLink, Leave, ChangeUsername, vars, database, telegram, user
<1>12. ASSUME NEW b \in Bot, LoseUpdate(b) PROVE OneWay'
  BY <1>5, <1>12 DEF LoseUpdate, database, telegram, user
<1> QED
  BY <1>3, <1>4, <1>6, <1>7, <1>8, <1>9, <1>10, <1>11, <1>12 DEF Next, Progress
-------------------------------------------------------------------------------
(* The theorems.                                                              *)

\* The inductive invariant of the module.
LEMMA MemberInvariant == Spec => []MemberInv
<1>1. Init => WayInv
  BY DEF Init, WayInv, OneWay, Busy, IdleRun, RowFree, NoJob
<1>2. Init => MemberInv
  BY <1>1, TypeInit DEF MemberInv
<1>3. MemberInv /\ [Next]_vars => MemberInv'
  BY TypeStep, WayStep DEF MemberInv
<1> QED
  BY <1>2, <1>3, PTL DEF Spec

\* Every variable keeps its type; in particular no event is pending that has been
\* tried as often as _MAX_OUTBOX_ATTEMPTS, after any retries and crashes.
THEOREM MemberTypes == Spec => []TypeOK
<1>1. MemberInv => TypeOK
  BY DEF MemberInv
<1> QED
  BY <1>1, MemberInvariant, PTL

\* A user never holds two usable links, unless runs overlapped, a link was sent
\* that no row names, or one could not be revoked: the row is committed after the
\* link is sent, and everybody else writes it without touching its link.
THEOREM OneWayInTheorem == Spec => []OneWayIn
<1>1. ASSUME MemberInv PROVE OneWayIn
  <2>1. SUFFICES ASSUME OneWay PROVE Cardinality(links) <= 1
    BY <1>1 DEF MemberInv, WayInv, OneWayIn
  <2>2. PICK l : links \subseteq {l}
    <3>1. CASE \A w \in Worker : ~Busy(w)
      BY <2>1, <3>1 DEF OneWay
    <3>2. ASSUME NEW w \in Worker, Busy(w)
          PROVE  links \subseteq {entry.link} \/ links \subseteq {run[w].mine.link}
      <4>1. run[w] \in RunState /\ WayOf(w)
        BY <1>1, <2>1, <3>2 DEF MemberInv, TypeOK, OneWay
      <4> QED
        BY <3>2, <4>1 DEF WayOf, Busy, RunState
    <3> QED
      BY <3>1, <3>2
  <2>3. IsFiniteSet({l}) /\ Cardinality({l}) = 1
    BY FS_Singleton
  <2> QED
    BY <2>2, <2>3, FS_Subset
<1> QED
  BY <1>1, MemberInvariant, PTL
===============================================================================
