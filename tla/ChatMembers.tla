------------------------------ MODULE ChatMembers ------------------------------
(***************************************************************************)
(* The membership of one user in the working group of one task: the rows in  *)
(* task_members and task_chat_members, the outbox events that invite and     *)
(* remove, the group and the invite links in Telegram, and everything that   *)
(* acts on them at the same time: runs of process_outbox, the reminder and   *)
(* the reconciliation job, the bot's chat_member updates, managers, and the  *)
(* user, who joins by a link, leaves, and may change the username by which   *)
(* alone the service account finds a user.                                   *)
(*                                                                           *)
(* The group exists, though its id may be known only to the run that is       *)
(* configuring it for the first time.  How it comes about, the batch of a run *)
(* and the deletion of the group are in TaskChats; here a run handles one event, and *)
(* since retries are delayed, any pending event may be the next one.  Times   *)
(* are left out: the reminder of an invitation may be due at any moment.      *)
(***************************************************************************)
EXTENDS Integers, FiniteSets

CONSTANTS Worker,       \* runs of process_outbox that may overlap
          Bot,          \* chat_member updates handled at the same time
          Fault,        \* how Telegram may answer, a subset of Faults
          MaxAttempts,  \* _MAX_OUTBOX_ATTEMPTS
          MaxLinks,     \* bound: invite links remembered at the same time
          MaxEdits,     \* bound: what managers do, and a brief that fails
          MaxOverlap,   \* bound: the same, in behaviours where runs overlap
          MaxIncidents  \* bound: errors, crashes and what the user does

\* "retryable": flood wait or network error; "lost_reply": the same, after the
\* request was carried out; "permanent".
Faults == {"retryable", "lost_reply", "permanent"}

ASSUME FaultAssumption == Fault \subseteq Faults
ASSUME BoundAssumption ==
    /\ MaxAttempts \in Nat \ {0} /\ MaxLinks \in Nat /\ MaxIncidents \in Nat
    /\ MaxEdits \in Nat /\ MaxOverlap \in 0..MaxEdits

Link == 1..MaxLinks
NoLink == 0

EventType == {"create", "recover", "invite", "remove"}
Event == [type : EventType, attempts : 0..MaxAttempts]
NoEvent == [type |-> "none", attempts |-> 0]

\* A row of task_chat_members.
MembershipState == {"pending", "invited", "joined", "not_joined", "removed", "failed"}
Entry == [state : MembershipState \cup {"none"}, link : Link \cup {NoLink}]
NoEntry == [state |-> "none", link |-> NoLink]

\* A run: the point it is at, the event it has locked, the row as it loaded it
\* and as it has changed it, whether it inserted the row, and how it ended.
RunState == [at : {"idle", "insert", "revoke", "invite", "link", "notify", "kick",
                   "commit", "book"},
             event : Event \cup {NoEvent}, seen : Entry, mine : Entry, fresh : BOOLEAN,
             verdict : {"done", "error"}]
IdleRun == [at |-> "idle", event |-> NoEvent, seen |-> NoEntry, mine |-> NoEntry,
            fresh |-> FALSE, verdict |-> "done"]

Update == {"joined", "left"}
BotState == [update : Update \cup {"none"}, seen : Entry, assigned : BOOLEAN]
IdleBot == [update |-> "none", seen |-> NoEntry, assigned |-> FALSE]

VARIABLES
    assigned,   \* there is a row in task_members
    active,     \* the user is ACTIVE
    known,      \* telegram_chat_id is committed
    ready,      \* the chat is READY
    entry,      \* committed row of task_chat_members
    pending,    \* pending[e]: how many outbox events like e no run has locked
    private,    \* the user's privacy settings let the service account send a link only
    named,      \* Telegram knows the user by the username in the row
    presence,   \* in Telegram: "out", "brought" by the service account, "linked"
    links,      \* invite links the user was sent and that are usable
    updates,    \* chat_member updates not handled yet, by kind
    run,        \* run[w]: a run of process_outbox
    bot,        \* bot[b]: a handler of a chat_member update
    job,        \* the job that holds the row and what it will commit, or no job
    edits,      \* edits so far
    incidents,  \* incidents so far
    missed,     \* an invitation was given up or never requested
    kept,       \* a removal was given up or never requested
    stray,      \* a link was sent that no row names, or could not be revoked
    overlap,    \* two runs have handled events of this user at the same time
    lost        \* the update of a departure was lost, or ignored for want of a row

database == <<assigned, active, known, ready, entry, pending>>
user     == <<private, named>>
telegram == <<user, presence, links, updates>>
ghosts   == <<missed, kept, stray, overlap, lost>>
vars == <<database, telegram, run, bot, job, edits, incidents, ghosts>>

NoJob == [name |-> "none", entry |-> NoEntry]

\* An event is never tried more often than it may be.
TypeOK ==
    /\ {assigned, active, known, ready, private, named} \subseteq BOOLEAN
    /\ {missed, kept, stray, overlap, lost} \subseteq BOOLEAN
    /\ entry \in Entry
    /\ pending \in [Event -> Nat]
    /\ \A e \in Event : pending[e] > 0 => e.attempts < MaxAttempts
    /\ presence \in {"out", "brought", "linked"}
    /\ links \subseteq Link
    /\ updates \in [Update -> Nat]
    /\ run \in [Worker -> RunState]
    /\ bot \in [Bot -> BotState]
    /\ job \in [name : {"none", "reminders", "reconcile"}, entry : Entry]
    /\ edits \in 0..MaxEdits /\ incidents \in 0..MaxIncidents
-------------------------------------------------------------------------------
InGroup == presence # "out"

\* The columns a commit writes are those that differ from the loaded row.
Merge(stored, seen, new) ==
    [state |-> IF new.state # seen.state THEN new.state ELSE stored.state,
     link  |-> IF new.link # seen.link THEN new.link ELSE stored.link]

\* The reminder and the reconciliation job hold FOR UPDATE locks until they commit.
RowFree == job.name = "none"

Enqueued(type) == [pending EXCEPT ![[type |-> type, attempts |-> 0]] = @ + 1]

\* The user comes or goes, and the bot will be told.
Moves(to, kind) ==
    IF (to = "out") = (presence = "out") THEN UNCHANGED <<presence, updates>>
    ELSE presence' = to /\ updates' = [updates EXCEPT ![kind] = @ + 1]

Incident == incidents < MaxIncidents /\ incidents' = incidents + 1
-------------------------------------------------------------------------------
(* process_outbox.                                                            *)

\* The other runs under way.
Others(w) == {v \in Worker \ {w} : run[v].at # "idle"}

\* Runs are alike, so it does not matter which one starts; nor which handler does.
NextRun == CHOOSE v \in Worker : run[v].at = "idle"

Starts(w) ==
    /\ run[w].at = "idle" /\ w = NextRun
    /\ Others(w) # {} => edits <= MaxOverlap

\* A run locks a pending event and starts its handler at a point.
Take(w, e, at, row) ==
    /\ Starts(w) /\ pending[e] > 0
    /\ run' = [run EXCEPT ![w] = [IdleRun EXCEPT !.at = at, !.event = e,
                                                 !.seen = entry, !.mine = row]]
    /\ pending' = [pending EXCEPT ![e] = @ - 1]
    /\ overlap' = (overlap \/ Others(w) # {})
    /\ UNCHANGED <<assigned, active, known, ready, entry, telegram, bot, job, edits,
                   incidents,
                   kept, stray, lost>>

\* Where invite_task_chat_member begins, and with which row.
Begins == IF entry = NoEntry THEN "insert"
          ELSE IF entry.link # NoLink THEN "revoke" ELSE "invite"
NewRow == IF entry = NoEntry THEN [NoEntry EXCEPT !.state = "pending"] ELSE entry

\* Mutant of StillMember: whoever the event names is invited.
OnceMember == active

StillMember == assigned /\ active

StartInvite(w, e) ==
    /\ e.type = "invite" /\ ready /\ StillMember
    /\ Take(w, e, Begins, NewRow)
    /\ UNCHANGED missed

\* The user is no member any more, or not active: the event is done.
SkipInvite(w, e) ==
    /\ e.type = "invite" /\ ready /\ ~StillMember
    /\ Take(w, e, "book", entry)
    /\ UNCHANGED missed

\* "working_group_not_ready": the event is tried again later, a few times.
PostponeInvite(w, e) ==
    /\ e.type = "invite" /\ ~ready
    /\ Starts(w) /\ pending[e] > 0
    /\ run' = [run EXCEPT ![w] = [IdleRun EXCEPT !.at = "book", !.event = e,
                                                 !.verdict = "error"]]
    /\ pending' = [pending EXCEPT ![e] = @ - 1]
    /\ UNCHANGED <<assigned, active, known, ready, entry, telegram, bot, job, edits,
                   incidents, ghosts>>

\* configure_task_chat, which provision_task_chat calls only for a chat that is not
\* READY, invites every member who has not joined.
StartConfigure(w, e) ==
    /\ e.type = "recover" \/ (e.type = "create" /\ ~ready)
    /\ missed' = FALSE
    /\ IF assigned /\ active /\ entry.state # "joined"
       THEN Take(w, e, Begins, NewRow) ELSE Take(w, e, "commit", entry)

SkipCreate(w, e) ==
    /\ e.type = "create" /\ ready
    /\ Take(w, e, "book", entry)
    /\ UNCHANGED missed

StartRemove(w, e) ==
    /\ e.type = "remove"
    /\ Take(w, e, IF entry = NoEntry THEN "book" ELSE "kick", entry)
    /\ UNCHANGED missed

At(w, point) == run[w].at = point

Goes(w, to, row) == run' = [run EXCEPT ![w].at = to, ![w].mine = row]

Configures(w) == run[w].event.type \in {"create", "recover"}

\* A retryable answer: configuration commits what it has, the other handlers nothing.
Retryable(w, row) ==
    /\ "retryable" \in Fault /\ Incident
    /\ run' = [run EXCEPT ![w].at = IF Configures(w) THEN "commit" ELSE "book",
                          ![w].mine = row, ![w].verdict = "error",
                          ![w].fresh = Configures(w) /\ @]

Permanent == "permanent" \in Fault /\ Incident

\* The flush of a new row waits for another run that inserted it, and fails then.
InsertEntry(w) ==
    /\ At(w, "insert")
    /\ ~\E v \in Worker : run[v].fresh
    /\ run' = IF entry = NoEntry THEN [run EXCEPT ![w].at = "invite", ![w].fresh = TRUE]
              ELSE [run EXCEPT ![w].at = "book", ![w].verdict = "error"]
    /\ UNCHANGED <<database, telegram, bot, job, edits, incidents, ghosts>>

\* Mutant of Revoked: the old link is forgotten, not revoked.
Forgotten(usable, l) == usable

Revoked(usable, l) == usable \ {l}

\* Only an error that asks for a retry is heeded.
RevokeInvite(w) ==
    LET l == run[w].mine.link  row == [run[w].mine EXCEPT !.link = NoLink] IN
    /\ At(w, "revoke")
    /\ \/ /\ links' = Revoked(links, l)
          /\ Goes(w, "invite", row) /\ UNCHANGED <<incidents, stray>>
       \/ /\ Permanent /\ Goes(w, "invite", row)
          /\ stray' = TRUE /\ UNCHANGED links
       \/ Retryable(w, run[w].mine) /\ UNCHANGED <<links, stray>>
    /\ UNCHANGED <<database, user, presence, updates, bot, job, edits, missed, kept, overlap,
                   lost>>

\* invite_user: the user is brought in (or was in already), or has to be sent a link,
\* as everybody is whom the service account does not find.
InviteDirectly(w) ==
    /\ At(w, "invite")
    /\ \/ /\ named /\ (~private \/ InGroup)
          /\ Moves("brought", "joined") /\ UNCHANGED incidents
          /\ Goes(w, "commit", [run[w].mine EXCEPT !.state = "joined"])
       \/ /\ ~named \/ (private /\ ~InGroup)
          /\ Goes(w, "link", run[w].mine)
          /\ UNCHANGED <<presence, updates, incidents>>
       \/ /\ Permanent /\ Goes(w, "commit", [run[w].mine EXCEPT !.state = "failed"])
          /\ UNCHANGED <<presence, updates>>
       \/ Retryable(w, run[w].mine) /\ UNCHANGED <<presence, updates>>
       \/ /\ "lost_reply" \in Fault /\ Retryable(w, run[w].mine)
          /\ named /\ ~private /\ Moves("brought", "joined")
    /\ UNCHANGED <<database, user, links, bot, job, edits, ghosts>>

\* A link nobody refers to any more is as good as a new one.
InUse(l) ==
    \/ l \in links \cup {entry.link, job.entry.link}
    \/ \E w \in Worker : l \in {run[w].seen.link, run[w].mine.link}
    \/ \E b \in Bot : l = bot[b].seen.link
NewLink == CHOOSE l \in Link : ~InUse(l)

\* (A new link needs room among the MaxLinks that are told apart.)
CreateInvite(w) ==
    /\ At(w, "link")
    /\ \/ /\ \E l \in Link : ~InUse(l)
          /\ Goes(w, "notify", [state |-> "invited", link |-> NewLink]) /\ UNCHANGED incidents
       \/ Retryable(w, run[w].mine)
       \/ Permanent /\ Goes(w, "commit", [run[w].mine EXCEPT !.state = "failed"])
    /\ UNCHANGED <<database, telegram, bot, job, edits, ghosts>>

\* The link is sent before it is committed: an error after that leaves a link that
\* no row names, unless it is configuration that fails, which commits.
SendLink(w) ==
    LET sent == links \cup {run[w].mine.link} IN
    /\ At(w, "notify")
    /\ \/ /\ links' = sent
          /\ Goes(w, "commit", run[w].mine) /\ UNCHANGED <<incidents, stray>>
       \/ Retryable(w, run[w].mine) /\ UNCHANGED <<links, stray>>
       \/ /\ "lost_reply" \in Fault /\ Retryable(w, run[w].mine)
          /\ links' = sent /\ stray' = (stray \/ ~Configures(w))
    /\ UNCHANGED <<database, user, presence, updates, bot, job, edits, missed, kept, overlap,
                   lost>>

\* remove_user: banned and unbanned at once; whoever is out is removed as well.
\* A permanent error, or that the user is not found, is only noted.
RemoveUser(w) ==
    /\ At(w, "kick")
    /\ \/ /\ named /\ Moves("out", "left") /\ UNCHANGED <<incidents, kept>>
          /\ Goes(w, "commit", [run[w].mine EXCEPT !.state = "removed"])
       \/ /\ Permanent \/ (~named /\ UNCHANGED incidents)
          /\ Goes(w, "commit", run[w].mine)
          /\ kept' = TRUE /\ UNCHANGED <<presence, updates>>
       \/ Retryable(w, run[w].mine) /\ UNCHANGED <<presence, updates, kept>>
    /\ UNCHANGED <<database, user, links, bot, job, edits, missed, stray, overlap, lost>>

CommitHandler(w) ==
    /\ At(w, "commit") /\ RowFree
    /\ entry' = IF run[w].fresh THEN run[w].mine
                ELSE Merge(entry, run[w].seen, run[w].mine)
    /\ ready' = IF Configures(w) THEN run[w].verdict = "done" ELSE ready
    /\ known' = (known \/ Configures(w))
    /\ run' = [run EXCEPT ![w] = [IdleRun EXCEPT !.at = "book", !.event = run[w].event,
                                                 !.verdict = run[w].verdict]]
    /\ UNCHANGED <<assigned, active, pending, telegram, bot, job, edits, incidents, ghosts>>

\* Mutant of Exhausted: an event is given up one attempt too late.
ExhaustedTooLate(e) == e.attempts + 1 > MaxAttempts

Exhausted(e) == e.attempts + 1 >= MaxAttempts

\* The event is processed, retried later or given up.
FinishEvent(w) ==
    LET e == run[w].event
        error == run[w].verdict = "error"
    IN  /\ At(w, "book")
        /\ pending' = IF error /\ ~Exhausted(e)
                      THEN [pending EXCEPT ![[e EXCEPT !.attempts = @ + 1]] = @ + 1]
                      ELSE pending
        /\ IF e.type = "remove"
           THEN kept' = (kept \/ (error /\ Exhausted(e))) /\ UNCHANGED missed
           ELSE missed' = (missed \/ (error /\ Exhausted(e))) /\ UNCHANGED kept
        /\ run' = [run EXCEPT ![w] = IdleRun]
        /\ UNCHANGED <<assigned, active, known, ready, entry, telegram, bot, job, edits,
                       incidents,
                       stray, overlap, lost>>

\* Nothing the run did to the database was committed but what CommitHandler did.  A
\* group whose id is lost with the run is not used again (AtMostOneGroup of TaskChats).
Crash(w) ==
    /\ ~At(w, "idle") /\ Incident
    /\ pending' = [pending EXCEPT ![run[w].event] = @ + 1]
    /\ IF known
       THEN /\ stray' = (stray \/ (At(w, "commit")
                                  /\ run[w].mine.link \in links \ {entry.link}))
            /\ UNCHANGED <<presence, links, updates>>
       ELSE /\ presence' = "out" /\ links' = {} /\ updates' = [k \in Update |-> 0]
            /\ UNCHANGED stray
    /\ run' = [run EXCEPT ![w] = IdleRun]
    /\ UNCHANGED <<assigned, active, known, ready, entry, user, bot, job, edits, missed,
                   kept, overlap, lost>>
-------------------------------------------------------------------------------
(* membership_changed: updates are handled concurrently, in any order.        *)

NextBot == CHOOSE b \in Bot : bot[b] = IdleBot

\* An update about a user without a row, or in a group that is not known, is ignored.
LoadUpdate(b, k) ==
    /\ bot[b] = IdleBot /\ b = NextBot /\ updates[k] > 0
    /\ updates' = [updates EXCEPT ![k] = @ - 1]
    /\ bot' = IF entry = NoEntry THEN bot
              ELSE [bot EXCEPT ![b] = [update |-> k, seen |-> entry, assigned |-> assigned]]
    /\ lost' = (lost \/ (k = "left" /\ entry = NoEntry))
    /\ UNCHANGED <<database, user, presence, links, run, job, edits, incidents, missed, kept>>
    /\ UNCHANGED <<stray, overlap>>

\* Mutant of Departed: a member who left counts as invited again.
DepartedInvited(row, stillAssigned) ==
    [row EXCEPT !.state = IF stillAssigned THEN "invited" ELSE "removed"]

\* A member who left is to be invited again, a former member is removed.
Departed(row, stillAssigned) ==
    [row EXCEPT !.state = IF stillAssigned THEN "not_joined" ELSE "removed"]

\* Mutant of Confirmed: only who was missing is confirmed.
ConfirmedAgain(row) == IF row.state = "not_joined" THEN [row EXCEPT !.state = "joined"] ELSE row

Confirmed(row) == [row EXCEPT !.state = "joined"]

CommitUpdate(b) ==
    LET h == bot[b]
        new == IF h.update = "left" THEN Departed(h.seen, h.assigned)
               ELSE [h.seen EXCEPT !.state = "joined"]
    IN  /\ h # IdleBot /\ RowFree
        /\ entry' = Merge(entry, h.seen, new)
        /\ pending' = IF new.state = "not_joined" THEN Enqueued("invite") ELSE pending
        /\ bot' = [bot EXCEPT ![b] = IdleBot]
        /\ UNCHANGED <<assigned, active, known, ready, telegram, run, job, edits, incidents,
                       ghosts>>
\* A handler that fails, or is cut off by a restart, loses its update: it is
\* acknowledged when the next ones are fetched, whatever has become of it.
LoseUpdate(b) ==
    /\ bot[b] # IdleBot /\ bot' = [bot EXCEPT ![b] = IdleBot]
    /\ lost' = (lost \/ bot[b].update = "left")
    /\ UNCHANGED <<database, telegram, run, job, edits, incidents, missed, kept, stray, overlap>>
-------------------------------------------------------------------------------
(* The periodic jobs lock the row, ask Telegram and commit.  A round that finds *)
(* nothing to change is left out, as is one that does not find the user: it only *)
(* notes that, and reminds.                                                   *)

LocksRow(name, row) ==
    /\ RowFree /\ ready /\ row # entry
    /\ job' = [name |-> name, entry |-> row]
    /\ UNCHANGED <<database, telegram, run, bot, edits, incidents, ghosts>>

\* _send_invite_reminders
RemindInvited ==
    /\ entry.state = "invited"
    /\ \/ ~active /\ LocksRow("reminders", [entry EXCEPT !.state = "failed"])
       \/ active /\ named /\ InGroup /\ LocksRow("reminders", Confirmed(entry))

\* _reconcile_task_chat_members
ReconcileMembers ==
    /\ named
    /\ \/ /\ entry.state \in {"invited", "joined", "not_joined"} /\ InGroup
          /\ LocksRow("reconcile", Confirmed(entry))
       \/ /\ entry.state = "joined" /\ ~InGroup
          /\ LocksRow("reconcile", [entry EXCEPT !.state = "not_joined"])

CommitJob ==
    /\ ~RowFree
    /\ entry' = job.entry
    /\ pending' = IF job.entry.state = "not_joined" THEN Enqueued("invite") ELSE pending
    /\ job' = NoJob
    /\ UNCHANGED <<assigned, active, known, ready, telegram, run, bot, edits, incidents,
                   ghosts>>
-------------------------------------------------------------------------------
(* Managers, a brief that cannot be posted, and the user.                     *)

Edit ==
    /\ edits < IF overlap THEN MaxOverlap ELSE MaxEdits
    /\ edits' = edits + 1

\* The event is written only if the group is ready; a configuration that has read
\* the members already does not see the new one.
AddMember ==
    /\ Edit
    /\ ~assigned /\ active
    /\ assigned' = TRUE
    /\ pending' = IF ready THEN Enqueued("invite") ELSE pending
    /\ missed' = (missed \/ (~ready /\ \E w \in Worker : Configures(w)))
    /\ UNCHANGED <<active, known, ready, entry, telegram, run, bot, job, incidents, kept,
                   stray, overlap, lost>>

\* The event is written only if the group is known; a first configuration that has
\* read the members already brings in the former one.
RemoveMember ==
    /\ Edit
    /\ assigned /\ assigned' = FALSE
    /\ pending' = IF known THEN Enqueued("remove") ELSE pending
    /\ kept' = (kept \/ (~known /\ \E w \in Worker : Configures(w)))
    /\ UNCHANGED <<active, known, ready, entry, telegram, run, bot, job, incidents, missed,
                   stray, overlap, lost>>

RetryMember ==
    /\ Edit
    /\ ready /\ assigned /\ entry.state # "joined"
    /\ pending' = Enqueued("invite")
    /\ UNCHANGED <<assigned, active, known, ready, entry, telegram, run, bot, job, incidents,
                   ghosts>>

\* A brief that cannot be refreshed degrades the chat; a manager recovers it.
Degrade ==
    /\ Edit
    /\ ready /\ ready' = FALSE
    /\ UNCHANGED <<assigned, active, known, entry, pending, telegram, run, bot, job,
                   incidents, ghosts>>

RecoverChat ==
    /\ Edit
    /\ known /\ ~ready
    /\ pending' = Enqueued("recover")
    /\ UNCHANGED <<assigned, active, known, ready, entry, telegram, run, bot, job, incidents,
                   ghosts>>

Deactivate ==
    /\ Edit
    /\ active /\ active' = FALSE
    /\ UNCHANGED <<assigned, known, ready, entry, pending, telegram, run, bot, job,
                   incidents, ghosts>>

\* A link lets one user in, once.
JoinByLink ==
    /\ Incident
    /\ ~InGroup
    /\ \E l \in links : links' = links \ {l}
    /\ Moves("linked", "joined")
    /\ UNCHANGED <<database, user, run, bot, job, edits, ghosts>>

Leave ==
    /\ Incident
    /\ InGroup /\ Moves("out", "left")
    /\ UNCHANGED <<database, user, links, run, bot, job, edits, ghosts>>

\* The user changes the username, and the bot, which learns the new one only when the
\* user turns to it, may find that there is none.
ChangeUsername ==
    /\ Incident
    /\ named' = ~named
    /\ active' \in {active, active /\ named'}
    /\ UNCHANGED <<assigned, known, ready, entry, pending, private, presence, links, updates>>
    /\ UNCHANGED <<run, bot, job, edits, ghosts>>
-------------------------------------------------------------------------------
\* The group is about to be created and configured.  An ACTIVE user may have no
\* username: the administrator's switch does not ask for one.
Init ==
    /\ assigned \in BOOLEAN /\ active = TRUE /\ known = FALSE /\ ready = FALSE
    /\ entry = NoEntry
    /\ pending = [e \in Event |-> IF e = [type |-> "create", attempts |-> 0] THEN 1 ELSE 0]
    /\ private \in BOOLEAN /\ named \in BOOLEAN /\ presence = "out" /\ links = {}
    /\ updates = [k \in Update |-> 0]
    /\ run = [w \in Worker |-> IdleRun]
    /\ bot = [b \in Bot |-> IdleBot]
    /\ job = NoJob
    /\ edits = 0 /\ incidents = 0
    /\ missed = FALSE /\ kept = FALSE /\ stray = FALSE /\ overlap = FALSE
    /\ lost = FALSE

Start(w, e) ==
    \/ StartInvite(w, e) \/ SkipInvite(w, e) \/ PostponeInvite(w, e)
    \/ StartConfigure(w, e) \/ SkipCreate(w, e) \/ StartRemove(w, e)

Handle(w) ==
    \/ InsertEntry(w) \/ RevokeInvite(w) \/ InviteDirectly(w) \/ CreateInvite(w)
    \/ SendLink(w) \/ RemoveUser(w) \/ CommitHandler(w) \/ FinishEvent(w)

Manage ==
    AddMember \/ RemoveMember \/ RetryMember \/ Degrade \/ RecoverChat \/ Deactivate

\* What the processes do on their own, but for crashes.
Progress ==
    \/ \E w \in Worker : Handle(w) \/ \E e \in Event : Start(w, e)
    \/ \E b \in Bot : CommitUpdate(b) \/ \E k \in Update : LoadUpdate(b, k)
    \/ RemindInvited \/ ReconcileMembers \/ CommitJob

Next ==
    \/ Progress
    \/ \E w \in Worker : Crash(w)
    \/ \E b \in Bot : LoseUpdate(b)
    \/ Manage \/ JoinByLink \/ Leave \/ ChangeUsername

Spec == Init /\ [][Next]_vars

\* Beat starts process_outbox every minute and the jobs every few minutes, and the bot
\* handles the updates it does not lose.  Between incidents there is only so much to
\* do, so it is enough that some process goes on while there is something to do.
\* Managers, the user and crashes are under no obligation.
FairSpec == Spec /\ WF_vars(Progress)
-------------------------------------------------------------------------------
(* Safety.                                                                    *)

\* At any time one link at most that the user was sent lets the user in: a new
\* invitation revokes the link before it.
OneWayIn == Cardinality(links) <= 1 \/ stray \/ overlap

(* Liveness.  An invitation is missed when its event was given up, and when the      *)
(* member was added after a running configuration had read the members; the next     *)
(* configuration makes up for it.                                                    *)
(* A removal is kept when it was given up after too many errors, when Telegram       *)
(* refuses it or does not know the user, and when the member was removed while the   *)
(* group was configured for the first time, which writes no event.                   *)

\* A member of the task ends up in the group, with a usable link to it, or with a
\* row that tells the manager so (FAILED; REMOVED, when a removal was carried out
\* after the member had been added again), whatever was applied out of order, as
\* long as the group is ready and no invitation was missed.  Two rows keep a member
\* out for good: a JOINED that is wrong, of a user whom the jobs do not find, and an
\* INVITED whose link is used up, when the update of the departure was lost.
AssignedAreReached ==
    (assigned /\ active) ~>
        (\/ InGroup \/ links # {} \/ entry.state \in {"failed", "removed"}
         \/ ~assigned \/ ~active \/ ~ready \/ missed
         \/ ~named /\ entry.state = "joined"
         \/ lost /\ entry.state = "invited")

\* A user the service account brought in and who is no member of the task any more
\* is removed again, unless the removal is kept or runs of the outbox overlap.
StrangersLeave ==
    (presence = "brought" /\ ~assigned /\ entry # NoEntry) ~>
        (~InGroup \/ assigned \/ kept \/ overlap)

\* The row says that the user is out though the user is in, or the other way round.
RowIsWrong ==
    \/ InGroup /\ entry.state = "invited"
    \/ ~InGroup /\ entry.state = "joined"

\* The link is sent before INVITED is committed, so the update of a fast join can
\* come too early, and any update can be lost: the jobs notice the join, and the
\* departure, all the same, of a user whom the service account finds.
RowsAreReconciled ==
    (named /\ ready /\ RowIsWrong) ~> (~RowIsWrong \/ ~named \/ ~ready)
===============================================================================
