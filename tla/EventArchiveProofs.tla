-------------------------- MODULE EventArchiveProofs --------------------------
(* Theorems about EventArchive, for any tasks and photos, any dates, and any    *)
(* number of faults.                                                          *)
EXTENDS EventArchive, WellFoundedInduction, NaturalsInduction, TLAPS

-------------------------------------------------------------------------------
(* The event while the retention job is at work.                              *)

\* The row of the event has one holder at most, and what the job has seen of the
\* limit is still what is committed.
LockInv ==
    /\ "wrote" \in DOMAIN cleanup
    /\ cleanup.wrote => purge.at = "idle"
    /\ PurgeOnlyWhenDue

\* At first neither job holds the row of the event.
LEMMA InitLock == Init => LockInv
BY DEF Init, LockInv, PurgeOnlyWhenDue, NoPurge, NoCleanup

\* Requests commit only while nobody holds the row.
LEMMA RequestsLock == ASSUME LockInv, Requests PROVE LockInv'
BY DEF Requests, CommitClose, CommitDelete, CommitExtend, Commits, EventFree, LockInv,
       PurgeOnlyWhenDue

\* Uploads and deletions of photos leave the row of the event alone.
LEMMA MembersLock ==
    ASSUME LockInv, NEW p \in Photo,
           \/ SaveOriginal(p) \/ SavePreview(p) \/ CommitPhoto(p) \/ SaveFails(p) \/ UndoSave(p)
           \/ DropOriginal(p) \/ DropPreview(p) \/ DropRow(p) \/ DropFails(p)
    PROVE  LockInv'
<1>1. UNCHANGED <<event, purge, cleanup>>
  BY DEF SaveOriginal, SavePreview, CommitPhoto, SaveFails, UndoSave, DropOriginal,
         DropPreview, DropRow, DropFails, Upload
<1> QED
  BY <1>1 DEF LockInv, PurgeOnlyWhenDue, Expired, Limit, Later

\* The job takes a row that is free, at a time when it is due, and lets go of it when
\* it writes it.
LEMMA PurgesLock ==
    ASSUME LockInv, Purges \/ PurgeObjectFails \/ CrashPurge
    PROVE  LockInv'
<1>1. CASE StartPurge
  <2>1. EventFree /\ event' = event /\ cleanup' = cleanup
    BY <1>1 DEF StartPurge, PurgeSteps
  <2>2. purge'.at = "delete" => purge'.when = now /\ Expired(event, now)
    <3>1. CASE Expired(event, now)
      BY <1>1, <3>1 DEF StartPurge, PurgeSteps, NoPurge
    <3>2. CASE ~Expired(event, now)
      BY <1>1, <3>2 DEF StartPurge, PurgeSteps, NoPurge
    <3> QED
      BY <3>1, <3>2
  <2> QED
    BY <2>1, <2>2 DEF EventFree, LockInv, PurgeOnlyWhenDue, Expired, Limit, Later
<1>2. ASSUME NEW o \in purge.todo, PurgeObject(o) PROVE LockInv'
  <2>1. purge'.at = purge.at /\ purge'.when = purge.when
    BY <1>2 DEF PurgeObject, PurgeSteps
  <2> QED
    BY <1>2, <2>1 DEF PurgeObject, PurgeSteps, LockInv, PurgeOnlyWhenDue, Expired, Limit, Later
<1>3. CASE PurgeObjectFails
  BY <1>3 DEF PurgeObjectFails, PurgeSteps, LockInv, PurgeOnlyWhenDue
<1>4. CASE CommitPurge \/ CommitWarning \/ CrashPurge
  BY <1>4 DEF CommitPurge, CommitWarning, CrashPurge, PurgeSteps, NoPurge, LockInv,
              PurgeOnlyWhenDue
<1> QED
  BY <1>1, <1>2, <1>3, <1>4 DEF Purges

\* The cleanup writes the event only while nobody else holds it.
LEMMA CleanupsLock ==
    ASSUME LockInv, Cleanups \/ CrashCleanup
    PROVE  LockInv'
<1>1. ASSUME NEW t \in Group, StartCleanup(t) PROVE LockInv'
  <2>1. event' = event /\ purge' = purge
    BY <1>1 DEF StartCleanup, CleanupSteps
  <2>2. PICK a : cleanup' = [at |-> a, when |-> now, task |-> t, status |-> chat[t],
                             wrote |-> Refreshed # event, mine |-> Refreshed,
                             deleted |-> FALSE]
    BY <1>1, Zenon DEF StartCleanup, CleanupSteps
  <2>3. cleanup'.wrote => EventFree
    <3>1. cleanup'.wrote <=> (Refreshed # event)
      BY <2>2
    <3>2. (Refreshed # event) => EventFree
      BY <1>1 DEF StartCleanup
    <3> QED
      BY <3>1, <3>2
  <2>4. "wrote" \in DOMAIN cleanup'
    BY <2>2
  <2> QED
    BY <2>1, <2>3, <2>4 DEF EventFree, LockInv, PurgeOnlyWhenDue, Expired, Limit, Later
<1>2. CASE DeleteGroup
  <2>1. event' = event /\ purge' = purge
    BY <1>2 DEF DeleteGroup, CleanupSteps
  <2>2. cleanup'.wrote = cleanup.wrote /\ "wrote" \in DOMAIN cleanup'
    BY <1>2 DEF DeleteGroup, CleanupSteps, LockInv
  <2> QED
    BY <2>1, <2>2 DEF LockInv, PurgeOnlyWhenDue, Expired, Limit, Later
<1>3. CASE CommitCleanup
  <2>1. ~cleanup'.wrote /\ "wrote" \in DOMAIN cleanup' /\ purge' = purge
    BY <1>3 DEF CommitCleanup, CleanupSteps, NoCleanup
  <2>2. CASE cleanup.wrote
    BY <2>1, <2>2 DEF LockInv, PurgeOnlyWhenDue
  <2>3. CASE ~cleanup.wrote
    <3>1. event' = event
      BY <1>3, <2>3 DEF CommitCleanup
    <3> QED
      BY <2>1, <3>1 DEF LockInv, PurgeOnlyWhenDue, Expired, Limit, Later
  <2> QED
    BY <2>2, <2>3
<1>4. CASE CrashCleanup
  BY <1>4 DEF CrashCleanup, CleanupSteps, NoCleanup, LockInv, PurgeOnlyWhenDue, Expired,
              Limit, Later
<1> QED
  BY <1>1, <1>2, <1>3, <1>4 DEF Cleanups

\* A change of a status changes nothing else that is proved about.
LEMMA TurnsOnlyChat ==
    ASSUME ChatTurns
    PROVE  UNCHANGED <<now, event, closedAt, exists, reported, row, objects, gone, request,
                       upload, saved, purge, cleanup, torn, condemned>>
BY DEF ChatTurns, DegradeChat, RecoverChat, ConfigureChat, Turns, ghosts

\* Every step keeps LockInv.
LEMMA NextLock == LockInv /\ [Next]_vars => LockInv'
<1> SUFFICES ASSUME LockInv, [Next]_vars PROVE LockInv'
  OBVIOUS
<1>1. CASE Requests
  BY <1>1, RequestsLock
<1>2. CASE \E p \in Photo : \/ SaveOriginal(p) \/ SavePreview(p) \/ CommitPhoto(p)
                            \/ SaveFails(p) \/ UndoSave(p) \/ DropOriginal(p)
                            \/ DropPreview(p) \/ DropRow(p) \/ DropFails(p)
  BY <1>2, MembersLock
<1>3. CASE Purges \/ PurgeObjectFails \/ CrashPurge
  BY <1>3, PurgesLock
<1>4. CASE Cleanups \/ CrashCleanup
  BY <1>4, CleanupsLock
<1>5. CASE \/ Tick \/ UNCHANGED vars
           \/ \E t \in Task : StartClose(t) \/ StartDelete(t)
           \/ \E until \in Extensions : StartExtend(until)
  <2>1. UNCHANGED <<event, purge, cleanup>>
    BY <1>5 DEF Tick, StartClose, StartDelete, StartExtend, Begin, vars, database
  <2> QED
    BY <2>1 DEF LockInv, PurgeOnlyWhenDue, Expired, Limit, Later
<1>6. CASE ChatTurns
  BY <1>6, TurnsOnlyChat DEF LockInv, PurgeOnlyWhenDue, Expired, Limit, Later
<1> QED
  BY <1>1, <1>2, <1>3, <1>4, <1>5, <1>6 DEF Next, Uploads

\* process_archive_retention never purges an event that was extended, or had a task
\* closed, after it looked at the limit: FOR UPDATE holds the row until it commits.
THEOREM PurgeIsDue == Spec => []PurgeOnlyWhenDue
<1>1. LockInv => PurgeOnlyWhenDue
  BY DEF LockInv
<1> QED
  BY <1>1, InitLock, NextLock, PTL DEF Spec
-------------------------------------------------------------------------------
(* The photos.                                                                *)

\* Photos that are being added have no row and are not known to the retention job.
NewPhotoInv ==
    /\ DOMAIN purge = DOMAIN NoPurge
    /\ row \subseteq saved
    /\ purge.photos \subseteq saved
    /\ purge.todo \subseteq purge.photos \X Part
    /\ \A p \in Photo : upload[p] # "idle" => p \in saved
    /\ \A p \in Photo : upload[p] \in {"preview", "row"} => p \notin row \cup purge.photos

\* What a member has done so far.
ProgressInv ==
    /\ \A p \in Photo : upload[p] \in {"preview", "row"} => <<p, "original">> \in objects
    /\ \A p \in Photo : upload[p] = "row" => <<p, "preview">> \in objects
    /\ \A p \in Photo : upload[p] = "undo" /\ p \in row => p \in torn
    /\ \A p \in Photo : upload[p] \in {"drop_preview", "drop_row"} /\ p \in row => p \in torn

PhotoType ==
    /\ upload \in [Photo -> UploadPoint] /\ row \subseteq Photo
    /\ saved \subseteq Photo /\ torn \subseteq Photo

\* ArchiveIsReadable, object by object.
Readable ==
    \A p \in row \ (torn \cup condemned) : \A part \in Part : <<p, part>> \in objects

\* The archive is readable when every part of every photo is stored.
LEMMA ReadableParts == Readable <=> ArchiveIsReadable
<1>1. ASSUME NEW p PROVE PartsOf(p) \subseteq objects <=> \A part \in Part : <<p, part>> \in objects
  BY DEF PartsOf
<1> QED
  BY <1>1 DEF Readable, ArchiveIsReadable

PhotoInv == PhotoType /\ NewPhotoInv /\ ProgressInv /\ Readable

\* At first there are no photos.
LEMMA InitPhotos == Init => PhotoInv
BY DEF Init, PhotoInv, PhotoType, NewPhotoInv, ProgressInv, Readable, NoPurge, UploadPoint

\* A photo is added: original, preview, row.
LEMMA SavesPhotos ==
    ASSUME PhotoInv, NEW p \in Photo, SaveOriginal(p) \/ SavePreview(p) \/ CommitPhoto(p)
    PROVE  PhotoInv'
<1>1. CASE SaveOriginal(p)
  <2>1. /\ upload[p] = "idle" /\ upload' = [upload EXCEPT ![p] = "preview"]
        /\ p \notin saved /\ saved' = saved \cup {p}
        /\ objects' = objects \cup {<<p, "original">>}
        /\ UNCHANGED <<row, purge, torn, condemned>>
    BY <1>1 DEF SaveOriginal, Upload, Stores, AfterOriginal
  <2>2. PhotoType'
    BY <2>1 DEF PhotoInv, PhotoType, UploadPoint
  <2>3. NewPhotoInv'
    BY <2>1 DEF PhotoInv, PhotoType, NewPhotoInv
  <2>4. ProgressInv'
    BY <2>1 DEF PhotoInv, PhotoType, ProgressInv
  <2>5. Readable'
    BY <2>1 DEF PhotoInv, Readable
  <2> QED
    BY <2>2, <2>3, <2>4, <2>5 DEF PhotoInv
<1>2. CASE SavePreview(p)
  <2>1. /\ upload[p] = "preview" /\ upload' = [upload EXCEPT ![p] = "row"]
        /\ objects' = objects \cup {<<p, "preview">>}
        /\ UNCHANGED <<row, saved, purge, torn, condemned>>
    BY <1>2 DEF SavePreview, Upload, Stores
  <2>2. PhotoType'
    BY <2>1 DEF PhotoInv, PhotoType, UploadPoint
  <2>3. NewPhotoInv'
    BY <2>1 DEF PhotoInv, PhotoType, NewPhotoInv
  <2>4. ProgressInv'
    BY <2>1 DEF PhotoInv, PhotoType, ProgressInv
  <2>5. Readable'
    BY <2>1 DEF PhotoInv, Readable
  <2> QED
    BY <2>2, <2>3, <2>4, <2>5 DEF PhotoInv
<1>3. CASE CommitPhoto(p)
  <2>1. /\ upload[p] = "row" /\ upload' = [upload EXCEPT ![p] = "idle"]
        /\ row' = row \cup {p}
        /\ UNCHANGED <<objects, saved, purge, torn, condemned>>
    BY <1>3 DEF CommitPhoto, Upload, Inserts
  <2>2. PhotoType'
    BY <2>1 DEF PhotoInv, PhotoType, UploadPoint
  <2>3. NewPhotoInv'
    BY <2>1 DEF PhotoInv, PhotoType, NewPhotoInv
  <2>4. ProgressInv'
    BY <2>1 DEF PhotoInv, PhotoType, ProgressInv
  <2>5. Readable'
    BY <2>1 DEF PhotoInv, ProgressInv, Readable, Part
  <2> QED
    BY <2>2, <2>3, <2>4, <2>5 DEF PhotoInv
<1> QED
  BY <1>1, <1>2, <1>3

\* Adding a photo fails.  When the row was inserted all the same and the objects will be
\* taken back, the photo counts as one that somebody began to delete.
LEMMA FailuresPhotos ==
    ASSUME PhotoInv, NEW p \in Photo, SaveFails(p) \/ UndoSave(p)
    PROVE  PhotoInv'
<1>1. CASE SaveFails(p)
  <2>1. PICK from \in {"preview", "row"}, to \in {"undo", "idle"} :
            upload[p] = from /\ upload' = [upload EXCEPT ![p] = to]
    BY <1>1 DEF SaveFails, Upload
  <2>2. UNCHANGED <<objects, saved, purge, condemned>>
    BY <1>1 DEF SaveFails, Upload
  <2>3. \/ UNCHANGED <<row, torn>>
        \/ /\ upload[p] = "row" /\ row' = row \cup {p}
           /\ torn' = IF to = "undo" THEN torn \cup {p} ELSE torn
    <3>1. upload'[p] = to
      BY <2>1 DEF PhotoInv, PhotoType
    <3> QED
      BY <1>1, <3>1 DEF SaveFails, Inserts
  <2>4. PhotoType'
    BY <2>1, <2>2, <2>3 DEF PhotoInv, PhotoType, UploadPoint
  <2>5. NewPhotoInv'
    BY <2>1, <2>2, <2>3 DEF PhotoInv, PhotoType, NewPhotoInv
  <2>6. ProgressInv'
    BY <2>1, <2>2, <2>3 DEF PhotoInv, PhotoType, NewPhotoInv, ProgressInv
  <2>7. Readable'
    BY <2>1, <2>2, <2>3 DEF PhotoInv, ProgressInv, Readable, Part
  <2> QED
    BY <2>4, <2>5, <2>6, <2>7 DEF PhotoInv
<1>2. CASE UndoSave(p)
  <2>1. /\ upload[p] = "undo" /\ upload' = [upload EXCEPT ![p] = "idle"]
        /\ \A o \in objects : o \notin PartsOf(p) => o \in objects'
        /\ UNCHANGED <<row, saved, purge, torn, condemned>>
    BY <1>2 DEF UndoSave, Upload
  <2>2. ASSUME NEW q \in Photo \ {p}, NEW part, <<q, part>> \in objects PROVE <<q, part>> \in objects'
    BY <2>1, <2>2 DEF PartsOf
  <2>3. PhotoType'
    BY <2>1 DEF PhotoInv, PhotoType, UploadPoint
  <2>4. NewPhotoInv'
    BY <2>1 DEF PhotoInv, PhotoType, NewPhotoInv
  <2>5. ProgressInv'
    BY <2>1, <2>2 DEF PhotoInv, PhotoType, ProgressInv
  <2>6. Readable'
    BY <2>1, <2>2 DEF PhotoInv, PhotoType, ProgressInv, Readable
  <2> QED
    BY <2>3, <2>4, <2>5, <2>6 DEF PhotoInv
<1> QED
  BY <1>1, <1>2

\* delete_report_photo: the photo counts as begun from the first object on.
LEMMA DropsPhotos ==
    ASSUME PhotoInv, NEW p \in Photo,
           DropOriginal(p) \/ DropPreview(p) \/ DropRow(p) \/ DropFails(p)
    PROVE  PhotoInv'
<1>1. CASE DropOriginal(p)
  <2>1. /\ upload[p] = "idle" /\ upload' = [upload EXCEPT ![p] = "drop_preview"]
        /\ p \in row /\ torn' = torn \cup {p}
        /\ objects' = objects \ {<<p, "original">>}
        /\ UNCHANGED <<row, saved, purge, condemned>>
    BY <1>1 DEF DropOriginal, Upload, Removes
  <2>2. PhotoType'
    BY <2>1 DEF PhotoInv, PhotoType, UploadPoint
  <2>3. NewPhotoInv'
    BY <2>1 DEF PhotoInv, PhotoType, NewPhotoInv
  <2>4. ProgressInv'
    BY <2>1 DEF PhotoInv, PhotoType, ProgressInv
  <2>5. Readable'
    BY <2>1 DEF PhotoInv, Readable
  <2> QED
    BY <2>2, <2>3, <2>4, <2>5 DEF PhotoInv
<1>2. CASE DropPreview(p)
  <2>1. /\ upload[p] = "drop_preview" /\ upload' = [upload EXCEPT ![p] = "drop_row"]
        /\ objects' = objects \ {<<p, "preview">>}
        /\ UNCHANGED <<row, saved, purge, torn, condemned>>
    BY <1>2 DEF DropPreview, Upload, Removes
  <2>2. PhotoType'
    BY <2>1 DEF PhotoInv, PhotoType, UploadPoint
  <2>3. NewPhotoInv'
    BY <2>1 DEF PhotoInv, PhotoType, NewPhotoInv
  <2>4. ProgressInv'
    BY <2>1 DEF PhotoInv, PhotoType, ProgressInv
  <2>5. Readable'
    BY <2>1 DEF PhotoInv, PhotoType, ProgressInv, Readable
  <2> QED
    BY <2>2, <2>3, <2>4, <2>5 DEF PhotoInv
<1>3. CASE DropRow(p)
  <2>1. /\ upload[p] = "drop_row" /\ upload' = [upload EXCEPT ![p] = "idle"]
        /\ row' = row \ {p} /\ torn' = torn \ {p}
        /\ UNCHANGED <<objects, saved, purge, condemned>>
    BY <1>3 DEF DropRow, Upload
  <2>2. PhotoType'
    BY <2>1 DEF PhotoInv, PhotoType, UploadPoint
  <2>3. NewPhotoInv'
    BY <2>1 DEF PhotoInv, PhotoType, NewPhotoInv
  <2>4. ProgressInv'
    BY <2>1 DEF PhotoInv, PhotoType, ProgressInv
  <2>5. Readable'
    BY <2>1 DEF PhotoInv, Readable
  <2> QED
    BY <2>2, <2>3, <2>4, <2>5 DEF PhotoInv
<1>4. CASE DropFails(p)
  <2>1. /\ upload' = [upload EXCEPT ![p] = "idle"]
        /\ UNCHANGED <<objects, row, saved, purge, torn, condemned>>
    BY <1>4 DEF DropFails, Upload
  <2>2. PhotoType'
    BY <2>1 DEF PhotoInv, PhotoType, UploadPoint
  <2>3. NewPhotoInv'
    BY <2>1 DEF PhotoInv, PhotoType, NewPhotoInv
  <2>4. ProgressInv'
    BY <2>1 DEF PhotoInv, PhotoType, ProgressInv
  <2>5. Readable'
    BY <2>1 DEF PhotoInv, Readable
  <2> QED
    BY <2>2, <2>3, <2>4, <2>5 DEF PhotoInv
<1> QED
  BY <1>1, <1>2, <1>3, <1>4

\* The retention job condemns a photo before its first object goes.
LEMMA PurgesPhotos ==
    ASSUME PhotoInv, Purges \/ PurgeObjectFails \/ CrashPurge
    PROVE  PhotoInv'
<1>1. UNCHANGED <<upload, saved, torn>>
  BY DEF Purges, StartPurge, PurgeObject, CommitPurge, CommitWarning, PurgeObjectFails,
         CrashPurge, PurgeSteps
<1>2. CASE StartPurge
  <2>1. UNCHANGED <<row, objects, condemned>>
    BY <1>2 DEF StartPurge
  <2>2. \/ purge'.photos = row /\ purge'.todo = row \X Part
        \/ purge'.photos = {} /\ purge'.todo = {}
    <3>1. CASE Expired(event, now)
      BY <1>2, <3>1 DEF StartPurge, PurgeSteps
    <3>2. CASE ~Expired(event, now)
      BY <1>2, <3>2 DEF StartPurge, PurgeSteps, NoPurge
    <3> QED
      BY <3>1, <3>2
  <2>3. DOMAIN purge' = DOMAIN NoPurge
    <3>1. CASE Expired(event, now)
      BY <1>2, <3>1 DEF StartPurge, PurgeSteps, NoPurge
    <3>2. CASE ~Expired(event, now)
      BY <1>2, <3>2 DEF StartPurge, PurgeSteps, NoPurge
    <3> QED
      BY <3>1, <3>2
  <2> QED
    BY <1>1, <2>1, <2>2, <2>3 DEF PhotoInv, PhotoType, NewPhotoInv, ProgressInv, Readable
<1>3. ASSUME NEW o \in purge.todo, PurgeObject(o) PROVE PhotoInv'
  <2>1. /\ objects' = objects \ {o} /\ condemned' = condemned \cup {o[1]} /\ row' = row
        /\ purge' = [purge EXCEPT !.todo = @ \ {o}]
    BY <1>3 DEF PurgeObject, PurgeSteps
  <2>2. purge'.photos = purge.photos /\ purge'.todo = purge.todo \ {o} /\ DOMAIN purge' = DOMAIN NoPurge
    BY <2>1 DEF PhotoInv, NewPhotoInv, NoPurge
  <2>3. PICK q \in purge.photos, part \in Part : o = <<q, part>>
    BY DEF PhotoInv, NewPhotoInv
  <2>4. \A p \in Photo : upload[p] \in {"preview", "row"} => p # q
    BY DEF PhotoInv, NewPhotoInv
  <2>5. PhotoType' /\ NewPhotoInv'
    BY <1>1, <2>1, <2>2 DEF PhotoInv, PhotoType, NewPhotoInv
  <2>6. ProgressInv'
    BY <1>1, <2>1, <2>3, <2>4 DEF PhotoInv, PhotoType, ProgressInv
  <2>7. Readable'
    BY <1>1, <2>1, <2>3 DEF PhotoInv, Readable
  <2> QED
    BY <2>5, <2>6, <2>7 DEF PhotoInv
<1>4. CASE PurgeObjectFails
  <2>1. UNCHANGED <<row, objects, condemned>>
    BY <1>4 DEF PurgeObjectFails
  <2>2. purge'.photos = purge.photos /\ purge'.todo = purge.todo /\ DOMAIN purge' = DOMAIN NoPurge
    BY <1>4 DEF PurgeObjectFails, PurgeSteps, PhotoInv, NewPhotoInv, NoPurge
  <2> QED
    BY <1>1, <2>1, <2>2 DEF PhotoInv, PhotoType, NewPhotoInv, ProgressInv, Readable
<1>5. CASE CommitPurge
  <2>1. /\ row' = row \ purge.photos /\ condemned' = condemned \ purge.photos
        /\ objects' = objects /\ purge' = NoPurge
    BY <1>5 DEF CommitPurge, PurgeSteps
  <2> QED
    BY <1>1, <2>1 DEF PhotoInv, PhotoType, NewPhotoInv, ProgressInv, Readable, NoPurge
<1>6. CASE CommitWarning \/ CrashPurge
  <2>1. UNCHANGED <<row, objects, condemned>> /\ purge' = NoPurge
    BY <1>6 DEF CommitWarning, CrashPurge, PurgeSteps
  <2> QED
    BY <1>1, <2>1 DEF PhotoInv, PhotoType, NewPhotoInv, ProgressInv, Readable, NoPurge
<1> QED
  BY <1>2, <1>3, <1>4, <1>5, <1>6 DEF Purges

\* What is left deletes rows of photos nobody is adding, or none.
LEMMA OthersPhotos ==
    ASSUME PhotoInv,
           \/ Requests \/ Cleanups \/ CrashCleanup \/ ChatTurns \/ Tick \/ UNCHANGED vars
           \/ \E t \in Task : StartClose(t) \/ StartDelete(t)
           \/ \E until \in Extensions : StartExtend(until)
    PROVE  PhotoInv'
<1>1. UNCHANGED <<upload, objects, saved, purge, torn, condemned>>
  BY TurnsOnlyChat DEF Requests, CommitClose, CommitDelete, CommitExtend, Commits, Cleanups, StartCleanup,
         DeleteGroup, CommitCleanup, CrashCleanup, CleanupSteps, Tick, StartClose, StartDelete,
         StartExtend, Begin, vars, ghosts
<1>2. row' \subseteq row
  BY TurnsOnlyChat DEF Requests, CommitClose, CommitDelete, CommitExtend, Cleanups, StartCleanup,
         DeleteGroup, CommitCleanup, CrashCleanup, CleanupSteps, Tick, StartClose, StartDelete,
         StartExtend, Begin, vars, database
<1> QED
  BY <1>1, <1>2 DEF PhotoInv, PhotoType, NewPhotoInv, ProgressInv, Readable

\* Every step keeps PhotoInv.
LEMMA NextPhotos == PhotoInv /\ [Next]_vars => PhotoInv'
<1> SUFFICES ASSUME PhotoInv, [Next]_vars PROVE PhotoInv'
  OBVIOUS
<1>1. CASE \E p \in Photo : SaveOriginal(p) \/ SavePreview(p) \/ CommitPhoto(p)
  BY <1>1, SavesPhotos
<1>2. CASE \E p \in Photo : SaveFails(p) \/ UndoSave(p)
  BY <1>2, FailuresPhotos
<1>3. CASE \E p \in Photo : DropOriginal(p) \/ DropPreview(p) \/ DropRow(p) \/ DropFails(p)
  BY <1>3, DropsPhotos
<1>4. CASE Purges \/ PurgeObjectFails \/ CrashPurge
  BY <1>4, PurgesPhotos
<1>5. CASE \/ Requests \/ Cleanups \/ CrashCleanup \/ ChatTurns \/ Tick \/ UNCHANGED vars
           \/ \E t \in Task : StartClose(t) \/ StartDelete(t)
           \/ \E until \in Extensions : StartExtend(until)
  BY <1>5, OthersPhotos
<1> QED
  BY <1>1, <1>2, <1>3, <1>4, <1>5 DEF Next, Uploads

\* report_photo_save puts both objects in storage before it writes the row, and both
\* deletions start with the photo they have named: whatever fails, crashes or happens
\* in between, a photo in the archive that nobody began to delete can be read.
THEOREM ArchiveReadable == Spec => []ArchiveIsReadable
<1>1. PhotoInv => ArchiveIsReadable
  BY ReadableParts DEF PhotoInv
<1> QED
  BY <1>1, InitPhotos, NextPhotos, PTL DEF Spec
-------------------------------------------------------------------------------
(* The groups.                                                                *)

\* A request closes its task with a time that is at most a tick old, so that a member
\* who began while the task was open is done two ticks after its closure.
TimeInv ==
    /\ now \in Nat \ {0}
    /\ closedAt \in [Task -> Nat]
    /\ DOMAIN request = Task \cup {Admin}
    /\ \A t \in Task : request[t].op = "close" =>
           request[t].when \in Nat \ {0} /\ now <= request[t].when + 1
    /\ \A t \in Task : request[t].op = "delete" => t \notin Group
    /\ \A p \in Photo : upload[p] # "idle" /\ closedAt[TaskOf[p]] # Never =>
           now <= closedAt[TaskOf[p]] + 1

\* The archive of a task is as the cleanup job found it: nobody is at its photos.
Verified(t) ==
    /\ t \in Group /\ Closed(t)
    /\ \A p \in PhotosOf(t) :
           /\ upload[p] = "idle"
           /\ p \in row \ condemned => \A part \in Part : <<p, part>> \in objects

VerifiedInv ==
    /\ DOMAIN cleanup = DOMAIN NoCleanup
    /\ cleanup.at = "delete" => Verified(cleanup.task)

GroupInv == PhotoType /\ TimeInv /\ VerifiedInv

\* At first no task is closed, so no cleanup is under way.
LEMMA InitGroups == Init => GroupInv
BY TaskAssumption
   DEF Init, GroupInv, PhotoType, TimeInv, VerifiedInv, NoRequest, NoCleanup, Never, UploadPoint

\* What archive_is_persisted accepts has all its parts.
LEMMA PersistedParts ==
    ASSUME NEW t, Persisted(t)
    PROVE  \A p \in PhotosOf(t) : p \in row => \A part \in Part : <<p, part>> \in objects
BY DEF Persisted, PartsOf

\* A request that begins remembers the time.
LEMMA BeginGroups ==
    ASSUME GroupInv,
           \/ \E t \in Task : StartClose(t) \/ StartDelete(t)
           \/ \E until \in Extensions : StartExtend(until)
    PROVE  GroupInv'
<1>1. UNCHANGED <<now, closedAt, exists, row, objects, upload, saved, cleanup, torn, condemned>>
  BY DEF StartClose, StartDelete, StartExtend, Begin, database, ghosts
<1>2. ASSUME NEW r, NEW op, NEW e, Begin(r, op, e), op = "delete" => r \notin Group
      PROVE  TimeInv'
  <2>1. request' = [request EXCEPT ![r] = [op |-> op, when |-> now, seen |-> event, mine |-> e]]
    BY <1>2 DEF Begin
  <2> QED
    BY <1>1, <1>2, <2>1 DEF GroupInv, TimeInv
<1>3. TimeInv'
  <2>1. CASE \E t \in Task : StartClose(t)
    <3>1. PICK t \in Task : StartClose(t)
      BY <2>1
    <3>2. Begin(t, "close", Retained(event, ClosuresBut(t) \cup {now}))
      BY <3>1 DEF StartClose
    <3> QED
      BY <1>2, <3>2
  <2>2. CASE \E t \in Task : StartDelete(t)
    <3>1. PICK t \in Task : StartDelete(t)
      BY <2>2
    <3>2. Begin(t, "delete", Retained(event, ClosuresBut(t))) /\ t \notin Group
      BY <3>1 DEF StartDelete
    <3> QED
      BY <1>2, <3>2
  <2>3. CASE \E until \in Extensions : StartExtend(until)
    <3>1. PICK until \in Extensions : StartExtend(until)
      BY <2>3
    <3>2. Begin(Admin, "extend", [event EXCEPT !.extended = until, !.warned = FALSE])
      BY <3>1 DEF StartExtend
    <3> QED
      BY <1>2, <3>2
  <2> QED
    BY <2>1, <2>2, <2>3
<1> QED
  BY <1>1, <1>3 DEF GroupInv, PhotoType, VerifiedInv, Verified, Closed, PhotosOf

\* Requests that close or delete tasks keep GroupInv.
LEMMA RequestsGroups ==
    ASSUME GroupInv, Requests
    PROVE  GroupInv'
<1>1. UNCHANGED <<now, objects, upload, saved, cleanup, torn, condemned>>
  BY DEF Requests, CommitClose, CommitDelete, CommitExtend, Commits, ghosts
<1>2. PICK r : request' = [request EXCEPT ![r] = NoRequest]
  BY DEF Requests, CommitClose, CommitDelete, CommitExtend, Commits
<1>3. PhotoType' /\ row' \subseteq row
  BY <1>1 DEF GroupInv, PhotoType, Requests, CommitClose, CommitDelete, CommitExtend
<1>4. CASE \E t \in Task : CommitClose(t)
  <2>1. PICK t \in Task : /\ request[t].op = "close" /\ exists' = exists
                          /\ closedAt' = [closedAt EXCEPT ![t] = request[t].when]
    BY <1>4 DEF CommitClose, Commits
  <2>2. TimeInv'
    BY <1>1, <1>2, <2>1, TaskAssumption DEF GroupInv, PhotoType, TimeInv, NoRequest, Never
  <2>3. VerifiedInv'
    BY <1>1, <1>3, <2>1, TaskAssumption
       DEF GroupInv, TimeInv, VerifiedInv, Verified, Closed, PhotosOf, Never
  <2> QED
    BY <1>3, <2>2, <2>3 DEF GroupInv
<1>5. CASE \E t \in Task : CommitDelete(t)
  <2>1. PICK t \in Task : /\ request[t].op = "delete" /\ exists' = exists \ {t}
                          /\ closedAt' = closedAt
    BY <1>5 DEF CommitDelete, Commits
  <2>2. TimeInv'
    BY <1>1, <1>2, <2>1 DEF GroupInv, TimeInv, NoRequest
  <2>3. VerifiedInv'
    BY <1>1, <1>3, <2>1 DEF GroupInv, TimeInv, VerifiedInv, Verified, Closed, PhotosOf
  <2> QED
    BY <1>3, <2>2, <2>3 DEF GroupInv
<1>6. CASE CommitExtend
  <2>1. UNCHANGED <<closedAt, exists>>
    BY <1>6 DEF CommitExtend
  <2>2. TimeInv'
    BY <1>1, <1>2, <2>1 DEF GroupInv, TimeInv, NoRequest
  <2>3. VerifiedInv'
    BY <1>1, <1>3, <2>1 DEF GroupInv, VerifiedInv, Verified, Closed, PhotosOf
  <2> QED
    BY <1>3, <2>2, <2>3 DEF GroupInv
<1> QED
  BY <1>4, <1>5, <1>6 DEF Requests

\* A member begins only at a task that is open, and goes on only where one has begun.
LEMMA MembersGroups ==
    ASSUME GroupInv, PhotoInv, PhotoInv', NEW p \in Photo,
           \/ SaveOriginal(p) \/ SavePreview(p) \/ CommitPhoto(p) \/ SaveFails(p) \/ UndoSave(p)
           \/ DropOriginal(p) \/ DropPreview(p) \/ DropRow(p) \/ DropFails(p)
    PROVE  GroupInv'
<1>1. /\ UNCHANGED <<now, closedAt, exists, request, cleanup, condemned>>
      /\ \E to : upload' = [upload EXCEPT ![p] = to]
  BY DEF SaveOriginal, SavePreview, CommitPhoto, SaveFails, UndoSave, DropOriginal,
         DropPreview, DropRow, DropFails, Upload
<1>2. upload[p] # "idle" \/ Open(TaskOf[p])
  BY DEF SaveOriginal, SavePreview, CommitPhoto, SaveFails, UndoSave, DropOriginal,
         DropPreview, DropRow, DropFails, Upload
<1>3. \A q \in Photo \ {p} :
          /\ q \in row' => q \in row
          /\ \A part \in Part : <<q, part>> \in objects => <<q, part>> \in objects'
  BY DEF SaveOriginal, SavePreview, CommitPhoto, SaveFails, UndoSave, DropOriginal,
         DropPreview, DropRow, DropFails, Stores, Removes, Inserts, PartsOf
<1>4. PhotoType'
  BY DEF PhotoInv
<1>5. TimeInv'
  BY <1>1, <1>2 DEF GroupInv, PhotoType, TimeInv, Open
<1>6. VerifiedInv'
  <2> SUFFICES ASSUME cleanup.at = "delete" PROVE Verified(cleanup.task)'
    BY <1>1 DEF GroupInv, VerifiedInv
  <2>1. Verified(cleanup.task)
    BY DEF GroupInv, VerifiedInv
  <2>2. p \notin PhotosOf(cleanup.task)
    BY <1>2, <2>1 DEF Verified, Open, Closed, PhotosOf
  <2> QED
    BY <1>1, <1>3, <2>1, <2>2 DEF GroupInv, PhotoType, Verified, Closed, PhotosOf
<1> QED
  BY <1>4, <1>5, <1>6 DEF GroupInv

\* What the retention job takes away is condemned, or has no row any more.
LEMMA PurgesGroups ==
    ASSUME GroupInv, PhotoInv, PhotoInv', Purges \/ PurgeObjectFails \/ CrashPurge
    PROVE  GroupInv'
<1>1. UNCHANGED <<now, closedAt, exists, request, upload, cleanup>>
  BY DEF Purges, StartPurge, PurgeObject, CommitPurge, CommitWarning, PurgeObjectFails,
         CrashPurge, PurgeSteps
<1>2. \A p \in row' \ condemned' :
          /\ p \in row \ condemned
          /\ \A part \in Part : <<p, part>> \in objects => <<p, part>> \in objects'
  <2>1. ASSUME NEW o \in purge.todo, PurgeObject(o)
        PROVE  row' = row /\ condemned' = condemned \cup {o[1]} /\ objects' = objects \ {o}
    BY <2>1 DEF PurgeObject, PurgeSteps
  <2>2. CASE CommitPurge
    BY <2>2 DEF CommitPurge, PurgeSteps
  <2>3. CASE StartPurge \/ CommitWarning \/ PurgeObjectFails \/ CrashPurge
    BY <2>3 DEF StartPurge, CommitWarning, PurgeObjectFails, CrashPurge, PurgeSteps
  <2> QED
    BY <2>1, <2>2, <2>3 DEF Purges
<1>3. TimeInv'
  BY <1>1 DEF GroupInv, TimeInv
<1> QED
  BY <1>1, <1>2, <1>3 DEF GroupInv, PhotoInv, VerifiedInv, Verified, Closed, PhotosOf

\* The cleanup job looks at the archive when members are done with it.
LEMMA CleanupsGroups ==
    ASSUME GroupInv, Cleanups \/ CrashCleanup
    PROVE  GroupInv'
<1>1. UNCHANGED <<now, closedAt, exists, row, objects, request, upload, saved, torn, condemned>>
  BY DEF Cleanups, StartCleanup, DeleteGroup, CommitCleanup, CrashCleanup, CleanupSteps, ghosts
<1>2. PhotoType' /\ TimeInv'
  BY <1>1 DEF GroupInv, PhotoType, TimeInv
<1>3. VerifiedInv'
  <2>1. ASSUME NEW t \in Group, StartCleanup(t) PROVE VerifiedInv'
    <3>1. PICK a, w : /\ cleanup' = [at |-> a, when |-> now, task |-> t, status |-> chat[t],
                                    wrote |-> w, mine |-> Refreshed, deleted |-> FALSE]
                      /\ a = "delete" => Persisted(t)
      BY <2>1 DEF StartCleanup, CleanupSteps
    <3>2. Closed(t) /\ now >= closedAt[t] + CleanupDelay
      BY <2>1 DEF StartCleanup
    <3>3. \A p \in PhotosOf(t) : upload[p] = "idle"
      BY <3>2, TimeAssumption, TaskAssumption DEF GroupInv, TimeInv, PhotosOf, Closed
    <3> QED
      BY <1>1, <3>1, <3>2, <3>3, PersistedParts
         DEF VerifiedInv, Verified, Closed, PhotosOf, NoCleanup
  <2>2. CASE DeleteGroup
    <3>1. cleanup'.at = "commit" /\ DOMAIN cleanup' = DOMAIN cleanup
      BY <2>2 DEF DeleteGroup, CleanupSteps, GroupInv, VerifiedInv, NoCleanup
    <3> QED
      BY <3>1 DEF GroupInv, VerifiedInv, NoCleanup
  <2>3. CASE CommitCleanup \/ CrashCleanup
    BY <2>3 DEF CommitCleanup, CrashCleanup, CleanupSteps, VerifiedInv, NoCleanup
  <2> QED
    BY <2>1, <2>2, <2>3 DEF Cleanups
<1> QED
  BY <1>2, <1>3 DEF GroupInv

\* The clock waits for requests and for members.
LEMMA TickGroups == ASSUME GroupInv, Tick PROVE GroupInv'
<1>1. UNCHANGED <<closedAt, exists, row, objects, request, upload, saved, cleanup, torn, condemned>>
  BY DEF Tick, database, ghosts
<1>2. /\ now' = now + 1 /\ \A p \in Photo : upload[p] = "idle"
      /\ \A t \in Task : request[t].when \in {Never, now}
  BY DEF Tick
<1>3. TimeInv'
  BY <1>1, <1>2 DEF GroupInv, TimeInv, Never
<1> QED
  BY <1>1, <1>3 DEF GroupInv, PhotoType, VerifiedInv, Verified, Closed, PhotosOf

\* Every step keeps GroupInv.
LEMMA NextGroups ==
    GroupInv /\ PhotoInv /\ PhotoInv' /\ [Next]_vars => GroupInv'
<1> SUFFICES ASSUME GroupInv, PhotoInv, PhotoInv', [Next]_vars PROVE GroupInv'
  OBVIOUS
<1>1. CASE \/ \E t \in Task : StartClose(t) \/ StartDelete(t)
           \/ \E until \in Extensions : StartExtend(until)
  BY <1>1, BeginGroups
<1>2. CASE \E p \in Photo : \/ SaveOriginal(p) \/ SavePreview(p) \/ CommitPhoto(p)
                            \/ SaveFails(p) \/ UndoSave(p) \/ DropOriginal(p)
                            \/ DropPreview(p) \/ DropRow(p) \/ DropFails(p)
  BY <1>2, MembersGroups
<1>3. CASE Purges \/ PurgeObjectFails \/ CrashPurge
  BY <1>3, PurgesGroups
<1>4. CASE Requests
  BY <1>4, RequestsGroups
<1>5. CASE Cleanups \/ CrashCleanup
  BY <1>5, CleanupsGroups
<1>6. CASE Tick
  BY <1>6, TickGroups
<1>7. CASE UNCHANGED vars
  BY <1>7 DEF vars, database, ghosts, GroupInv, PhotoType, TimeInv, VerifiedInv, Verified,
              Closed, PhotosOf
<1>8. CASE ChatTurns
  BY <1>8, TurnsOnlyChat
     DEF GroupInv, PhotoType, TimeInv, VerifiedInv, Verified, Closed, PhotosOf
<1> QED
  BY <1>1, <1>2, <1>3, <1>4, <1>5, <1>6, <1>7, <1>8 DEF Next, Uploads

\* process_cleanup deletes a group after archive_is_persisted: by then nobody can add
\* photos to the task or delete them, so that the archive is still what it has seen,
\* but for what the retention job has begun to purge.
THEOREM GroupAfterArchive == Spec => GroupNeedsArchive
<1> DEFINE Archived == \A t \in gone' \ gone :
                           /\ Closed(t)
                           /\ \A p \in (row \ condemned) \cap PhotosOf(t) : PartsOf(p) \subseteq objects
<1>1. ASSUME GroupInv, [Next]_vars PROVE [Archived]_vars
  <2>1. CASE DeleteGroup
    <3>1. gone' \subseteq gone \cup {cleanup.task} /\ Verified(cleanup.task)
      BY <1>1, <2>1 DEF DeleteGroup, GroupInv, VerifiedInv
    <3> QED
      BY <3>1 DEF Verified, PartsOf
  <2>2. CASE ~DeleteGroup
    <3>1. gone' = gone
      BY <1>1, <2>2, TurnsOnlyChat DEF Next, Requests, Uploads, Purges, Cleanups, vars, Tick, StartClose,
         StartDelete, StartExtend, Begin, CommitClose, CommitDelete, CommitExtend, Commits,
         SaveOriginal, SavePreview, CommitPhoto, SaveFails, UndoSave, DropOriginal, DropPreview,
         DropRow, DropFails, Upload, StartPurge, PurgeObject, PurgeObjectFails, CommitPurge,
         CommitWarning, CrashPurge, PurgeSteps, StartCleanup, CommitCleanup, CrashCleanup
    <3> QED
      BY <3>1
  <2> QED
    BY <2>1, <2>2
<1> QED
  BY <1>1, InitPhotos, NextPhotos, InitGroups, NextGroups, PTL DEF Spec, GroupNeedsArchive
-------------------------------------------------------------------------------
(* Types, and the dates.                                                      *)

\* A date of deletion lies a whole retention period after some closure.
Dated(e) == e \in EventRow /\ (e.deleteAt = Never \/ e.deleteAt > Retention)

\* Whoever has read the event, or is about to write it, has a dated one.
RowsDated ==
    /\ Dated(event) /\ Dated(purge.mine) /\ Dated(cleanup.mine)
    /\ \A r \in Task \cup {Admin} : Dated(request[r].seen) /\ Dated(request[r].mine)

\* A task that a request or a member is at is not deleted meanwhile.
TasksStay ==
    /\ \A t \in Task : request[t].op \in {"close", "delete"} => t \in exists
    /\ \A p \in Photo : upload[p] \in {"preview", "row"} => p \in saved /\ TaskOf[p] \in exists
    /\ cleanup.at # "idle" => cleanup.task \in Group

TypeInv == TypeOK /\ RowsDated /\ TasksStay

Less == {ss \in Nat \X Nat : ss[1] < ss[2]}

\* The order of the natural numbers has minimal elements.
LEMMA LessWellFounded == IsWellFoundedOn(Less, Nat)
BY NatLessThanWellFounded DEF OpToRel, Less

\* Max of a set of days is one of them.
LEMMA MaxOfDays ==
    ASSUME NEW n \in Nat, NEW S \in SUBSET (1..n), S # {}
    PROVE  Max(S) \in S
<1> DEFINE T == {n - x : x \in S}
<1>1. \A x \in S : x \in 1..n /\ n - x \in Nat
  OBVIOUS
<1>2. T \subseteq Nat
  BY <1>1
<1>3. T # {}
  <2>1. PICK x : x \in S
    OBVIOUS
  <2>2. n - x \in T
    BY <2>1
  <2> QED
    BY <2>2
<1>4. PICK t \in T : \A u \in T : <<u, t>> \notin Less
  BY <1>2, <1>3, LessWellFounded, WFMin
<1>5. PICK x \in S : t = n - x
  OBVIOUS
<1>6. ASSUME NEW y \in S PROVE x >= y
  <2>1. n - y \in T /\ n - y \in Nat /\ t \in Nat
    BY <1>1, <1>2
  <2>2. ~(n - y < t)
    BY <1>4, <2>1 DEF Less
  <2> QED
    BY <1>1, <1>5, <2>2
<1> QED
  BY <1>6 DEF Max

\* The new date of deletion is a retention period after a closure.
LEMMA RetainedDated ==
    ASSUME NEW e, Dated(e), NEW closures \in SUBSET Day
    PROVE  Dated(Retained(e, closures))
<1>1. CASE closures = {}
  BY <1>1 DEF Retained, Dated, EventRow, Never
<1>2. CASE closures # {}
  <2>1. Max(closures) \in 1..LastDay
    BY <1>2, TimeAssumption, MaxOfDays DEF Day
  <2>2. Max(closures) + Retention \in Nat /\ Max(closures) + Retention > Retention
    BY <2>1, TimeAssumption
  <2> QED
    BY <1>2, <2>2 DEF Retained, Dated, EventRow
<1> QED
  BY <1>1, <1>2

\* A commit that writes only what differs leaves a dated event.
LEMMA MergeDated ==
    ASSUME NEW stored, NEW seen, NEW new, Dated(stored), Dated(seen), Dated(new)
    PROVE  Dated(Merge(stored, seen, new))
BY DEF Merge, Dated, EventRow

\* A new event has no date of deletion yet.
LEMMA NewEventDated == Dated(NewEvent)
BY DEF NewEvent, Dated, EventRow, Never

\* The closures of the other tasks are days.
LEMMA ClosuresType == ASSUME TypeOK, NEW t PROVE ClosuresBut(t) \in SUBSET Day
BY DEF ClosuresBut, Closed, TypeOK

\* The types and the dates hold at first.
LEMMA InitTypes == Init => TypeInv
<1> SUFFICES ASSUME Init PROVE TypeInv
  OBVIOUS
<1>1. NoRequest \in Request /\ NoPurge \in Purge
  BY NewEventDated DEF NoRequest, Request, NoPurge, Purge, Dated
<1>2. NoCleanup \in Cleanup /\ NoCleanup.at = "idle"
  BY NewEventDated, TaskAssumption DEF NoCleanup, Cleanup, ChatStatus, Dated
<1>3. RowsDated
  BY NewEventDated DEF Init, RowsDated, NoRequest, NoPurge, NoCleanup
<1>4. TasksStay
  BY <1>2 DEF Init, TasksStay, NoRequest
<1>5. TypeOK
  BY <1>1, <1>2, <1>3, TimeAssumption, BoundAssumption
     DEF Init, TypeOK, Day, UploadPoint, ChatStatus, NewEvent, RowsDated, Dated
<1> QED
  BY <1>3, <1>4, <1>5 DEF TypeInv

\* A request begins.
LEMMA BeginTypes ==
    ASSUME TypeInv,
           \/ \E t \in Task : StartClose(t) \/ StartDelete(t)
           \/ \E until \in Extensions : StartExtend(until)
    PROVE  TypeInv'
<1> USE DEF TypeInv
<1>1. ASSUME NEW r \in Task \cup {Admin}, NEW op \in {"close", "delete", "extend"}, NEW e,
             Dated(e), Begin(r, op, e), r \in Task /\ op \in {"close", "delete"} => r \in exists
      PROVE  TypeInv'
  <2> DEFINE new == [op |-> op, when |-> now, seen |-> event, mine |-> e]
  <2>1. new \in Request
    BY <1>1 DEF Request, TypeOK, Dated
  <2>2. Dated(new.seen) /\ Dated(new.mine) /\ new.op = op
    BY <1>1 DEF RowsDated
  <2>3. request' = [request EXCEPT ![r] = new]
    BY <1>1 DEF Begin
  <2> HIDE DEF new
  <2>4. /\ request' \in [Task \cup {Admin} -> Request]
        /\ \A q \in Task \cup {Admin} : Dated(request'[q].seen) /\ Dated(request'[q].mine)
        /\ \A t \in Task : request'[t].op \in {"close", "delete"} => t \in exists
    BY <1>1, <2>1, <2>2, <2>3 DEF TypeOK, RowsDated, TasksStay
  <2> QED
    BY <1>1, <2>4 DEF Begin, TypeOK, RowsDated, TasksStay, database, ghosts
<1>2. ASSUME NEW t \in Task, StartClose(t) PROVE TypeInv'
  <2>1. ClosuresBut(t) \cup {now} \in SUBSET Day
    BY ClosuresType DEF TypeOK
  <2> QED
    BY <1>1, <1>2, <2>1, RetainedDated DEF StartClose, Open, RowsDated
<1>3. ASSUME NEW t \in Task, StartDelete(t) PROVE TypeInv'
  BY <1>1, <1>3, ClosuresType, RetainedDated DEF StartDelete, RowsDated
<1>4. ASSUME NEW until \in Extensions, StartExtend(until) PROVE TypeInv'
  <2>1. Dated([event EXCEPT !.extended = until, !.warned = FALSE])
    BY DEF RowsDated, Dated, EventRow
  <2> QED
    BY <1>1, <1>4, <2>1 DEF StartExtend
<1> QED
  BY <1>2, <1>3, <1>4

\* A request commits.
LEMMA RequestsTypes == ASSUME TypeInv, Requests PROVE TypeInv'
<1> USE DEF TypeInv
<1>1. ASSUME NEW r \in Task \cup {Admin}, NEW op, Commits(r, op)
      PROVE  /\ Dated(event') /\ request' \in [Task \cup {Admin} -> Request]
             /\ \A q \in Task \cup {Admin} : Dated(request'[q].seen) /\ Dated(request'[q].mine)
             /\ \A t \in Task : request'[t].op \in {"close", "delete"} =>
                                    t # r /\ request[t].op \in {"close", "delete"}
  <2>1. Dated(event')
    BY <1>1, MergeDated DEF Commits, RowsDated
  <2>2. NoRequest \in Request /\ NoRequest.op = "none"
        /\ NoRequest.seen = NewEvent /\ NoRequest.mine = NewEvent
    BY NewEventDated DEF NoRequest, Request, Dated
  <2>3. request' = [request EXCEPT ![r] = NoRequest]
    BY <1>1 DEF Commits
  <2> QED
    BY <2>1, <2>2, <2>3, NewEventDated DEF TypeOK, RowsDated
<1>2. ASSUME NEW r \in Task \cup {Admin}, NEW op, Commits(r, op),
             exists' = exists \/ exists' = exists \ {r},
             row' \subseteq row, closedAt' \in [Task -> Day \cup {Never}],
             reported' \subseteq exists', \A p \in row' : TaskOf[p] \in reported',
             \A p \in Photo : upload[p] \in {"preview", "row"} => TaskOf[p] \in exists'
      PROVE  TypeInv'
  <2>1. TypeOK'
    BY <1>1, <1>2 DEF Commits, TypeOK, Dated, ghosts
  <2>2. RowsDated'
    BY <1>1, <1>2 DEF Commits, RowsDated
  <2>3. TasksStay'
    BY <1>1, <1>2 DEF Commits, TasksStay
  <2> QED
    BY <2>1, <2>2, <2>3
<1>3. ASSUME NEW t \in Task, CommitClose(t) PROVE TypeInv'
  <2>1. Commits(t, "close") /\ t \in exists /\ request[t].when \in Day \cup {Never}
    BY <1>3 DEF CommitClose, Commits, TasksStay, TypeOK, Request
  <2>2. /\ closedAt' \in [Task -> Day \cup {Never}] /\ UNCHANGED <<exists, row>>
        /\ reported' \subseteq exists /\ reported \subseteq reported'
    BY <1>3, <2>1 DEF CommitClose, TypeOK
  <2> QED
    BY <1>2, <2>1, <2>2 DEF TypeOK, TasksStay
<1>4. ASSUME NEW t \in Task, CommitDelete(t) PROVE TypeInv'
  <2>1. /\ Commits(t, "delete") /\ exists' = exists \ {t} /\ reported' = reported \ {t}
        /\ row' = row \ PhotosOf(t) /\ closedAt' = closedAt
        /\ \A p \in PhotosOf(t) : upload[p] \notin {"preview", "row"}
    BY <1>4 DEF CommitDelete
  <2>2. \A p \in row' : TaskOf[p] \in reported'
    BY <2>1 DEF PhotosOf, TypeOK
  <2>3. \A p \in Photo : upload[p] \in {"preview", "row"} => TaskOf[p] \in exists'
    BY <2>1 DEF PhotosOf, TasksStay
  <2> QED
    BY <1>2, <2>1, <2>2, <2>3 DEF TypeOK
<1>5. CASE CommitExtend
  BY <1>2, <1>5 DEF CommitExtend, TypeOK, TasksStay
<1> QED
  BY <1>3, <1>4, <1>5 DEF Requests

\* A member adds a photo or deletes one.
LEMMA MembersTypes ==
    ASSUME TypeInv, NEW p \in Photo,
           \/ SaveOriginal(p) \/ SavePreview(p) \/ CommitPhoto(p) \/ SaveFails(p) \/ UndoSave(p)
           \/ DropOriginal(p) \/ DropPreview(p) \/ DropRow(p) \/ DropFails(p)
    PROVE  TypeInv'
<1> USE DEF TypeInv
<1>1. ASSUME NEW from, NEW to \in UploadPoint, Upload(p, from, to),
             to \in {"preview", "row"} => p \in saved' /\ TaskOf[p] \in exists,
             row' \subseteq saved', saved \subseteq saved', saved' \subseteq Photo,
             \A q \in row' : TaskOf[q] \in reported', reported' \subseteq exists,
             objects' \subseteq Photo \X Part, faults' \in 0..MaxFaults, torn' \subseteq Photo
      PROVE  TypeInv'
  <2>1. upload' \in [Photo -> UploadPoint]
    BY <1>1 DEF Upload, TypeOK
  <2>2. TypeOK'
    BY <1>1, <2>1 DEF Upload, TypeOK
  <2>3. RowsDated'
    BY <1>1 DEF Upload, RowsDated
  <2>4. TasksStay'
    BY <1>1 DEF Upload, TasksStay, TypeOK
  <2> QED
    BY <2>2, <2>3, <2>4
<1>2. Inserts(p) /\ upload[p] = "row" =>
          /\ row' \subseteq saved /\ \A q \in row' : TaskOf[q] \in reported'
          /\ reported' \subseteq exists
  BY DEF Inserts, TypeOK, TasksStay
<1>3. Fault => faults' \in 0..MaxFaults
  BY BoundAssumption DEF Fault, TypeOK
<1>4. CASE SaveOriginal(p)
  <2>1. Upload(p, "idle", "preview") /\ TaskOf[p] \in exists /\ saved' = saved \cup {p}
    BY <1>4 DEF SaveOriginal, Open, AfterOriginal
  <2>2. objects' \subseteq Photo \X Part
    BY <1>4 DEF SaveOriginal, Stores, Part, TypeOK
  <2> QED
    BY <1>1, <1>4, <2>1, <2>2 DEF SaveOriginal, UploadPoint, TypeOK
<1>5. CASE SavePreview(p)
  <2>1. Upload(p, "preview", "row") /\ TaskOf[p] \in exists /\ p \in saved
    BY <1>5 DEF SavePreview, Upload, TasksStay
  <2>2. objects' \subseteq Photo \X Part
    BY <1>5 DEF SavePreview, Stores, Part, TypeOK
  <2> QED
    BY <1>1, <1>5, <2>1, <2>2 DEF SavePreview, UploadPoint, TypeOK
<1>6. CASE CommitPhoto(p)
  BY <1>1, <1>2, <1>6 DEF CommitPhoto, Upload, UploadPoint, TypeOK
<1>7. CASE SaveFails(p)
  <2>1. PICK from \in {"preview", "row"}, to \in {"undo", "idle"} : Upload(p, from, to)
    BY <1>7 DEF SaveFails
  <2>2. /\ row' \subseteq saved /\ \A q \in row' : TaskOf[q] \in reported'
        /\ reported' \subseteq exists /\ torn' \subseteq Photo
    BY <1>2, <1>7 DEF SaveFails, TypeOK
  <2> QED
    BY <1>1, <1>3, <1>7, <2>1, <2>2 DEF SaveFails, UploadPoint, TypeOK
<1>8. CASE UndoSave(p)
  <2>1. objects' \subseteq objects
    BY <1>8 DEF UndoSave
  <2> QED
    BY <1>1, <1>8, <2>1 DEF UndoSave, UploadPoint, TypeOK
<1>9. CASE DropOriginal(p) \/ DropPreview(p)
  <2>1. objects' \subseteq objects /\ torn' \subseteq Photo
    BY <1>9 DEF DropOriginal, DropPreview, Removes, TypeOK
  <2> QED
    BY <1>1, <1>9, <2>1 DEF DropOriginal, DropPreview, UploadPoint, TypeOK
<1>10. CASE DropRow(p)
  BY <1>1, <1>10 DEF DropRow, UploadPoint, TypeOK
<1>11. CASE DropFails(p)
  BY <1>1, <1>3, <1>11 DEF DropFails, UploadPoint, TypeOK
<1> QED
  BY <1>4, <1>5, <1>6, <1>7, <1>8, <1>9, <1>10, <1>11

\* The retention job.
LEMMA PurgesTypes ==
    ASSUME TypeInv, Purges \/ PurgeObjectFails \/ CrashPurge
    PROVE  TypeInv'
<1> USE DEF TypeInv
<1>1. ASSUME NEW next \in Purge, Dated(next.mine), PurgeSteps(next), Dated(event'),
             row' \subseteq row, objects' \subseteq objects, faults' \in 0..MaxFaults,
             condemned' \subseteq Photo
      PROVE  TypeInv'
  <2>1. TypeOK'
    BY <1>1 DEF PurgeSteps, TypeOK, Dated
  <2>2. RowsDated'
    BY <1>1 DEF PurgeSteps, RowsDated
  <2>3. TasksStay'
    BY <1>1 DEF PurgeSteps, TasksStay
  <2> QED
    BY <2>1, <2>2, <2>3
<1>2. purge \in Purge /\ Dated(event) /\ Dated(purge.mine)
  BY DEF TypeOK, RowsDated
<1>3. Fault => faults' \in 0..MaxFaults
  BY BoundAssumption DEF Fault, TypeOK
<1>4. NoPurge \in Purge /\ Dated(NoPurge.mine)
  BY NewEventDated DEF NoPurge, Purge, Dated
<1>5. CASE StartPurge
  <2> DEFINE warned == [event EXCEPT !.warned = @ \/ ToWarn(event, now)]
             all == [at |-> "delete", when |-> now, photos |-> row,
                     todo |-> row \X Part, mine |-> warned]
             warning == [NoPurge EXCEPT !.at = "commit", !.when = now, !.mine = warned]
  <2>1. Dated(warned) /\ warned \in EventRow
    BY <1>2 DEF Dated, EventRow, ToWarn
  <2>2. PurgeSteps(all) \/ PurgeSteps(warning)
    BY <1>5 DEF StartPurge
  <2> HIDE DEF warned
  <2>3. all \in Purge /\ all.mine = warned
    BY <2>1 DEF Purge, TypeOK
  <2>4. warning \in Purge /\ warning.mine = warned
    BY <1>4, <2>1 DEF NoPurge, Purge, TypeOK
  <2> HIDE DEF all, warning
  <2> QED
    BY <1>1, <1>2, <1>5, <2>1, <2>2, <2>3, <2>4 DEF StartPurge, TypeOK
<1>6. ASSUME NEW o \in purge.todo, PurgeObject(o) PROVE TypeInv'
  <2>1. [purge EXCEPT !.todo = @ \ {o}] \in Purge /\ o[1] \in Photo
    BY <1>2 DEF Purge
  <2>2. [purge EXCEPT !.todo = @ \ {o}].mine = purge.mine
    BY <1>2 DEF Purge
  <2> QED
    BY <1>1, <1>2, <1>6, <2>1, <2>2 DEF PurgeObject, TypeOK
<1>7. CASE PurgeObjectFails
  <2> DEFINE next == [purge EXCEPT !.at = "commit", !.mine.warned = TRUE]
  <2>1. next \in Purge /\ Dated(next.mine)
    BY <1>2 DEF Purge, Dated, EventRow
  <2>2. PurgeSteps(next)
    BY <1>7 DEF PurgeObjectFails
  <2> HIDE DEF next
  <2> QED
    BY <1>1, <1>2, <1>3, <1>7, <2>1, <2>2 DEF PurgeObjectFails, TypeOK
<1>8. CASE CommitPurge
  <2>1. Dated([purge.mine EXCEPT !.purged = TRUE])
    BY <1>2 DEF Dated, EventRow
  <2> QED
    BY <1>1, <1>4, <1>8, <2>1 DEF CommitPurge, TypeOK
<1>9. CASE CommitWarning \/ CrashPurge
  BY <1>1, <1>2, <1>3, <1>4, <1>9 DEF CommitWarning, CrashPurge, TypeOK
<1> QED
  BY <1>5, <1>6, <1>7, <1>8, <1>9 DEF Purges

\* The cleanup job.
LEMMA CleanupsTypes ==
    ASSUME TypeInv, Cleanups \/ CrashCleanup
    PROVE  TypeInv'
<1> USE DEF TypeInv
<1>1. ASSUME NEW next \in Cleanup, Dated(next.mine), next.at # "idle" => next.task \in Group,
             CleanupSteps(next), Dated(event'), faults' \in 0..MaxFaults, gone' \subseteq Group,
             chat' \in [Group -> ChatStatus]
      PROVE  TypeInv'
  <2>1. TypeOK'
    BY <1>1 DEF CleanupSteps, TypeOK, Dated, ghosts
  <2>2. RowsDated'
    BY <1>1 DEF CleanupSteps, RowsDated
  <2>3. TasksStay'
    BY <1>1 DEF CleanupSteps, TasksStay
  <2> QED
    BY <2>1, <2>2, <2>3
<1>2. cleanup \in Cleanup /\ Dated(event) /\ Dated(cleanup.mine)
  BY DEF TypeOK, RowsDated
<1>3. Fault => faults' \in 0..MaxFaults
  BY BoundAssumption DEF Fault, TypeOK
<1>4. NoCleanup \in Cleanup /\ Dated(NoCleanup.mine) /\ NoCleanup.at = "idle"
  BY NewEventDated, TaskAssumption DEF NoCleanup, Cleanup, ChatStatus, Dated
<1>5. ASSUME NEW t \in Group, StartCleanup(t) PROVE TypeInv'
  <2>1. Dated(Refreshed) /\ Refreshed \in EventRow
    BY <1>2, ClosuresType, RetainedDated DEF Refreshed, Dated
  <2>2. PICK at \in {"delete", "commit"} :
            CleanupSteps([at |-> at, when |-> now, task |-> t, status |-> chat[t],
                          wrote |-> Refreshed # event, mine |-> Refreshed, deleted |-> FALSE])
    BY <1>5 DEF StartCleanup
  <2> DEFINE next == [at |-> at, when |-> now, task |-> t, status |-> chat[t],
                      wrote |-> Refreshed # event, mine |-> Refreshed, deleted |-> FALSE]
  <2>3. next \in Cleanup /\ next.mine = Refreshed /\ next.task = t
    BY <2>1, TaskAssumption DEF Cleanup, TypeOK
  <2>4. CleanupSteps(next)
    BY <2>2
  <2> HIDE DEF next
  <2> QED
    BY <1>1, <1>2, <1>3, <1>5, <2>1, <2>3, <2>4 DEF StartCleanup, TypeOK
<1>6. CASE DeleteGroup
  <2>1. PICK next \in {[cleanup EXCEPT !.at = "commit", !.deleted = TRUE],
                       [cleanup EXCEPT !.at = "commit"]} : CleanupSteps(next)
    BY <1>6 DEF DeleteGroup
  <2>2. next \in Cleanup /\ next.mine = cleanup.mine /\ next.task = cleanup.task
    BY <1>2, <2>1 DEF Cleanup
  <2>3. cleanup.task \in Group
    BY <1>6 DEF DeleteGroup, TasksStay
  <2> QED
    BY <1>1, <1>2, <1>3, <1>6, <2>1, <2>2, <2>3 DEF DeleteGroup, TypeOK
<1>7. CASE CommitCleanup
  BY <1>1, <1>2, <1>4, <1>7 DEF CommitCleanup, ChatStatus, TypeOK
<1>8. CASE CrashCleanup
  BY <1>1, <1>2, <1>3, <1>4, <1>8 DEF CrashCleanup, TypeOK
<1> QED
  BY <1>5, <1>6, <1>7, <1>8 DEF Cleanups

\* Every step keeps the types and the dates.
LEMMA NextTypes == TypeInv /\ [Next]_vars => TypeInv'
<1> SUFFICES ASSUME TypeInv, [Next]_vars PROVE TypeInv'
  OBVIOUS
<1>1. CASE Tick
  BY <1>1, TimeAssumption
     DEF Tick, TypeInv, TypeOK, RowsDated, TasksStay, Day, database, ghosts
<1>2. CASE UNCHANGED vars
  BY <1>2 DEF vars, TypeInv, TypeOK, RowsDated, TasksStay, database, ghosts
<1>3. CASE \E p \in Photo : \/ SaveOriginal(p) \/ SavePreview(p) \/ CommitPhoto(p)
                            \/ SaveFails(p) \/ UndoSave(p) \/ DropOriginal(p)
                            \/ DropPreview(p) \/ DropRow(p) \/ DropFails(p)
  BY <1>3, MembersTypes
<1>4. CASE ChatTurns
  <2>1. chat' \in [Group -> ChatStatus] /\ faults' \in 0..MaxFaults
    BY <1>4, BoundAssumption DEF ChatTurns, DegradeChat, RecoverChat, ConfigureChat, Turns,
       Fault, TypeInv, TypeOK, ChatStatus
  <2> QED
    BY <1>4, <2>1, TurnsOnlyChat DEF TypeInv, TypeOK, RowsDated, TasksStay
<1> QED
  BY <1>1, <1>2, <1>3, <1>4, BeginTypes, RequestsTypes, PurgesTypes, CleanupsTypes
     DEF Next, Uploads

\* Every variable keeps its type, and a date of deletion always lies a retention period
\* after some closure, whoever overwrote it; a photo in the archive belongs to a task
\* with a report, although deletions of tasks and uploads overlap.
THEOREM ArchiveTypes == Spec => []TypeOK
<1>1. TypeInv => TypeOK
  BY DEF TypeInv
<1> QED
  BY <1>1, InitTypes, NextTypes, PTL DEF Spec
===============================================================================
