-------------------------------- MODULE AuditLog --------------------------------
(***************************************************************************)
(* audit_log.py: the log of one session as its files, the current one and   *)
(* its rotated predecessors, and the calls that change them: record, with   *)
(* rotation and retention, and delete_session_logs.  web_service.py makes   *)
(* these calls in threads of their own, for turns and deletions that hold a *)
(* lock of the session; a coroutine that is cancelled leaves its thread     *)
(* behind.  The pool hands out one lock object until a deletion discards    *)
(* it: who waits on the old one then runs beside those of the next.         *)
(*                                                                         *)
(* A call is a sequence of steps on the directory.  The class's lock keeps  *)
(* the calls of the one server process apart; the process may end between   *)
(* any two steps, and power may fail, which leaves the directory as of any  *)
(* change since it was last synced.  A step that fails ends its call.       *)
(*                                                                         *)
(* A record is its turn and its number; all records have the same size.     *)
(* Files are numbered, so that a renamed file keeps what it holds; their    *)
(* contents are synced before a call goes on.                               *)
(***************************************************************************)
EXTENDS Integers, Sequences, FiniteSets

CONSTANTS
  MaxTurns,      \* bound: turns of the session
  MaxRecords,    \* bound: events of a turn
  MaxDeletions,  \* bound: deletions of the session
  RotationCount, \* rotated files that are kept: 5 in the service (the CLI has none,
                 \* and refuses records once its file is full)
  Capacity,      \* records that fit into max_log_bytes
  MaxMonths,     \* bound: how often the retention time passes
  MaxEnds        \* bound: how often the process ends, or a step fails

ASSUME AuditLogAssumption ==
  /\ MaxTurns \in Nat /\ MaxRecords \in Nat /\ MaxDeletions \in Nat
  /\ RotationCount \in Nat \ {0} /\ Capacity \in Nat \ {0} /\ MaxMonths \in Nat /\ MaxEnds \in Nat

\* Turns count up and deletions down, in the order in which they ask for the lock.
Turns     == 1..MaxTurns
Deletions == (-MaxDeletions)..(-1)
Actors    == Turns \cup Deletions
Records   == Turns \X (1..MaxRecords)
Slots   == 0..RotationCount     \* the current file is 0, `.i` is i
NoFile  == 0
Files   == 1..(RotationCount + MaxTurns * MaxRecords + MaxEnds + 2)
\* The other values of a call, which are no records.
DeletionCalls == Deletions \X {0}
NoCall        == <<0, 0>>

VARIABLES
  names,      \* the directory: the file in each slot
  lines,      \* the records in each file
  disk,       \* the directories a power failure may leave
  expired,    \* files whose last change is older than retention_days
  calls,      \* calls that wait for the lock of the class
  call,       \* the call that has it
  stage,      \* its next step
  slot,       \* the slot it is at
  unsynced,   \* whether it still has to sync the directory
  checked,    \* turns whose logger has pruned the directory
  lock,       \* the lock object that the pool hands out, by the discards before it
  lockOf,     \* the one that a turn or deletion asked for
  position,   \* where it is: "inside", "deleting" and "deleted" hold the lock
  sent,       \* how many events of a turn were handed over
  months, ends,
  reported,   \* observer: records whose call returned
  dropped,    \* observer: records removed by rotation, retention or deletion
  rotatedOut, \* observer: those removed by rotation
  written,    \* observer: all records, in the order they were written
  cutShort,   \* observer: a rotation did not come to its end
  undone,     \* observer: files whose creation or removal a call that ended early
              \* left unsynced
  atRisk,     \* observer: records that were reported while in such a file
  stray,      \* observer: records whose coroutine was cancelled
  deleted,    \* observer: records handed over before a deletion that succeeded
  beside      \* observer: those of them that a turn under another lock object still
              \* waited for

directoryVars == <<names, lines, disk, expired, undone>>
callVars      == <<call, stage, slot, unsynced, checked>>
lockVars      == <<lock, lockOf, position>>
serviceVars   == <<lockVars, sent>>
boundVars     == <<months, ends>>
lossVars      == <<dropped, rotatedOut>>
reportVars    == <<reported, atRisk>>
deletionVars  == <<stray, deleted, beside>>
observerVars  == <<reportVars, lossVars, written, cutShort, deletionVars>>
logVars == <<directoryVars, calls, callVars, serviceVars, boundVars, observerVars>>

InFile(f) == {lines[f][i] : i \in DOMAIN lines[f]}
FilesOf(directory) == {directory[s] : s \in Slots} \ {NoFile}
Kept(directory) == UNION {InFile(f) : f \in FilesOf(directory)}
Present(s) == names[s] # NoFile

\* A file that no directory knows.
IsFresh(f) == \A d \in disk : f \notin FilesOf(d)
Fresh == CHOOSE f \in Files : IsFresh(f)

To(next) == stage' = next

\* The directory changes, in memory; on disk it may have or not.
Change(directory) == names' = directory /\ disk' = disk \cup {directory}

SyncDirectory == disk' = {names} /\ undone' = {} /\ UNCHANGED names

RemoveFile(s) == Change([names EXCEPT ![s] = NoFile]) /\ dropped' = dropped \cup InFile(names[s])

\* os.open with O_CREAT of a current file that is not there.  (Bound: Files, of which
\* there are always enough.)
Create ==
  /\ {f \in Files : IsFresh(f)} # {}
  /\ Change([names EXCEPT ![0] = Fresh])
  /\ lines' = [lines EXCEPT ![Fresh] = <<>>] /\ expired' = expired \ {Fresh}
  /\ UNCHANGED undone

-------------------------------------------------------------------------------
\* The calls.

Return ==
  /\ call' = NoCall /\ To("none") /\ UNCHANGED <<slot, unsynced>>

\* Mutant: a deletion is treated like a record.
TakeLockToAppend(c) ==
  /\ call = NoCall /\ c \in calls
  /\ call' = c /\ calls' = calls \ {c}
  /\ To(IF c[1] \in checked THEN "open" ELSE "prune")
  /\ slot' = 0 /\ unsynced' = FALSE
  /\ UNCHANGED <<directoryVars, checked, serviceVars, boundVars, observerVars>>

\* A thread gets the lock: the first record of a logger prunes, a deletion goes
\* through the files from the current one on.
TakeLock(c) ==
  /\ call = NoCall /\ c \in calls
  /\ call' = c /\ calls' = calls \ {c}
  /\ To(IF c \in DeletionCalls THEN "delete" ELSE IF c[1] \in checked THEN "open" ELSE "prune")
  /\ slot' = 0 /\ unsynced' = FALSE
  /\ UNCHANGED <<directoryVars, checked, serviceVars, boundVars, observerVars>>

\* prune_expired removes what it finds expired, in any order.
Prune ==
  /\ stage = "prune"
  /\ \E s \in Slots :
       /\ Present(s) /\ names[s] \in expired
       /\ RemoveFile(s)
  /\ unsynced' = TRUE
  /\ UNCHANGED <<lines, expired, undone, calls, call, stage, slot, checked, serviceVars,
                 boundVars, reportVars, rotatedOut, written, cutShort, deletionVars>>

Pruned ==
  /\ stage = "prune" /\ \A s \in Slots : Present(s) => names[s] \notin expired
  /\ IF unsynced THEN SyncDirectory ELSE UNCHANGED <<names, disk, undone>>
  /\ checked' = checked \cup {call[1]}
  /\ To("open") /\ unsynced' = FALSE
  /\ UNCHANGED <<lines, expired, calls, call, slot, serviceVars, boundVars, observerVars>>

\* Mutant: a file is rotated although the line still fits.
OpenEarly ==
  /\ stage = "open"
  /\ IF ~Present(0)
     THEN Create /\ unsynced' = TRUE /\ To("write") /\ UNCHANGED slot
     ELSE /\ IF Len(lines[names[0]]) + 1 < Capacity
             THEN To("write") /\ UNCHANGED slot
             ELSE To("rotate") /\ slot' = RotationCount
          /\ UNCHANGED <<directoryVars, unsynced>>
  /\ UNCHANGED <<calls, call, checked, serviceVars, boundVars, observerVars>>

\* _append_line: the current file is opened, or created; a full one is rotated.
Open ==
  /\ stage = "open"
  /\ IF ~Present(0)
     THEN Create /\ unsynced' = TRUE /\ To("write") /\ UNCHANGED slot
     ELSE /\ IF Len(lines[names[0]]) + 1 <= Capacity
             THEN To("write") /\ UNCHANGED slot
             ELSE To("rotate") /\ slot' = RotationCount
          /\ UNCHANGED <<directoryVars, unsynced>>
  /\ UNCHANGED <<calls, call, checked, serviceVars, boundVars, observerVars>>

\* Mutant: the files are moved in the other order.
RotateUp ==
  LET at == RotationCount - slot IN
  /\ stage = "rotate"
  /\ IF ~Present(at)
     THEN UNCHANGED <<names, disk, lossVars>>
     ELSE IF at = RotationCount
     THEN RemoveFile(at) /\ rotatedOut' = rotatedOut \cup InFile(names[at])
     ELSE /\ Change([names EXCEPT ![at + 1] = names[at], ![at] = NoFile])
          /\ UNCHANGED lossVars
  /\ IF slot > 0 THEN slot' = slot - 1 /\ UNCHANGED stage ELSE To("rotated") /\ UNCHANGED slot
  /\ UNCHANGED <<lines, expired, undone, calls, call, unsynced, checked, serviceVars,
                 boundVars, reportVars, written, cutShort, deletionVars>>

\* Mutant: the current file moves into a free slot and the others stay.
RotateIntoFree ==
  /\ stage = "rotate"
  /\ IF slot = RotationCount /\ \A s \in Slots : Present(s)
     THEN RemoveFile(slot) /\ rotatedOut' = rotatedOut \cup InFile(names[slot])
     ELSE /\ IF slot = 0
             THEN \E s \in Slots \ {0} :
                    /\ ~Present(s) /\ \A t \in 1..(s - 1) : Present(t)
                    /\ Change([names EXCEPT ![s] = names[0], ![0] = NoFile])
             ELSE UNCHANGED <<names, disk>>
          /\ UNCHANGED lossVars
  /\ IF slot > 0 THEN slot' = slot - 1 /\ UNCHANGED stage ELSE To("rotated") /\ UNCHANGED slot
  /\ UNCHANGED <<lines, expired, undone, calls, call, unsynced, checked, serviceVars,
                 boundVars, reportVars, written, cutShort, deletionVars>>

\* _rotate_files, one file: the oldest is removed, the others move up, the
\* current one last.
Rotate ==
  /\ stage = "rotate"
  /\ IF ~Present(slot)
     THEN UNCHANGED <<names, disk, lossVars>>
     ELSE IF slot = RotationCount
     THEN RemoveFile(slot) /\ rotatedOut' = rotatedOut \cup InFile(names[slot])
     ELSE /\ Change([names EXCEPT ![slot + 1] = names[slot], ![slot] = NoFile])
          /\ UNCHANGED lossVars
  /\ IF slot > 0 THEN slot' = slot - 1 /\ UNCHANGED stage ELSE To("rotated") /\ UNCHANGED slot
  /\ UNCHANGED <<lines, expired, undone, calls, call, unsynced, checked, serviceVars,
                 boundVars, reportVars, written, cutShort, deletionVars>>

Rotated ==
  /\ stage = "rotated"
  /\ SyncDirectory /\ To("reopen")
  /\ UNCHANGED <<lines, expired, calls, call, slot, unsynced, checked, serviceVars, boundVars,
                 observerVars>>

Reopen ==
  /\ stage = "reopen"
  /\ Create /\ unsynced' = TRUE /\ To("write")
  /\ UNCHANGED <<calls, call, slot, checked, serviceVars, boundVars, observerVars>>

\* The caller is told that its record is written.
Report ==
  /\ Return /\ reported' = reported \cup {call}
  /\ atRisk' = IF names[0] \in undone' THEN atRisk \cup {call} ELSE atRisk

\* Mutant: a new file is not synced into its directory.
AppendOnly ==
  /\ stage = "write"
  /\ lines' = [lines EXCEPT ![names[0]] = Append(@, call)]
  /\ expired' = expired \ {names[0]} /\ written' = Append(written, call)
  /\ UNCHANGED <<names, disk, undone>> /\ Report
  /\ UNCHANGED <<calls, checked, serviceVars, boundVars, lossVars, cutShort, deletionVars>>

\* The line is written and synced; a new file is synced into its directory.
AppendLine ==
  /\ stage = "write"
  /\ lines' = [lines EXCEPT ![names[0]] = Append(@, call)]
  /\ expired' = expired \ {names[0]} /\ written' = Append(written, call)
  /\ UNCHANGED <<names, disk, undone>>
  /\ IF unsynced
     THEN To("sync") /\ UNCHANGED <<call, slot, unsynced, reportVars>>
     ELSE Report
  /\ UNCHANGED <<calls, checked, serviceVars, boundVars, lossVars, cutShort, deletionVars>>

SyncNewFile ==
  /\ stage = "sync"
  /\ SyncDirectory /\ Report
  /\ UNCHANGED <<lines, expired, calls, checked, serviceVars, boundVars, lossVars, written,
                 cutShort, deletionVars>>

\* delete_session_logs, one file.
DeleteFile ==
  /\ stage = "delete"
  /\ IF Present(slot)
     THEN RemoveFile(slot) /\ unsynced' = TRUE
     ELSE UNCHANGED <<names, disk, dropped, unsynced>>
  /\ IF slot < RotationCount THEN slot' = slot + 1 /\ UNCHANGED stage
                             ELSE To("deleted") /\ UNCHANGED slot
  /\ UNCHANGED <<lines, expired, undone, calls, call, checked, serviceVars, boundVars,
                 reportVars, rotatedOut, written, cutShort, deletionVars>>

HandedOver == {r \in Records : r[2] <= sent[r[1]]}

\* The record that a turn waits for.
AwaitedRecord(t) == {<<t, sent[t]>>} \cap (calls \cup {call})

\* The deletion of the files returns to its coroutine.
Deleted ==
  /\ stage = "deleted"
  /\ IF unsynced THEN SyncDirectory ELSE UNCHANGED <<names, disk, undone>>
  /\ Return /\ position' = [position EXCEPT ![call[1]] = "deleted"]
  /\ deleted' = deleted \cup (HandedOver \ UNION {InFile(f) : f \in undone'})
  /\ LET others == {t \in Turns : position[t] = "inside" /\ lockOf[t] # lockOf[call[1]]}
     IN  beside' = beside \cup UNION {AwaitedRecord(t) : t \in others}
  /\ UNCHANGED <<lines, expired, calls, checked, lock, lockOf, sent, boundVars, reportVars,
                 lossVars, written, cutShort, stray>>

\* What a call that ends early leaves undone.
LeaveUndone ==
  /\ cutShort' = (cutShort \/ stage \in {"rotate", "rotated"})
  /\ undone' = {f \in Files : \E d, e \in disk' : f \in FilesOf(d) /\ f \notin FilesOf(e)}

\* A step fails, which ends the turn of a record that is waited for, or the deletion.
FailCall ==
  /\ call # NoCall /\ ends < MaxEnds
  /\ UNCHANGED <<names, disk>> /\ LeaveUndone /\ ends' = ends + 1
  /\ Return /\ UNCHANGED checked
  /\ IF call \in DeletionCalls \/ (position[call[1]] = "inside" /\ call \in AwaitedRecord(call[1]))
     THEN position' = [position EXCEPT ![call[1]] = "over"]
     ELSE UNCHANGED position
  /\ UNCHANGED <<lines, expired, calls, lock, lockOf, sent, months, reportVars,
                 lossVars, written, deletionVars>>

-------------------------------------------------------------------------------
\* The session and its service.

Holding    == {"inside", "deleting", "deleted"}
Holders(l) == {a \in Actors : lockOf[a] = l /\ position[a] \in Holding}
Waiting(l) == {a \in Actors : lockOf[a] = l /\ position[a] = "waiting"}

IsNext(a) ==
  /\ position[a] = "new"
  /\ a - 1 \in Turns => position[a - 1] # "new"
  /\ a + 1 \in Deletions => position[a + 1] # "new"

\* A turn or deletion takes the pool's lock object, or waits for it; a deletion that
\* finds it held is refused and makes no step.
AskForLock(a) ==
  /\ IsNext(a)
  /\ a \in Deletions => Holders(lock) = {}
  /\ lockOf' = [lockOf EXCEPT ![a] = lock]
  /\ position' = [position EXCEPT ![a] =
                 IF Holders(lock) \cup Waiting(lock) = {} THEN "inside" ELSE "waiting"]
  /\ UNCHANGED <<directoryVars, calls, callVars, lock, sent, boundVars, observerVars>>

TakeSessionLock(a) ==
  /\ position[a] = "waiting" /\ Holders(lockOf[a]) = {}
  /\ position' = [position EXCEPT ![a] = "inside"]
  /\ UNCHANGED <<directoryVars, calls, callVars, lock, lockOf, sent, boundVars,
                 observerVars>>

\* Mutant: the turn does not wait for its record to be written.
EmitAnyway(t) ==
  /\ position[t] = "inside" /\ sent[t] < MaxRecords
  /\ sent' = [sent EXCEPT ![t] = @ + 1] /\ calls' = calls \cup {<<t, sent[t] + 1>>}
  /\ UNCHANGED <<directoryVars, callVars, lockVars, boundVars, observerVars>>

\* The next event of the turn is handed to a thread, once the last one is written.
Emit(t) ==
  /\ position[t] = "inside" /\ AwaitedRecord(t) = {} /\ sent[t] < MaxRecords
  /\ sent' = [sent EXCEPT ![t] = @ + 1] /\ calls' = calls \cup {<<t, sent[t] + 1>>}
  /\ UNCHANGED <<directoryVars, callVars, lockVars, boundVars, observerVars>>

\* Mutant: the turn ends while its record is being written.
EndTurnEarly(t) ==
  /\ position[t] \in {"waiting", "inside"}
  /\ position' = [position EXCEPT ![t] = "over"]
  /\ UNCHANGED <<directoryVars, calls, callVars, lock, lockOf, sent, boundVars, observerVars>>

\* The turn ends, or is cancelled, with no record outstanding.
EndTurn(t) ==
  /\ position[t] \in {"waiting", "inside"} /\ AwaitedRecord(t) = {}
  /\ position' = [position EXCEPT ![t] = "over"]
  /\ UNCHANGED <<directoryVars, calls, callVars, lock, lockOf, sent, boundVars, observerVars>>

\* The response is cancelled while the thread of its record goes on.
CancelTurn(t) ==
  /\ position[t] = "inside" /\ AwaitedRecord(t) # {}
  /\ position' = [position EXCEPT ![t] = "over"] /\ stray' = stray \cup AwaitedRecord(t)
  /\ UNCHANGED <<directoryVars, calls, callVars, lock, lockOf, sent, boundVars, reportVars,
                 lossVars, written, cutShort, deleted, beside>>

\* delete_owned_session: the session's files go first, and the logs follow.  Without
\* files it is a 404, and a failure ends it too; what there is to delete is left open.
DeleteSnapshot(d) ==
  /\ position[d] = "inside"
  /\ \/ position' = [position EXCEPT ![d] = "deleting"] /\ calls' = calls \cup {<<d, 0>>}
     \/ position' = [position EXCEPT ![d] = "over"] /\ UNCHANGED calls
  /\ UNCHANGED <<directoryVars, callVars, lock, lockOf, sent, boundVars, observerVars>>

\* The pool forgets the lock object, which the deletion then gives back.
Discard(d) ==
  /\ position[d] = "deleted"
  /\ position' = [position EXCEPT ![d] = "over"] /\ lock' = lock + 1
  /\ UNCHANGED <<directoryVars, calls, callVars, lockOf, sent, boundVars, observerVars>>

\* The first record of another session prunes the whole directory, or a part of it
\* if it fails.
PruneElsewhere ==
  LET old == {s \in Slots : Present(s) /\ names[s] \in expired} IN
  /\ call = NoCall
  /\ \E pruned \in (SUBSET old) \ {{}} :
       /\ names' = [s \in Slots |-> IF s \in pruned THEN NoFile ELSE names[s]]
       /\ dropped' = dropped \cup UNION {InFile(names[s]) : s \in pruned}
       /\ \/ pruned = old /\ disk' = {names'} /\ undone' = {} /\ UNCHANGED <<cutShort, ends>>
          \/ ends < MaxEnds /\ ends' = ends + 1 /\ disk' = disk \cup {names'} /\ LeaveUndone
  /\ UNCHANGED <<lines, expired, calls, callVars, serviceVars, months, reportVars,
                 rotatedOut, written, deletionVars>>

\* The process ends; with the power, what is not synced may be lost.
Stop ==
  /\ ends < MaxEnds /\ ends' = ends + 1
  /\ Return
  /\ calls' = {} /\ checked' = {}
  /\ position' = [a \in Actors |-> IF position[a] = "new" THEN "new" ELSE "over"]
  /\ UNCHANGED <<lines, expired, lock, lockOf, sent, months, reportVars, lossVars,
                 written, deletionVars>>

Crash == Stop /\ UNCHANGED <<names, disk>> /\ LeaveUndone

PowerFailure == Stop /\ names' \in disk /\ disk' = {names'} /\ LeaveUndone

\* A month without a record: the files from slot s on are older than it anyway.
\* (Bound: no call, turn or deletion lasts that long; a file expires and a turn is to
\* come, else it changes little.)
Month ==
  /\ months < MaxMonths /\ months' = months + 1
  /\ call = NoCall /\ calls = {} /\ \A a \in Actors : position[a] \in {"new", "over"}
  /\ \E t \in Turns : position[t] = "new"
  /\ \E s \in Slots : expired' = expired \cup {names[t] : t \in {u \in s..RotationCount : Present(u)}}
  /\ expired' # expired
  /\ UNCHANGED <<names, lines, disk, undone, calls, callVars, serviceVars, ends,
                 observerVars>>

-------------------------------------------------------------------------------
LogInit ==
  /\ names = [s \in Slots |-> NoFile] /\ lines = [f \in Files |-> <<>>]
  /\ disk = {names} /\ expired = {}
  /\ calls = {} /\ call = NoCall /\ stage = "none" /\ slot = 0 /\ unsynced = FALSE
  /\ checked = {}
  /\ lock = 0 /\ lockOf = [a \in Actors |-> 0] /\ position = [a \in Actors |-> "new"]
  /\ sent = [t \in Turns |-> 0]
  /\ months = 0 /\ ends = 0
  /\ reported = {} /\ dropped = {} /\ rotatedOut = {} /\ written = <<>>
  /\ cutShort = FALSE /\ undone = {} /\ atRisk = {} /\ stray = {} /\ deleted = {}
  /\ beside = {}

Step ==
  \/ Prune \/ Pruned \/ Open \/ Rotate \/ Rotated \/ Reopen \/ AppendLine \/ SyncNewFile
  \/ DeleteFile \/ Deleted \/ FailCall

Service ==
  \/ \E a \in Actors : AskForLock(a) \/ TakeSessionLock(a)
  \/ \E t \in Turns : Emit(t) \/ EndTurn(t) \/ CancelTurn(t)
  \/ \E d \in Deletions : DeleteSnapshot(d) \/ Discard(d)

LogNext ==
  \/ \E c \in Records \cup DeletionCalls : TakeLock(c)
  \/ Step \/ Service \/ PruneElsewhere \/ Crash \/ PowerFailure \/ Month

LogSpec == LogInit /\ [][LogNext]_logVars
-------------------------------------------------------------------------------
LogTypeOK ==
  /\ names \in [Slots -> Files \cup {NoFile}]
  /\ lines \in [Files -> Seq(Records)]
  /\ disk \subseteq [Slots -> Files \cup {NoFile}] /\ names \in disk
  /\ calls \subseteq Records \cup DeletionCalls
  /\ call \in Records \cup DeletionCalls \cup {NoCall}
  /\ lock \in Nat /\ lockOf \in [Actors -> Nat] /\ sent \in [Turns -> 0..MaxRecords]
  /\ position \in [Actors -> {"new", "waiting", "over"} \cup Holding]

\* A record that was reported as written is on disk, whatever ends or fails, until
\* rotation, retention or deletion removes it: no rename overwrites a file that is
\* still wanted.  The exception is a file whose creation was cut short before its
\* directory was synced: the records that follow do not make up for it.
ReportedSurvives ==
  \A r \in reported, d \in disk :
    r \in Kept(d) \/ r \in dropped \/ r \in atRisk

\* Rotation removes the oldest records only, and not before the rotated files are
\* full; a rotation that was cut short may cost files, but never the newest.
RotationKeepsDepth ==
  \A r \in rotatedOut :
    \E i \in DOMAIN written :
      /\ written[i] = r
      /\ Len(written) - i >= IF cutShort THEN Capacity ELSE Capacity * RotationCount

\* Read from the oldest file to the current one, the log is in the order in which
\* it was written, even where a rotation stopped half-way or power failed.
FilesInOrder ==
  \A d \in disk : \A s, t \in Slots : s < t /\ d[s] # NoFile /\ d[t] # NoFile =>
    \A i, j \in DOMAIN written :
      written[i] \in InFile(d[s]) /\ written[j] \in InFile(d[t]) => j < i

\* The records of a turn are written in the order of its events.
TurnInOrder ==
  \A i, j \in DOMAIN written :
    i < j /\ written[i][1] = written[j][1] => written[i][2] < written[j][2]

\* Rotation costs the oldest records only and keeps the others in their order.
RotationIsSound == RotationKeepsDepth /\ FilesInOrder /\ TurnInOrder

\* After a deletion that succeeded nothing of before is in the log, nor comes back with
\* a power failure, unless a thread comes late with its record: that of a cancelled
\* response, or of a turn that waited on a lock object discarded by an earlier deletion
\* and so runs beside this one.  (A deletion that finds nothing syncs nothing, and
\* leaves a removal that was cut short undone.)
DeletedIsGone ==
  \A r \in deleted, d \in disk : r \in Kept(d) => r \in stray \cup beside
===============================================================================
