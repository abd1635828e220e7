----------------------------- MODULE SessionStore -----------------------------
(***************************************************************************)
(* The files of one session in session_store.py: the committed snapshot    *)
(* <id>.json and the pending approval <id>.pending.json, both in the same   *)
(* directory.  A write goes to a temporary file, is fsynced, renamed over   *)
(* the target and followed by an fsync of the directory; a delete unlinks   *)
(* and fsyncs the directory.                                                *)
(*                                                                         *)
(* snapFile and pendFile are what a process sees.  snapMedia and pendMedia  *)
(* are the contents a power loss may leave behind: a rename or an unlink    *)
(* whose directory fsync has not succeeded may or may not have reached the  *)
(* disk.  A snapshot is its version number, 0 when there is no file.        *)
(***************************************************************************)
EXTENDS Integers

CONSTANTS None,       \* no pending approval record
          Faults,     \* the faults that may happen in a run
          MaxFaults   \* bound: number of store operations that may fail

VARIABLES snapFile, pendFile, snapMedia, pendMedia,
          faults      \* number of store operations that failed so far

storeVars == <<snapFile, pendFile, snapMedia, pendMedia, faults>>

FaultNames ==
  {"prepare", "save", "save_pending", "delete_pending", "delete", "power"}

ASSUME FaultsAssumption == Faults \subseteq FaultNames /\ MaxFaults \in Nat

NoSession == 0

StoreInit ==
  /\ snapFile = NoSession /\ snapMedia = {NoSession}
  /\ pendFile = None      /\ pendMedia = {None}
  /\ faults = 0

(***************************************************************************)
(* How a store operation may end: "ok", "failed" (an exception before the   *)
(* directory changed) or "unsynced" (the directory changed, its fsync       *)
(* raised).                                                                 *)
(***************************************************************************)
StoreResults(op) ==
  IF op \in Faults /\ faults < MaxFaults
  THEN {"ok", "failed", "unsynced"}
  ELSE {"ok"}

\* Mutant: the directory fsync is left out.
UnsyncedMediaAfter(media, content, res) ==
  IF res = "failed" THEN media ELSE media \cup {content}

MediaAfter(media, content, res) ==
  CASE res = "ok"       -> {content}
    [] res = "unsynced" -> media \cup {content}
    [] OTHER            -> media

\* The two files hold snap and pend after the operation, as far as it got.
\* One fsync of the directory makes both directory entries durable.
Put(snap, pend, res) ==
  /\ snapFile' = IF res = "failed" THEN snapFile ELSE snap
  /\ pendFile' = IF res = "failed" THEN pendFile ELSE pend
  /\ snapMedia' = MediaAfter(snapMedia, snap, res)
  /\ pendMedia' = MediaAfter(pendMedia, pend, res)
  /\ faults' = IF res = "ok" THEN faults ELSE faults + 1

Save(version, res) ==
  /\ res \in StoreResults("save")
  /\ Put(version, pendFile, res)

SavePending(record, res) ==
  /\ res \in StoreResults("save_pending")
  /\ Put(snapFile, record, res)

\* missing_ok: without a file there is nothing to unlink and nothing to sync.
DeletePending(res) ==
  IF pendFile = None
  THEN res = "ok" /\ UNCHANGED storeVars
  ELSE /\ res \in StoreResults("delete_pending")
       /\ Put(snapFile, None, res)

\* Both files, the snapshot first.
DeleteBoth(res) ==
  /\ snapFile # NoSession \/ pendFile # None
  /\ res \in StoreResults("delete")
  /\ Put(NoSession, None, res)

\* The second unlink raises, or the process dies before it.
DeleteSnapshotOnly ==
  /\ snapFile # NoSession /\ pendFile # None
  /\ "delete" \in Faults /\ faults < MaxFaults
  /\ snapFile' = NoSession
  /\ snapMedia' = snapMedia \cup {NoSession}
  /\ faults' = faults + 1
  /\ UNCHANGED <<pendFile, pendMedia>>

\* Entries that were never synced survive or not, each on its own.
PowerLoss ==
  /\ snapFile' \in snapMedia /\ snapMedia' = {snapFile'}
  /\ pendFile' \in pendMedia /\ pendMedia' = {pendFile'}
  /\ UNCHANGED faults
===============================================================================
