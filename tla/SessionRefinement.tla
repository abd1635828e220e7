-------------------------- MODULE SessionRefinement ---------------------------
(***************************************************************************)
(* Theorems about what SessionTurn keeps of its answers, and the proof that *)
(* it implements Conversation, for every value of the constants.            *)
(***************************************************************************)
EXTENDS SessionTurnProofs

USE DEF NoSession

\* What the operations of the store do to the snapshot: only a save or a delete
\* changes it, and the file is always among what a power loss may leave.
LEMMA StoreSnaps ==
  ASSUME snapFile \in snapMedia
  PROVE  /\ \A r, res : SavePending(r, res) \/ DeletePending(res) \/ UNCHANGED storeVars =>
              snapFile' = snapFile /\ snapMedia' \subseteq snapMedia /\ snapFile' \in snapMedia'
         /\ \A v : Save(v, "ok") => snapFile' = v /\ snapMedia' = {v}
         /\ \A v, res : res # "ok" /\ Save(v, res) =>
              /\ snapFile' \in {snapFile, v} /\ snapFile' \in snapMedia'
              /\ snapMedia' \in {snapMedia, snapMedia \cup {snapFile'}}
         /\ PowerLoss => snapFile' \in snapMedia /\ snapMedia' = {snapFile'}
<1>1. ASSUME NEW r, NEW res, SavePending(r, res)
      PROVE  snapFile' = snapFile /\ snapMedia' \subseteq snapMedia /\ snapFile' \in snapMedia'
  BY <1>1 DEF SavePending, Put, MediaAfter
<1>2. ASSUME UNCHANGED storeVars
      PROVE  snapFile' = snapFile /\ snapMedia' \subseteq snapMedia /\ snapFile' \in snapMedia'
  BY <1>2 DEF storeVars
<1>3. ASSUME NEW res, DeletePending(res)
      PROVE  snapFile' = snapFile /\ snapMedia' \subseteq snapMedia /\ snapFile' \in snapMedia'
  BY <1>2, <1>3 DEF DeletePending, Put, MediaAfter
<1>4. ASSUME NEW v, Save(v, "ok") PROVE snapFile' = v /\ snapMedia' = {v}
  BY <1>4 DEF Save, Put, MediaAfter
<1>5. ASSUME NEW v, NEW res, res # "ok", Save(v, res)
      PROVE  /\ snapFile' \in {snapFile, v} /\ snapFile' \in snapMedia'
             /\ snapMedia' \in {snapMedia, snapMedia \cup {snapFile'}}
  <2>1. res \in {"failed", "unsynced"}
    BY <1>5 DEF Save, StoreResults
  <2>2. CASE res = "failed"
    BY <1>5, <2>2 DEF Save, Put, MediaAfter
  <2>3. CASE res = "unsynced"
    BY <1>5, <2>3 DEF Save, Put, MediaAfter
  <2>4. QED BY <2>1, <2>2, <2>3
<1>6. PowerLoss => snapFile' \in snapMedia /\ snapMedia' = {snapFile'}
  BY DEF PowerLoss
<1>7. QED BY <1>1, <1>2, <1>3, <1>4, <1>5, <1>6

\* A deletion removes the snapshot or, failing early, leaves it as it was.
LEMMA DeleteSnaps ==
  /\ \A res \in StoreResults("delete") : DeleteBoth(res) =>
       \/ snapFile' = 0 /\ snapMedia' \in {{0}, snapMedia \cup {0}}
       \/ snapFile' = snapFile /\ snapMedia' = snapMedia
  /\ DeleteSnapshotOnly => snapFile' = 0 /\ snapMedia' = snapMedia \cup {0}
<1>1. ASSUME NEW res \in StoreResults("delete"), DeleteBoth(res)
      PROVE  \/ snapFile' = 0 /\ snapMedia' \in {{0}, snapMedia \cup {0}}
             \/ snapFile' = snapFile /\ snapMedia' = snapMedia
  <2>1. res \in {"ok", "failed", "unsynced"}
    BY DEF StoreResults
  <2>2. QED BY <1>1, <2>1 DEF DeleteBoth, Put, MediaAfter
<1>2. DeleteSnapshotOnly => snapFile' = 0 /\ snapMedia' = snapMedia \cup {0}
  BY DEF DeleteSnapshotOnly
<1>3. QED BY <1>1, <1>2

\* A step of a turn that touches no answer keeps the invariant.
LEMMA QuietSave ==
  ASSUME SaveInv, pc \in Stages, pc' \in Stages, (pc = "committed") <=> (pc' = "committed"),
         UNCHANGED <<committed, dirty, unsaved, before, acked, lastVersion, snapFile>>,
         snapMedia' \subseteq snapMedia, snapFile' \in snapMedia'
  PROVE  SaveInv'
<1>1. VersionsKnown' /\ AckedSurvives'
  BY DEF SaveInv, VersionsKnown, AckedSurvives
<1>2. TurnFromSaved'
  BY DEF SaveInv, TurnFromSaved
<1>3. QED BY <1>1, <1>2 DEF SaveInv, SavedOrDirty, Stages

\* So does a turn that ends, or is closed, before its commit.
LEMMA EndSave ==
  ASSUME TypeOK, SaveInv, pc \in Stages \ {"committed"}, EndTurn,
         UNCHANGED <<committed, dirty, unsaved, acked, lastVersion, snapFile>>,
         snapMedia' \subseteq snapMedia, snapFile' \in snapMedia'
  PROVE  SaveInv'
<1>0. pc' = "idle" /\ before' = 0 /\ lastVersion \in Nat
  BY DEF EndTurn, TypeOK, CountTypeOK
<1>1. VersionsKnown' /\ AckedSurvives'
  BY <1>0 DEF SaveInv, VersionsKnown, AckedSurvives
<1>2. TurnFromSaved'
  BY <1>0 DEF TurnFromSaved, Stages
<1>3. SavedOrDirty'
  BY <1>0 DEF SaveInv, TurnFromSaved, SavedOrDirty, Stages
<1>4. QED BY <1>0, <1>1, <1>2, <1>3 DEF SaveInv, Stages

\* Before the commit, closing a stream has nothing to mark as unsaved.
LEMMA AbortIsQuiet ==
  ASSUME SaveInv, pc \in Stages \ {"committed"}, Abort
  PROVE  EndTurn /\ UNCHANGED <<committed, dirty, unsaved>>
BY DEF Abort, SaveInv, TurnFromSaved

\* What the steps of the loop and of a call leave alone.
LEMMA LoopSave ==
  ASSUME TypeOK, SaveInv,
         \/ ModelCalls \/ ModelStops \/ NextStep \/ SkipCall \/ FailCall
         \/ AskApproval \/ RunFreeCall \/ Execute \/ ExecutionCancelled \/ Decide \/ CancelTurn
  PROVE  SaveInv'
<1>0. /\ pc \in Stages
      /\ UNCHANGED <<committed, dirty, unsaved, acked, lastVersion, storeVars>>
  BY DEF ModelCalls, ModelStops, NextStep, SkipCall, FailCall, AskApproval, RunFreeCall,
         Execute, ExecutionCancelled, Decide, CancelTurn, StopWithoutAnswer, AtCall, Stages,
         sessionVars, countVars, observers
<1>1. snapFile' = snapFile /\ snapMedia' \subseteq snapMedia /\ snapFile' \in snapMedia'
  BY <1>0, StoreSnaps DEF SaveInv
<1>2. CASE EndTurn /\ pc # "committed"
  BY <1>0, <1>1, <1>2, EndSave
<1>3. CASE pc' \in Stages /\ ((pc = "committed") <=> (pc' = "committed")) /\ before' = before
  BY <1>0, <1>1, <1>3, QuietSave
<1>4. \/ EndTurn /\ pc # "committed"
      \/ pc' \in Stages /\ ((pc = "committed") <=> (pc' = "committed")) /\ before' = before
  BY DEF ModelCalls, ModelStops, NextStep, SkipCall, FailCall, AskApproval, RunFreeCall,
         Execute, ExecutionCancelled, Decide, CancelTurn, StopWithoutAnswer, AtCall, Stages,
         turnVars
<1>5. QED BY <1>2, <1>3, <1>4

\* The saves of an approval's record touch the snapshot as little.
LEMMA ApprovalSave ==
  ASSUME TypeOK, SaveInv, PersistApproval \/ ClearApproval
  PROVE  SaveInv'
<1>0. pc \in {"asking", "resolving"} /\ UNCHANGED <<acked, lastVersion>>
  BY DEF PersistApproval, ClearApproval, countVars, observers
<1>1. snapFile' = snapFile /\ snapMedia' \subseteq snapMedia /\ snapFile' \in snapMedia'
  BY StoreSnaps DEF SaveInv, PersistApproval, ClearApproval
<1>2. CASE Abort
  BY <1>0, <1>1, <1>2, AbortIsQuiet, EndSave DEF Stages
<1>3. CASE ~Abort
  <2>1. /\ UNCHANGED <<committed, dirty, unsaved, before>>
        /\ pc' \in {"approval", "executing", "calls"}
    BY <1>3 DEF PersistApproval, ClearApproval, AfterDecision, sessionVars, turnVars
  <2>2. QED BY <1>0, <1>1, <2>1, QuietSave DEF Stages
<1>4. QED BY <1>2, <1>3

\* Starting and resuming happen in a clean idle session only.
LEMMA StartSave ==
  ASSUME TypeOK, SaveInv, StartTurn \/ ResumeTurn
  PROVE  SaveInv'
<1>1. /\ pc = "idle" /\ ~dirty /\ before' = committed
      /\ pc' \in {"model", "calls"}
      /\ UNCHANGED <<committed, dirty, unsaved, acked, lastVersion, snapFile, snapMedia>>
  <2>1. CASE StartTurn
    BY <2>1, Zenon DEF StartTurn, MayStart, BeginAt, storeVars, sessionVars, observers
  <2>2. CASE ResumeTurn
    <3>1. pc = "idle" /\ ~dirty
      BY <2>2 DEF ResumeTurn
    <3>2. before' = committed /\ pc' = "calls"
      BY <2>2, Zenon DEF ResumeTurn, BeginAt
    <3>3. UNCHANGED <<committed, dirty, unsaved, acked, lastVersion, snapFile, snapMedia>>
      BY <2>2, Zenon DEF ResumeTurn, storeVars, sessionVars, countVars, observers
    <3>4. QED BY <3>1, <3>2, <3>3
  <2>3. QED BY <2>1, <2>2
<1>2. VersionsKnown' /\ AckedSurvives'
  BY <1>1 DEF SaveInv, VersionsKnown, AckedSurvives
<1>3. TurnFromSaved'
  BY <1>1 DEF SaveInv, SavedOrDirty, TurnFromSaved
<1>4. QED BY <1>1, <1>2, <1>3 DEF SaveInv, SavedOrDirty

\* The commit makes the newest version; the file still holds the one before.
LEMMA CommitSave ==
  ASSUME TypeOK, SaveInv, ModelAnswers
  PROVE  SaveInv'
<1>1. /\ pc = "model" /\ pc' = "committed"
      /\ committed' = lastVersion + 1 /\ lastVersion' = lastVersion + 1
      /\ UNCHANGED <<dirty, unsaved, before, acked, snapFile, snapMedia>>
  BY DEF ModelAnswers, storeVars, turnVars, observers
<1>2. lastVersion \in Nat /\ acked \in Nat /\ unsaved \in Nat /\ before \in Nat
      /\ snapFile \in Nat /\ snapMedia \subseteq Nat
  BY DEF TypeOK, CountTypeOK, SessionTypeOK, TurnTypeOK, StoreTypeOK
<1>3. VersionsKnown' /\ AckedSurvives'
  <2>1. \A v \in {unsaved, before, acked, snapFile} \cup snapMedia :
          v \in Nat /\ v <= lastVersion
    BY <1>2 DEF SaveInv, VersionsKnown
  <2>2. \A v \in {unsaved, before, acked, snapFile} \cup snapMedia : v <= lastVersion + 1
    BY <1>2, <2>1
  <2>3. VersionsKnown'
    BY <1>1, <1>2, <2>2 DEF VersionsKnown
  <2>4. AckedSurvives'
    BY <1>1 DEF SaveInv, AckedSurvives
  <2>5. QED BY <2>3, <2>4
<1>4. TurnFromSaved' /\ SavedOrDirty'
  BY <1>1 DEF SaveInv, TurnFromSaved, SavedOrDirty, Stages
<1>5. acked' <= committed'
  BY <1>1, <1>2 DEF SaveInv, VersionsKnown
<1>6. QED BY <1>1, <1>3, <1>4, <1>5 DEF SaveInv

\* A save writes the newest version, or the version a dirty session still has to
\* write, so that what is reported is never older than what was reported before.
LEMMA SaveSteps ==
  ASSUME TypeOK, SaveInv, SaveAnswer \/ Flush
  PROVE  SaveInv'
<1>0. /\ lastVersion \in Nat /\ acked \in Nat /\ unsaved \in Nat /\ before \in Nat
      /\ committed \in Nat /\ dirty \in BOOLEAN
  BY DEF TypeOK, CountTypeOK, SessionTypeOK, TurnTypeOK
<1>1. CASE SaveAnswer
  <2>1. /\ pc = "committed" /\ pc' = "idle" /\ before' = 0 /\ ~dirty
        /\ UNCHANGED <<committed, lastVersion>> /\ acked <= committed
    BY <1>1 DEF SaveAnswer, EndTurn, countVars, SaveInv
  <2>2. PICK res \in StoreResults("save") :
          /\ Save(committed, res)
          /\ acked' = IF res = "ok" THEN committed ELSE acked
          /\ dirty' = (dirty \/ res # "ok")
          /\ unsaved' = IF res = "ok" THEN unsaved ELSE committed
    BY <1>1, Zenon DEF SaveAnswer
  <2>3. CASE res = "ok"
    <3>1. snapFile' = committed /\ snapMedia' = {committed} /\ acked' = committed
          /\ ~dirty' /\ unsaved' = unsaved
      BY <2>1, <2>2, <2>3, StoreSnaps DEF SaveInv
    <3>2. VersionsKnown'
      BY <1>0, <2>1, <3>1 DEF SaveInv, VersionsKnown
    <3>3. QED BY <1>0, <2>1, <3>1, <3>2 DEF SaveInv, TurnFromSaved, SavedOrDirty, AckedSurvives, Stages
  <2>4. CASE res # "ok"
    <3>1. /\ snapFile' \in {snapFile, committed} /\ snapFile' \in snapMedia'
          /\ snapMedia' \subseteq snapMedia \cup {snapFile'}
          /\ acked' = acked /\ dirty' /\ unsaved' = committed
      BY <2>1, <2>2, <2>4, StoreSnaps DEF SaveInv
    <3>2. VersionsKnown' /\ AckedSurvives'
      BY <1>0, <2>1, <3>1 DEF SaveInv, VersionsKnown, AckedSurvives
    <3>3. QED BY <1>0, <2>1, <3>1, <3>2 DEF SaveInv, TurnFromSaved, SavedOrDirty, Stages
  <2>5. QED BY <2>3, <2>4
<1>2. CASE Flush
  <2>1. /\ pc = "idle" /\ pc' = "idle" /\ dirty /\ unsaved = committed
        /\ UNCHANGED <<committed, lastVersion, before>> /\ acked <= committed
    BY <1>2 DEF Flush, SaveInv, SavedOrDirty, turnVars, countVars
  <2>2. PICK res \in StoreResults("save") :
          /\ Save(unsaved, res)
          /\ acked' = IF res = "ok" THEN unsaved ELSE acked
          /\ dirty' = (res # "ok")
          /\ unsaved' = IF res = "ok" THEN 0 ELSE unsaved
    BY <1>2, Zenon DEF Flush
  <2>3. CASE res = "ok"
    <3>1. snapFile' = committed /\ snapMedia' = {committed} /\ acked' = committed
          /\ ~dirty' /\ unsaved' = 0
      BY <2>1, <2>2, <2>3, StoreSnaps DEF SaveInv
    <3>2. VersionsKnown'
      BY <1>0, <2>1, <3>1 DEF SaveInv, VersionsKnown
    <3>3. QED BY <1>0, <2>1, <3>1, <3>2 DEF SaveInv, TurnFromSaved, SavedOrDirty, AckedSurvives, Stages
  <2>4. CASE res # "ok"
    <3>1. /\ snapFile' \in {snapFile, committed} /\ snapFile' \in snapMedia'
          /\ snapMedia' \subseteq snapMedia \cup {snapFile'}
          /\ acked' = acked /\ dirty' /\ unsaved' = committed
      BY <2>1, <2>2, <2>4, StoreSnaps DEF SaveInv
    <3>2. VersionsKnown' /\ AckedSurvives'
      BY <1>0, <2>1, <3>1 DEF SaveInv, VersionsKnown, AckedSurvives
    <3>3. QED BY <1>0, <2>1, <3>1, <3>2 DEF SaveInv, TurnFromSaved, SavedOrDirty, Stages
  <2>5. QED BY <2>3, <2>4
<1>3. QED BY <1>1, <1>2

\* A stream that is closed after the commit leaves the version to be written.
LEMMA CloseSave ==
  ASSUME TypeOK, SaveInv, CloseStream
  PROVE  SaveInv'
<1>0. /\ pc \in Stages /\ Abort
      /\ UNCHANGED <<committed, acked, lastVersion, snapFile, snapMedia>>
  BY DEF CloseStream, Abort, Stages, storeVars, countVars, observers
<1>1. CASE pc # "committed"
  <2>1. UNCHANGED <<dirty, unsaved>> /\ EndTurn
    BY <1>0, <1>1, AbortIsQuiet
  <2>2. QED BY <1>0, <1>1, <2>1, EndSave DEF SaveInv
<1>2. CASE pc = "committed"
  <2>1. /\ pc' = "idle" /\ before' = 0 /\ snapFile = before /\ ~dirty
        /\ lastVersion \in Nat /\ acked <= committed
    BY <1>0, <1>2 DEF Abort, EndTurn, SaveInv, TurnFromSaved, TypeOK, CountTypeOK
  <2>2. IF committed # before THEN dirty' = TRUE /\ unsaved' = committed
                              ELSE UNCHANGED <<dirty, unsaved>>
    BY <1>0 DEF Abort
  <2>3. VersionsKnown' /\ AckedSurvives'
    BY <1>0, <2>1, <2>2 DEF SaveInv, VersionsKnown, AckedSurvives
  <2>4. QED BY <1>0, <2>1, <2>2, <2>3 DEF SaveInv, TurnFromSaved, SavedOrDirty, Stages
<1>3. QED BY <1>1, <1>2

\* A crash, an open and a deletion: what is reported stays on the disk.
LEMMA EnvironmentSave ==
  ASSUME TypeOK, SaveInv, Environment
  PROVE  SaveInv'
<1>0. lastVersion \in Nat /\ acked \in Nat /\ snapMedia \subseteq Nat
  BY DEF TypeOK, CountTypeOK, StoreTypeOK
<1>1. CASE Crash
  <2>1. /\ pc' = "down" /\ committed' = 0 /\ ~dirty' /\ unsaved' = 0 /\ before' = 0
        /\ UNCHANGED <<acked, lastVersion>>
        /\ UNCHANGED storeVars \/ PowerLoss
    BY <1>1 DEF Crash, observers
  <2>2. snapFile' \in snapMedia' /\ snapMedia' \subseteq snapMedia
    BY <2>1, StoreSnaps DEF SaveInv
  <2>3. VersionsKnown' /\ AckedSurvives'
    BY <1>0, <2>1, <2>2 DEF SaveInv, VersionsKnown, AckedSurvives
  <2>4. QED BY <2>1, <2>2, <2>3 DEF SaveInv, TurnFromSaved, SavedOrDirty, Stages
<1>2. CASE Open
  <2>1. /\ pc = "down" /\ pc' = "idle" /\ committed' = snapFile
        /\ UNCHANGED <<dirty, unsaved, before, acked, lastVersion, snapFile, snapMedia>>
    BY <1>2 DEF Open, storeVars, turnVars, countVars, observers
  <2>2. VersionsKnown' /\ AckedSurvives' /\ acked <= snapFile
    BY <2>1 DEF SaveInv, VersionsKnown, AckedSurvives
  <2>3. QED BY <2>1, <2>2 DEF SaveInv, TurnFromSaved, SavedOrDirty, Stages
<1>3. CASE OpenRefused
  <2>1. /\ pc = "down" /\ pc' = "refused"
        /\ UNCHANGED <<committed, dirty, unsaved, before, acked, lastVersion, snapFile, snapMedia>>
    BY <1>3 DEF OpenRefused, storeVars, sessionVars, turnVars, countVars, observers
  <2>2. VersionsKnown' /\ AckedSurvives'
    BY <2>1 DEF SaveInv, VersionsKnown, AckedSurvives
  <2>3. QED BY <2>1, <2>2 DEF SaveInv, TurnFromSaved, SavedOrDirty, Stages
<1>4. CASE DeleteSession
  <2>1. /\ pc \in {"down", "refused"} /\ pc' = "down"
        /\ UNCHANGED <<committed, dirty, unsaved, before, lastVersion>>
        /\ acked' = IF snapFile' = 0 THEN 0 ELSE acked
    BY <1>4, Zenon DEF DeleteSession, sessionVars, turnVars, countVars
  <2>2. \/ snapFile' = 0 /\ snapMedia' \subseteq snapMedia \cup {0} /\ snapFile' \in snapMedia'
        \/ snapFile' = snapFile /\ snapMedia' = snapMedia
    BY <1>4, DeleteSnaps DEF DeleteSession
  <2>3. VersionsKnown'
    <3>1. \A v \in {committed, unsaved, before, acked, snapFile, 0} \cup snapMedia :
            v <= lastVersion
      BY <1>0 DEF SaveInv, VersionsKnown
    <3>2. /\ committed' = committed /\ unsaved' = unsaved /\ before' = before
          /\ acked' \in {0, acked} /\ snapFile' \in {0, snapFile}
          /\ snapMedia' \subseteq snapMedia \cup {0} /\ lastVersion' = lastVersion
      BY <2>1, <2>2
    <3>3. QED BY <3>1, <3>2 DEF VersionsKnown
  <2>4. AckedSurvives'
    <3>1. \A v \in snapMedia : v \in Nat /\ acked <= v
      BY <1>0 DEF SaveInv, AckedSurvives
    <3>2. CASE snapFile' = 0
      <4>1. acked' = 0
        BY <2>1, <3>2
      <4>2. \A v \in snapMedia' : v \in Nat
        BY <2>2, <3>1
      <4>3. QED BY <4>1, <4>2 DEF AckedSurvives
    <3>3. CASE snapFile' # 0
      BY <2>1, <2>2, <3>1, <3>3 DEF AckedSurvives
    <3>4. QED BY <3>2, <3>3
  <2>5. QED BY <2>1, <2>2, <2>3, <2>4 DEF SaveInv, TurnFromSaved, SavedOrDirty, Stages
<1>5. QED BY <1>1, <1>2, <1>3, <1>4 DEF Environment

\* SaveInv holds in every reachable state.
THEOREM SaveInvariant == Spec => []SaveInv
<1>1. Init => SaveInv
  <2> SUFFICES ASSUME Init PROVE SaveInv
    OBVIOUS
  <2>1. /\ pc = "down" /\ committed = 0 /\ ~dirty /\ unsaved = 0 /\ before = 0
        /\ acked = 0 /\ lastVersion = 0 /\ snapFile = 0 /\ snapMedia = {0}
    BY Zenon DEF Init, StoreInit
  <2>2. VersionsKnown /\ AckedSurvives
    BY <2>1 DEF VersionsKnown, AckedSurvives
  <2>3. TurnFromSaved /\ SavedOrDirty
    BY <2>1 DEF TurnFromSaved, SavedOrDirty, Stages
  <2>4. QED BY <2>1, <2>2, <2>3 DEF SaveInv
<1>2. TypeOK /\ SaveInv /\ [Next]_vars => SaveInv'
  <2> SUFFICES ASSUME TypeOK, SaveInv, [Next]_vars PROVE SaveInv'
    OBVIOUS
  <2>1. CASE AgentStep
    BY <2>1, LoopSave, ApprovalSave, CommitSave, SaveSteps DEF AgentStep
  <2>2. CASE UserStep
    BY <2>2, LoopSave, StartSave, SaveSteps, CloseSave DEF UserStep
  <2>3. CASE Environment
    BY <2>3, EnvironmentSave
  <2>4. CASE UNCHANGED vars
    BY <2>4 DEF vars, storeVars, sessionVars, turnVars, countVars, observers, SaveInv,
                VersionsKnown, TurnFromSaved, SavedOrDirty, AckedSurvives
  <2>5. QED BY <2>1, <2>2, <2>3, <2>4 DEF Next
<1>3. QED BY <1>1, <1>2, TypeCorrect, PTL DEF Spec

\* No committed answer is forgotten: an idle session holds what its file holds, or
\* knows the version it has to write.
THEOREM NothingForgotten == Spec => []SavedOrDirty
<1>1. SaveInv => SavedOrDirty
  BY DEF SaveInv
<1>2. QED BY <1>1, SaveInvariant, PTL

\* A version reported as saved is never replaced by an older one, for any number
\* of failing operations, flushes, crashes and power losses.
THEOREM ReportedSurvives == Spec => []AckedSurvives
<1>1. SaveInv => AckedSurvives
  BY DEF SaveInv
<1>2. QED BY <1>1, SaveInvariant, PTL

\* A turn is never lost without a trace: what memory holds is in the file or marked
\* for saving, and what was reported to the caller survives any crash after it.
THEOREM NoTurnIsLost == Spec => []NothingIsLost
BY NothingForgotten, ReportedSurvives, PTL DEF NothingIsLost

\* A turn that ends before its answer is committed leaves nothing behind: for any
\* tool calls, decisions and failing operations it went through.
THEOREM RollbackIsExact == Spec => RollbackExact
<1>1. SaveInv /\ [Next]_vars =>
        [(pc \in Stages \ {"committed"} /\ pc' = "idle") =>
           committed' = before /\ snapFile' = snapFile /\ ~dirty']_vars
  <2> SUFFICES ASSUME SaveInv, Next, pc \in Stages \ {"committed"}, pc' = "idle"
               PROVE  committed' = before /\ snapFile' = snapFile /\ ~dirty'
    BY DEF vars
  <2>1. committed = before /\ ~dirty /\ snapFile \in snapMedia
    BY DEF SaveInv, TurnFromSaved, Stages
  <2>2. CASE ModelStops \/ NextStep \/ ExecutionCancelled
    BY <2>1, <2>2 DEF ModelStops, NextStep, ExecutionCancelled, StopWithoutAnswer,
                      sessionVars, storeVars
  <2>3. CASE PersistApproval \/ ClearApproval
    <3>1. snapFile' = snapFile
      BY <2>1, <2>3, StoreSnaps DEF PersistApproval, ClearApproval
    <3>2. Abort
      BY <2>3 DEF PersistApproval, ClearApproval, AfterDecision
    <3>3. QED BY <2>1, <3>1, <3>2 DEF Abort
  <2>4. CASE CloseStream
    BY <2>1, <2>4 DEF CloseStream, Abort, storeVars
  <2>5. ModelStops \/ NextStep \/ ExecutionCancelled \/ PersistApproval \/ ClearApproval
        \/ CloseStream
    <3>1. CASE AgentStep
      BY <3>1 DEF AgentStep, ModelCalls, ModelAnswers, SkipCall, FailCall, AskApproval,
                  RunFreeCall, Execute, SaveAnswer, AtCall, Stages
    <3>2. CASE UserStep
      BY <3>2 DEF UserStep, StartTurn, MayStart, ResumeTurn, Decide, CancelTurn, Flush, Stages
    <3>3. CASE Environment
      BY <3>3 DEF Environment, Crash, Open, OpenRefused, DeleteSession, Stages
    <3>4. QED BY <3>1, <3>2, <3>3 DEF Next
  <2>6. QED BY <2>2, <2>3, <2>4, <2>5
<1>2. QED BY <1>1, SaveInvariant, PTL DEF Spec, RollbackExact

-------------------------------------------------------------------------------
\* The refinement: what the mapped variables are at each stage.
LEMMA TalkValues ==
  /\ pc \in {"down", "refused"} => TalkPhase = "closed" /\ TalkAsked = {} /\ TalkPermit = {}
  /\ pc = "idle" => TalkPhase = "rest" /\ TalkAsked = {} /\ TalkPermit = {}
  /\ pc = "committed" => TalkPhase = "answered" /\ TalkAsked = {} /\ TalkPermit = {}
  /\ pc \in Stages \ {"committed"} => TalkPhase = "turn"
  /\ pc \in {"model", "calls"} => TalkAsked = {} /\ TalkPermit = {}
  /\ pc \in {"asking", "approval", "resolving"} =>
       TalkAsked = {<<turn, Head(queue)>>} /\ TalkPermit = {}
  /\ pc = "executing" =>
       TalkAsked = {} /\ TalkPermit = IF Head(queue) \in Guarded
                                    THEN {<<turn, Head(queue)>>} ELSE {}
BY DEF TalkPhase, TalkAsked, TalkPermit, Stages

LEMMA TalkValuesAfter ==
  /\ pc' \in {"down", "refused"} =>
       TalkPhase' = "closed" /\ TalkAsked' = {} /\ TalkPermit' = {}
  /\ pc' = "idle" => TalkPhase' = "rest" /\ TalkAsked' = {} /\ TalkPermit' = {}
  /\ pc' = "committed" => TalkPhase' = "answered" /\ TalkAsked' = {} /\ TalkPermit' = {}
  /\ pc' \in Stages \ {"committed"} => TalkPhase' = "turn"
  /\ pc' \in {"model", "calls"} => TalkAsked' = {} /\ TalkPermit' = {}
  /\ pc' \in {"asking", "approval", "resolving"} =>
       TalkAsked' = {<<turn', Head(queue')>>} /\ TalkPermit' = {}
  /\ pc' = "executing" =>
       TalkAsked' = {} /\ TalkPermit' = IF Head(queue') \in Guarded
                                     THEN {<<turn', Head(queue')>>} ELSE {}
BY DEF TalkPhase, TalkAsked, TalkPermit, Stages

\* A step that lets no guarded call take effect changes no effects, and one that
\* lets the call at hand take effect counts it.
LEMMA TalkEffectsAfter ==
  /\ GuardedRunsKept => TalkEffects' = TalkEffects
  /\ \A done \in {0, 1} :
       /\ CountTypeOK /\ turn \in Turns /\ Head(queue) \in Guarded
       /\ ran' = [ran EXCEPT ![turn][Head(queue)] = @ + done]
       => TalkEffects' = [TalkEffects EXCEPT ![<<turn, Head(queue)>>] = @ + done]
<1>1. GuardedRunsKept => TalkEffects' = TalkEffects
  BY DEF GuardedRunsKept, TalkEffects
<1>2. ASSUME NEW done \in {0, 1}, CountTypeOK, turn \in Turns, Head(queue) \in Guarded,
             ran' = [ran EXCEPT ![turn][Head(queue)] = @ + done]
      PROVE  TalkEffects' = [TalkEffects EXCEPT ![<<turn, Head(queue)>>] = @ + done]
  <2>1. \A t \in Turns, s \in Guarded :
          ran'[t][s] = IF t = turn /\ s = Head(queue) THEN ran[t][s] + done ELSE ran[t][s]
    BY <1>2 DEF CountTypeOK, Guarded
  <2>2. \A q \in Turns \X Guarded :
          ran'[q[1]][q[2]] = IF q = <<turn, Head(queue)>> THEN ran[q[1]][q[2]] + done
                                                          ELSE ran[q[1]][q[2]]
    BY <2>1
  <2>3. QED BY <1>2, <2>2 DEF TalkEffects
<1>3. QED BY <1>1, <1>2

TalkStep == [Talk!ConvNext]_(Talk!convVars)

\* A step that changes nothing a person could see.
LEMMA TalkStutter ==
  ASSUME UNCHANGED <<committed, snapFile, snapMedia, acked>>,
         TalkPhase' = TalkPhase, TalkAsked' = TalkAsked, TalkPermit' = TalkPermit,
         GuardedRunsKept
  PROVE  TalkStep
BY TalkEffectsAfter DEF TalkStep, Talk!convVars

\* A turn that is over without an answer.
LEMMA TalkGivesUp ==
  ASSUME pc \in Stages \ {"committed"}, pc' = "idle",
         UNCHANGED <<committed, snapFile, acked>>,
         snapMedia' \subseteq snapMedia, snapFile' \in snapMedia', GuardedRunsKept
  PROVE  TalkStep
BY TalkValues, TalkValuesAfter, TalkEffectsAfter
   DEF TalkStep, Talk!ConvNext, Talk!GiveUp, Talk!Quiet

\* The steps of the loop, and of a call up to its execution.
LEMMA LoopTalk ==
  ASSUME SaveInv, EffectInv, EffectInv',
         \/ ModelCalls \/ ModelAnswers \/ ModelStops \/ NextStep
         \/ SkipCall \/ FailCall \/ AskApproval \/ RunFreeCall \/ Decide \/ CancelTurn
  PROVE  TalkStep
<1>0. /\ UNCHANGED <<snapFile, snapMedia, acked, ran>> /\ snapFile \in snapMedia
      /\ GuardedRunsKept
  BY QuietRuns DEF ModelCalls, ModelAnswers, ModelStops, NextStep, SkipCall, FailCall,
       AskApproval, RunFreeCall, Decide, CancelTurn, storeVars, observers, SaveInv
<1>1. CASE ModelCalls \/ SkipCall \/ FailCall \/ CancelTurn
  <2>1. /\ committed' = committed /\ turn' = turn
        /\ \/ pc' = pc /\ queue' = queue
           \/ pc \in {"model", "calls"} /\ pc' = "calls"
    <3>1. CASE ModelCalls
      BY <3>1 DEF ModelCalls, sessionVars
    <3>2. CASE SkipCall
      BY <3>2 DEF SkipCall, AtCall, sessionVars
    <3>3. CASE FailCall
      BY <3>3 DEF FailCall, AtCall, sessionVars
    <3>4. CASE CancelTurn
      BY <3>4 DEF CancelTurn, sessionVars
    <3>5. QED BY <1>1, <3>1, <3>2, <3>3, <3>4
  <2>2. TalkPhase' = TalkPhase /\ TalkAsked' = TalkAsked /\ TalkPermit' = TalkPermit
    <3>1. CASE pc' = pc /\ queue' = queue
      BY <2>1, <3>1 DEF TalkPhase, TalkAsked, TalkPermit
    <3>2. CASE pc \in {"model", "calls"} /\ pc' = "calls"
      BY <3>2, TalkValues, TalkValuesAfter DEF Stages
    <3>3. QED BY <2>1, <3>1, <3>2
  <2>3. QED BY <1>0, <2>1, <2>2, TalkStutter
<1>2. CASE NextStep /\ pc' = "model"
  <2>1. pc = "calls" /\ committed' = committed
    BY <1>2 DEF NextStep, StopWithoutAnswer, EndTurn, sessionVars
  <2>2. QED BY <1>0, <1>2, <2>1, TalkStutter, TalkValues, TalkValuesAfter DEF Stages
<1>3. CASE ModelStops \/ (NextStep /\ pc' # "model")
  <2>1. pc \in {"model", "calls"} /\ pc' = "idle" /\ committed' = committed
    BY <1>3 DEF ModelStops, NextStep, StopWithoutAnswer, EndTurn, sessionVars
  <2>2. QED BY <1>0, <2>1, TalkGivesUp DEF Stages
<1>4. CASE ModelAnswers
  <2>1. pc = "model" /\ pc' = "committed" /\ committed' = lastVersion + 1
    BY <1>4 DEF ModelAnswers
  <2>2. /\ lastVersion \in Nat
        /\ \A v \in snapMedia \cup {committed, acked} : v \in Nat /\ v <= lastVersion
    BY DEF EffectInv, TypeOK, StoreTypeOK, SessionTypeOK, CountTypeOK, SaveInv, VersionsKnown
  <2>3. /\ committed' \in Nat
        /\ \A v \in snapMedia \cup {committed, acked} : v < committed'
    BY <2>1, <2>2
  <2>4. QED BY <1>0, <2>1, <2>3, TalkValues, TalkValuesAfter, TalkEffectsAfter
            DEF TalkStep, Talk!ConvNext, Talk!Answer, Stages
<1>5. CASE AskApproval
  <2>1. /\ pc = "calls" /\ pc' = "asking" /\ committed' = committed
        /\ turn' = turn /\ queue' = queue /\ Head(queue) \in Guarded
    BY <1>5 DEF AskApproval, AtCall
  <2>2. turn \in Turns /\ ran[turn][Head(queue)] = 0
    BY <1>0, <2>1 DEF EffectInv, TypeOK, TurnTypeOK, GuardedCallPending, Stages
  <2>3. /\ <<turn, Head(queue)>> \in Talk!Questions
        /\ TalkEffects[<<turn, Head(queue)>>] = 0
    BY <2>1, <2>2 DEF Talk!Questions, TalkEffects
  <2>4. /\ TalkPhase = "turn" /\ TalkPhase' = TalkPhase /\ TalkAsked = {}
        /\ TalkAsked' = {<<turn, Head(queue)>>} /\ TalkPermit = {} /\ TalkPermit' = {}
    BY <2>1, TalkValues, TalkValuesAfter DEF Stages
  <2>5. QED BY <1>0, <2>1, <2>3, <2>4, TalkEffectsAfter DEF TalkStep, Talk!ConvNext, Talk!Ask
<1>6. CASE RunFreeCall
  <2>1. /\ pc = "calls" /\ pc' = "executing" /\ committed' = committed
        /\ queue' = queue /\ Head(queue) \notin Guarded
    BY <1>6 DEF RunFreeCall, AtCall, sessionVars, Guarded
  <2>2. QED BY <1>0, <2>1, TalkStutter, TalkValues, TalkValuesAfter DEF Stages
<1>7. CASE Decide
  <2>1. /\ pc = "approval" /\ pc' = "resolving" /\ committed' = committed
        /\ queue' = queue /\ turn' = turn
    BY <1>7 DEF Decide
  <2>2. TalkPhase' = TalkPhase /\ TalkAsked' = TalkAsked /\ TalkPermit' = TalkPermit
    BY <2>1 DEF TalkPhase, TalkAsked, TalkPermit
  <2>3. QED BY <1>0, <2>1, <2>2, TalkStutter
<1>8. QED BY <1>1, <1>2, <1>3, <1>4, <1>5, <1>6, <1>7

\* A question is settled by saving its record, and answered by deleting it.
LEMMA ApprovalTalk ==
  ASSUME SaveInv, EffectInv, PersistApproval \/ ClearApproval
  PROVE  TalkStep
<1>0. /\ snapFile' = snapFile /\ snapMedia' \subseteq snapMedia /\ snapFile' \in snapMedia'
      /\ UNCHANGED <<acked, ran>> /\ GuardedRunsKept
  BY StoreSnaps, QuietRuns DEF SaveInv, PersistApproval, ClearApproval, observers
<1>1. CASE Abort
  <2>1. pc \in {"asking", "resolving"} /\ pc' = "idle" /\ committed' = committed
    BY <1>1 DEF PersistApproval, ClearApproval, Abort, EndTurn
  <2>2. QED BY <1>0, <2>1, TalkGivesUp DEF Stages
<1>2. CASE PersistApproval /\ ~Abort
  <2>1. /\ pc = "asking" /\ pc' = "approval" /\ committed' = committed
        /\ turn' = turn /\ queue' = queue
    BY <1>2 DEF PersistApproval, sessionVars, turnVars
  <2>2. TalkPhase = "turn" /\ TalkPhase' = TalkPhase /\ TalkAsked' = TalkAsked
        /\ TalkPermit' = TalkPermit
    BY <2>1, TalkValues, TalkValuesAfter DEF Stages
  <2>3. QED BY <1>0, <2>1, <2>2, TalkEffectsAfter
            DEF TalkStep, Talk!ConvNext, Talk!Settle
<1>3. CASE ClearApproval /\ ~Abort
  <2>0. /\ pc = "resolving" /\ committed' = committed /\ AfterDecision
        /\ Head(queue) \in Guarded
    BY <1>3 DEF ClearApproval, sessionVars, EffectInv, GuardedCallPending
  <2>1. TalkPhase = "turn" /\ TalkAsked = {<<turn, Head(queue)>>} /\ TalkPermit = {}
    BY <2>0, TalkValues DEF Stages
  <2>2. CASE granted
    <3>1. pc' = "executing" /\ turn' = turn /\ queue' = queue
      BY <2>0, <2>2 DEF AfterDecision, turnVars
    <3>2. TalkPhase' = "turn" /\ TalkAsked' = {} /\ TalkPermit' = {<<turn, Head(queue)>>}
      BY <2>0, <3>1, TalkValuesAfter DEF Stages
    <3>3. QED BY <1>0, <2>0, <2>1, <3>2, TalkEffectsAfter
              DEF TalkStep, Talk!ConvNext, Talk!Grant
  <2>3. CASE ~granted
    <3>1. pc' = "calls"
      BY <2>0, <2>3 DEF AfterDecision
    <3>2. TalkPhase' = "turn" /\ TalkAsked' = {} /\ TalkPermit' = {}
      BY <3>1, TalkValuesAfter DEF Stages
    <3>3. QED BY <1>0, <2>0, <2>1, <3>2, TalkEffectsAfter
              DEF TalkStep, Talk!ConvNext, Talk!Decline
  <2>4. QED BY <2>2, <2>3
<1>4. QED BY <1>1, <1>2, <1>3

\* Only the execution of a guarded call counts as an effect.
LEMMA ExecuteTalk ==
  ASSUME SaveInv, EffectInv, Execute \/ ExecutionCancelled
  PROVE  TalkStep
<1>0. /\ pc = "executing" /\ turn \in Turns /\ Head(queue) \in Sigs /\ CountTypeOK
      /\ UNCHANGED <<committed, snapFile, snapMedia, acked>> /\ snapFile \in snapMedia
  BY QueueTypes DEF Execute, ExecutionCancelled, StopWithoutAnswer, EffectInv, TypeOK,
                    TurnTypeOK, Stages, storeVars, sessionVars, SaveInv
<1>1. \A n \in {0, 1} : Head(queue) \notin Guarded
         /\ ran' = [ran EXCEPT ![turn][Head(queue)] = @ + n] => TalkEffects' = TalkEffects
  <2> SUFFICES ASSUME NEW n \in {0, 1}, Head(queue) \notin Guarded,
                      ran' = [ran EXCEPT ![turn][Head(queue)] = @ + n]
               PROVE  TalkEffects' = TalkEffects
    OBVIOUS
  <2>1. \A t \in Turns, s \in Guarded : ran'[t][s] = ran[t][s]
    BY <1>0 DEF CountTypeOK, Guarded
  <2>2. QED BY <2>1 DEF TalkEffects
<1>2. CASE Execute
  <2>1. PICK done \in {0, 1} : ran' = [ran EXCEPT ![turn][Head(queue)] = @ + done]
    BY <1>2 DEF Execute
  <2>2. /\ pc' = "calls" /\ TalkPhase = "turn" /\ TalkPhase' = TalkPhase
        /\ TalkAsked = {} /\ TalkAsked' = {} /\ TalkPermit' = {}
    BY <1>0, <1>2, TalkValues, TalkValuesAfter DEF Execute, Stages
  <2>3. CASE Head(queue) \in Guarded
    <3>1. /\ TalkPermit = {<<turn, Head(queue)>>}
          /\ TalkEffects' = [TalkEffects EXCEPT ![<<turn, Head(queue)>>] = @ + done]
      BY <1>0, <2>1, <2>3, TalkValues, TalkEffectsAfter
    <3>2. Talk!UsePermit
      BY <2>2, <3>1 DEF Talk!UsePermit
    <3>3. QED BY <1>0, <2>2, <3>2 DEF TalkStep, Talk!ConvNext, Talk!Act
  <2>4. CASE Head(queue) \notin Guarded
    <3>1. TalkPermit = {} /\ TalkEffects' = TalkEffects
      BY <1>0, <1>1, <2>1, <2>4, TalkValues
    <3>2. QED BY <1>0, <2>2, <3>1 DEF TalkStep, Talk!convVars
  <2>5. QED BY <2>3, <2>4
<1>3. CASE ExecutionCancelled
  <2>1. pc' = "idle"
    BY <1>3 DEF ExecutionCancelled, StopWithoutAnswer, EndTurn
  <2>2. TalkEffects' = TalkEffects
    <3>1. CASE ran' = ran
      BY <3>1, QuietRuns, TalkEffectsAfter
    <3>2. CASE ran' # ran
      BY <1>1, <1>3, <3>2 DEF ExecutionCancelled, Guarded
    <3>3. QED BY <3>1, <3>2
  <2>3. QED BY <1>0, <2>1, <2>2, TalkValues, TalkValuesAfter
            DEF TalkStep, Talk!ConvNext, Talk!GiveUp, Talk!Quiet, Stages
<1>4. QED BY <1>2, <1>3

\* Storing an answer.
LEMMA SaveTalk ==
  ASSUME SaveInv, EffectInv, SaveAnswer \/ Flush
  PROVE  TalkStep
<1>0. /\ committed' = committed /\ ran' = ran /\ GuardedRunsKept /\ snapFile \in snapMedia
  BY QuietRuns DEF SaveAnswer, Flush, SaveInv
<1>1. Talk!Store
  <2>1. PICK res : Save(committed, res) /\ acked' = IF res = "ok" THEN committed ELSE acked
    <3>1. CASE SaveAnswer
      BY <3>1, Zenon DEF SaveAnswer
    <3>2. CASE Flush
      <4>1. unsaved = committed
        BY <3>2 DEF Flush, SaveInv, SavedOrDirty
      <4>2. QED BY <3>2, <4>1, Zenon DEF Flush
    <3>3. QED BY <3>1, <3>2
  <2>2. CASE res = "ok"
    BY <1>0, <2>1, <2>2, StoreSnaps DEF Talk!Store
  <2>3. CASE res # "ok"
    BY <1>0, <2>1, <2>3, StoreSnaps DEF Talk!Store
  <2>4. QED BY <2>2, <2>3
<1>2. CASE SaveAnswer
  <2>1. pc = "committed" /\ pc' = "idle"
    BY <1>2 DEF SaveAnswer, EndTurn
  <2>2. QED BY <1>0, <1>1, <2>1, TalkValues, TalkValuesAfter, TalkEffectsAfter
            DEF TalkStep, Talk!ConvNext, Talk!Conclude, Talk!Quiet
<1>3. CASE Flush
  <2>1. pc = "idle" /\ pc' = "idle"
    BY <1>3 DEF Flush
  <2>2. QED BY <1>0, <1>1, <2>1, TalkValues, TalkValuesAfter, TalkEffectsAfter
            DEF TalkStep, Talk!ConvNext, Talk!StoreLater
<1>4. QED BY <1>2, <1>3

\* Starting, resuming and closing.
LEMMA UserTalk ==
  ASSUME SaveInv, EffectInv, StartTurn \/ ResumeTurn \/ CloseStream
  PROVE  TalkStep
<1>0. /\ UNCHANGED <<committed, snapFile, snapMedia, acked, ran>> /\ GuardedRunsKept
      /\ snapFile \in snapMedia
  BY QuietRuns DEF StartTurn, ResumeTurn, CloseStream, Abort, storeVars, sessionVars,
                   observers, SaveInv
<1>1. CASE StartTurn \/ ResumeTurn
  <2>1. pc = "idle" /\ pc' \in {"model", "calls"} /\ committed = snapFile
    BY <1>1 DEF StartTurn, MayStart, ResumeTurn, BeginAt, SaveInv, SavedOrDirty
  <2>2. QED BY <1>0, <2>1, TalkValues, TalkValuesAfter, TalkEffectsAfter
            DEF TalkStep, Talk!ConvNext, Talk!Begin, Stages
<1>2. CASE CloseStream /\ pc = "committed"
  <2>1. pc' = "idle"
    BY <1>2 DEF CloseStream, Abort, EndTurn
  <2>2. Talk!Store
    BY <1>0 DEF Talk!Store
  <2>3. QED BY <1>0, <1>2, <2>1, <2>2, TalkValues, TalkValuesAfter, TalkEffectsAfter
            DEF TalkStep, Talk!ConvNext, Talk!Conclude, Talk!Quiet
<1>3. CASE CloseStream /\ pc # "committed"
  <2>1. pc \in Stages /\ pc' = "idle"
    BY <1>3 DEF CloseStream, Abort, EndTurn, Stages
  <2>2. QED BY <1>0, <1>3, <2>1, TalkGivesUp
<1>4. QED BY <1>1, <1>2, <1>3

\* What happens around the session.
LEMMA EnvironmentTalk ==
  ASSUME SaveInv, EffectInv, Environment
  PROVE  TalkStep
<1>0. /\ ran' = ran /\ GuardedRunsKept /\ snapFile \in snapMedia /\ acked \in Nat
  BY QuietRuns DEF Environment, Crash, Open, OpenRefused, DeleteSession, observers, SaveInv,
                   EffectInv, TypeOK, CountTypeOK
<1>1. CASE Crash
  <2>1. /\ pc' = "down" /\ committed' = 0 /\ acked' = acked
        /\ UNCHANGED storeVars \/ PowerLoss
    BY <1>1, Zenon DEF Crash, observers
  <2>2. \/ UNCHANGED <<snapFile, snapMedia>>
        \/ snapFile' \in snapMedia /\ snapMedia' = {snapFile'}
    BY <2>1 DEF PowerLoss, storeVars
  <2>3. QED BY <1>0, <2>1, <2>2, TalkValuesAfter, TalkEffectsAfter
            DEF TalkStep, Talk!ConvNext, Talk!Lose, Talk!Quiet
<1>2. CASE Open
  <2>1. /\ pc = "down" /\ pc' = "idle" /\ committed' = snapFile
        /\ UNCHANGED <<snapFile, snapMedia, acked>>
    BY <1>2 DEF Open, storeVars, observers
  <2>2. QED BY <1>0, <2>1, TalkValues, TalkValuesAfter, TalkEffectsAfter
            DEF TalkStep, Talk!ConvNext, Talk!Reopen
<1>3. CASE OpenRefused
  <2>1. /\ pc = "down" /\ pc' = "refused" /\ UNCHANGED <<committed, snapFile, snapMedia, acked>>
    BY <1>3 DEF OpenRefused, storeVars, sessionVars, observers
  <2>2. QED BY <1>0, <2>1, TalkValues, TalkValuesAfter, TalkStutter
<1>4. CASE DeleteSession
  <2>1. /\ pc \in {"down", "refused"} /\ pc' = "down" /\ committed' = committed
        /\ acked' = IF snapFile' = 0 THEN 0 ELSE acked
    BY <1>4, Zenon DEF DeleteSession, sessionVars
  <2>2. /\ TalkPhase = "closed" /\ TalkPhase' = TalkPhase /\ TalkAsked' = TalkAsked
        /\ TalkPermit' = TalkPermit
    BY <2>1, TalkValues, TalkValuesAfter
  <2>3. \/ snapFile' = 0 /\ snapMedia' \in {{0}, snapMedia \cup {0}}
        \/ snapFile' = snapFile /\ snapMedia' = snapMedia
    BY <1>4, DeleteSnaps DEF DeleteSession
  <2>4. CASE snapFile' = 0
    <3>1. acked' = 0 /\ snapMedia' \in {{0}, snapMedia \cup {0}}
      <4>1. CASE snapFile' = snapFile /\ snapMedia' = snapMedia
        BY <1>0, <2>1, <2>4, <4>1
      <4>2. QED BY <2>1, <2>3, <2>4, <4>1
    <3>2. QED BY <1>0, <2>1, <2>2, <2>4, <3>1, TalkEffectsAfter
              DEF TalkStep, Talk!ConvNext, Talk!Remove
  <2>5. CASE snapFile' # 0
    BY <1>0, <2>1, <2>2, <2>3, <2>5, TalkStutter
  <2>6. QED BY <2>4, <2>5
<1>5. QED BY <1>1, <1>2, <1>3, <1>4 DEF Environment

\* The session implements Conversation: for every set of tool calls, every budget
\* and every sequence of failing operations, crashes and power losses, what a
\* person sees of the session is a behaviour of the abstract conversation.
THEOREM Implements == Spec => ImplementsConversation
<1>1. Init => Talk!ConvInit
  <2> SUFFICES ASSUME Init PROVE Talk!ConvInit
    OBVIOUS
  <2>1. /\ pc = "down" /\ committed = 0 /\ acked = 0 /\ snapFile = 0 /\ snapMedia = {0}
        /\ \A t \in Turns, s \in Sigs : ran[t][s] = 0
    BY DEF Init, StoreInit
  <2>2. TalkEffects = [q \in Talk!Questions |-> 0]
    BY <2>1 DEF TalkEffects, Talk!Questions, Guarded
  <2>3. QED BY <2>1, <2>2, TalkValues DEF Talk!ConvInit
<1>2. SaveInv /\ EffectInv /\ EffectInv' /\ [Next]_vars => TalkStep
  <2> SUFFICES ASSUME SaveInv, EffectInv, EffectInv', [Next]_vars PROVE TalkStep
    OBVIOUS
  <2>1. CASE AgentStep
    BY <2>1, LoopTalk, ApprovalTalk, ExecuteTalk, SaveTalk DEF AgentStep
  <2>2. CASE UserStep
    BY <2>2, LoopTalk, UserTalk, SaveTalk DEF UserStep
  <2>3. CASE Environment
    BY <2>3, EnvironmentTalk
  <2>4. CASE UNCHANGED vars
    <3>1. /\ UNCHANGED <<committed, snapFile, snapMedia, acked, ran, pc, turn, queue>>
      BY <2>4 DEF vars, storeVars, sessionVars, turnVars, observers
    <3>2. QED BY <3>1, QuietRuns, TalkStutter DEF TalkPhase, TalkAsked, TalkPermit
  <2>5. QED BY <2>1, <2>2, <2>3, <2>4 DEF Next
<1>3. QED BY <1>1, <1>2, SaveInvariant, EffectInvariant, PTL
          DEF Spec, ImplementsConversation, TalkStep, Talk!ConvSpec
===============================================================================
