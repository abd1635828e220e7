----------------------------- MODULE SessionTurn ------------------------------
(***************************************************************************)
(* One conversation turn of WorkspaceAgent (agent.py) driven through        *)
(* PersistentSession (persistent_session.py) over the session store: the    *)
(* model/tool loop with its budgets, the approval that is saved before it   *)
(* is shown and deleted before the tool runs, the commit of the working     *)
(* messages, the save of the committed snapshot, and what a dropped stream, *)
(* a cancellation, a failing store, a process exit or a power loss leave    *)
(* behind for the next open.                                                *)
(*                                                                         *)
(* Abstractions.  The committed messages and summary are a version number.  *)
(* A tool call is its signature (name, arguments); what the code does with  *)
(* it depends on Kind[sig]:                                                 *)
(*   "safe"   needs approval and has an approval_preparer (write_file),     *)
(*   "plain"  needs approval and has no preparer: it cannot be resumed,     *)
(*   "free"   runs without approval,                                        *)
(*   "broken" is an unknown tool or has invalid arguments.                  *)
(* The model answers with any sequence of calls in Batches.  Call ids are   *)
(* fresh, so the id checks of _validate_pending_approval always pass.       *)
(* Whether a result fills the result-character budget is chosen freely.     *)
(* One Execute is one call of the tool middleware, its retries included.    *)
(***************************************************************************)
EXTENDS SessionStore, Sequences, FiniteSets

CONSTANTS Sigs, Kind, Batches,
          MaxLoops,      \* max_agent_loops
          MaxToolCalls,  \* max_tool_calls
          MaxTurns,      \* bound: number of turns started
          MaxCrashes     \* bound: number of process exits and power losses

Kinds == {"safe", "plain", "free", "broken"}

ASSUME CallsAssumption ==
  /\ Kind \in [Sigs -> Kinds]
  /\ Batches \subseteq Seq(Sigs) \ {<<>>}
ASSUME LimitsAssumption ==
  /\ MaxLoops \in Nat \ {0} /\ MaxToolCalls \in Nat
  /\ MaxTurns \in Nat /\ MaxCrashes \in Nat

VARIABLES
  pc,          \* where the one operation on the session stands
  committed,   \* agent.messages and agent.memory_summary
  pending,     \* agent._pending_approval
  dirty,       \* session._dirty
  unsaved,     \* session._pending_snapshot
  turn, step, queue, allowed, state, granted, cancelled, before,
               \* the running turn: its number, loop step, calls still to do,
               \* tools_allowed, _TurnState, the decision being resolved, the
               \* cancellation token and before_snapshot
  lastTurn, lastVersion, crashes,
  ran,         \* observer: executions of each call in each turn
  spent,       \* observer: middleware calls made for each turn
  acked        \* observer: the newest version reported as saved

sessionVars == <<committed, pending, dirty, unsaved>>
turnVars    == <<turn, step, queue, allowed, state, granted, cancelled, before>>
countVars   == <<lastTurn, lastVersion, crashes>>
observers   == <<ran, spent, acked>>
vars == <<storeVars, pc, sessionVars, turnVars, countVars, observers>>

Turns   == 1..MaxTurns
Guarded == {s \in Sigs : Kind[s] \in {"safe", "plain"}}

\* The fields of _TurnState that decide anything: tool_call_count,
\* seen_tool_calls and the two exhausted flags.
TurnStates == [used : Nat, seen : SUBSET Sigs, spent : BOOLEAN, full : BOOLEAN]
FreshState == [used |-> 0, seen |-> {}, spent |-> FALSE, full |-> FALSE]

Records == [base : Nat, turn : Turns, step : Nat, queue : Seq(Sigs), state : TurnStates]

ASSUME NoneAssumption == None \notin Records

Stages  == {"model", "calls", "asking", "approval", "resolving", "executing", "committed"}
Idle    == {"idle", "down", "refused"}

-------------------------------------------------------------------------------
\* Ending an operation: both locks are released and the token is dropped.
EndTurn ==
  /\ pc' = "idle"
  /\ turn' = 0 /\ step' = 0 /\ queue' = <<>> /\ allowed' = FALSE
  /\ state' = FreshState /\ granted' = FALSE /\ cancelled' = FALSE /\ before' = 0

\* Mutant: a turn that stops commits the working messages it has.
StopAndCommit ==
  EndTurn /\ committed' = lastVersion + 1 /\ UNCHANGED <<pending, dirty, unsaved>>

\* The turn ends with the committed state it began with.
StopWithoutAnswer == EndTurn /\ UNCHANGED sessionVars

\* Mutant: a stream that is closed or fails never marks the session dirty.
AbortSilently == EndTurn /\ UNCHANGED sessionVars

\* The stream is closed or raises: the finally block of _persist_agent_stream.
Abort ==
  /\ EndTurn
  /\ IF committed # before
     THEN dirty' = TRUE /\ unsaved' = committed
     ELSE UNCHANGED <<dirty, unsaved>>
  /\ UNCHANGED <<committed, pending>>

BeginAt(where, t, n, calls, st) ==
  /\ pc' = where
  /\ turn' = t /\ step' = n /\ queue' = calls /\ state' = st
  /\ allowed' = (where = "calls")
  /\ granted' = FALSE /\ cancelled' = FALSE /\ before' = committed

\* Mutant: a dirty session accepts a new turn.
MayStartDirty == pc = "idle" /\ pending = None

\* Mutant: a new turn may start while an approval waits.
MayStartPending == pc = "idle" /\ ~dirty

\* The refusals of stream_turn: busy, dirty, approval waiting.
MayStart == pc = "idle" /\ ~dirty /\ pending = None

StartTurn ==
  /\ MayStart /\ lastTurn < MaxTurns
  /\ BeginAt("model", lastTurn + 1, 1, <<>>, FreshState)
  /\ lastTurn' = lastTurn + 1
  /\ UNCHANGED <<storeVars, sessionVars, lastVersion, crashes, observers>>

\* _validate_pending_approval: the record belongs to this committed state and
\* its call and every remaining call can still be made.
Restorable(record, version) ==
  /\ record.base = version
  /\ record.step < MaxLoops
  /\ record.state.used <= MaxToolCalls
  /\ record.queue # <<>> /\ Kind[Head(record.queue)] = "safe"
  /\ \A i \in DOMAIN record.queue : Kind[record.queue[i]] # "broken"

ResumeTurn ==
  /\ pc = "idle" /\ ~dirty /\ pending # None
  /\ Restorable(pending, committed)
  /\ BeginAt("calls", pending.turn, pending.step, pending.queue, pending.state)
  /\ UNCHANGED <<storeVars, sessionVars, countVars, observers>>

-------------------------------------------------------------------------------
\* One iteration of the loop in _continue_turn_transaction.

ToolsAllowed == step < MaxLoops /\ ~state.spent /\ ~state.full

ModelCalls ==
  /\ pc = "model" /\ ~cancelled
  /\ \E batch \in Batches : queue' = batch
  /\ pc' = "calls"
  /\ allowed' = ToolsAllowed
  /\ UNCHANGED <<storeVars, sessionVars, countVars, observers,
                 turn, step, state, granted, cancelled, before>>

\* A final answer whose citations pass: the working messages are committed
\* before the closing events are yielded.
ModelAnswers ==
  /\ pc = "model" /\ ~cancelled
  /\ pc' = "committed"
  /\ lastVersion' = lastVersion + 1
  /\ committed' = lastVersion + 1
  /\ UNCHANGED <<storeVars, pending, dirty, unsaved, turnVars, lastTurn, crashes, observers>>

\* No response, a model error, a blocked answer, or the token was cancelled.
ModelStops ==
  /\ pc = "model"
  /\ StopWithoutAnswer
  /\ UNCHANGED <<storeVars, countVars, observers>>

\* Mutant: the loop re-enters the step it was in.
SameStep == step

FollowingStep == step + 1

NextStep ==
  /\ pc = "calls" /\ queue = <<>>
  /\ IF step < MaxLoops
     THEN /\ pc' = "model" /\ step' = FollowingStep
          /\ UNCHANGED <<sessionVars, turn, queue, allowed, state, granted, cancelled, before>>
     ELSE StopWithoutAnswer
  /\ UNCHANGED <<storeVars, countVars, observers>>

-------------------------------------------------------------------------------
\* _execute_tool_call, in the order of its checks.

\* _append_tool_message: the result may exhaust the character budget.
WithResult(st) == {st, [st EXCEPT !.full = TRUE]}

Seen(st, sig) == [st EXCEPT !.seen = @ \cup {sig}]

AtCall == pc = "calls" /\ queue # <<>>

Skipped(sig) ==
  \/ ~allowed
  \/ state.full
  \/ sig \in state.seen
  \/ state.used >= MaxToolCalls

SkipCall ==
  /\ AtCall /\ Skipped(Head(queue))
  /\ state' = IF ~allowed \/ state.full \/ Head(queue) \in state.seen
              THEN state
              ELSE [Seen(state, Head(queue)) EXCEPT !.spent = TRUE]
  /\ queue' = Tail(queue)
  /\ UNCHANGED <<storeVars, pc, sessionVars, countVars, observers,
                 turn, step, allowed, granted, cancelled, before>>

\* Unknown tool, invalid arguments, or the preparer or previewer raised.  An
\* approval that was waiting when the turn was resumed is left as it is.
FailCall ==
  /\ AtCall /\ ~Skipped(Head(queue))
  /\ \/ Kind[Head(queue)] = "broken"
     \/ Head(queue) \in Guarded /\ "prepare" \in Faults
  /\ state' \in WithResult(Seen(state, Head(queue)))
  /\ queue' = Tail(queue)
  /\ UNCHANGED <<storeVars, pc, sessionVars, countVars, observers,
                 turn, step, allowed, granted, cancelled, before>>

\* Mutant: the record starts the turn state afresh.
FreshRecord(st) ==
  [base |-> committed, turn |-> turn, step |-> step, queue |-> queue, state |-> FreshState]

\* Mutant: the record loses the number of calls already made.
ForgetfulRecord(st) ==
  [base |-> committed, turn |-> turn, step |-> step, queue |-> queue,
   state |-> [st EXCEPT !.used = 0]]

\* _build_pending_approval_record, with the state from before the call.
PendingRecord(st) ==
  [base |-> committed, turn |-> turn, step |-> step, queue |-> queue, state |-> st]

AskApproval ==
  /\ AtCall /\ ~Skipped(Head(queue)) /\ Head(queue) \in Guarded
  /\ pending' = IF Kind[Head(queue)] = "safe" THEN PendingRecord(state) ELSE pending
  /\ state' = Seen(state, Head(queue))
  /\ pc' = "asking"
  /\ UNCHANGED <<storeVars, committed, dirty, unsaved, countVars, observers,
                 turn, step, queue, allowed, granted, cancelled, before>>

RunFreeCall ==
  /\ AtCall /\ ~Skipped(Head(queue)) /\ Kind[Head(queue)] = "free"
  /\ state' = Seen(state, Head(queue))
  /\ pc' = "executing"
  /\ UNCHANGED <<storeVars, sessionVars, countVars, observers,
                 turn, step, queue, allowed, granted, cancelled, before>>

\* Mutant: a failed save of the record is ignored.
PersistApprovalAnyway ==
  /\ pc = "asking" /\ pc' = "approval" /\ UNCHANGED <<turnVars, sessionVars>>
  /\ IF pending = None
     THEN UNCHANGED storeVars
     ELSE \E res \in StoreResults("save_pending") : SavePending(pending, res)
  /\ UNCHANGED <<countVars, observers>>

\* The session saves the exported record before the consumer sees the event.
PersistApproval ==
  /\ pc = "asking"
  /\ \/ /\ IF pending = None THEN UNCHANGED storeVars ELSE SavePending(pending, "ok")
        /\ pc' = "approval"
        /\ UNCHANGED <<turnVars, sessionVars>>
     \/ /\ pending # None
        /\ \E res \in {"failed", "unsynced"} : SavePending(pending, res)
        /\ Abort
  /\ UNCHANGED <<countVars, observers>>

\* The consumer's decision; anything but a matching approval is a refusal.
Decide ==
  /\ pc = "approval"
  /\ granted' \in BOOLEAN
  /\ pending' = None
  /\ pc' = "resolving"
  /\ UNCHANGED <<storeVars, committed, dirty, unsaved, countVars, observers,
                 turn, step, queue, allowed, state, cancelled, before>>

\* Where the call goes once its decision is on record.
AfterDecision ==
  IF granted
  THEN pc' = "executing" /\ UNCHANGED turnVars
  ELSE /\ pc' = "calls" /\ queue' = Tail(queue) /\ granted' = FALSE
       /\ UNCHANGED <<turn, step, allowed, state, cancelled, before>>

\* Mutant: an approved call runs although its record could not be deleted.
ClearApprovalAnyway ==
  /\ pc = "resolving"
  /\ \E res \in {"ok", "failed", "unsynced"} : DeletePending(res)
  /\ AfterDecision
  /\ UNCHANGED <<sessionVars, countVars, observers>>

\* The record is deleted before the tool may run.
ClearApproval ==
  /\ pc = "resolving"
  /\ \/ DeletePending("ok") /\ AfterDecision /\ UNCHANGED sessionVars
     \/ (\E res \in {"failed", "unsynced"} : DeletePending(res)) /\ Abort
  /\ UNCHANGED <<countVars, observers>>

\* Mutant: the budget is counted down.
CountedDown(st) == [st EXCEPT !.used = @ - 1]

\* What tool_call_count and tool_budget_exhausted become.
Counted(st) ==
  [st EXCEPT !.used = @ + 1, !.spent = @ \/ st.used + 1 >= MaxToolCalls]

\* Execute the call.  Its effect may or may not take place (a write conflict,
\* a tool error); a result that is no control message counts as content.
Execute ==
  /\ pc = "executing" /\ ~cancelled
  /\ spent' = [spent EXCEPT ![turn] = @ + 1]
  /\ \E done \in {0, 1} : ran' = [ran EXCEPT ![turn][Head(queue)] = @ + done]
  /\ state' \in WithResult(Counted(state))
  /\ queue' = Tail(queue) /\ granted' = FALSE
  /\ pc' = "calls"
  /\ UNCHANGED <<storeVars, sessionVars, countVars, acked,
                 turn, step, allowed, cancelled, before>>

\* Cancelled before the call starts, or while a call that may be abandoned
\* runs on in its worker: the turn ends with a TurnCancelledEvent.
ExecutionCancelled ==
  /\ pc = "executing"
  /\ \/ cancelled /\ UNCHANGED <<ran, spent>>
     \/ /\ Kind[Head(queue)] = "free"
        /\ spent' = [spent EXCEPT ![turn] = @ + 1]
        /\ ran' = [ran EXCEPT ![turn][Head(queue)] = @ + 1]
  /\ StopWithoutAnswer
  /\ UNCHANGED <<storeVars, countVars, acked>>

-------------------------------------------------------------------------------
\* Mutant: a failed save is reported as a success.
SaveAnswerAnyway ==
  /\ pc = "committed"
  /\ \E res \in StoreResults("save") : Save(committed, res)
  /\ acked' = committed
  /\ EndTurn
  /\ UNCHANGED <<sessionVars, countVars, ran, spent>>

\* After the commit: the stream ends and the snapshot is saved.
SaveAnswer ==
  /\ pc = "committed"
  /\ \E res \in StoreResults("save") :
       /\ Save(committed, res)
       /\ acked' = IF res = "ok" THEN committed ELSE acked
       /\ dirty' = (dirty \/ res # "ok")
       /\ unsaved' = IF res = "ok" THEN unsaved ELSE committed
  /\ EndTurn
  /\ UNCHANGED <<committed, pending, countVars, ran, spent>>

Flush ==
  /\ pc = "idle" /\ dirty
  /\ \E res \in StoreResults("save") :
       /\ Save(unsaved, res)
       /\ acked' = IF res = "ok" THEN unsaved ELSE acked
       /\ dirty' = (res # "ok")
       /\ unsaved' = IF res = "ok" THEN 0 ELSE unsaved
  /\ UNCHANGED <<pc, committed, pending, turnVars, countVars, ran, spent>>

\* The consumer closes the stream at an event it was handed.
CloseStream ==
  /\ pc \in {"model", "calls", "approval", "executing", "committed"}
  /\ Abort
  /\ UNCHANGED <<storeVars, countVars, observers>>

\* cancel_active_turn reaches the token of a running turn.
CancelTurn ==
  /\ pc \in Stages /\ ~cancelled
  /\ cancelled' = TRUE
  /\ UNCHANGED <<storeVars, pc, sessionVars, countVars, observers,
                 turn, step, queue, allowed, state, granted, before>>

-------------------------------------------------------------------------------
\* The process goes away and memory with it; a power loss also drops what was
\* not synced.
Crash ==
  /\ pc # "down" /\ crashes < MaxCrashes
  /\ crashes' = crashes + 1
  /\ pc' = "down"
  /\ committed' = 0 /\ pending' = None /\ dirty' = FALSE /\ unsaved' = 0
  /\ turn' = 0 /\ step' = 0 /\ queue' = <<>> /\ allowed' = FALSE
  /\ state' = FreshState /\ granted' = FALSE /\ cancelled' = FALSE /\ before' = 0
  /\ \/ UNCHANGED storeVars
     \/ "power" \in Faults /\ PowerLoss
  /\ UNCHANGED <<lastTurn, lastVersion, observers>>

CanOpen == pendFile # None => Restorable(pendFile, snapFile)

\* PersistentSession.open: restore the snapshot, then the pending record.
Open ==
  /\ pc = "down" /\ CanOpen
  /\ pc' = "idle"
  /\ committed' = snapFile /\ pending' = pendFile
  /\ UNCHANGED <<storeVars, dirty, unsaved, turnVars, countVars, observers>>

OpenRefused ==
  /\ pc = "down" /\ ~CanOpen
  /\ pc' = "refused"
  /\ UNCHANGED <<storeVars, sessionVars, turnVars, countVars, observers>>

\* session_store.delete of a session nobody has open.
DeleteSession ==
  /\ pc \in {"down", "refused"}
  /\ \/ \E res \in StoreResults("delete") : DeleteBoth(res)
     \/ DeleteSnapshotOnly
  /\ acked' = IF snapFile' = NoSession THEN 0 ELSE acked
  /\ pc' = "down"
  /\ UNCHANGED <<sessionVars, turnVars, countVars, ran, spent>>

-------------------------------------------------------------------------------
Init ==
  /\ StoreInit
  /\ pc = "down"
  /\ committed = 0 /\ pending = None /\ dirty = FALSE /\ unsaved = 0
  /\ turn = 0 /\ step = 0 /\ queue = <<>> /\ allowed = FALSE
  /\ state = FreshState /\ granted = FALSE /\ cancelled = FALSE /\ before = 0
  /\ lastTurn = 0 /\ lastVersion = 0 /\ crashes = 0
  /\ ran = [t \in Turns |-> [s \in Sigs |-> 0]]
  /\ spent = [t \in Turns |-> 0]
  /\ acked = 0

\* What the worker does on its own once a turn runs.
AgentStep ==
  \/ ModelCalls \/ ModelAnswers \/ ModelStops \/ NextStep
  \/ SkipCall \/ FailCall \/ AskApproval \/ RunFreeCall
  \/ PersistApproval \/ ClearApproval
  \/ Execute \/ ExecutionCancelled \/ SaveAnswer

UserStep ==
  StartTurn \/ ResumeTurn \/ Decide \/ CloseStream \/ CancelTurn \/ Flush

Environment == Crash \/ Open \/ OpenRefused \/ DeleteSession

Next == AgentStep \/ UserStep \/ Environment

Spec == Init /\ [][Next]_vars

\* A model call and a tool call return or raise; the worker is scheduled.
FairSpec == Spec /\ WF_vars(AgentStep)
-------------------------------------------------------------------------------
StoreTypeOK ==
  /\ snapFile \in Nat /\ snapMedia \subseteq Nat
  /\ pendFile \in Records \cup {None} /\ pendMedia \subseteq Records \cup {None}
  /\ faults \in Nat

SessionTypeOK ==
  /\ committed \in Nat /\ unsaved \in Nat /\ dirty \in BOOLEAN
  /\ pending \in Records \cup {None}

TurnTypeOK ==
  /\ turn \in Turns \cup {0} /\ (pc \in Stages => turn \in Turns)
  /\ step \in Nat /\ queue \in Seq(Sigs)
  /\ (pc \in {"asking", "approval", "resolving", "executing"} => queue # <<>>)
  /\ allowed \in BOOLEAN /\ granted \in BOOLEAN /\ cancelled \in BOOLEAN
  /\ state \in TurnStates /\ before \in Nat

CountTypeOK ==
  /\ lastTurn \in 0..MaxTurns /\ lastVersion \in Nat /\ crashes \in Nat
  /\ ran \in [Turns -> [Sigs -> Nat]] /\ spent \in [Turns -> Nat]
  /\ acked \in Nat

\* The values the code can build, and what each stage relies on: a running
\* turn has a number, and a call being asked about or executed is still queued.
TypeOK ==
  /\ pc \in Stages \cup Idle
  /\ StoreTypeOK /\ SessionTypeOK /\ TurnTypeOK /\ CountTypeOK

\* A call that needed an approval takes effect at most once in its turn, over
\* any number of dropped streams, resumes, failed store operations, process
\* exits and power losses: the record of an approved call is durably gone
\* before the tool runs, so no old approval can replay the effect.
EffectOnce == \A t \in Turns, s \in Guarded : ran[t][s] <= 1

\* Records that can still bring a turn back: in memory, in the file, or in what
\* a power loss may leave of the file.
LiveRecords == ({pending, pendFile} \cup pendMedia) \ {None}

\* Numbers above lastTurn are unused.
UnusedTurns ==
  /\ turn <= lastTurn
  /\ \A r \in LiveRecords : r.turn <= lastTurn
  /\ \A t \in Turns, s \in Sigs : t > lastTurn => ran[t][s] = 0

\* A turn that can still run, because it runs now or its record waits in memory,
\* has no record left on the disk that is missing from the file.
NoHiddenRecord ==
  \A r \in pendMedia \ {None} :
    \/ pc \in Stages /\ r.turn = turn
    \/ pending # None /\ r.turn = pending.turn
    => pendFile # None

\* A guarded call that ran is remembered as seen by its turn, wherever the turn
\* may continue from.
EffectIsSeen ==
  \A t \in Turns, s \in Guarded :
    \/ ran[t][s] = 0
    \/ /\ ran[t][s] = 1
       /\ \A r \in LiveRecords : r.turn = t => s \in r.state.seen
       /\ pc \in Stages /\ turn = t => s \in state.seen

\* From the question to the execution of a guarded call: it has not run yet, it
\* counts as seen, and once it may run no record can bring the turn back.
GuardedCallPending ==
  /\ pc \in {"asking", "approval", "resolving"} => Head(queue) \in Guarded
  /\ pc \in {"asking", "approval", "resolving", "executing"} /\ Head(queue) \in Guarded =>
       ran[turn][Head(queue)] = 0 /\ Head(queue) \in state.seen
  /\ pc = "resolving" => pending = None
  /\ pc = "executing" /\ Head(queue) \in Guarded =>
       \A r \in LiveRecords : r.turn # turn

\* A closed session holds nothing in memory.
ClosedIsEmpty == pc \in {"down", "refused"} => pending = None

\* The inductive invariant behind EffectOnce.
EffectInv ==
  TypeOK /\ UnusedTurns /\ NoHiddenRecord /\ EffectIsSeen /\ GuardedCallPending /\ ClosedIsEmpty

\* Resuming repeats nothing the turn already did: no call at all, approved or
\* free, is executed twice in a turn, because the record carries the signatures
\* seen before the call that waited.
NoCallRunsTwice == \A t \in Turns, s \in Sigs : ran[t][s] <= 1

\* The tool budget is a budget of the turn and not of the process: all the
\* executions of one turn, before and after its resumes, stay within
\* max_tool_calls.
BudgetAcrossResume == \A t \in Turns : spent[t] <= MaxToolCalls

\* A resume goes on where the turn stopped: no call is repeated and no budget is new.
ResumeContinues == NoCallRunsTwice /\ BudgetAcrossResume

\* When a user is asked to approve a resumable call, a power loss at that very
\* moment leaves exactly this record and the committed snapshot it is based on.
ShownApprovalIsDurable ==
  pc = "approval" /\ Kind[Head(queue)] = "safe" =>
    /\ pendMedia = {pending} /\ snapMedia = {committed}
    /\ pending.turn = turn /\ pending.queue = queue

\* A version reported as saved is never replaced by an older one on the disk,
\* neither by a later flush nor by a power loss.
AckedSurvives == \A v \in snapMedia : acked <= v

\* An idle session that is not dirty holds what its file holds, and a dirty one
\* still knows the version it has to write: no committed answer is forgotten.
SavedOrDirty ==
  pc = "idle" => IF dirty THEN unsaved = committed ELSE snapFile = committed

\* No answer that the session committed or reported is lost, by a failed save, a
\* dropped stream, a later flush, a crash or a power loss.
NothingIsLost == SavedOrDirty /\ AckedSurvives

\* No version is newer than the last one that was made.
VersionsKnown ==
  \A v \in {committed, unsaved, before, acked, snapFile} \cup snapMedia : v <= lastVersion

\* A running turn was started from the version in the file; until it commits
\* the file and the committed messages stay at that version.
TurnFromSaved ==
  /\ pc \in Stages => snapFile = before
  /\ pc \in Stages \ {"committed"} => committed = before

\* The inductive invariant behind SavedOrDirty, AckedSurvives and RollbackExact.
SaveInv ==
  /\ VersionsKnown /\ TurnFromSaved /\ SavedOrDirty /\ AckedSurvives
  /\ snapFile \in snapMedia
  /\ dirty => pc = "idle"
  /\ pc \notin {"down", "refused"} => acked <= committed

\* Whatever was left behind, the session can be opened again with its snapshot
\* and its waiting approval.
Reopenable == pc = "down" => CanOpen

\* A waiting approval of an open idle session can be resumed: it is still based
\* on the committed state.
PendingCanBeResumed ==
  pc = "idle" /\ pending # None => Restorable(pending, committed)

\* Whatever happens to a session, it can be opened and its approval resumed.
Recoverable == Reopenable /\ PendingCanBeResumed

\* A turn that ends before its answer is committed leaves the session as the
\* turn found it: same messages, same snapshot file, nothing to save.
RollbackExact ==
  [][(pc \in Stages \ {"committed"} /\ pc' = "idle") =>
       committed' = before /\ snapFile' = snapFile /\ ~dirty']_vars

\* What the person who talks to the session sees of its state: where the
\* conversation is, the question being put and the permit in use.
TalkPhase ==
  CASE pc \in {"down", "refused"} -> "closed"
    [] pc = "idle"                -> "rest"
    [] pc = "committed"           -> "answered"
    [] OTHER                      -> "turn"

TalkAsked ==
  IF pc \in {"asking", "approval", "resolving"} THEN {<<turn, Head(queue)>>} ELSE {}

TalkPermit ==
  IF pc = "executing" /\ Head(queue) \in Guarded THEN {<<turn, Head(queue)>>} ELSE {}

TalkEffects == [q \in Turns \X Guarded |-> ran[q[1]][q[2]]]

Talk == INSTANCE Conversation WITH
  Calls <- Guarded,
  phase <- TalkPhase, answer <- committed,
  stored <- snapFile, durable <- snapMedia, reported <- acked,
  asked <- TalkAsked, permit <- TalkPermit, effects <- TalkEffects

\* All the machinery of budgets, records, fsyncs and dirty sessions keeps the
\* promises of Conversation: every step of the session is one of its steps or
\* changes nothing a person could see.
ImplementsConversation == Talk!ConvSpec

\* A turn, fresh or resumed, ends or waits for a decision: the loop steps and
\* the calls of a step run out whatever the model asks for.
TurnEnds ==
  pc \in Stages ~> pc \in {"approval"} \cup Idle
===============================================================================
