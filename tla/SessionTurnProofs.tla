-------------------------- MODULE SessionTurnProofs ---------------------------
(***************************************************************************)
(* Theorems about SessionTurn for every value of its constants.            *)
(***************************************************************************)
EXTENDS SessionTurn, TLAPS

USE DEF NoSession

\* A store operation keeps the types of the two files: whatever it writes is a
\* version or a record, and a power loss keeps one of the contents on the disk.
LEMMA PutType ==
  ASSUME StoreTypeOK, NEW snap \in Nat, NEW pend \in Records \cup {None}, NEW res,
         Put(snap, pend, res)
  PROVE  StoreTypeOK'
BY DEF StoreTypeOK, Put, MediaAfter

LEMMA StoreStepType ==
  ASSUME StoreTypeOK
  PROVE  /\ \A v \in Nat : \A res : Save(v, res) => StoreTypeOK'
         /\ \A r \in Records \cup {None} : \A res : SavePending(r, res) => StoreTypeOK'
         /\ \A res : DeletePending(res) => StoreTypeOK'
         /\ \A res : DeleteBoth(res) => StoreTypeOK'
         /\ DeleteSnapshotOnly => StoreTypeOK'
         /\ PowerLoss => StoreTypeOK'
         /\ UNCHANGED storeVars => StoreTypeOK'
<1>0. snapFile \in Nat /\ pendFile \in Records \cup {None} /\ 0 \in Nat
  BY DEF StoreTypeOK
<1>1. \A v \in Nat : \A res : Save(v, res) => StoreTypeOK'
  BY <1>0, PutType DEF Save
<1>2. \A r \in Records \cup {None} : \A res : SavePending(r, res) => StoreTypeOK'
  BY <1>0, PutType DEF SavePending
<1>3. UNCHANGED storeVars => StoreTypeOK'
  BY DEF storeVars, StoreTypeOK
<1>4. \A res : DeletePending(res) => StoreTypeOK'
  BY <1>0, <1>3, PutType DEF DeletePending
<1>5. \A res : DeleteBoth(res) => StoreTypeOK'
  BY <1>0, PutType DEF DeleteBoth
<1>6. DeleteSnapshotOnly => StoreTypeOK'
  BY DEF DeleteSnapshotOnly, StoreTypeOK
<1>7. PowerLoss => StoreTypeOK'
  BY DEF PowerLoss, StoreTypeOK
<1>8. QED BY <1>1, <1>2, <1>3, <1>4, <1>5, <1>6, <1>7

\* The state a turn starts from, and every change made to it, is a _TurnState.
LEMMA TurnStateTypes ==
  /\ FreshState \in TurnStates
  /\ \A st \in TurnStates, s \in Sigs : Seen(st, s) \in TurnStates
  /\ \A st \in TurnStates : Counted(st) \in TurnStates
  /\ \A st \in TurnStates : WithResult(st) \subseteq TurnStates
  /\ \A st \in TurnStates : [st EXCEPT !.spent = TRUE] \in TurnStates
<1>1. FreshState \in TurnStates
  BY DEF FreshState, TurnStates
<1>2. \A st \in TurnStates, s \in Sigs : Seen(st, s) \in TurnStates
  BY DEF Seen, TurnStates
<1>3. \A st \in TurnStates : Counted(st) \in TurnStates
  <2> TAKE st \in TurnStates
  <2>1. (st.spent \/ st.used + 1 >= MaxToolCalls) \in BOOLEAN
    OBVIOUS
  <2>2. st.used + 1 \in Nat
    BY DEF TurnStates
  <2>3. QED BY <2>1, <2>2 DEF Counted, TurnStates
<1>4. \A st \in TurnStates : WithResult(st) \subseteq TurnStates
  BY DEF WithResult, TurnStates
<1>5. \A st \in TurnStates : [st EXCEPT !.spent = TRUE] \in TurnStates
  BY DEF TurnStates
<1>6. QED BY <1>1, <1>2, <1>3, <1>4, <1>5

\* Ending a turn leaves turn variables of the right types.
LEMMA EndTurnType ==
  ASSUME EndTurn
  PROVE  TurnTypeOK' /\ pc' \in Stages \cup Idle
<1>1. state' \in TurnStates
  BY TurnStateTypes DEF EndTurn
<1>2. pc' = "idle" /\ turn' = 0 /\ step' = 0 /\ queue' = <<>> /\ before' = 0
  BY DEF EndTurn
<1>3. allowed' \in BOOLEAN /\ granted' \in BOOLEAN /\ cancelled' \in BOOLEAN
  BY Zenon DEF EndTurn
<1>4. queue' \in Seq(Sigs)
  BY <1>2
<1>5. QED BY <1>1, <1>2, <1>3, <1>4 DEF TurnTypeOK, Stages, Idle

\* What an action does not touch keeps its type.
LEMMA UnchangedTypes ==
  /\ SessionTypeOK /\ UNCHANGED sessionVars => SessionTypeOK'
  /\ CountTypeOK /\ UNCHANGED <<countVars, observers>> => CountTypeOK'
<1>1. SessionTypeOK /\ UNCHANGED sessionVars => SessionTypeOK'
  BY DEF SessionTypeOK, sessionVars
<1>2. CountTypeOK /\ UNCHANGED <<countVars, observers>> => CountTypeOK'
  BY DEF CountTypeOK, countVars, observers
<1>3. QED BY <1>1, <1>2

\* The end of a stream that was closed or failed.
LEMMA AbortType ==
  ASSUME SessionTypeOK, Abort
  PROVE  SessionTypeOK' /\ TurnTypeOK' /\ pc' \in Stages \cup Idle
<1>1. TurnTypeOK' /\ pc' \in Stages \cup Idle
  BY EndTurnType DEF Abort
<1>2. SessionTypeOK'
  <2>1. dirty' \in BOOLEAN
    BY Zenon DEF Abort, SessionTypeOK
  <2>2. unsaved' \in Nat
    BY DEF Abort, SessionTypeOK
  <2>3. QED BY <2>1, <2>2 DEF Abort, SessionTypeOK
<1>3. QED BY <1>1, <1>2

\* The end of a turn that committed nothing.
LEMMA StopType ==
  ASSUME SessionTypeOK, StopWithoutAnswer
  PROVE  SessionTypeOK' /\ TurnTypeOK' /\ pc' \in Stages \cup Idle
BY EndTurnType, UnchangedTypes DEF StopWithoutAnswer

\* The head of the queue is a call and the rest of it a queue.
LEMMA QueueTypes ==
  ASSUME TurnTypeOK, queue # <<>>
  PROVE  Head(queue) \in Sigs /\ Tail(queue) \in Seq(Sigs)
BY DEF TurnTypeOK

\* Type correctness is kept by the steps of the loop and of a tool call.
LEMMA LoopTypes ==
  ASSUME TypeOK
  PROVE  (ModelCalls \/ ModelAnswers \/ ModelStops \/ NextStep) => TypeOK'
<1> USE DEF TypeOK
<1>1. ASSUME ModelCalls PROVE TypeOK'
  <2>1. StoreTypeOK' /\ SessionTypeOK' /\ CountTypeOK'
    BY <1>1, StoreStepType, UnchangedTypes DEF ModelCalls
  <2>2. queue' \in Seq(Sigs)
    BY <1>1, CallsAssumption DEF ModelCalls
  <2>3. allowed' \in BOOLEAN
    BY <1>1, Zenon DEF ModelCalls, ToolsAllowed
  <2>4. TurnTypeOK' /\ pc' \in Stages \cup Idle
    BY <1>1, <2>2, <2>3 DEF ModelCalls, TurnTypeOK, Stages
  <2>5. QED BY <2>1, <2>4
<1>2. ASSUME ModelAnswers PROVE TypeOK'
  <2>1. StoreTypeOK'
    BY <1>2, StoreStepType DEF ModelAnswers
  <2>2. SessionTypeOK' /\ CountTypeOK'
    BY <1>2 DEF ModelAnswers, SessionTypeOK, CountTypeOK, observers
  <2>3. TurnTypeOK' /\ pc' \in Stages \cup Idle
    BY <1>2 DEF ModelAnswers, TurnTypeOK, turnVars, Stages
  <2>4. QED BY <2>1, <2>2, <2>3
<1>3. ASSUME ModelStops PROVE TypeOK'
  BY <1>3, StopType, StoreStepType, UnchangedTypes DEF ModelStops
<1>4. ASSUME NextStep PROVE TypeOK'
  <2>1. StoreTypeOK' /\ CountTypeOK'
    BY <1>4, StoreStepType, UnchangedTypes DEF NextStep
  <2>2. CASE step < MaxLoops
    <3>1. SessionTypeOK'
      BY <1>4, <2>2, UnchangedTypes DEF NextStep
    <3>2. TurnTypeOK' /\ pc' \in Stages \cup Idle
      BY <1>4, <2>2 DEF NextStep, FollowingStep, TurnTypeOK, Stages
    <3>3. QED BY <2>1, <3>1, <3>2
  <2>3. CASE ~(step < MaxLoops)
    BY <1>4, <2>1, <2>3, StopType DEF NextStep
  <2>4. QED BY <2>2, <2>3
<1>5. QED BY <1>1, <1>2, <1>3, <1>4

LEMMA CallTypes ==
  ASSUME TypeOK
  PROVE  (SkipCall \/ FailCall \/ AskApproval \/ RunFreeCall) => TypeOK'
<1> USE DEF TypeOK
<1>0. state \in TurnStates /\ (AtCall => Head(queue) \in Sigs /\ Tail(queue) \in Seq(Sigs))
  BY QueueTypes DEF TurnTypeOK, AtCall
<1>1. ASSUME SkipCall PROVE TypeOK'
  <2>1. StoreTypeOK' /\ SessionTypeOK' /\ CountTypeOK'
    BY <1>1, StoreStepType, UnchangedTypes DEF SkipCall
  <2>2. state' \in TurnStates /\ queue' \in Seq(Sigs)
    BY <1>0, <1>1, TurnStateTypes DEF SkipCall
  <2>3. TurnTypeOK' /\ pc' \in Stages \cup Idle
    BY <1>1, <2>2 DEF SkipCall, AtCall, TurnTypeOK, Stages
  <2>4. QED BY <2>1, <2>3
<1>2. ASSUME FailCall PROVE TypeOK'
  <2>1. StoreTypeOK' /\ SessionTypeOK' /\ CountTypeOK'
    BY <1>2, StoreStepType, UnchangedTypes DEF FailCall
  <2>2. state' \in TurnStates /\ queue' \in Seq(Sigs)
    BY <1>0, <1>2, TurnStateTypes DEF FailCall
  <2>3. TurnTypeOK' /\ pc' \in Stages \cup Idle
    BY <1>2, <2>2 DEF FailCall, AtCall, TurnTypeOK, Stages
  <2>4. QED BY <2>1, <2>3
<1>3. ASSUME AskApproval PROVE TypeOK'
  <2>1. StoreTypeOK' /\ CountTypeOK'
    BY <1>3, StoreStepType, UnchangedTypes DEF AskApproval
  <2>2. state' \in TurnStates
    BY <1>0, <1>3, TurnStateTypes DEF AskApproval
  <2>3. turn \in Turns
    BY <1>3 DEF AskApproval, AtCall, TurnTypeOK, Stages
  <2>4. PendingRecord(state) \in Records
    BY <1>0, <2>3 DEF PendingRecord, Records, SessionTypeOK, TurnTypeOK
  <2>5. SessionTypeOK'
    BY <1>3, <2>4 DEF AskApproval, SessionTypeOK
  <2>6. TurnTypeOK' /\ pc' \in Stages \cup Idle
    BY <1>3, <2>2 DEF AskApproval, AtCall, TurnTypeOK, Stages
  <2>7. QED BY <2>1, <2>5, <2>6
<1>4. ASSUME RunFreeCall PROVE TypeOK'
  <2>1. StoreTypeOK' /\ SessionTypeOK' /\ CountTypeOK'
    BY <1>4, StoreStepType, UnchangedTypes DEF RunFreeCall
  <2>2. state' \in TurnStates
    BY <1>0, <1>4, TurnStateTypes DEF RunFreeCall
  <2>3. TurnTypeOK' /\ pc' \in Stages \cup Idle
    BY <1>4, <2>2 DEF RunFreeCall, AtCall, TurnTypeOK, Stages
  <2>4. QED BY <2>1, <2>3
<1>5. QED BY <1>1, <1>2, <1>3, <1>4

LEMMA ApprovalTypes ==
  ASSUME TypeOK
  PROVE  (PersistApproval \/ Decide \/ ClearApproval) => TypeOK'
<1> USE DEF TypeOK
<1>1. ASSUME PersistApproval PROVE TypeOK'
  <2>1. CountTypeOK'
    BY <1>1, UnchangedTypes DEF PersistApproval
  <2>2. StoreTypeOK'
    BY <1>1, StoreStepType DEF PersistApproval, SessionTypeOK
  <2>3. CASE pc' = "approval" /\ UNCHANGED <<turnVars, sessionVars>>
    <3>1. SessionTypeOK'
      BY <2>3, UnchangedTypes
    <3>2. TurnTypeOK' /\ pc' \in Stages \cup Idle
      BY <1>1, <2>3 DEF PersistApproval, TurnTypeOK, turnVars, Stages
    <3>3. QED BY <2>1, <2>2, <3>1, <3>2
  <2>4. CASE Abort
    BY <2>1, <2>2, <2>4, AbortType
  <2>5. QED BY <1>1, <2>3, <2>4 DEF PersistApproval
<1>2. ASSUME Decide PROVE TypeOK'
  <2>1. StoreTypeOK' /\ CountTypeOK'
    BY <1>2, StoreStepType, UnchangedTypes DEF Decide
  <2>2. SessionTypeOK'
    BY <1>2 DEF Decide, SessionTypeOK
  <2>3. TurnTypeOK' /\ pc' \in Stages \cup Idle
    BY <1>2 DEF Decide, TurnTypeOK, Stages
  <2>4. QED BY <2>1, <2>2, <2>3
<1>3. ASSUME ClearApproval PROVE TypeOK'
  <2>1. CountTypeOK'
    BY <1>3, UnchangedTypes DEF ClearApproval
  <2>2. StoreTypeOK'
    BY <1>3, StoreStepType DEF ClearApproval
  <2>3. CASE AfterDecision /\ UNCHANGED sessionVars
    <3>1. SessionTypeOK'
      BY <2>3, UnchangedTypes
    <3>2. queue # <<>> /\ turn \in Turns /\ Tail(queue) \in Seq(Sigs)
      BY <1>3, QueueTypes DEF ClearApproval, TurnTypeOK, Stages
    <3>3. TurnTypeOK' /\ pc' \in Stages \cup Idle
      BY <2>3, <3>2 DEF AfterDecision, TurnTypeOK, turnVars, Stages
    <3>4. QED BY <2>1, <2>2, <3>1, <3>3
  <2>4. CASE Abort
    BY <2>1, <2>2, <2>4, AbortType
  <2>5. QED BY <1>3, <2>3, <2>4 DEF ClearApproval
<1>4. QED BY <1>1, <1>2, <1>3

\* One more execution of a call keeps the observers' types.
LEMMA ObserverTypes ==
  ASSUME CountTypeOK, turn \in Turns, Head(queue) \in Sigs
  PROVE  /\ [spent EXCEPT ![turn] = @ + 1] \in [Turns -> Nat]
         /\ \A done \in {0, 1} :
              [ran EXCEPT ![turn][Head(queue)] = @ + done] \in [Turns -> [Sigs -> Nat]]
BY DEF CountTypeOK

LEMMA ExecuteTypes ==
  ASSUME TypeOK
  PROVE  (Execute \/ ExecutionCancelled \/ SaveAnswer \/ Flush) => TypeOK'
<1> USE DEF TypeOK
<1>0. pc = "executing" =>
        turn \in Turns /\ Head(queue) \in Sigs /\ Tail(queue) \in Seq(Sigs)
  BY QueueTypes DEF TurnTypeOK, Stages
<1>1. ASSUME Execute PROVE TypeOK'
  <2>1. StoreTypeOK' /\ SessionTypeOK'
    BY <1>1, StoreStepType, UnchangedTypes DEF Execute
  <2>2. CountTypeOK'
    BY <1>0, <1>1, ObserverTypes DEF Execute, CountTypeOK, countVars
  <2>3. state' \in TurnStates
    BY <1>1, TurnStateTypes DEF Execute, TurnTypeOK
  <2>4. TurnTypeOK' /\ pc' \in Stages \cup Idle
    BY <1>0, <1>1, <2>3 DEF Execute, TurnTypeOK, Stages
  <2>5. QED BY <2>1, <2>2, <2>4
<1>2. ASSUME ExecutionCancelled PROVE TypeOK'
  <2>1. StoreTypeOK' /\ SessionTypeOK' /\ TurnTypeOK' /\ pc' \in Stages \cup Idle
    BY <1>2, StoreStepType, StopType DEF ExecutionCancelled
  <2>2. CountTypeOK'
    <3>1. CASE UNCHANGED <<ran, spent>>
      BY <1>2, <3>1 DEF ExecutionCancelled, CountTypeOK, countVars
    <3>2. CASE ~ UNCHANGED <<ran, spent>>
      BY <1>0, <1>2, <3>2, ObserverTypes DEF ExecutionCancelled, CountTypeOK, countVars
    <3>3. QED BY <3>1, <3>2
  <2>3. QED BY <2>1, <2>2
<1>3. ASSUME SaveAnswer PROVE TypeOK'
  <2>1. PICK res \in StoreResults("save") :
          /\ Save(committed, res)
          /\ acked' = IF res = "ok" THEN committed ELSE acked
          /\ dirty' = (dirty \/ res # "ok")
          /\ unsaved' = IF res = "ok" THEN unsaved ELSE committed
    BY <1>3 DEF SaveAnswer
  <2>2. StoreTypeOK'
    BY <2>1, StoreStepType DEF SessionTypeOK
  <2>3. dirty' \in BOOLEAN
    BY <2>1, Zenon
  <2>4. SessionTypeOK'
    BY <1>3, <2>1, <2>3 DEF SaveAnswer, SessionTypeOK
  <2>5. CountTypeOK'
    BY <1>3, <2>1 DEF SaveAnswer, SessionTypeOK, CountTypeOK, countVars
  <2>6. TurnTypeOK' /\ pc' \in Stages \cup Idle
    BY <1>3, EndTurnType DEF SaveAnswer
  <2>7. QED BY <2>2, <2>4, <2>5, <2>6
<1>4. ASSUME Flush PROVE TypeOK'
  <2>1. PICK res \in StoreResults("save") :
          /\ Save(unsaved, res)
          /\ acked' = IF res = "ok" THEN unsaved ELSE acked
          /\ dirty' = (res # "ok")
          /\ unsaved' = IF res = "ok" THEN 0 ELSE unsaved
    BY <1>4 DEF Flush
  <2>2. StoreTypeOK'
    BY <2>1, StoreStepType DEF SessionTypeOK
  <2>3. dirty' \in BOOLEAN
    BY <2>1, Zenon
  <2>4. SessionTypeOK'
    BY <1>4, <2>1, <2>3 DEF Flush, SessionTypeOK
  <2>5. CountTypeOK'
    BY <1>4, <2>1 DEF Flush, SessionTypeOK, CountTypeOK, countVars
  <2>6. TurnTypeOK' /\ pc' \in Stages \cup Idle
    BY <1>4 DEF Flush, TurnTypeOK, turnVars
  <2>7. QED BY <2>2, <2>4, <2>5, <2>6
<1>5. QED BY <1>1, <1>2, <1>3, <1>4

\* Starting or resuming a turn.
LEMMA BeginType ==
  ASSUME SessionTypeOK,
         NEW where \in {"model", "calls"}, NEW t \in Turns, NEW n \in Nat,
         NEW calls \in Seq(Sigs), NEW st \in TurnStates,
         BeginAt(where, t, n, calls, st)
  PROVE  TurnTypeOK' /\ pc' \in Stages \cup Idle
<1>1. allowed' \in BOOLEAN /\ granted' \in BOOLEAN /\ cancelled' \in BOOLEAN
  BY Zenon DEF BeginAt
<1>2. QED BY <1>1 DEF BeginAt, TurnTypeOK, SessionTypeOK, Stages

LEMMA UserTypes ==
  ASSUME TypeOK
  PROVE  (StartTurn \/ ResumeTurn \/ CloseStream \/ CancelTurn) => TypeOK'
<1> USE DEF TypeOK
<1>1. ASSUME StartTurn PROVE TypeOK'
  <2>1. StoreTypeOK' /\ SessionTypeOK'
    BY <1>1, StoreStepType, UnchangedTypes DEF StartTurn
  <2>2. lastTurn + 1 \in Turns /\ <<>> \in Seq(Sigs)
    BY <1>1, LimitsAssumption DEF StartTurn, CountTypeOK, Turns
  <2>3. CountTypeOK'
    BY <1>1, <2>2 DEF StartTurn, CountTypeOK, observers, Turns
  <2>4. TurnTypeOK' /\ pc' \in Stages \cup Idle
    BY <1>1, <2>2, BeginType, TurnStateTypes DEF StartTurn
  <2>5. QED BY <2>1, <2>3, <2>4
<1>2. ASSUME ResumeTurn PROVE TypeOK'
  <2>1. StoreTypeOK' /\ SessionTypeOK' /\ CountTypeOK'
    BY <1>2, StoreStepType, UnchangedTypes DEF ResumeTurn
  <2>2. /\ pending.turn \in Turns /\ pending.step \in Nat
        /\ pending.queue \in Seq(Sigs) /\ pending.state \in TurnStates
    BY <1>2 DEF ResumeTurn, SessionTypeOK, Records
  <2>3. TurnTypeOK' /\ pc' \in Stages \cup Idle
    BY <1>2, <2>2, BeginType DEF ResumeTurn
  <2>4. QED BY <2>1, <2>3
<1>3. ASSUME CloseStream PROVE TypeOK'
  BY <1>3, StoreStepType, UnchangedTypes, AbortType DEF CloseStream
<1>4. ASSUME CancelTurn PROVE TypeOK'
  <2>1. StoreTypeOK' /\ SessionTypeOK' /\ CountTypeOK'
    BY <1>4, StoreStepType, UnchangedTypes DEF CancelTurn
  <2>2. TurnTypeOK' /\ pc' \in Stages \cup Idle
    BY <1>4 DEF CancelTurn, TurnTypeOK
  <2>3. QED BY <2>1, <2>2
<1>5. QED BY <1>1, <1>2, <1>3, <1>4

LEMMA EnvironmentTypes ==
  ASSUME TypeOK
  PROVE  Environment => TypeOK'
<1> USE DEF TypeOK
<1>1. ASSUME Crash PROVE TypeOK'
  <2>1. StoreTypeOK'
    BY <1>1, StoreStepType DEF Crash
  <2>2. SessionTypeOK'
    BY <1>1 DEF Crash, SessionTypeOK
  <2>3. CountTypeOK'
    BY <1>1 DEF Crash, CountTypeOK, observers
  <2>4. allowed' \in BOOLEAN /\ granted' \in BOOLEAN /\ cancelled' \in BOOLEAN
    BY <1>1, Zenon DEF Crash
  <2>5. TurnTypeOK' /\ pc' \in Stages \cup Idle
    <3>1. <<>> \in Seq(Sigs)
      OBVIOUS
    <3>2. state' \in TurnStates
      BY <1>1, TurnStateTypes DEF Crash
    <3>3. QED BY <1>1, <2>4, <3>1, <3>2 DEF Crash, TurnTypeOK, Stages, Idle
  <2>6. QED BY <2>1, <2>2, <2>3, <2>5
<1>2. ASSUME Open PROVE TypeOK'
  <2>1. StoreTypeOK' /\ CountTypeOK'
    BY <1>2, StoreStepType, UnchangedTypes DEF Open
  <2>2. SessionTypeOK'
    BY <1>2 DEF Open, SessionTypeOK, StoreTypeOK
  <2>3. TurnTypeOK' /\ pc' \in Stages \cup Idle
    BY <1>2 DEF Open, TurnTypeOK, turnVars, Stages, Idle
  <2>4. QED BY <2>1, <2>2, <2>3
<1>3. ASSUME OpenRefused PROVE TypeOK'
  <2>1. StoreTypeOK' /\ SessionTypeOK' /\ CountTypeOK'
    BY <1>3, StoreStepType, UnchangedTypes DEF OpenRefused
  <2>2. TurnTypeOK' /\ pc' \in Stages \cup Idle
    BY <1>3 DEF OpenRefused, TurnTypeOK, turnVars, Stages, Idle
  <2>3. QED BY <2>1, <2>2
<1>4. ASSUME DeleteSession PROVE TypeOK'
  <2>1. StoreTypeOK' /\ SessionTypeOK'
    BY <1>4, StoreStepType, UnchangedTypes DEF DeleteSession
  <2>2. CountTypeOK'
    BY <1>4 DEF DeleteSession, CountTypeOK, countVars
  <2>3. TurnTypeOK' /\ pc' \in Stages \cup Idle
    BY <1>4 DEF DeleteSession, TurnTypeOK, turnVars, Stages, Idle
  <2>4. QED BY <2>1, <2>2, <2>3
<1>5. QED BY <1>1, <1>2, <1>3, <1>4 DEF Environment

\* The initial state is type correct.
LEMMA InitType == Init => TypeOK
<1> SUFFICES ASSUME Init PROVE TypeOK
  OBVIOUS
<1>1. StoreTypeOK
  BY DEF Init, StoreInit, StoreTypeOK
<1>2. dirty \in BOOLEAN /\ allowed \in BOOLEAN /\ granted \in BOOLEAN /\ cancelled \in BOOLEAN
  BY Zenon DEF Init
<1>3. SessionTypeOK
  BY <1>2 DEF Init, SessionTypeOK
<1>4. TurnTypeOK /\ pc \in Stages \cup Idle
  BY <1>2, TurnStateTypes DEF Init, TurnTypeOK, Stages, Idle
<1>5. CountTypeOK
  BY LimitsAssumption DEF Init, CountTypeOK
<1>6. QED BY <1>1, <1>3, <1>4, <1>5 DEF TypeOK

\* Type correctness of the turn, the session and its files.
THEOREM TypeCorrect == Spec => []TypeOK
<1>1. Init => TypeOK
  BY InitType
<1>2. TypeOK /\ [Next]_vars => TypeOK'
  <2> SUFFICES ASSUME TypeOK, [Next]_vars PROVE TypeOK'
    OBVIOUS
  <2>1. CASE AgentStep
    BY <2>1, LoopTypes, CallTypes, ApprovalTypes, ExecuteTypes DEF AgentStep
  <2>2. CASE UserStep
    BY <2>2, UserTypes, ApprovalTypes, ExecuteTypes DEF UserStep
  <2>3. CASE Environment
    BY <2>3, EnvironmentTypes
  <2>4. CASE UNCHANGED vars
    <3>1. StoreTypeOK' /\ SessionTypeOK' /\ CountTypeOK'
      BY <2>4, StoreStepType, UnchangedTypes DEF vars, TypeOK
    <3>2. TurnTypeOK' /\ pc' \in Stages \cup Idle
      BY <2>4 DEF vars, turnVars, TypeOK, TurnTypeOK
    <3>3. QED BY <3>1, <3>2 DEF TypeOK
  <2>5. QED BY <2>1, <2>2, <2>3, <2>4 DEF Next
<1>3. QED BY <1>1, <1>2, PTL DEF Spec

-------------------------------------------------------------------------------
(***************************************************************************)
(* EffectOnce.  EffectInv is inductive: a guarded call that ran is seen by  *)
(* every record its turn could continue from, and between the deletion of   *)
(* its record and its execution no record of its turn exists at all.        *)
(***************************************************************************)

\* No store operation of a running session invents a record: what is live
\* afterwards was live before.
LEMMA StoreRecords ==
  ASSUME pending' \in {pending, None}
  PROVE  /\ \A v, res : Save(v, res) => LiveRecords' \subseteq LiveRecords
         /\ \A res : SavePending(pending, res) => LiveRecords' \subseteq LiveRecords
         /\ \A res : DeletePending(res) => LiveRecords' \subseteq LiveRecords
         /\ \A res : DeleteBoth(res) => LiveRecords' \subseteq LiveRecords
         /\ DeleteSnapshotOnly => LiveRecords' \subseteq LiveRecords
         /\ PowerLoss => LiveRecords' \subseteq LiveRecords
         /\ UNCHANGED storeVars => LiveRecords' \subseteq LiveRecords
<1>1. \A v, res : Save(v, res) => LiveRecords' \subseteq LiveRecords
  BY DEF Save, Put, MediaAfter, LiveRecords
<1>2. \A res : SavePending(pending, res) => LiveRecords' \subseteq LiveRecords
  BY DEF SavePending, Put, MediaAfter, LiveRecords
<1>3. UNCHANGED storeVars => LiveRecords' \subseteq LiveRecords
  BY DEF storeVars, LiveRecords
<1>4. \A res : DeletePending(res) => LiveRecords' \subseteq LiveRecords
  BY <1>3 DEF DeletePending, Put, MediaAfter, LiveRecords
<1>5. \A res : DeleteBoth(res) => LiveRecords' \subseteq LiveRecords
  BY DEF DeleteBoth, Put, MediaAfter, LiveRecords
<1>6. DeleteSnapshotOnly => LiveRecords' \subseteq LiveRecords
  BY DEF DeleteSnapshotOnly, LiveRecords
<1>7. PowerLoss => LiveRecords' \subseteq LiveRecords
  BY DEF PowerLoss, LiveRecords
<1>8. QED BY <1>1, <1>2, <1>3, <1>4, <1>5, <1>6, <1>7

\* The executions of guarded calls, and of turns not yet started, stay.
GuardedRunsKept ==
  /\ \A t \in Turns, s \in Guarded : ran'[t][s] = ran[t][s]
  /\ \A t \in Turns, s \in Sigs : t > lastTurn => ran'[t][s] = ran[t][s]

\* A turn that ends keeps the invariant if it brings no record to light.
LEMMA EndEffect ==
  ASSUME EffectInv, TypeOK', EndTurn, lastTurn' = lastTurn, GuardedRunsKept,
         LiveRecords' \subseteq LiveRecords, NoHiddenRecord'
  PROVE  EffectInv'
<1>1. pc' = "idle" /\ turn' = 0
  BY DEF EndTurn
<1>2. UnusedTurns'
  BY <1>1 DEF EffectInv, TypeOK, CountTypeOK, UnusedTurns, GuardedRunsKept
<1>3. EffectIsSeen'
  BY <1>1 DEF EffectInv, EffectIsSeen, GuardedRunsKept, Stages
<1>4. GuardedCallPending' /\ ClosedIsEmpty'
  BY <1>1 DEF GuardedCallPending, ClosedIsEmpty
<1>5. QED BY <1>2, <1>3, <1>4 DEF EffectInv

\* A step inside a turn keeps it if seen calls stay seen as well.
LEMMA StayEffect ==
  ASSUME EffectInv, TypeOK', pc \in Stages, pc' \in Stages, turn' = turn,
         lastTurn' = lastTurn, GuardedRunsKept, state.seen \subseteq state'.seen,
         LiveRecords' \subseteq LiveRecords, NoHiddenRecord', GuardedCallPending'
  PROVE  EffectInv'
<1>1. UnusedTurns'
  BY DEF EffectInv, UnusedTurns, GuardedRunsKept
<1>2. EffectIsSeen'
  BY DEF EffectInv, EffectIsSeen, GuardedRunsKept
<1>3. ClosedIsEmpty'
  BY DEF ClosedIsEmpty, Stages
<1>4. QED BY <1>1, <1>2, <1>3 DEF EffectInv

\* What stays unchanged in most steps.
LEMMA QuietRecords ==
  ASSUME EffectInv, UNCHANGED <<storeVars, pending>>,
         \/ pc \in Stages /\ turn' = turn
         \/ pc' \notin Stages
  PROVE  LiveRecords' \subseteq LiveRecords /\ NoHiddenRecord'
<1>1. pendMedia' = pendMedia /\ pendFile' = pendFile /\ pending' = pending
  BY DEF storeVars
<1>2. LiveRecords' \subseteq LiveRecords
  BY <1>1 DEF LiveRecords
<1>3. NoHiddenRecord'
  BY <1>1 DEF EffectInv, NoHiddenRecord
<1>4. QED BY <1>2, <1>3

LEMMA QuietRuns ==
  ASSUME ran' = ran
  PROVE  GuardedRunsKept
BY DEF GuardedRunsKept

\* The seen calls only grow while a turn runs.
LEMMA SeenGrows ==
  ASSUME NEW st \in TurnStates, NEW s \in Sigs
  PROVE  /\ Seen(st, s).seen = st.seen \cup {s}
         /\ [Seen(st, s) EXCEPT !.spent = TRUE].seen = st.seen \cup {s}
         /\ \A r \in WithResult(st) : r.seen = st.seen
         /\ Counted(st).seen = st.seen
BY DEF Seen, WithResult, Counted, TurnStates

LEMMA LoopEffect ==
  ASSUME EffectInv, TypeOK'
  PROVE  ModelCalls \/ ModelAnswers \/ ModelStops \/ NextStep => EffectInv'
<1>1. ASSUME ModelCalls PROVE EffectInv'
  <2>1. /\ UNCHANGED <<storeVars, pending>> /\ ran' = ran /\ lastTurn' = lastTurn
        /\ pc = "model" /\ pc' = "calls" /\ turn' = turn /\ state' = state
    BY <1>1 DEF ModelCalls, sessionVars, countVars, observers
  <2>2. GuardedCallPending'
    BY <2>1 DEF GuardedCallPending
  <2>3. QED BY <2>1, <2>2, QuietRecords, QuietRuns, StayEffect DEF Stages
<1>2. ASSUME ModelAnswers PROVE EffectInv'
  <2>1. /\ UNCHANGED <<storeVars, pending>> /\ ran' = ran /\ lastTurn' = lastTurn
        /\ pc = "model" /\ pc' = "committed" /\ turn' = turn /\ state' = state
    BY <1>2 DEF ModelAnswers, turnVars, observers
  <2>2. GuardedCallPending'
    BY <2>1 DEF GuardedCallPending
  <2>3. QED BY <2>1, <2>2, QuietRecords, QuietRuns, StayEffect DEF Stages
<1>3. ASSUME ModelStops PROVE EffectInv'
  <2>1. /\ UNCHANGED <<storeVars, pending>> /\ ran' = ran /\ lastTurn' = lastTurn
        /\ EndTurn /\ pc' = "idle"
    BY <1>3 DEF ModelStops, StopWithoutAnswer, EndTurn, sessionVars, countVars, observers
  <2>2. QED BY <2>1, QuietRecords, QuietRuns, EndEffect DEF Stages
<1>4. ASSUME NextStep PROVE EffectInv'
  <2>1. UNCHANGED storeVars /\ ran' = ran /\ lastTurn' = lastTurn
    BY <1>4 DEF NextStep, countVars, observers
  <2>2. CASE step < MaxLoops
    <3>1. /\ pending' = pending /\ pc = "calls" /\ pc' = "model" /\ turn' = turn
          /\ state' = state
      BY <1>4, <2>2 DEF NextStep, sessionVars
    <3>2. GuardedCallPending'
      BY <3>1 DEF GuardedCallPending
    <3>3. QED BY <2>1, <3>1, <3>2, QuietRecords, QuietRuns, StayEffect DEF Stages
  <2>3. CASE ~(step < MaxLoops)
    <3>1. pending' = pending /\ EndTurn /\ pc' = "idle"
      BY <1>4, <2>3 DEF NextStep, StopWithoutAnswer, EndTurn, sessionVars
    <3>2. QED BY <2>1, <3>1, QuietRecords, QuietRuns, EndEffect DEF Stages
  <2>4. QED BY <2>2, <2>3
<1>5. QED BY <1>1, <1>2, <1>3, <1>4

LEMMA CallEffect ==
  ASSUME EffectInv, TypeOK'
  PROVE  SkipCall \/ FailCall \/ AskApproval \/ RunFreeCall => EffectInv'
<1>0. state \in TurnStates /\ (AtCall => Head(queue) \in Sigs)
  BY QueueTypes DEF EffectInv, TypeOK, TurnTypeOK, AtCall
<1>1. ASSUME SkipCall PROVE EffectInv'
  <2>1. /\ UNCHANGED <<storeVars, pending>> /\ ran' = ran /\ lastTurn' = lastTurn
        /\ pc = "calls" /\ pc' = "calls" /\ turn' = turn
    BY <1>1 DEF SkipCall, AtCall, sessionVars, countVars, observers
  <2>2. state.seen \subseteq state'.seen
    BY <1>0, <1>1, SeenGrows DEF SkipCall
  <2>3. GuardedCallPending'
    BY <2>1 DEF GuardedCallPending
  <2>4. QED BY <2>1, <2>2, <2>3, QuietRecords, QuietRuns, StayEffect DEF Stages
<1>2. ASSUME FailCall PROVE EffectInv'
  <2>1. /\ UNCHANGED <<storeVars, pending>> /\ ran' = ran /\ lastTurn' = lastTurn
        /\ pc = "calls" /\ pc' = "calls" /\ turn' = turn
    BY <1>2 DEF FailCall, AtCall, sessionVars, countVars, observers
  <2>2. state.seen \subseteq state'.seen
    <3>1. Head(queue) \in Sigs /\ Seen(state, Head(queue)) \in TurnStates
      BY <1>0, <1>2, TurnStateTypes DEF FailCall
    <3>2. state'.seen = Seen(state, Head(queue)).seen
      BY <1>2, <3>1, SeenGrows DEF FailCall
    <3>3. QED BY <1>0, <3>1, <3>2, SeenGrows
  <2>3. GuardedCallPending'
    BY <2>1 DEF GuardedCallPending
  <2>4. QED BY <2>1, <2>2, <2>3, QuietRecords, QuietRuns, StayEffect DEF Stages
<1>3. ASSUME AskApproval PROVE EffectInv'
  <2>1. /\ UNCHANGED storeVars /\ ran' = ran /\ lastTurn' = lastTurn /\ queue' = queue
        /\ pc = "calls" /\ pc' = "asking" /\ turn' = turn
        /\ Head(queue) \in Guarded /\ Head(queue) \notin state.seen
        /\ pending' \in {pending, PendingRecord(state)}
    BY <1>3 DEF AskApproval, AtCall, Skipped, countVars, observers
  <2>2. state'.seen = state.seen \cup {Head(queue)}
    BY <1>0, <1>3, SeenGrows DEF AskApproval
  <2>3. turn \in Turns /\ turn <= lastTurn
    BY <2>1 DEF EffectInv, TypeOK, TurnTypeOK, UnusedTurns, Stages
  <2>4. LiveRecords' \subseteq LiveRecords \cup {PendingRecord(state)}
    BY <2>1 DEF LiveRecords, storeVars
  <2>5. PendingRecord(state).turn = turn /\ PendingRecord(state).state = state
    BY DEF PendingRecord
  <2>6. UnusedTurns'
    BY <2>1, <2>3, <2>4, <2>5 DEF EffectInv, UnusedTurns
  <2>7. NoHiddenRecord'
    BY <2>1, <2>5 DEF EffectInv, NoHiddenRecord, storeVars, Stages
  <2>8. EffectIsSeen'
    BY <2>1, <2>2, <2>4, <2>5 DEF EffectInv, EffectIsSeen, Stages
  <2>9. GuardedCallPending'
    <3>1. ran[turn][Head(queue)] = 0
      BY <2>1, <2>3 DEF EffectInv, EffectIsSeen, Stages
    <3>2. QED BY <2>1, <2>2, <3>1 DEF GuardedCallPending
  <2>10. ClosedIsEmpty'
    BY <2>1 DEF ClosedIsEmpty
  <2>11. QED BY <2>6, <2>7, <2>8, <2>9, <2>10 DEF EffectInv
<1>4. ASSUME RunFreeCall PROVE EffectInv'
  <2>1. /\ UNCHANGED <<storeVars, pending>> /\ ran' = ran /\ lastTurn' = lastTurn
        /\ pc = "calls" /\ pc' = "executing" /\ turn' = turn /\ queue' = queue
        /\ Kind[Head(queue)] = "free"
    BY <1>4 DEF RunFreeCall, AtCall, sessionVars, countVars, observers
  <2>2. state.seen \subseteq state'.seen
    BY <1>0, <1>4, SeenGrows DEF RunFreeCall
  <2>3. GuardedCallPending'
    BY <2>1 DEF GuardedCallPending, Guarded
  <2>4. QED BY <2>1, <2>2, <2>3, QuietRecords, QuietRuns, StayEffect DEF Stages
<1>5. QED BY <1>1, <1>2, <1>3, <1>4

LEMMA ApprovalEffect ==
  ASSUME EffectInv, TypeOK'
  PROVE  PersistApproval \/ Decide \/ ClearApproval => EffectInv'
<1>1. ASSUME PersistApproval PROVE EffectInv'
  <2>1. pc = "asking" /\ ran' = ran /\ lastTurn' = lastTurn
    BY <1>1 DEF PersistApproval, countVars, observers
  <2>2. CASE pc' = "approval" /\ UNCHANGED <<turnVars, sessionVars>>
                 /\ ((pending = None /\ UNCHANGED storeVars) \/ SavePending(pending, "ok"))
    <3>1. /\ pending' = pending /\ turn' = turn /\ queue' = queue /\ state' = state
          /\ pc' = "approval"
      BY <2>2 DEF turnVars, sessionVars
    <3>2. LiveRecords' \subseteq LiveRecords
      BY <2>2, <3>1, StoreRecords
    <3>3. NoHiddenRecord'
      <4>1. CASE UNCHANGED storeVars
        BY <2>1, <3>1, <4>1 DEF EffectInv, NoHiddenRecord, storeVars, Stages
      <4>2. CASE SavePending(pending, "ok") /\ pending = None
        BY <4>2 DEF SavePending, Put, MediaAfter, NoHiddenRecord
      <4>3. CASE SavePending(pending, "ok") /\ pending # None
        BY <4>3 DEF SavePending, Put, MediaAfter, NoHiddenRecord
      <4>4. QED BY <2>2, <4>1, <4>2, <4>3
    <3>4. GuardedCallPending'
      BY <2>1, <3>1 DEF EffectInv, GuardedCallPending
    <3>5. QED BY <2>1, <3>1, <3>2, <3>3, <3>4, QuietRuns, StayEffect DEF Stages
  <2>3. CASE pending # None /\ (\E res \in {"failed", "unsynced"} : SavePending(pending, res))
                 /\ Abort
    <3>1. pending' = pending /\ EndTurn /\ pc' = "idle"
      BY <2>3 DEF Abort, EndTurn
    <3>2. LiveRecords' \subseteq LiveRecords
      BY <2>3, <3>1, StoreRecords
    <3>3. NoHiddenRecord'
      BY <2>3, <3>1 DEF SavePending, Put, MediaAfter, EffectInv, NoHiddenRecord, Stages
    <3>4. QED BY <2>1, <3>1, <3>2, <3>3, QuietRuns, EndEffect
  <2>4. QED BY <1>1, <2>2, <2>3 DEF PersistApproval
<1>2. ASSUME Decide PROVE EffectInv'
  <2>1. /\ UNCHANGED storeVars /\ ran' = ran /\ lastTurn' = lastTurn /\ pending' = None
        /\ pc = "approval" /\ pc' = "resolving" /\ turn' = turn /\ queue' = queue
        /\ state' = state
    BY <1>2 DEF Decide, countVars, observers
  <2>2. LiveRecords' \subseteq LiveRecords
    BY <2>1, StoreRecords
  <2>3. NoHiddenRecord'
    BY <2>1 DEF EffectInv, NoHiddenRecord, storeVars, Stages
  <2>4. GuardedCallPending'
    BY <2>1 DEF EffectInv, GuardedCallPending
  <2>5. QED BY <2>1, <2>2, <2>3, <2>4, QuietRuns, StayEffect DEF Stages
<1>3. ASSUME ClearApproval PROVE EffectInv'
  <2>1. pc = "resolving" /\ pending = None /\ ran' = ran /\ lastTurn' = lastTurn
    BY <1>3 DEF ClearApproval, EffectInv, GuardedCallPending, countVars, observers
  <2>2. CASE DeletePending("ok") /\ AfterDecision /\ UNCHANGED sessionVars
    <3>1. /\ pending' = None /\ turn' = turn /\ state' = state
          /\ pc' \in {"executing", "calls"}
          /\ pc' = "executing" => queue' = queue
      BY <2>1, <2>2 DEF AfterDecision, turnVars, sessionVars
    <3>2. LiveRecords' \subseteq LiveRecords
      BY <2>1, <2>2, <3>1, StoreRecords
    <3>3. pendFile' = None /\ \A r \in pendMedia' \ {None} : r.turn # turn
      <4>1. CASE pendFile = None
        BY <2>1, <2>2, <4>1 DEF DeletePending, EffectInv, NoHiddenRecord, storeVars, Stages
      <4>2. CASE pendFile # None
        BY <2>2, <4>2 DEF DeletePending, Put, MediaAfter
      <4>3. QED BY <4>1, <4>2
    <3>4. NoHiddenRecord'
      BY <3>1, <3>3 DEF NoHiddenRecord
    <3>5. GuardedCallPending'
      <4>1. \A r \in LiveRecords' : r.turn # turn'
        BY <3>1, <3>3 DEF LiveRecords
      <4>2. QED BY <2>1, <3>1, <4>1 DEF EffectInv, GuardedCallPending
    <3>6. QED BY <2>1, <3>1, <3>2, <3>4, <3>5, QuietRuns, StayEffect DEF Stages
  <2>3. CASE (\E res \in {"failed", "unsynced"} : DeletePending(res)) /\ Abort
    <3>1. pending' = None /\ EndTurn /\ pc' = "idle"
      BY <2>1, <2>3 DEF Abort, EndTurn
    <3>2. LiveRecords' \subseteq LiveRecords
      BY <2>1, <2>3, <3>1, StoreRecords
    <3>3. NoHiddenRecord'
      BY <3>1 DEF NoHiddenRecord, Stages
    <3>4. QED BY <2>1, <3>1, <3>2, <3>3, QuietRuns, EndEffect
  <2>4. QED BY <1>3, <2>2, <2>3 DEF ClearApproval
<1>4. QED BY <1>1, <1>2, <1>3

LEMMA ExecuteEffect ==
  ASSUME EffectInv, TypeOK'
  PROVE  Execute \/ ExecutionCancelled \/ SaveAnswer \/ Flush => EffectInv'
<1>0. pc = "executing" =>
        /\ turn \in Turns /\ turn <= lastTurn /\ Head(queue) \in Sigs
        /\ ran \in [Turns -> [Sigs -> Nat]] /\ lastTurn \in Nat
  BY QueueTypes
  DEF EffectInv, TypeOK, TurnTypeOK, CountTypeOK, UnusedTurns, Stages, Turns
<1>1. ASSUME Execute PROVE EffectInv'
  <2>1. /\ UNCHANGED <<storeVars, pending>> /\ lastTurn' = lastTurn
        /\ pc = "executing" /\ pc' = "calls" /\ turn' = turn
    BY <1>1 DEF Execute, sessionVars, countVars
  <2>2. PICK done \in {0, 1} : ran' = [ran EXCEPT ![turn][Head(queue)] = @ + done]
    BY <1>1 DEF Execute
  <2>3. state'.seen = state.seen
    <3>1. state \in TurnStates /\ Counted(state) \in TurnStates
      BY TurnStateTypes DEF EffectInv, TypeOK, TurnTypeOK
    <3>2. state' \in WithResult(Counted(state))
      BY <1>1 DEF Execute
    <3>3. QED BY <1>0, <2>1, <3>1, <3>2, SeenGrows
  <2>4. LiveRecords' \subseteq LiveRecords /\ NoHiddenRecord'
    BY <2>1, QuietRecords DEF Stages
  <2>5. GuardedCallPending'
    BY <2>1 DEF GuardedCallPending
  <2>6. \A t \in Turns, s \in Sigs :
          ran'[t][s] = IF t = turn /\ s = Head(queue) THEN ran[t][s] + done ELSE ran[t][s]
    BY <1>0, <2>1, <2>2
  <2>7. CASE Head(queue) \notin Guarded
    <3>1. GuardedRunsKept
      BY <1>0, <2>1, <2>6, <2>7 DEF GuardedRunsKept, Guarded, Turns
    <3>2. QED BY <2>1, <2>3, <2>4, <2>5, <3>1, StayEffect DEF Stages
  <2>8. CASE Head(queue) \in Guarded
    <3>1. /\ ran[turn][Head(queue)] = 0 /\ Head(queue) \in state.seen
          /\ \A r \in LiveRecords : r.turn # turn
      BY <2>1, <2>8 DEF EffectInv, GuardedCallPending
    <3>2. UnusedTurns'
      BY <1>0, <2>1, <2>4, <2>6 DEF EffectInv, UnusedTurns, Turns
    <3>3. EffectIsSeen'
      <4> SUFFICES ASSUME NEW t \in Turns, NEW s \in Guarded
                   PROVE  \/ ran'[t][s] = 0
                          \/ /\ ran'[t][s] = 1
                             /\ \A r \in LiveRecords' : r.turn = t => s \in r.state.seen
                             /\ pc' \in Stages /\ turn' = t => s \in state'.seen
        BY DEF EffectIsSeen
      <4>1. s \in Sigs
        BY DEF Guarded
      <4>2. CASE t = turn /\ s = Head(queue)
        BY <2>1, <2>3, <2>4, <2>6, <3>1, <4>1, <4>2
      <4>3. CASE ~(t = turn /\ s = Head(queue))
        BY <2>1, <2>3, <2>4, <2>6, <4>1, <4>3 DEF EffectInv, EffectIsSeen, Stages
      <4>4. QED BY <4>2, <4>3
    <3>4. ClosedIsEmpty'
      BY <2>1 DEF ClosedIsEmpty
    <3>5. QED BY <2>4, <2>5, <3>2, <3>3, <3>4 DEF EffectInv
  <2>9. QED BY <2>7, <2>8
<1>2. ASSUME ExecutionCancelled PROVE EffectInv'
  <2>1. /\ UNCHANGED <<storeVars, pending>> /\ lastTurn' = lastTurn /\ EndTurn
        /\ pc = "executing" /\ pc' = "idle"
    BY <1>2 DEF ExecutionCancelled, StopWithoutAnswer, EndTurn, sessionVars, countVars
  <2>2. LiveRecords' \subseteq LiveRecords /\ NoHiddenRecord'
    BY <2>1, QuietRecords DEF Stages
  <2>3. GuardedRunsKept
    <3>1. CASE ran' = ran
      BY <3>1, QuietRuns
    <3>2. CASE ran' # ran
      <4>1. /\ Kind[Head(queue)] = "free"
            /\ ran' = [ran EXCEPT ![turn][Head(queue)] = @ + 1]
        BY <1>2, <3>2 DEF ExecutionCancelled
      <4>2. \A t \in Turns, s \in Sigs :
              ~(t = turn /\ s = Head(queue)) => ran'[t][s] = ran[t][s]
        BY <1>0, <2>1, <4>1
      <4>3. QED BY <1>0, <2>1, <4>1, <4>2 DEF GuardedRunsKept, Guarded, Turns
    <3>3. QED BY <3>1, <3>2
  <2>4. QED BY <2>1, <2>2, <2>3, EndEffect
<1>3. ASSUME SaveAnswer PROVE EffectInv'
  <2>1. /\ \E res : Save(committed, res)
        /\ EndTurn /\ pc = "committed" /\ pc' = "idle"
        /\ pending' = pending /\ ran' = ran /\ lastTurn' = lastTurn
    BY <1>3 DEF SaveAnswer, EndTurn, countVars
  <2>2. LiveRecords' \subseteq LiveRecords
    BY <2>1, StoreRecords
  <2>3. NoHiddenRecord'
    BY <2>1 DEF Save, Put, MediaAfter, EffectInv, NoHiddenRecord, Stages
  <2>4. QED BY <2>1, <2>2, <2>3, QuietRuns, EndEffect
<1>4. ASSUME Flush PROVE EffectInv'
  <2>1. /\ \E res : Save(unsaved, res)
        /\ pc = "idle" /\ pc' = "idle" /\ turn' = turn
        /\ pending' = pending /\ ran' = ran /\ lastTurn' = lastTurn
    BY <1>4 DEF Flush, turnVars, countVars
  <2>2. LiveRecords' \subseteq LiveRecords
    BY <2>1, StoreRecords
  <2>3. NoHiddenRecord'
    BY <2>1 DEF Save, Put, MediaAfter, EffectInv, NoHiddenRecord, Stages
  <2>4. UnusedTurns' /\ EffectIsSeen'
    BY <2>1, <2>2 DEF EffectInv, UnusedTurns, EffectIsSeen, Stages
  <2>5. GuardedCallPending' /\ ClosedIsEmpty'
    BY <2>1 DEF GuardedCallPending, ClosedIsEmpty
  <2>6. QED BY <2>3, <2>4, <2>5 DEF EffectInv
<1>5. QED BY <1>1, <1>2, <1>3, <1>4

LEMMA UserEffect ==
  ASSUME EffectInv, TypeOK'
  PROVE  StartTurn \/ ResumeTurn \/ CloseStream \/ CancelTurn => EffectInv'
<1>1. ASSUME StartTurn PROVE EffectInv'
  <2>1. /\ UNCHANGED <<storeVars, pending>> /\ ran' = ran /\ lastTurn' = lastTurn + 1
        /\ pending = None /\ pc' = "model" /\ turn' = lastTurn + 1
    BY <1>1 DEF StartTurn, MayStart, BeginAt, sessionVars, observers
  <2>2. lastTurn \in Nat /\ lastTurn + 1 \in Turns
    BY <1>1, LimitsAssumption DEF StartTurn, EffectInv, TypeOK, CountTypeOK, Turns
  <2>3. LiveRecords' \subseteq LiveRecords
    BY <2>1, StoreRecords
  <2>4. \A r \in LiveRecords : r \in Records /\ r.turn \in Nat /\ r.turn <= lastTurn
    BY DEF EffectInv, TypeOK, StoreTypeOK, SessionTypeOK, LiveRecords, Records, Turns,
           UnusedTurns
  <2>5. UnusedTurns'
    BY <2>1, <2>2, <2>3, <2>4 DEF EffectInv, UnusedTurns, Turns
  <2>6. NoHiddenRecord'
    BY <2>1, <2>2, <2>4 DEF NoHiddenRecord, LiveRecords, storeVars
  <2>7. EffectIsSeen'
    <3>1. \A s \in Guarded : ran[lastTurn + 1][s] = 0
      BY <2>2 DEF EffectInv, UnusedTurns, Guarded
    <3>2. QED BY <2>1, <2>3, <3>1 DEF EffectInv, EffectIsSeen
  <2>8. GuardedCallPending' /\ ClosedIsEmpty'
    BY <2>1 DEF GuardedCallPending, ClosedIsEmpty
  <2>9. QED BY <2>5, <2>6, <2>7, <2>8 DEF EffectInv
<1>2. ASSUME ResumeTurn PROVE EffectInv'
  <2>1. /\ UNCHANGED <<storeVars, pending>> /\ ran' = ran /\ lastTurn' = lastTurn
        /\ pending # None /\ pc' = "calls" /\ turn' = pending.turn
        /\ state' = pending.state
    BY <1>2 DEF ResumeTurn, BeginAt, sessionVars, countVars, observers
  <2>2. pending \in LiveRecords
    BY <2>1 DEF LiveRecords
  <2>3. LiveRecords' \subseteq LiveRecords
    BY <2>1, StoreRecords
  <2>4. UnusedTurns'
    BY <2>1, <2>2, <2>3 DEF EffectInv, UnusedTurns
  <2>5. NoHiddenRecord'
    BY <2>1 DEF EffectInv, NoHiddenRecord, storeVars
  <2>6. EffectIsSeen'
    BY <2>1, <2>2, <2>3 DEF EffectInv, EffectIsSeen
  <2>7. GuardedCallPending' /\ ClosedIsEmpty'
    BY <2>1 DEF GuardedCallPending, ClosedIsEmpty
  <2>8. QED BY <2>4, <2>5, <2>6, <2>7 DEF EffectInv
<1>3. ASSUME CloseStream PROVE EffectInv'
  <2>1. /\ UNCHANGED <<storeVars, pending>> /\ ran' = ran /\ lastTurn' = lastTurn
        /\ EndTurn /\ pc' = "idle"
    BY <1>3 DEF CloseStream, Abort, EndTurn, countVars, observers
  <2>2. QED BY <2>1, QuietRecords, QuietRuns, EndEffect DEF Stages
<1>4. ASSUME CancelTurn PROVE EffectInv'
  <2>1. /\ UNCHANGED <<storeVars, pending>> /\ ran' = ran /\ lastTurn' = lastTurn
        /\ pc \in Stages /\ pc' = pc /\ turn' = turn /\ queue' = queue /\ state' = state
    BY <1>4 DEF CancelTurn, sessionVars, countVars, observers
  <2>2. LiveRecords' = LiveRecords
    BY <2>1 DEF LiveRecords, storeVars
  <2>3. GuardedCallPending'
    BY <2>1, <2>2 DEF EffectInv, GuardedCallPending
  <2>4. QED BY <2>1, <2>2, <2>3, QuietRecords, QuietRuns, StayEffect
<1>5. QED BY <1>1, <1>2, <1>3, <1>4

LEMMA EnvironmentEffect ==
  ASSUME EffectInv, TypeOK'
  PROVE  Environment => EffectInv'
<1>0. lastTurn \in Nat
  BY DEF EffectInv, TypeOK, CountTypeOK
<1>1. ASSUME Crash PROVE EffectInv'
  <2>1. /\ UNCHANGED storeVars \/ PowerLoss
        /\ ran' = ran /\ lastTurn' = lastTurn
        /\ pending' = None /\ pc' = "down" /\ turn' = 0
    BY <1>1 DEF Crash, observers
  <2>2. LiveRecords' \subseteq LiveRecords
    BY <2>1, StoreRecords
  <2>3. UnusedTurns' /\ NoHiddenRecord' /\ EffectIsSeen'
    BY <1>0, <2>1, <2>2 DEF EffectInv, UnusedTurns, NoHiddenRecord, EffectIsSeen, Stages
  <2>4. GuardedCallPending' /\ ClosedIsEmpty'
    BY <2>1 DEF GuardedCallPending, ClosedIsEmpty
  <2>5. QED BY <2>3, <2>4 DEF EffectInv
<1>2. ASSUME Open PROVE EffectInv'
  <2>1. /\ UNCHANGED storeVars /\ ran' = ran /\ lastTurn' = lastTurn
        /\ pending' = pendFile /\ pc' = "idle" /\ turn' = turn
    BY <1>2 DEF Open, turnVars, countVars, observers
  <2>2. LiveRecords' \subseteq LiveRecords
    BY <2>1 DEF LiveRecords, storeVars
  <2>3. UnusedTurns' /\ EffectIsSeen'
    BY <2>1, <2>2 DEF EffectInv, UnusedTurns, EffectIsSeen, Stages
  <2>4. NoHiddenRecord'
    BY <2>1 DEF NoHiddenRecord, storeVars, Stages
  <2>5. GuardedCallPending' /\ ClosedIsEmpty'
    BY <2>1 DEF GuardedCallPending, ClosedIsEmpty
  <2>6. QED BY <2>3, <2>4, <2>5 DEF EffectInv
<1>3. ASSUME OpenRefused \/ DeleteSession PROVE EffectInv'
  <2>1. /\ ran' = ran /\ lastTurn' = lastTurn /\ pending = None /\ pending' = None
        /\ pc' \in {"down", "refused"} /\ turn' = turn
        /\ \/ UNCHANGED storeVars
           \/ \E res : DeleteBoth(res)
           \/ DeleteSnapshotOnly
    BY <1>3 DEF OpenRefused, DeleteSession, EffectInv, ClosedIsEmpty,
                sessionVars, turnVars, countVars, observers
  <2>2. LiveRecords' \subseteq LiveRecords
    BY <2>1, StoreRecords
  <2>3. UnusedTurns' /\ NoHiddenRecord' /\ EffectIsSeen'
    BY <2>1, <2>2 DEF EffectInv, UnusedTurns, NoHiddenRecord, EffectIsSeen, Stages
  <2>4. GuardedCallPending' /\ ClosedIsEmpty'
    BY <2>1 DEF GuardedCallPending, ClosedIsEmpty
  <2>5. QED BY <2>3, <2>4 DEF EffectInv
<1>4. QED BY <1>1, <1>2, <1>3 DEF Environment

\* EffectInv holds in every reachable state.
THEOREM EffectInvariant == Spec => []EffectInv
<1>1. Init => EffectInv
  <2> SUFFICES ASSUME Init, TypeOK PROVE EffectInv
    BY InitType
  <2>1. pc = "down" /\ pending = None /\ turn = 0 /\ lastTurn = 0 /\ LiveRecords = {}
    BY DEF Init, StoreInit, LiveRecords
  <2>2. \A t \in Turns, s \in Sigs : ran[t][s] = 0
    BY DEF Init
  <2>3. UnusedTurns /\ NoHiddenRecord /\ EffectIsSeen
    BY <2>1, <2>2 DEF UnusedTurns, NoHiddenRecord, EffectIsSeen, Guarded, Stages
  <2>4. GuardedCallPending /\ ClosedIsEmpty
    BY <2>1 DEF GuardedCallPending, ClosedIsEmpty
  <2>5. QED BY <2>3, <2>4 DEF EffectInv
<1>2. EffectInv /\ TypeOK' /\ [Next]_vars => EffectInv'
  <2> SUFFICES ASSUME EffectInv, TypeOK', [Next]_vars PROVE EffectInv'
    OBVIOUS
  <2>1. CASE AgentStep
    BY <2>1, LoopEffect, CallEffect, ApprovalEffect, ExecuteEffect DEF AgentStep
  <2>2. CASE UserStep
    BY <2>2, UserEffect, ApprovalEffect, ExecuteEffect DEF UserStep
  <2>3. CASE Environment
    BY <2>3, EnvironmentEffect
  <2>4. CASE UNCHANGED vars
    <3>1. /\ UNCHANGED <<pending, pendFile, pendMedia>> /\ pc' = pc /\ turn' = turn
          /\ queue' = queue /\ state' = state /\ ran' = ran /\ lastTurn' = lastTurn
      BY <2>4 DEF vars, storeVars, sessionVars, turnVars, countVars, observers
    <3>2. LiveRecords' = LiveRecords
      BY <3>1 DEF LiveRecords
    <3>3. QED BY <3>1, <3>2
          DEF EffectInv, UnusedTurns, NoHiddenRecord, EffectIsSeen, GuardedCallPending,
              ClosedIsEmpty
  <2>5. QED BY <2>1, <2>2, <2>3, <2>4 DEF Next
<1>3. QED BY <1>1, <1>2, TypeCorrect, PTL DEF Spec

\* A call that needs an approval takes effect at most once in its turn, however
\* often the turn is dropped and resumed and whatever operation of the store
\* fails, for every set of calls and every limit.
THEOREM EffectAtMostOnce == Spec => []EffectOnce
<1>1. EffectInv => EffectOnce
  <2> SUFFICES ASSUME EffectInv, NEW t \in Turns, NEW s \in Guarded PROVE ran[t][s] <= 1
    BY DEF EffectOnce
  <2>1. QED BY DEF EffectInv, EffectIsSeen
<1>2. QED BY <1>1, EffectInvariant, PTL
===============================================================================
