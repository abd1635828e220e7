----------------------------- MODULE SessionResume ------------------------------
(***************************************************************************)
(* Theorems about the waiting approval of SessionTurn: what is on the disk  *)
(* when the question is shown, what a resumed turn still knows, and when a  *)
(* session can always be opened and its approval resumed.                   *)
(***************************************************************************)
EXTENDS SessionRefinement

\* The question about a resumable call has its record in memory.
AskedWithRecord ==
  pc \in {"asking", "approval"} /\ Kind[Head(queue)] = "safe" =>
    pending # None /\ pending.turn = turn /\ pending.queue = queue

\* The inductive invariant behind ShownApprovalIsDurable.
ShownInv == AskedWithRecord /\ ShownApprovalIsDurable

\* A call that is asked about again when its turn is resumed.
Askable(r) ==
  /\ r.queue # <<>> /\ Kind[Head(r.queue)] = "safe"
  /\ Head(r.queue) \notin r.state.seen
  /\ ~r.state.full /\ r.state.used < MaxToolCalls

\* The turn state st knows what turn t did.
Knows(st, t) ==
  /\ \A s \in Sigs : ran[t][s] > 0 => s \in st.seen
  /\ spent[t] <= st.used

\* A record that can bring a turn back asks its question again and knows all that
\* the turn did.
RecordsAskable == \A r \in LiveRecords : Askable(r) /\ Knows(r.state, r.turn)

\* The records of one turn, in memory, in the file and under it, are about one call.
OneCallPerTurn ==
  \A r1, r2 \in LiveRecords :
    r1.turn = r2.turn => r1.queue = r2.queue /\ r1.state = r2.state

TurnKnowsItself == pc \in Stages => Knows(state, turn) /\ state.used <= MaxToolCalls

\* From the question to the execution of any call: it is new and in the budget.
CallIsNew ==
  pc \in {"asking", "approval", "resolving", "executing"} =>
    /\ Head(queue) \in state.seen /\ ran[turn][Head(queue)] = 0
    /\ state.used < MaxToolCalls

\* As long as a record could bring the running turn back, the turn has done nothing
\* since it was made but ask.
TurnAtRecord ==
  pc \in Stages =>
    \A r \in LiveRecords : r.turn = turn =>
      /\ pc \in {"calls", "asking", "approval", "resolving"} /\ queue = r.queue
      /\ pc = "calls" => allowed /\ state = r.state
      /\ pc # "calls" => state = Seen(r.state, Head(queue))

UnusedUnspent == \A t \in Turns : t > lastTurn => spent[t] = 0

\* The inductive invariant behind ResumeContinues.
ResumeInv ==
  /\ ResumeContinues /\ RecordsAskable /\ OneCallPerTurn
  /\ TurnKnowsItself /\ CallIsNew /\ TurnAtRecord /\ UnusedUnspent

-------------------------------------------------------------------------------
\* Records leave a step of the loop, and while the calls of a step are done that
\* may use tools there is a step left.
StepsLeft ==
  /\ \A r \in LiveRecords : r.step < MaxLoops
  /\ pc \in Stages \ {"model", "committed"} /\ allowed => step < MaxLoops

\* A record is based on the version beside it.
BaseKept ==
  /\ pendFile # None => pendFile.base = snapFile
  /\ pending # None => pending.base = committed

\* All records are of one turn, the running one if a turn runs.
RecordsOfOneTurn ==
  /\ \A r1, r2 \in LiveRecords : r1.turn = r2.turn
  /\ pc \in Stages => \A r \in LiveRecords : r.turn = turn

\* Nothing on the disk is older than the file.
FileOnMedia == pendFile \in pendMedia /\ (pendFile = None => pendMedia = {None})

\* An open session that waits for no approval has none on the disk either, except
\* between a decision and the deletion of its record; nor has a dirty one.
NoStrayRecord ==
  /\ pending = None /\ pc \notin {"resolving", "down", "refused"} => LiveRecords = {}
  /\ dirty => LiveRecords = {}

\* If power may fail, whatever it leaves of both files fits together.
MediaFit ==
  "power" \in Faults =>
    /\ \A r \in pendMedia \ {None}, v \in snapMedia : r.base = v
    /\ snapMedia # {snapFile} => faults >= 1

\* The inductive invariant behind Recoverable.
RecoverInv ==
  /\ StepsLeft /\ BaseKept /\ RecordsOfOneTurn /\ FileOnMedia /\ NoStrayRecord /\ MediaFit

-------------------------------------------------------------------------------
\* The record that is made for a call is one.
LEMMA RecordMade ==
  ASSUME TypeOK, pc = "calls"
  PROVE  /\ PendingRecord(state) \in Records
         /\ PendingRecord(state).base = committed /\ PendingRecord(state).turn = turn
         /\ PendingRecord(state).step = step /\ PendingRecord(state).queue = queue
         /\ PendingRecord(state).state = state
BY DEF PendingRecord, Records, TypeOK, SessionTypeOK, TurnTypeOK, Stages

\* A step that shows no question and starts none.
LEMMA NotAsked ==
  ASSUME pc' \notin {"asking", "approval"}
  PROVE  ShownInv'
BY DEF ShownInv, AskedWithRecord, ShownApprovalIsDurable

\* A step that keeps the question as it is.
LEMMA SameQuestion ==
  ASSUME ShownInv, pc' = pc,
         UNCHANGED <<pending, turn, queue, pendMedia, snapMedia, committed>>
  PROVE  ShownInv'
BY DEF ShownInv, AskedWithRecord, ShownApprovalIsDurable

\* The record is made with the question and synced, with the snapshot beside it,
\* before the question is shown.
LEMMA AskingIsDurable ==
  ASSUME TypeOK, SaveInv, ShownInv, AskApproval \/ PersistApproval
  PROVE  ShownInv'
<1>1. CASE AskApproval
  <2>1. /\ pc' = "asking" /\ turn' = turn /\ queue' = queue
        /\ Kind[Head(queue)] = "safe" => pending' = PendingRecord(state)
    BY <1>1 DEF AskApproval
  <2>2. /\ PendingRecord(state) # None
        /\ PendingRecord(state).turn = turn /\ PendingRecord(state).queue = queue
    <3>1. PendingRecord(state) \in Records
      BY <1>1, RecordMade DEF AskApproval, AtCall
    <3>2. QED BY <3>1, NoneAssumption DEF PendingRecord
  <2>3. QED BY <2>1, <2>2 DEF ShownInv, AskedWithRecord, ShownApprovalIsDurable
<1>2. CASE PersistApproval /\ pc' = "approval"
  <2>1. /\ pc = "asking" /\ UNCHANGED <<turn, queue, pending, committed>>
        /\ IF pending = None THEN UNCHANGED storeVars ELSE SavePending(pending, "ok")
    BY <1>2 DEF PersistApproval, Abort, EndTurn, turnVars, sessionVars
  <2>2. committed = snapFile
    BY <2>1 DEF SaveInv, TurnFromSaved, Stages
  <2>3. CASE Kind[Head(queue)] = "safe"
    <3>1. pending # None /\ pending.turn = turn /\ pending.queue = queue
      BY <2>1, <2>3 DEF ShownInv, AskedWithRecord
    <3>2. pendMedia' = {pending} /\ snapMedia' = {snapFile}
      BY <2>1, <3>1 DEF SavePending, Put, MediaAfter
    <3>3. QED BY <1>2, <2>1, <2>2, <3>1, <3>2
              DEF ShownInv, AskedWithRecord, ShownApprovalIsDurable
  <2>4. CASE Kind[Head(queue)] # "safe"
    BY <1>2, <2>1, <2>4 DEF ShownInv, AskedWithRecord, ShownApprovalIsDurable
  <2>5. QED BY <2>3, <2>4
<1>3. CASE PersistApproval /\ pc' # "approval"
  BY <1>3, NotAsked DEF PersistApproval, Abort, EndTurn
<1>4. QED BY <1>1, <1>2, <1>3

\* When a resumable call is shown, a power loss at that moment leaves its record and
\* the snapshot it is based on, for any sequence of failures before it.
THEOREM ShownIsDurable == Spec => []ShownApprovalIsDurable
<1>1. Init => ShownInv
  BY DEF Init, ShownInv, AskedWithRecord, ShownApprovalIsDurable
<1>2. TypeOK /\ SaveInv /\ ShownInv /\ [Next]_vars => ShownInv'
  <2> SUFFICES ASSUME TypeOK, SaveInv, ShownInv, [Next]_vars PROVE ShownInv'
    OBVIOUS
  <2>1. CASE AskApproval \/ PersistApproval
    BY <2>1, AskingIsDurable
  <2>2. CASE CancelTurn \/ UNCHANGED vars
    <3>1. pc' = pc /\ UNCHANGED <<pending, turn, queue, pendMedia, snapMedia, committed>>
      BY <2>2, Zenon DEF CancelTurn, vars, storeVars, sessionVars, turnVars
    <3>2. QED BY <3>1, SameQuestion
  <2>3. CASE pc' \notin {"asking", "approval"}
    BY <2>3, NotAsked
  <2>4. \/ AskApproval \/ PersistApproval \/ CancelTurn \/ UNCHANGED vars
        \/ pc' \notin {"asking", "approval"}
    <3>1. CASE AgentStep /\ ~AskApproval /\ ~PersistApproval
      <4>1. CASE ModelCalls \/ ModelAnswers \/ ModelStops \/ NextStep
        BY <4>1 DEF ModelCalls, ModelAnswers, ModelStops, NextStep, StopWithoutAnswer, EndTurn
      <4>2. CASE SkipCall \/ FailCall \/ RunFreeCall \/ ClearApproval
        BY <4>2 DEF SkipCall, FailCall, AtCall, RunFreeCall, ClearApproval, AfterDecision,
                    Abort, EndTurn
      <4>3. CASE Execute \/ ExecutionCancelled \/ SaveAnswer
        BY <4>3 DEF Execute, ExecutionCancelled, SaveAnswer, StopWithoutAnswer, EndTurn
      <4>4. QED BY <3>1, <4>1, <4>2, <4>3 DEF AgentStep
    <3>2. CASE UserStep /\ ~CancelTurn
      BY <3>2 DEF UserStep, StartTurn, ResumeTurn, BeginAt, Decide, CloseStream, Abort,
                  EndTurn, Flush
    <3>3. CASE Environment
      BY <3>3 DEF Environment, Crash, Open, OpenRefused, DeleteSession
    <3>4. QED BY <3>1, <3>2, <3>3 DEF Next, AgentStep, UserStep
  <2>5. QED BY <2>1, <2>2, <2>3, <2>4
<1>3. ShownInv => ShownApprovalIsDurable
  BY DEF ShownInv
<1>4. QED BY <1>1, <1>2, <1>3, TypeCorrect, SaveInvariant, PTL DEF Spec

-------------------------------------------------------------------------------
\* What the steps of a call do to the parts of a turn state.
LEMMA StateParts ==
  ASSUME NEW st \in TurnStates, NEW s \in Sigs
  PROVE  /\ Seen(st, s).used = st.used /\ Seen(st, s).full = st.full
         /\ [Seen(st, s) EXCEPT !.spent = TRUE].used = st.used
         /\ \A r \in WithResult(st) : r.used = st.used
         /\ Counted(st).used = st.used + 1
BY DEF Seen, WithResult, Counted, TurnStates

\* A live record is a record.
LEMMA LiveAreRecords ==
  ASSUME TypeOK
  PROVE  \A r \in LiveRecords :
           /\ r \in Records /\ r.base \in Nat /\ r.turn \in Turns /\ r.step \in Nat
           /\ r.queue \in Seq(Sigs) /\ r.state \in TurnStates
           /\ r.state.used \in Nat
BY DEF TypeOK, StoreTypeOK, SessionTypeOK, LiveRecords, Records, TurnStates

\* A preparer that raises when a turn is resumed leaves the record, so that its turn
\* may go on and be resumed a second time: the theorem about resuming excludes it.
PreparersSucceed == "prepare" \notin Faults

\* A step that runs no call and makes no record keeps what is said about records.
LEMMA KeptRecords ==
  ASSUME TypeOK, ResumeInv, LiveRecords' \subseteq LiveRecords, ran' = ran, spent' = spent,
         lastTurn' \in {lastTurn, lastTurn + 1}
  PROVE  ResumeContinues' /\ RecordsAskable' /\ OneCallPerTurn' /\ UnusedUnspent'
<1>1. ResumeContinues' /\ OneCallPerTurn'
  BY DEF ResumeInv, ResumeContinues, NoCallRunsTwice, BudgetAcrossResume, OneCallPerTurn
<1>2. RecordsAskable'
  BY DEF ResumeInv, RecordsAskable, Askable, Knows
<1>3. UnusedUnspent'
  BY DEF ResumeInv, UnusedUnspent, TypeOK, CountTypeOK, Turns
<1>4. QED BY <1>1, <1>2, <1>3

\* So does the end of a turn, and what happens while none runs.
LEMMA NoTurnResume ==
  ASSUME TypeOK, ResumeInv, LiveRecords' \subseteq LiveRecords, ran' = ran, spent' = spent,
         lastTurn' = lastTurn, pc' \notin Stages
  PROVE  ResumeInv'
<1>1. TurnKnowsItself' /\ CallIsNew' /\ TurnAtRecord'
  BY DEF TurnKnowsItself, CallIsNew, TurnAtRecord, Stages
<1>2. QED BY <1>1, KeptRecords DEF ResumeInv

\* A step of a turn of which no record is left.
LEMMA FreeTurnResume ==
  ASSUME TypeOK, TypeOK', ResumeInv, LiveRecords' \subseteq LiveRecords, ran' = ran,
         spent' = spent, lastTurn' = lastTurn, turn' = turn, pc \in Stages,
         \A r \in LiveRecords' : r.turn # turn,
         state.seen \subseteq state'.seen, state'.used = state.used, CallIsNew'
  PROVE  ResumeInv'
<1>1. TurnKnowsItself'
  BY DEF ResumeInv, TurnKnowsItself, Knows
<1>2. TurnAtRecord'
  BY DEF TurnAtRecord
<1>3. QED BY <1>1, <1>2, KeptRecords DEF ResumeInv

\* Where no record of the running turn can be.
LEMMA NoRecordHere ==
  ASSUME TypeOK, ResumeInv, PreparersSucceed,
         \/ pc \in {"model", "executing", "committed"}
         \/ NextStep \/ SkipCall \/ FailCall \/ RunFreeCall
         \/ AtCall /\ Kind[Head(queue)] # "safe"
  PROVE  pc \in Stages /\ \A r \in LiveRecords : r.turn # turn
<1>1. pc \in Stages
  BY DEF NextStep, SkipCall, FailCall, RunFreeCall, AtCall, Stages
<1>2. SUFFICES ASSUME NEW r \in LiveRecords, r.turn = turn PROVE FALSE
  BY <1>1
<1>3. /\ pc \in {"calls", "asking", "approval", "resolving"} /\ queue = r.queue
      /\ pc = "calls" => allowed /\ state = r.state
  BY <1>1, <1>2 DEF ResumeInv, TurnAtRecord
<1>4. Askable(r)
  BY DEF ResumeInv, RecordsAskable
<1>5. /\ queue # <<>> /\ Kind[Head(queue)] = "safe"
      /\ pc = "calls" => /\ Head(queue) \notin state.seen /\ allowed /\ ~state.full
                         /\ state.used < MaxToolCalls
  BY <1>3, <1>4 DEF Askable
<1>6. pc = "calls" => ~Skipped(Head(queue))
  BY <1>5, LimitsAssumption, LiveAreRecords, <1>3 DEF Skipped
<1>7. QED BY <1>3, <1>5, <1>6 DEF NextStep, SkipCall, FailCall, RunFreeCall, AtCall,
             PreparersSucceed

LEMMA LoopResume ==
  ASSUME TypeOK, TypeOK', ResumeInv, PreparersSucceed,
         ModelCalls \/ ModelAnswers \/ ModelStops \/ NextStep
  PROVE  ResumeInv'
<1>1. /\ UNCHANGED <<storeVars, pending>> /\ ran' = ran /\ spent' = spent /\ lastTurn' = lastTurn
      /\ pc \in Stages
  BY DEF ModelCalls, ModelAnswers, ModelStops, NextStep, StopWithoutAnswer, sessionVars,
         countVars, observers, Stages
<1>2. LiveRecords' \subseteq LiveRecords
  BY <1>1, StoreRecords
<1>3. \A r \in LiveRecords : r.turn # turn
  BY NoRecordHere DEF ModelCalls, ModelAnswers, ModelStops, NextStep
<1>4. CASE EndTurn
  BY <1>1, <1>2, <1>4, NoTurnResume DEF EndTurn, Stages
<1>5. CASE ~EndTurn
  <2>1. turn' = turn /\ state' = state /\ pc' \in {"calls", "committed", "model"}
    BY <1>5 DEF ModelCalls, ModelAnswers, ModelStops, NextStep, StopWithoutAnswer, turnVars
  <2>2. QED BY <1>1, <1>2, <1>3, <2>1, FreeTurnResume DEF CallIsNew
<1>6. QED BY <1>4, <1>5

LEMMA CallResume ==
  ASSUME TypeOK, TypeOK', ResumeInv, PreparersSucceed, SkipCall \/ FailCall \/ RunFreeCall
  PROVE  ResumeInv'
<1>1. /\ UNCHANGED <<storeVars, pending>> /\ ran' = ran /\ spent' = spent /\ lastTurn' = lastTurn
      /\ turn' = turn /\ AtCall /\ pc \in Stages
  BY DEF SkipCall, FailCall, RunFreeCall, AtCall, sessionVars, countVars, observers, Stages
<1>2. LiveRecords' \subseteq LiveRecords
  BY <1>1, StoreRecords
<1>3. \A r \in LiveRecords : r.turn # turn
  BY NoRecordHere
<1>4. state \in TurnStates /\ Head(queue) \in Sigs
  BY <1>1, QueueTypes DEF TypeOK, TurnTypeOK, AtCall
<1>5. state.seen \subseteq state'.seen /\ state'.used = state.used
  <2>1. CASE SkipCall
    BY <1>4, <2>1, SeenGrows, StateParts DEF SkipCall
  <2>2. CASE FailCall
    <3>1. Seen(state, Head(queue)) \in TurnStates
      BY <1>4, TurnStateTypes
    <3>2. state' \in WithResult(Seen(state, Head(queue)))
      BY <2>2 DEF FailCall
    <3>3. QED BY <1>4, <3>1, <3>2, SeenGrows, StateParts
  <2>3. CASE RunFreeCall
    BY <1>4, <2>3, SeenGrows, StateParts DEF RunFreeCall
  <2>4. QED BY <2>1, <2>2, <2>3
<1>6. CallIsNew'
  <2>1. CASE SkipCall \/ FailCall
    BY <1>1, <2>1 DEF SkipCall, FailCall, AtCall, CallIsNew
  <2>2. CASE RunFreeCall
    <3>1. /\ queue' = queue /\ Head(queue) \notin state.seen /\ ~(state.used >= MaxToolCalls)
          /\ state' = Seen(state, Head(queue))
      BY <2>2 DEF RunFreeCall, Skipped
    <3>2. ran[turn][Head(queue)] = 0
      BY <1>1, <1>4, <3>1 DEF ResumeInv, TurnKnowsItself, Knows, TypeOK, TurnTypeOK, CountTypeOK
    <3>3. Head(queue) \in state'.seen /\ state'.used < MaxToolCalls
      BY <1>4, <1>5, <3>1, SeenGrows, LimitsAssumption DEF TurnStates
    <3>4. QED BY <1>1, <3>1, <3>2, <3>3 DEF CallIsNew
  <2>3. QED BY <2>1, <2>2
<1>7. QED BY <1>1, <1>2, <1>3, <1>5, <1>6, FreeTurnResume

\* A question is put once more, or a record of a new call is made.
LEMMA AskResume ==
  ASSUME TypeOK, TypeOK', ResumeInv, EffectInv, PreparersSucceed, AskApproval
  PROVE  ResumeInv'
<1>1. /\ UNCHANGED storeVars /\ ran' = ran /\ spent' = spent /\ lastTurn' = lastTurn
      /\ turn' = turn /\ queue' = queue /\ AtCall /\ pc = "calls" /\ pc' = "asking"
      /\ pending' = IF Kind[Head(queue)] = "safe" THEN PendingRecord(state) ELSE pending
      /\ state' = Seen(state, Head(queue))
      /\ allowed /\ ~state.full /\ Head(queue) \notin state.seen
      /\ ~(state.used >= MaxToolCalls)
  BY DEF AskApproval, AtCall, Skipped, countVars, observers
<1>2. /\ state \in TurnStates /\ Head(queue) \in Sigs /\ queue # <<>> /\ turn \in Turns
      /\ ran[turn][Head(queue)] \in Nat
  BY <1>1, QueueTypes DEF TypeOK, TurnTypeOK, CountTypeOK, AtCall, Stages
<1>3. state.used < MaxToolCalls /\ ran[turn][Head(queue)] = 0 /\ Knows(state, turn)
  BY <1>1, <1>2, LimitsAssumption
     DEF ResumeInv, TurnKnowsItself, Knows, TurnStates, Stages
<1>4. /\ state'.seen = state.seen \cup {Head(queue)} /\ state'.used = state.used
  BY <1>1, <1>2, SeenGrows, StateParts
<1>5. TurnKnowsItself' /\ CallIsNew'
  BY <1>1, <1>3, <1>4 DEF ResumeInv, TurnKnowsItself, Knows, CallIsNew, Stages
<1>6. CASE Kind[Head(queue)] # "safe"
  <2>1. LiveRecords' \subseteq LiveRecords
    BY <1>1, <1>6, StoreRecords
  <2>2. \A r \in LiveRecords : r.turn # turn
    BY <1>1, <1>6, NoRecordHere
  <2>3. TurnAtRecord'
    BY <1>1, <2>1, <2>2 DEF TurnAtRecord
  <2>4. QED BY <1>1, <1>5, <2>1, <2>3, KeptRecords DEF ResumeInv
<1>7. CASE Kind[Head(queue)] = "safe"
  <2> DEFINE new == PendingRecord(state)
  <2>1. /\ new \in Records /\ new.turn = turn /\ new.queue = queue /\ new.state = state
    BY <1>1, RecordMade
  <2>2. LiveRecords' \subseteq LiveRecords \cup {new}
    BY <1>1, <1>7 DEF LiveRecords, storeVars
  <2>3. \A r \in LiveRecords' : r.turn = turn => r.queue = queue /\ r.state = state
    BY <1>1, <2>1, <2>2 DEF ResumeInv, TurnAtRecord, Stages
  <2>4. TurnAtRecord'
    BY <1>1, <2>3 DEF TurnAtRecord
  <2>5. OneCallPerTurn'
    <3>1. SUFFICES ASSUME NEW r1 \in LiveRecords', NEW r2 \in LiveRecords', r1.turn = r2.turn
                   PROVE  r1.queue = r2.queue /\ r1.state = r2.state
      BY DEF OneCallPerTurn
    <3>2. CASE r1.turn = turn
      BY <2>3, <3>1, <3>2
    <3>3. CASE r1.turn # turn
      BY <2>1, <2>2, <3>1, <3>3 DEF ResumeInv, OneCallPerTurn
    <3>4. QED BY <3>2, <3>3
  <2>6. Askable(new) /\ Knows(new.state, new.turn)
    BY <1>1, <1>2, <1>3, <1>7, <2>1 DEF Askable
  <2>7. RecordsAskable'
    BY <1>1, <2>2, <2>6 DEF ResumeInv, RecordsAskable, Askable, Knows
  <2>8. ResumeContinues' /\ UnusedUnspent'
    BY <1>1 DEF ResumeInv, ResumeContinues, NoCallRunsTwice, BudgetAcrossResume, UnusedUnspent
  <2>9. QED BY <1>5, <2>4, <2>5, <2>7, <2>8 DEF ResumeInv
<1>8. QED BY <1>6, <1>7

\* The record is saved, the decision taken and the record deleted.
LEMMA DecisionResume ==
  ASSUME TypeOK, TypeOK', ResumeInv, EffectInv, PersistApproval \/ Decide \/ ClearApproval
  PROVE  ResumeInv'
<1>1. /\ pc \in Stages /\ ran' = ran /\ spent' = spent /\ lastTurn' = lastTurn
      /\ pending' \in {pending, None}
  BY DEF PersistApproval, Decide, ClearApproval, Abort, countVars, observers, sessionVars, Stages
<1>2. LiveRecords' \subseteq LiveRecords
  <2>1. CASE PersistApproval
    BY <1>1, <2>1, StoreRecords DEF PersistApproval
  <2>2. CASE Decide
    BY <1>1, <2>2, StoreRecords DEF Decide
  <2>3. CASE ClearApproval
    BY <1>1, <2>3, StoreRecords DEF ClearApproval
  <2>4. QED BY <2>1, <2>2, <2>3
<1>3. CASE pc' \notin Stages
  BY <1>1, <1>2, <1>3, NoTurnResume
<1>4. CASE pc' \in {"approval", "resolving"} /\ pc \in {"asking", "approval"}
  <2>1. turn' = turn /\ queue' = queue /\ state' = state
    BY <1>4 DEF PersistApproval, Abort, EndTurn, Decide, ClearApproval, turnVars
  <2>2. TurnKnowsItself' /\ CallIsNew'
    BY <1>1, <1>4, <2>1 DEF ResumeInv, TurnKnowsItself, Knows, CallIsNew, Stages
  <2>3. TurnAtRecord'
    BY <1>1, <1>2, <1>4, <2>1 DEF ResumeInv, TurnAtRecord, Stages
  <2>4. QED BY <1>1, <1>2, <2>2, <2>3, KeptRecords DEF ResumeInv
<1>5. CASE ClearApproval /\ pc' \in Stages
  <2>1. /\ pc = "resolving" /\ pending = None /\ pending' = None /\ DeletePending("ok")
        /\ turn' = turn /\ state' = state
        /\ pc' = "calls" \/ (pc' = "executing" /\ queue' = queue)
    BY <1>5 DEF ClearApproval, AfterDecision, Abort, EndTurn, EffectInv, GuardedCallPending,
                turnVars, sessionVars, Stages
  <2>2. \A r \in LiveRecords' : r.turn # turn
    <3>1. pendFile' = None /\ \A r \in pendMedia' \ {None} : r.turn # turn
      <4>1. CASE pendFile = None
        BY <1>1, <2>1, <4>1 DEF DeletePending, EffectInv, NoHiddenRecord, storeVars
      <4>2. CASE pendFile # None
        BY <2>1, <4>2 DEF DeletePending, Put, MediaAfter
      <4>3. QED BY <4>1, <4>2
    <3>2. QED BY <2>1, <3>1 DEF LiveRecords
  <2>3. CallIsNew'
    BY <1>1, <2>1 DEF ResumeInv, CallIsNew
  <2>4. QED BY <1>1, <1>2, <2>1, <2>2, <2>3, FreeTurnResume
<1>6. pc' \in Stages => \/ ClearApproval
                        \/ pc' \in {"approval", "resolving"} /\ pc \in {"asking", "approval"}
  BY DEF PersistApproval, Decide, ClearApproval, Abort, EndTurn, Stages
<1>7. QED BY <1>3, <1>4, <1>5, <1>6

\* The call runs, once, and counts; or it is abandoned and its turn ends.
LEMMA ExecuteResume ==
  ASSUME TypeOK, TypeOK', ResumeInv, EffectInv, PreparersSucceed, Execute \/ ExecutionCancelled
  PROVE  ResumeInv'
<1>0. /\ UNCHANGED <<storeVars, pending>> /\ lastTurn' = lastTurn /\ pc = "executing"
      /\ pc' \in {"calls", "idle"} /\ (pc' = "calls" => turn' = turn /\ Execute)
  BY DEF Execute, ExecutionCancelled, StopWithoutAnswer, EndTurn, sessionVars, countVars
<1>1. /\ turn \in Turns /\ Head(queue) \in Sigs /\ state \in TurnStates
      /\ ran \in [Turns -> [Sigs -> Nat]] /\ spent \in [Turns -> Nat]
      /\ lastTurn \in Nat
  <2>1. Head(queue) \in Sigs
    BY <1>0, QueueTypes DEF TypeOK, TurnTypeOK
  <2>2. lastTurn \in Nat
    BY DEF TypeOK, CountTypeOK
  <2>3. QED BY <1>0, <2>1, <2>2 DEF TypeOK, TurnTypeOK, CountTypeOK, Stages
<1>2. LiveRecords' \subseteq LiveRecords /\ \A r \in LiveRecords : r.turn # turn
  BY <1>0, StoreRecords, NoRecordHere
<1>3. /\ Head(queue) \in state.seen /\ ran[turn][Head(queue)] = 0 /\ state.used < MaxToolCalls
      /\ Knows(state, turn)
  BY <1>0 DEF ResumeInv, CallIsNew, TurnKnowsItself, Stages
<1>4. PICK n \in {0, 1}, m \in {0, 1} :
        /\ ran' = [ran EXCEPT ![turn][Head(queue)] = @ + n]
        /\ spent' = [spent EXCEPT ![turn] = @ + m]
  <2>1. CASE Execute
    BY <2>1 DEF Execute
  <2>2. CASE ExecutionCancelled /\ UNCHANGED <<ran, spent>>
    <3>1. /\ ran = [ran EXCEPT ![turn][Head(queue)] = @ + 0]
          /\ spent = [spent EXCEPT ![turn] = @ + 0]
      BY <1>1
    <3>2. QED BY <2>2, <3>1
  <2>3. CASE ExecutionCancelled /\ ~UNCHANGED <<ran, spent>>
    BY <2>3 DEF ExecutionCancelled
  <2>4. QED BY <2>1, <2>2, <2>3
<1>5. /\ \A t \in Turns, s \in Sigs :
           ran'[t][s] = IF t = turn /\ s = Head(queue) THEN n ELSE ran[t][s]
      /\ \A t \in Turns : spent'[t] = IF t = turn THEN spent[t] + m ELSE spent[t]
  BY <1>1, <1>3, <1>4
<1>6. ResumeContinues'
  <2>1. NoCallRunsTwice'
    BY <1>5 DEF ResumeInv, ResumeContinues, NoCallRunsTwice
  <2>2. spent[turn] <= state.used /\ state.used \in Nat
    BY <1>1, <1>3 DEF Knows, TurnStates
  <2>3. BudgetAcrossResume'
    BY <1>1, <1>3, <1>5, <2>2, LimitsAssumption
       DEF ResumeInv, ResumeContinues, BudgetAcrossResume
  <2>4. QED BY <2>1, <2>3 DEF ResumeContinues
<1>7. RecordsAskable' /\ OneCallPerTurn'
  <2>1. OneCallPerTurn'
    BY <1>2 DEF ResumeInv, OneCallPerTurn
  <2>2. ASSUME NEW r \in LiveRecords' PROVE Askable(r) /\ Knows(r.state, r.turn)'
    <3>1. r \in LiveRecords /\ r.turn \in Turns /\ r.turn # turn
      BY <1>2, LiveAreRecords
    <3>2. QED BY <1>5, <3>1 DEF ResumeInv, RecordsAskable, Knows
  <2>3. QED BY <2>1, <2>2 DEF RecordsAskable, Askable
<1>8. UnusedUnspent'
  <2>1. turn <= lastTurn
    BY <1>0 DEF EffectInv, UnusedTurns
  <2>2. QED BY <1>0, <1>1, <1>5, <2>1 DEF ResumeInv, UnusedUnspent, Turns
<1>9. CASE pc' = "idle"
  <2>1. TurnKnowsItself' /\ CallIsNew' /\ TurnAtRecord'
    BY <1>9 DEF TurnKnowsItself, CallIsNew, TurnAtRecord, Stages
  <2>2. QED BY <1>6, <1>7, <1>8, <2>1 DEF ResumeInv
<1>10. CASE pc' = "calls"
  <2>1. /\ turn' = turn /\ m = 1 /\ state' \in WithResult(Counted(state))
    <3>1. spent' = [spent EXCEPT ![turn] = @ + 1]
      BY <1>0, <1>10 DEF Execute
    <3>2. spent'[turn] = spent[turn] + 1 /\ spent'[turn] = spent[turn] + m /\ spent[turn] \in Nat
      BY <1>1, <1>5, <3>1
    <3>3. QED BY <1>0, <1>10, <3>2 DEF Execute
  <2>2. state'.seen = state.seen /\ state'.used = state.used + 1 /\ state.used \in Nat
    <3>1. Counted(state) \in TurnStates
      BY <1>1, TurnStateTypes
    <3>2. state'.seen = Counted(state).seen /\ state'.used = Counted(state).used
      BY <1>1, <2>1, <3>1, SeenGrows, StateParts
    <3>3. QED BY <1>1, <3>2, SeenGrows, StateParts DEF TurnStates
  <2>3. Knows(state, turn)'
    BY <1>1, <1>3, <1>5, <2>1, <2>2 DEF Knows
  <2>4. TurnKnowsItself'
    BY <1>3, <2>2, <2>3, LimitsAssumption DEF TurnKnowsItself
  <2>5. CallIsNew' /\ TurnAtRecord'
    BY <1>2, <1>10, <2>1 DEF CallIsNew, TurnAtRecord
  <2>6. QED BY <1>6, <1>7, <1>8, <2>4, <2>5 DEF ResumeInv
<1>11. QED BY <1>0, <1>9, <1>10

\* A turn starts with nothing done, or where its record says.
LEMMA UserResume ==
  ASSUME TypeOK, TypeOK', ResumeInv, EffectInv, StartTurn \/ ResumeTurn \/ CloseStream \/ CancelTurn
  PROVE  ResumeInv'
<1>0. UNCHANGED <<storeVars, pending>> /\ ran' = ran /\ spent' = spent
  BY DEF StartTurn, ResumeTurn, CloseStream, Abort, CancelTurn, sessionVars, observers
<1>1. LiveRecords' = LiveRecords
  BY <1>0 DEF LiveRecords, storeVars
<1>2. CASE StartTurn
  <2>1. /\ lastTurn' = lastTurn + 1 /\ pc' = "model" /\ turn' = lastTurn + 1
        /\ state' = FreshState /\ lastTurn \in Nat /\ lastTurn + 1 \in Turns
    BY <1>2, LimitsAssumption DEF StartTurn, BeginAt, TypeOK, CountTypeOK, Turns
  <2>2. \A s \in Sigs : ran[lastTurn + 1][s] = 0
    BY <2>1 DEF EffectInv, UnusedTurns
  <2>3. spent[lastTurn + 1] = 0
    BY <2>1 DEF ResumeInv, UnusedUnspent
  <2>4. FreshState.used = 0 /\ FreshState.seen = {}
    BY DEF FreshState
  <2>5. TurnKnowsItself'
    BY <1>0, <2>1, <2>2, <2>3, <2>4, LimitsAssumption DEF TurnKnowsItself, Knows
  <2>6. \A r \in LiveRecords : r.turn # lastTurn + 1
    BY <2>1, LiveAreRecords DEF EffectInv, UnusedTurns, Turns
  <2>7. TurnAtRecord' /\ CallIsNew'
    BY <1>1, <2>1, <2>6 DEF TurnAtRecord, CallIsNew
  <2>8. QED BY <1>0, <1>1, <2>1, <2>5, <2>7, KeptRecords DEF ResumeInv
<1>3. CASE ResumeTurn
  <2>1. /\ lastTurn' = lastTurn /\ pc' = "calls" /\ turn' = pending.turn /\ allowed' = TRUE
        /\ queue' = pending.queue /\ state' = pending.state /\ pending # None
        /\ Restorable(pending, committed)
    BY <1>3 DEF ResumeTurn, BeginAt, countVars
  <2>2. pending \in LiveRecords
    BY <2>1 DEF LiveRecords
  <2>3. TurnKnowsItself'
    BY <1>0, <2>1, <2>2 DEF ResumeInv, RecordsAskable, Knows, TurnKnowsItself, Restorable
  <2>4. TurnAtRecord' /\ CallIsNew'
    BY <1>1, <2>1, <2>2 DEF ResumeInv, OneCallPerTurn, TurnAtRecord, CallIsNew
  <2>5. QED BY <1>0, <1>1, <2>1, <2>3, <2>4, KeptRecords DEF ResumeInv
<1>4. CASE CloseStream
  BY <1>0, <1>1, <1>4, NoTurnResume DEF CloseStream, Abort, EndTurn, countVars, Stages
<1>5. CASE CancelTurn
  <2>1. /\ pc' = pc /\ turn' = turn /\ state' = state /\ queue' = queue /\ allowed' = allowed
        /\ lastTurn' = lastTurn
    BY <1>5 DEF CancelTurn, countVars
  <2>2. TurnKnowsItself' /\ CallIsNew' /\ TurnAtRecord'
    BY <1>0, <1>1, <2>1 DEF ResumeInv, TurnKnowsItself, Knows, CallIsNew, TurnAtRecord
  <2>3. QED BY <1>0, <1>1, <2>1, <2>2, KeptRecords DEF ResumeInv
<1>6. QED BY <1>2, <1>3, <1>4, <1>5

\* Saving an answer ends the turn; everything else happens while none runs.
LEMMA OutsideResume ==
  ASSUME TypeOK, ResumeInv, EffectInv, SaveAnswer \/ Flush \/ Environment
  PROVE  ResumeInv'
<1>1. CASE SaveAnswer \/ Flush
  <2>1. /\ \E v, res : Save(v, res)
        /\ pc' \notin Stages /\ pending' = pending
        /\ ran' = ran /\ spent' = spent /\ lastTurn' = lastTurn
    BY <1>1 DEF SaveAnswer, Flush, EndTurn, countVars, Stages
  <2>2. QED BY <2>1, StoreRecords, NoTurnResume
<1>2. CASE Environment
  <2>1. /\ pc' \notin Stages /\ ran' = ran /\ spent' = spent /\ lastTurn' = lastTurn
    BY <1>2 DEF Environment, Crash, Open, OpenRefused, DeleteSession, countVars, observers, Stages
  <2>2. LiveRecords' \subseteq LiveRecords
    <3>1. CASE Crash
      BY <3>1, StoreRecords DEF Crash
    <3>2. CASE Open
      BY <3>2 DEF Open, LiveRecords, storeVars
    <3>3. CASE OpenRefused \/ DeleteSession
      BY <3>3, StoreRecords DEF OpenRefused, DeleteSession, sessionVars
    <3>4. QED BY <1>2, <3>1, <3>2, <3>3 DEF Environment
  <2>3. QED BY <2>1, <2>2, NoTurnResume
<1>3. QED BY <1>1, <1>2

\* ResumeInv holds in every reachable state.
THEOREM ResumeInvariant == PreparersSucceed => (Spec => []ResumeInv)
<1> SUFFICES ASSUME PreparersSucceed PROVE Spec => []ResumeInv
  OBVIOUS
<1>1. Init => ResumeInv
  <2> SUFFICES ASSUME Init, TypeOK PROVE ResumeInv
    BY InitType
  <2>1. /\ pc = "down" /\ LiveRecords = {} /\ \A t \in Turns, s \in Sigs : ran[t][s] = 0
        /\ \A t \in Turns : spent[t] = 0
    BY DEF Init, StoreInit, LiveRecords
  <2>2. ResumeContinues /\ UnusedUnspent
    BY <2>1, LimitsAssumption
       DEF ResumeContinues, NoCallRunsTwice, BudgetAcrossResume, UnusedUnspent
  <2>3. QED BY <2>1, <2>2 DEF ResumeInv, RecordsAskable, OneCallPerTurn, TurnKnowsItself,
                              CallIsNew, TurnAtRecord, Stages
<1>2. TypeOK /\ TypeOK' /\ EffectInv /\ ResumeInv /\ [Next]_vars => ResumeInv'
  <2> SUFFICES ASSUME TypeOK, TypeOK', EffectInv, ResumeInv, [Next]_vars PROVE ResumeInv'
    OBVIOUS
  <2>1. CASE AgentStep
    BY <2>1, LoopResume, CallResume, AskResume, DecisionResume, ExecuteResume, OutsideResume
       DEF AgentStep
  <2>2. CASE UserStep
    BY <2>2, UserResume, DecisionResume, OutsideResume DEF UserStep
  <2>3. CASE Environment
    BY <2>3, OutsideResume
  <2>4. CASE UNCHANGED vars
    <3>1. /\ UNCHANGED <<pending, pendFile, pendMedia>> /\ pc' = pc /\ turn' = turn
          /\ queue' = queue /\ state' = state /\ ran' = ran /\ lastTurn' = lastTurn
          /\ spent' = spent /\ allowed' = allowed
      BY <2>4 DEF vars, storeVars, sessionVars, turnVars, countVars, observers
    <3>2. LiveRecords' = LiveRecords
      BY <3>1 DEF LiveRecords
    <3>3. TurnKnowsItself' /\ CallIsNew' /\ TurnAtRecord'
      BY <3>1, <3>2 DEF ResumeInv, TurnKnowsItself, Knows, CallIsNew, TurnAtRecord
    <3>4. QED BY <3>1, <3>2, <3>3, KeptRecords DEF ResumeInv
  <2>5. QED BY <2>1, <2>2, <2>3, <2>4 DEF Next
<1>3. QED BY <1>1, <1>2, TypeCorrect, EffectInvariant, PTL DEF Spec

\* A resumed turn goes on where it stopped: none of its calls, approved or free, runs
\* twice, and its executions before and after any number of resumes, failed stores,
\* crashes and power losses share one budget, if no preparer raises.
THEOREM ResumeRepeatsNothing == PreparersSucceed => (Spec => []ResumeContinues)
<1>1. ResumeInv => ResumeContinues
  BY DEF ResumeInv
<1>2. QED BY <1>1, ResumeInvariant, PTL

-------------------------------------------------------------------------------
\* The failures a session always recovers from: saves may fail, and power too if it is
\* one of at most one failure; every call of the model can be made.  Any failing
\* deletion, a second failure besides a power loss, and a call that cannot be made
\* behind one that waits, each leave a session that cannot be opened or resumed.
OnlySavesFail ==
  /\ Faults \subseteq {"save", "save_pending", "power"}
  /\ "power" \in Faults => MaxFaults <= 1
  /\ \A s \in Sigs : Kind[s] # "broken"

\* What the store does then.
LEMMA StoreWhenSavesFail ==
  ASSUME OnlySavesFail
  PROVE  /\ PreparersSucceed
         /\ \A res : DeletePending(res) => res = "ok"
         /\ \A res \in StoreResults("delete") : res = "ok"
         /\ ~DeleteSnapshotOnly
BY DEF OnlySavesFail, PreparersSucceed, DeletePending, StoreResults, DeleteSnapshotOnly

\* Without a question no record is live.
LEMMA NoneWithoutQuestion ==
  ASSUME TypeOK, ResumeInv, RecoverInv, PreparersSucceed,
         \/ pc \in {"model", "executing", "committed"}
         \/ NextStep \/ SkipCall \/ FailCall \/ RunFreeCall
  PROVE  pc \in Stages /\ LiveRecords = {}
BY NoRecordHere DEF RecoverInv, RecordsOfOneTurn

\* No record is live when all three places are empty.
LEMMA EmptyPlaces ==
  ASSUME RecoverInv
  PROVE  LiveRecords = {} <=> pending = None /\ pendFile = None /\ pendMedia = {None}
BY DEF RecoverInv, FileOnMedia, LiveRecords

\* A step after which no record is live.
LEMMA NoneLeft ==
  ASSUME pending' = None, pendFile' = None, pendMedia' = {None},
         pc' \in Stages \ {"model", "committed"} /\ allowed' => step' < MaxLoops,
         "power" \in Faults /\ snapMedia' # {snapFile'} => faults' >= 1
  PROVE  RecoverInv'
<1>1. LiveRecords' = {}
  BY DEF LiveRecords
<1>2. StepsLeft' /\ RecordsOfOneTurn' /\ NoStrayRecord'
  BY <1>1 DEF StepsLeft, RecordsOfOneTurn, NoStrayRecord
<1>3. BaseKept' /\ FileOnMedia' /\ MediaFit'
  BY DEF BaseKept, FileOnMedia, MediaFit
<1>4. QED BY <1>2, <1>3 DEF RecoverInv

\* A step of a turn, or its end, that leaves the records where they are.
LEMMA QuietRecover ==
  ASSUME RecoverInv, UNCHANGED <<storeVars, pending, committed, dirty>>,
         pc \in Stages \ {"resolving"}, pc' \in Stages => turn' = turn,
         pc' \in Stages \ {"model", "committed"} /\ allowed' => step' < MaxLoops
  PROVE  RecoverInv'
<1>1. /\ LiveRecords' = LiveRecords
      /\ UNCHANGED <<snapFile, snapMedia, pendFile, pendMedia, faults>>
  BY DEF LiveRecords, storeVars
<1>2. StepsLeft' /\ RecordsOfOneTurn'
  BY <1>1 DEF RecoverInv, StepsLeft, RecordsOfOneTurn
<1>3. BaseKept' /\ FileOnMedia' /\ MediaFit'
  BY <1>1 DEF RecoverInv, BaseKept, FileOnMedia, MediaFit
<1>4. NoStrayRecord'
  BY <1>1 DEF RecoverInv, NoStrayRecord, Stages
<1>5. QED BY <1>2, <1>3, <1>4 DEF RecoverInv

LEMMA LoopRecover ==
  ASSUME TypeOK, SaveInv, ResumeInv, RecoverInv, OnlySavesFail,
         \/ ModelCalls \/ ModelStops \/ NextStep \/ SkipCall \/ FailCall \/ RunFreeCall
         \/ Execute \/ ExecutionCancelled \/ CancelTurn
  PROVE  RecoverInv'
<1>1. UNCHANGED <<storeVars, pending, committed, dirty>> /\ pc \in Stages
  BY DEF ModelCalls, ModelStops, NextStep, SkipCall, FailCall, RunFreeCall, Execute,
         ExecutionCancelled, CancelTurn, StopWithoutAnswer, AtCall, sessionVars, Stages
<1>2. pc' \in Stages => turn' = turn
  BY DEF ModelCalls, ModelStops, NextStep, SkipCall, FailCall, RunFreeCall, Execute,
         ExecutionCancelled, CancelTurn, StopWithoutAnswer, EndTurn, Stages
<1>3. pc' \in Stages \ {"model", "committed"} /\ allowed' => step' < MaxLoops
  <2>1. CASE ModelCalls
    BY <2>1 DEF ModelCalls, ToolsAllowed
  <2>2. CASE pc' \notin Stages \ {"model", "committed"}
    BY <2>2
  <2>3. CASE pc \in Stages \ {"model", "committed"} /\ step' = step /\ allowed' = allowed
    BY <2>3 DEF RecoverInv, StepsLeft
  <2>4. \/ ModelCalls \/ pc' \notin Stages \ {"model", "committed"}
        \/ pc \in Stages \ {"model", "committed"} /\ step' = step /\ allowed' = allowed
    BY DEF ModelStops, NextStep, SkipCall, FailCall, RunFreeCall, Execute,
           ExecutionCancelled, CancelTurn, StopWithoutAnswer, EndTurn, AtCall, Stages
  <2>5. QED BY <2>1, <2>2, <2>3, <2>4
<1>4. CASE pc # "resolving"
  BY <1>1, <1>2, <1>3, <1>4, QuietRecover
<1>5. CASE pc = "resolving"
  <2>1. CancelTurn
    BY <1>5 DEF ModelCalls, ModelStops, NextStep, SkipCall, FailCall, RunFreeCall, Execute,
                ExecutionCancelled, AtCall
  <2>2. /\ LiveRecords' = LiveRecords /\ pc' = pc /\ turn' = turn /\ step' = step
        /\ allowed' = allowed
        /\ UNCHANGED <<snapFile, snapMedia, pendFile, pendMedia, faults>>
    BY <1>1, <2>1 DEF CancelTurn, LiveRecords, storeVars
  <2>3. StepsLeft' /\ RecordsOfOneTurn' /\ NoStrayRecord'
    BY <1>1, <2>2 DEF RecoverInv, StepsLeft, RecordsOfOneTurn, NoStrayRecord
  <2>4. BaseKept' /\ FileOnMedia' /\ MediaFit'
    BY <1>1, <2>2 DEF RecoverInv, BaseKept, FileOnMedia, MediaFit
  <2>5. QED BY <2>3, <2>4 DEF RecoverInv
<1>6. QED BY <1>4, <1>5

\* A question: its record is of the running turn, based on the committed version.
LEMMA AskRecover ==
  ASSUME TypeOK, SaveInv, ResumeInv, RecoverInv, AskApproval
  PROVE  RecoverInv'
<1> DEFINE new == PendingRecord(state)
<1>1. /\ UNCHANGED storeVars /\ committed' = committed /\ dirty' = dirty /\ turn' = turn
      /\ step' = step /\ allowed /\ pc = "calls" /\ pc' = "asking"
      /\ pending' = IF Kind[Head(queue)] = "safe" THEN new ELSE pending
  BY DEF AskApproval, AtCall, Skipped
<1>2. /\ UNCHANGED <<snapFile, snapMedia, pendFile, pendMedia, faults>>
      /\ step < MaxLoops /\ ~dirty
  BY <1>1 DEF storeVars, RecoverInv, StepsLeft, SaveInv, Stages
<1>3. new \in Records /\ new.base = committed /\ new.turn = turn /\ new.step = step /\ new # None
  BY <1>1, RecordMade, NoneAssumption
<1>4. LiveRecords' \subseteq LiveRecords \cup {new}
  BY <1>1, <1>2 DEF LiveRecords
<1>5. StepsLeft' /\ RecordsOfOneTurn'
  BY <1>1, <1>2, <1>3, <1>4 DEF RecoverInv, StepsLeft, RecordsOfOneTurn, Stages
<1>6. BaseKept' /\ FileOnMedia' /\ MediaFit'
  BY <1>1, <1>2, <1>3 DEF RecoverInv, BaseKept, FileOnMedia, MediaFit
<1>7. NoStrayRecord'
  <2>1. CASE pending' = None
    <3>1. pending = None /\ LiveRecords' = LiveRecords
      BY <1>1, <1>2, <1>3, <2>1 DEF LiveRecords
    <3>2. QED BY <1>1, <1>2, <3>1 DEF RecoverInv, NoStrayRecord
  <2>2. CASE pending' # None
    BY <1>1, <1>2, <2>2 DEF NoStrayRecord
  <2>3. QED BY <2>1, <2>2
<1>8. QED BY <1>5, <1>6, <1>7 DEF RecoverInv

\* The record is saved: the file fits the snapshot, and if a first failure leaves
\* both the old entry and the new one, the snapshot was synced before.
LEMMA PersistRecover ==
  ASSUME TypeOK, SaveInv, RecoverInv, OnlySavesFail, PersistApproval
  PROVE  RecoverInv'
<1>1. /\ pc = "asking" /\ pending' = pending /\ committed' = committed /\ dirty' = dirty
      /\ committed = snapFile /\ ~dirty
      /\ \/ pc' = "approval" /\ UNCHANGED <<turn, step, allowed>>
         \/ pc' = "idle"
  BY DEF PersistApproval, Abort, EndTurn, SaveInv, TurnFromSaved, turnVars, sessionVars, Stages
<1>2. pc' \in Stages \ {"model", "committed"} /\ allowed' => step' < MaxLoops
  BY <1>1 DEF RecoverInv, StepsLeft, Stages
<1>3. CASE UNCHANGED storeVars
  BY <1>1, <1>2, <1>3, QuietRecover DEF Stages
<1>4. CASE pending # None /\ \E res : SavePending(pending, res)
  <2>1. PICK res : SavePending(pending, res)
    BY <1>4
  <2>2. /\ res \in {"ok", "failed", "unsynced"}
        /\ res # "ok" => faults < MaxFaults
    BY <2>1 DEF SavePending, StoreResults
  <2>3. LiveRecords' \subseteq LiveRecords
    BY <1>1, <2>1, StoreRecords
  <2>4. pending.base = committed /\ faults \in Nat /\ MaxFaults \in Nat
    BY <1>4, FaultsAssumption DEF RecoverInv, BaseKept, TypeOK, StoreTypeOK
  <2>5. StepsLeft' /\ RecordsOfOneTurn' /\ NoStrayRecord'
    BY <1>1, <1>2, <1>4, <2>3
       DEF RecoverInv, StepsLeft, RecordsOfOneTurn, NoStrayRecord, Stages
  <2>6. CASE res = "ok"
    <3>1. /\ snapFile' = snapFile /\ snapMedia' = {snapFile}
          /\ pendFile' = pending /\ pendMedia' = {pending}
      BY <2>1, <2>6 DEF SavePending, Put, MediaAfter
    <3>2. BaseKept' /\ FileOnMedia' /\ MediaFit'
      BY <1>1, <1>4, <2>4, <3>1 DEF BaseKept, FileOnMedia, MediaFit
    <3>3. QED BY <2>5, <3>2 DEF RecoverInv
  <2>7. CASE res = "failed"
    <3>1. /\ UNCHANGED <<snapFile, snapMedia, pendFile, pendMedia>> /\ faults' = faults + 1
      BY <2>1, <2>7 DEF SavePending, Put, MediaAfter
    <3>2. BaseKept' /\ FileOnMedia' /\ MediaFit'
      BY <1>1, <2>4, <3>1 DEF RecoverInv, BaseKept, FileOnMedia, MediaFit
    <3>3. QED BY <2>5, <3>2 DEF RecoverInv
  <2>8. CASE res = "unsynced"
    <3>1. /\ snapFile' = snapFile /\ snapMedia' = snapMedia \cup {snapFile}
          /\ pendFile' = pending /\ pendMedia' = pendMedia \cup {pending}
          /\ faults' = faults + 1
      BY <2>1, <2>8 DEF SavePending, Put, MediaAfter
    <3>2. BaseKept' /\ FileOnMedia'
      BY <1>1, <1>4, <2>4, <3>1 DEF BaseKept, FileOnMedia
    <3>3. MediaFit'
      <4>1. SUFFICES ASSUME "power" \in Faults
                     PROVE  /\ \A r \in pendMedia' \ {None}, v \in snapMedia' : r.base = v
                            /\ snapMedia' # {snapFile'} => faults' >= 1
        BY DEF MediaFit
      <4>2. faults = 0
        BY <2>2, <2>4, <2>8, <4>1 DEF OnlySavesFail
      <4>3. snapMedia = {snapFile}
        BY <4>1, <4>2 DEF RecoverInv, MediaFit
      <4>4. \A r \in pendMedia \ {None} : r.base = snapFile
        BY <4>1, <4>3 DEF RecoverInv, MediaFit
      <4>5. QED BY <1>1, <2>4, <3>1, <4>3, <4>4
    <3>4. QED BY <2>5, <3>2, <3>3 DEF RecoverInv
  <2>9. QED BY <2>2, <2>6, <2>7, <2>8
<1>5. QED BY <1>3, <1>4 DEF PersistApproval

\* The decision takes the record out of memory, the deletion out of the file.
LEMMA DecisionRecover ==
  ASSUME TypeOK, SaveInv, EffectInv, RecoverInv, OnlySavesFail, Decide \/ ClearApproval
  PROVE  RecoverInv'
<1>1. CASE Decide
  <2>1. /\ UNCHANGED <<snapFile, snapMedia, pendFile, pendMedia, faults>> /\ pending' = None
        /\ UNCHANGED <<turn, step, allowed, dirty>>
        /\ pc = "approval" /\ pc' = "resolving"
    BY <1>1 DEF Decide, storeVars
  <2>2. LiveRecords' \subseteq LiveRecords
    BY <2>1 DEF LiveRecords
  <2>3. StepsLeft' /\ RecordsOfOneTurn' /\ NoStrayRecord'
    BY <2>1, <2>2 DEF RecoverInv, StepsLeft, RecordsOfOneTurn, NoStrayRecord, Stages
  <2>4. BaseKept' /\ FileOnMedia' /\ MediaFit'
    BY <2>1 DEF RecoverInv, BaseKept, FileOnMedia, MediaFit
  <2>5. QED BY <2>3, <2>4 DEF RecoverInv
<1>2. CASE ClearApproval
  <2>1. /\ pc = "resolving" /\ pending' = None /\ DeletePending("ok") /\ AfterDecision
    BY <1>2, StoreWhenSavesFail DEF ClearApproval, EffectInv, GuardedCallPending, sessionVars
  <2>2. /\ pendFile' = None /\ pendMedia' = {None}
        /\ "power" \in Faults /\ snapMedia' # {snapFile'} => faults' >= 1
    <3>1. CASE pendFile = None
      BY <2>1, <3>1 DEF DeletePending, storeVars, RecoverInv, FileOnMedia, MediaFit
    <3>2. CASE pendFile # None
      BY <2>1, <3>2 DEF DeletePending, Put, MediaAfter
    <3>3. QED BY <3>1, <3>2
  <2>3. step' = step /\ allowed' = allowed
    BY <2>1 DEF AfterDecision, turnVars
  <2>4. QED BY <2>1, <2>2, <2>3, NoneLeft DEF RecoverInv, StepsLeft, Stages
<1>3. QED BY <1>1, <1>2

\* A commit and the saves happen when no record is live.
LEMMA AnswerRecover ==
  ASSUME TypeOK, SaveInv, ResumeInv, RecoverInv, OnlySavesFail,
         ModelAnswers \/ SaveAnswer \/ Flush
  PROVE  RecoverInv'
<1>1. pending = None /\ pendFile = None /\ pendMedia = {None} /\ pending' = None
  <2>1. LiveRecords = {}
    <3>1. CASE ModelAnswers \/ SaveAnswer
      BY <3>1, NoneWithoutQuestion, StoreWhenSavesFail DEF ModelAnswers, SaveAnswer
    <3>2. CASE Flush
      BY <3>2 DEF Flush, RecoverInv, NoStrayRecord
    <3>3. QED BY <3>1, <3>2
  <2>2. QED BY <2>1, EmptyPlaces DEF ModelAnswers, SaveAnswer, Flush
<1>2. pc' \notin Stages \ {"model", "committed"}
  BY DEF ModelAnswers, SaveAnswer, Flush, EndTurn, Stages
<1>3. /\ pendFile' = None /\ pendMedia' = {None}
      /\ "power" \in Faults /\ snapMedia' # {snapFile'} => faults' >= 1
  <2>1. CASE ModelAnswers
    BY <1>1, <2>1 DEF ModelAnswers, storeVars, RecoverInv, MediaFit
  <2>2. CASE SaveAnswer \/ Flush
    <3>1. PICK v, res : Save(v, res)
      BY <2>2 DEF SaveAnswer, Flush
    <3>2. res \in {"ok", "failed", "unsynced"} /\ faults \in Nat
      BY <3>1 DEF Save, StoreResults, TypeOK, StoreTypeOK
    <3>3. CASE res = "ok"
      BY <1>1, <3>1, <3>3 DEF Save, Put, MediaAfter
    <3>4. CASE res # "ok"
      BY <1>1, <3>1, <3>2, <3>4 DEF Save, Put, MediaAfter
    <3>5. QED BY <3>3, <3>4
  <2>3. QED BY <2>1, <2>2
<1>4. QED BY <1>1, <1>2, <1>3, NoneLeft

LEMMA UserRecover ==
  ASSUME TypeOK, SaveInv, ResumeInv, RecoverInv, OnlySavesFail,
         StartTurn \/ ResumeTurn \/ CloseStream
  PROVE  RecoverInv'
<1>1. CASE StartTurn
  <2>1. /\ pc = "idle" /\ pending = None /\ pending' = None /\ UNCHANGED storeVars
        /\ pc' = "model"
    BY <1>1 DEF StartTurn, MayStart, BeginAt, sessionVars
  <2>2. LiveRecords = {}
    BY <2>1 DEF RecoverInv, NoStrayRecord
  <2>3. pendFile' = None /\ pendMedia' = {None}
    BY <2>1, <2>2, EmptyPlaces DEF storeVars
  <2>4. "power" \in Faults /\ snapMedia' # {snapFile'} => faults' >= 1
    BY <2>1 DEF RecoverInv, MediaFit, storeVars
  <2>5. QED BY <2>1, <2>3, <2>4, NoneLeft
<1>2. CASE ResumeTurn
  <2>1. /\ UNCHANGED <<snapFile, snapMedia, pendFile, pendMedia, faults>>
        /\ UNCHANGED <<pending, committed, dirty>> /\ ~dirty /\ pending # None
        /\ turn' = pending.turn /\ step' = pending.step
    BY <1>2 DEF ResumeTurn, BeginAt, storeVars, sessionVars
  <2>2. LiveRecords' = LiveRecords /\ pending \in LiveRecords
    BY <2>1 DEF LiveRecords
  <2>3. StepsLeft' /\ RecordsOfOneTurn' /\ NoStrayRecord'
    BY <2>1, <2>2 DEF RecoverInv, StepsLeft, RecordsOfOneTurn, NoStrayRecord
  <2>4. BaseKept' /\ FileOnMedia' /\ MediaFit'
    BY <2>1 DEF RecoverInv, BaseKept, FileOnMedia, MediaFit
  <2>5. QED BY <2>3, <2>4 DEF RecoverInv
<1>3. CASE CloseStream
  <2>1. /\ UNCHANGED <<storeVars, pending, committed>> /\ pc' = "idle" /\ Abort
        /\ pc \in Stages \ {"resolving"}
    BY <1>3 DEF CloseStream, Abort, EndTurn, Stages
  <2>2. CASE pc # "committed"
    <3>1. dirty' = dirty
      BY <2>1, <2>2, AbortIsQuiet
    <3>2. QED BY <2>1, <3>1, QuietRecover DEF Stages
  <2>3. CASE pc = "committed"
    <3>1. pending = None /\ pendFile = None /\ pendMedia = {None}
      BY <2>3, NoneWithoutQuestion, StoreWhenSavesFail, EmptyPlaces
    <3>2. /\ pending' = None /\ pendFile' = None /\ pendMedia' = {None}
          /\ "power" \in Faults /\ snapMedia' # {snapFile'} => faults' >= 1
      BY <2>1, <3>1 DEF RecoverInv, MediaFit, storeVars
    <3>3. QED BY <2>1, <3>2, NoneLeft DEF Stages
  <2>4. QED BY <2>2, <2>3
<1>4. QED BY <1>1, <1>2, <1>3

\* A crash, a power loss included, leaves a pair of files that fits; opening takes
\* both from there.
LEMMA EnvironmentRecover ==
  ASSUME TypeOK, SaveInv, EffectInv, RecoverInv, OnlySavesFail, Environment
  PROVE  RecoverInv'
<1>1. CASE Crash
  <2>1. /\ pc' = "down" /\ pending' = None /\ dirty' = FALSE
        /\ UNCHANGED storeVars \/ ("power" \in Faults /\ PowerLoss)
    BY <1>1 DEF Crash
  <2>2. LiveRecords' \subseteq LiveRecords
    BY <2>1, StoreRecords
  <2>3. StepsLeft' /\ RecordsOfOneTurn' /\ NoStrayRecord'
    BY <2>1, <2>2 DEF RecoverInv, StepsLeft, RecordsOfOneTurn, NoStrayRecord, Stages
  <2>4. BaseKept' /\ FileOnMedia' /\ MediaFit'
    <3>1. CASE UNCHANGED storeVars
      BY <2>1, <3>1 DEF storeVars, RecoverInv, BaseKept, FileOnMedia, MediaFit
    <3>2. CASE "power" \in Faults /\ PowerLoss
      <4>1. /\ snapFile' \in snapMedia /\ snapMedia' = {snapFile'}
            /\ pendFile' \in pendMedia /\ pendMedia' = {pendFile'}
        BY <3>2 DEF PowerLoss
      <4>2. pendFile' # None => pendFile'.base = snapFile'
        BY <3>2, <4>1 DEF RecoverInv, MediaFit
      <4>3. QED BY <2>1, <4>1, <4>2 DEF BaseKept, FileOnMedia, MediaFit
    <3>3. QED BY <2>1, <3>1, <3>2
  <2>5. QED BY <2>3, <2>4 DEF RecoverInv
<1>2. CASE Open \/ OpenRefused
  <2>1. /\ UNCHANGED <<snapFile, snapMedia, pendFile, pendMedia, faults>>
        /\ dirty' = dirty /\ ~dirty /\ pc' \in {"idle", "refused"}
        /\ \/ pending' = pendFile /\ committed' = snapFile
           \/ pending' = pending /\ committed' = committed /\ pc' = "refused"
    BY <1>2 DEF Open, OpenRefused, storeVars, sessionVars, SaveInv
  <2>2. LiveRecords' \subseteq LiveRecords
    BY <2>1 DEF LiveRecords
  <2>3. StepsLeft' /\ RecordsOfOneTurn'
    BY <2>1, <2>2 DEF RecoverInv, StepsLeft, RecordsOfOneTurn, Stages
  <2>4. BaseKept' /\ FileOnMedia' /\ MediaFit'
    BY <2>1 DEF RecoverInv, BaseKept, FileOnMedia, MediaFit
  <2>5. NoStrayRecord'
    <3>1. pendFile = None => pendMedia = {None}
      BY DEF RecoverInv, FileOnMedia
    <3>2. pc' = "idle" /\ pending' = None => LiveRecords' = {}
      BY <2>1, <3>1 DEF LiveRecords
    <3>3. QED BY <2>1, <3>2 DEF NoStrayRecord
  <2>6. QED BY <2>3, <2>4, <2>5 DEF RecoverInv
<1>3. CASE DeleteSession
  <2>1. pc' = "down" /\ pending' = None /\ DeleteBoth("ok")
    BY <1>3, StoreWhenSavesFail DEF DeleteSession, EffectInv, ClosedIsEmpty, sessionVars
  <2>2. pendFile' = None /\ pendMedia' = {None} /\ snapMedia' = {snapFile'}
    BY <2>1 DEF DeleteBoth, Put, MediaAfter
  <2>3. QED BY <2>1, <2>2, NoneLeft DEF Stages
<1>4. QED BY <1>1, <1>2, <1>3 DEF Environment

\* RecoverInv holds in every reachable state.
THEOREM RecoverInvariant == OnlySavesFail => (Spec => []RecoverInv)
<1> SUFFICES ASSUME OnlySavesFail PROVE Spec => []RecoverInv
  OBVIOUS
<1>1. Init => RecoverInv
  <2> SUFFICES ASSUME Init PROVE RecoverInv
    OBVIOUS
  <2>1. /\ pc = "down" /\ ~dirty /\ pending = None /\ pendFile = None /\ pendMedia = {None}
        /\ snapMedia = {snapFile} /\ LiveRecords = {}
    BY DEF Init, StoreInit, LiveRecords
  <2>2. StepsLeft /\ RecordsOfOneTurn /\ NoStrayRecord
    BY <2>1 DEF StepsLeft, RecordsOfOneTurn, NoStrayRecord, Stages
  <2>3. BaseKept /\ FileOnMedia /\ MediaFit
    BY <2>1 DEF BaseKept, FileOnMedia, MediaFit
  <2>4. QED BY <2>2, <2>3 DEF RecoverInv
<1>2. TypeOK /\ SaveInv /\ EffectInv /\ ResumeInv /\ RecoverInv /\ [Next]_vars => RecoverInv'
  <2> SUFFICES ASSUME TypeOK, SaveInv, EffectInv, ResumeInv, RecoverInv, [Next]_vars
               PROVE  RecoverInv'
    OBVIOUS
  <2>1. CASE AgentStep
    BY <2>1, LoopRecover, AskRecover, PersistRecover, DecisionRecover, AnswerRecover
       DEF AgentStep
  <2>2. CASE UserStep
    BY <2>2, LoopRecover, UserRecover, DecisionRecover, AnswerRecover DEF UserStep
  <2>3. CASE Environment
    BY <2>3, EnvironmentRecover
  <2>4. CASE UNCHANGED vars
    <3>1. /\ UNCHANGED <<pending, pendFile, pendMedia, snapFile, snapMedia, faults>>
          /\ UNCHANGED <<pc, turn, step, allowed, committed, dirty>>
      BY <2>4 DEF vars, storeVars, sessionVars, turnVars
    <3>2. LiveRecords' = LiveRecords
      BY <3>1 DEF LiveRecords
    <3>3. StepsLeft' /\ RecordsOfOneTurn' /\ NoStrayRecord'
      BY <3>1, <3>2 DEF RecoverInv, StepsLeft, RecordsOfOneTurn, NoStrayRecord
    <3>4. BaseKept' /\ FileOnMedia' /\ MediaFit'
      BY <3>1 DEF RecoverInv, BaseKept, FileOnMedia, MediaFit
    <3>5. QED BY <3>3, <3>4 DEF RecoverInv
  <2>5. QED BY <2>1, <2>2, <2>3, <2>4 DEF Next
<1>3. PreparersSucceed
  BY StoreWhenSavesFail
<1>4. Spec => []ResumeInv
  BY <1>3, ResumeInvariant
<1>5. QED BY <1>1, <1>2, <1>4, TypeCorrect, SaveInvariant, EffectInvariant, PTL DEF Spec

\* As long as only saves fail, a session that is closed or crashed, or whose power was
\* lost, can be opened again with its snapshot and its waiting approval, and the
\* approval of an open session can be resumed: for any calls, limits and bounds.
THEOREM AlwaysRecoverable == OnlySavesFail => (Spec => []Recoverable)
<1> SUFFICES ASSUME OnlySavesFail PROVE Spec => []Recoverable
  OBVIOUS
<1>1. TypeOK /\ ResumeInv /\ RecoverInv => Recoverable
  <2> SUFFICES ASSUME TypeOK, ResumeInv, RecoverInv PROVE Recoverable
    OBVIOUS
  <2>1. ASSUME NEW r \in LiveRecords, NEW v, r.base = v PROVE Restorable(r, v)
    <3>1. r.queue \in Seq(Sigs) /\ r.state.used \in Nat /\ r.step < MaxLoops /\ Askable(r)
      BY LiveAreRecords DEF ResumeInv, RecordsAskable, RecoverInv, StepsLeft
    <3>2. \A i \in DOMAIN r.queue : Kind[r.queue[i]] # "broken"
      BY <3>1 DEF OnlySavesFail
    <3>3. QED BY <2>1, <3>1, <3>2, LimitsAssumption DEF Restorable, Askable
  <2>2. Reopenable
    BY <2>1 DEF Reopenable, CanOpen, LiveRecords, RecoverInv, BaseKept
  <2>3. PendingCanBeResumed
    BY <2>1 DEF PendingCanBeResumed, LiveRecords, RecoverInv, BaseKept
  <2>4. QED BY <2>2, <2>3 DEF Recoverable
<1>2. PreparersSucceed
  BY StoreWhenSavesFail
<1>3. Spec => []ResumeInv
  BY <1>2, ResumeInvariant
<1>4. Spec => []RecoverInv
  BY RecoverInvariant
<1>5. QED BY <1>1, <1>3, <1>4, TypeCorrect, PTL
===============================================================================
