---------------------------- MODULE ApprovalsProofs ----------------------------
(***************************************************************************)
(* Theorems about Approvals for any number of attempts, questions and       *)
(* answers on their way: the safety properties of the approvals run, and    *)
(* that Approvals implements Permission.                                    *)
(***************************************************************************)
EXTENDS Approvals, TLAPS

Served == InLock \cup Leaving

\* Beside the types: a coroutine that waits has a question, and so has a worker
\* between its question and the tool call.
AtQuestion == {"asked", "granted", "declined", "resolved_yes", "resolved_no", "acting"}

TypeInv ==
  /\ TypeOK
  /\ \A k \in Attempts : pc[k] = "waiting" => event[k].kind = "ask"
  /\ \A k \in Attempts : worker[k] \in AtQuestion => question[k] \in Questions

\* The operation lock is held by the worker that is inside the generators.
LockHeld == \A k \in Attempts : worker[k] \in Running \cup Parked <=> operation = k

\* The session lock of the service.
OneInLock == \A j, k \in Attempts : pc[j] \in InLock /\ pc[k] \in InLock => j = k

NewIsIdle ==
  \A k \in Attempts : pc[k] = "new" =>
    outputs[k] = <<>> /\ commands[k] = <<>> /\ worker[k] = "none"

\* Where the worker is that published an item.
PublishedFrom(k, item) ==
  \/ item = Plain /\ worker[k] \in Parked
  \/ item = Ask(question[k]) /\ worker[k] = "asked"
  \/ item \in {Finish, Error} /\ worker[k] = "ended"

\* The four ways in which coroutine and worker share their bridge.
WorkerMoves(k) ==
  /\ pc[k] = "sending" /\ outputs[k] = <<>> /\ commands[k] = <<>>
  /\ worker[k] \in Running \cup {"starting"}
ItemMoves(k) ==
  /\ pc[k] = "sending" /\ commands[k] = <<>>
  /\ \E item \in Items : outputs[k] = <<item>> /\ PublishedFrom(k, item)
EventHandled(k) ==
  /\ pc[k] \in Served \ {"sending"} /\ outputs[k] = <<>> /\ commands[k] = <<>>
  /\ PublishedFrom(k, event[k]) /\ worker[k] \in Parked
CommandMoves(k) ==
  /\ pc[k] = "sending" /\ outputs[k] = <<>> /\ worker[k] \in Parked
  /\ \E command \in Commands \ {Close} : commands[k] = <<command>>

BridgeShape ==
  \A k \in Attempts : pc[k] \in Served =>
    WorkerMoves(k) \/ ItemMoves(k) \/ EventHandled(k) \/ CommandMoves(k)

\* What an attempt does comes from an answer that was accepted for it.
Accepted(k, q, v) ==
  \E p \in Answers : <<k, p>> \in accepted /\ p.question = q /\ p.verdict = v

\* The answers that were accepted, followed to the tool call.
BrokerAccepted ==
  \A q \in Questions : broker[q] # None /\ answer[q] \in Verdicts =>
    Accepted(broker[q], q, answer[q])
CommandAccepted(k) ==
  \A i \in DOMAIN commands[k] : commands[k][i].kind = "decision" =>
    Accepted(k, commands[k][i].question, commands[k][i].verdict)
WorkerAccepted(k) ==
  worker[k] \in {"granted", "resolved_yes", "acting"} => Accepted(k, question[k], "yes")

AnswersAccepted ==
  BrokerAccepted /\ \A k \in Attempts : CommandAccepted(k) /\ WorkerAccepted(k)

\* The record is the question the running turn is at, until it is resolved.
RecordInv ==
  /\ operation # None /\ record # 0 => record = question[operation]
  /\ \A k \in Attempts : worker[k] \in {"resolved_yes", "resolved_no", "acting"} => record = 0
  /\ \A k \in Attempts : worker[k] \in {"none", "starting"} => question[k] = 0

\* Before the first turn there is nothing to resume.
FirstStart ==
  worker[1] \in {"none", "starting"} => record = 0 /\ operation = None /\ acted = {}

\* Attempt k is past its current question.
Past(k) ==
  \/ worker[k] \in {"granted", "declined", "ended"}
  \/ worker[k] \in {"running", "parked", "resolved_yes", "resolved_no", "acting"} /\ record = 0
  \/ /\ worker[k] = "asked"
     /\ \/ pc[k] \in Over \/ commands[k] # <<>>
        \/ pc[k] = "waiting" /\ answer[question[k]] \in Verdicts

AcceptedIsPast ==
  \A a \in accepted : LET k == a[1] q == a[2].question IN
    q <= question[k] /\ (q = question[k] => Past(k))

\* No question that was acted on is ahead of the running turn or of the record.
ActedIsBehind ==
  \A a \in acted :
    /\ record # 0 => a[2] < record
    /\ operation # None => a[2] < question[operation] \/ a = <<operation, question[operation]>>

\* A turn that finished leaves nothing to resume.
FinishedIsOver ==
  (\E k \in Attempts : pc[k] = "done" \/ (pc[k] = "sending" /\ outputs[k] = <<Finish>>)) =>
    record = 0 /\ operation = None /\ worker[1] \notin {"none", "starting"}

\* A preview is out before its question can be answered, and so is what an answer names.
PreviewInv ==
  /\ \A s \in shown : pc[s[1]] # "new"
  /\ \A p \in posted : <<p.seen, p.question>> \in shown
  /\ \A k \in Attempts, q \in Questions :
       pc[k] \in {"chunk", "waiting"} /\ event[k] = Ask(q) => <<k, q>> \in shown

\* Who waits is registered for its question.
WaitingIsRegistered ==
  \A k \in Attempts : pc[k] = "waiting" => broker[event[k].question] = k

IInv ==
  /\ TypeInv /\ NewIsIdle /\ LockHeld /\ OneInLock
  /\ BridgeShape /\ DecisionInPlace
  /\ RegisteredIsWaiting /\ WaitingIsRegistered
  /\ AnswersAccepted /\ ActedOnAnswer
  /\ RecordInv /\ FirstStart /\ AcceptedIsPast /\ OneAnswerEach /\ ActedIsBehind /\ ActedOnce
  /\ FinishedIsOver /\ PreviewInv /\ AnswersMeetPreviews
  /\ CancelledWasLeft

-------------------------------------------------------------------------------
\* What is known of items, commands and sequences of one element.

LEMMA ItemNames ==
  /\ \A q \in Questions : Ask(q).kind = "ask" /\ Ask(q).question = q
  /\ \A q, r \in Questions : Ask(q) = Ask(r) => q = r
  /\ Plain.kind = "plain" /\ Finish.kind = "done" /\ Error.kind = "error"
BY DEF Ask, Plain, Finish, Error

LEMMA CommandNames ==
  /\ \A q \in Questions, v \in Verdicts :
       /\ Decision(q, v).kind = "decision"
       /\ Decision(q, v).question = q /\ Decision(q, v).verdict = v
  /\ Close.kind = "close" /\ Continue.kind = "continue"
BY DEF Decision, Close, Continue

LEMMA AskItems ==
  ASSUME NEW item \in Items
  PROVE  \/ item \in {Plain, Finish, Error} /\ item.kind # "ask"
         \/ item.kind = "ask" /\ item.question \in Questions /\ item = Ask(item.question)
BY ItemNames DEF Items

LEMMA Singletons ==
  ASSUME NEW S, NEW x \in S
  PROVE  /\ <<x>> \in Seq(S) /\ <<x>> # <<>> /\ Head(<<x>>) = x /\ Tail(<<x>>) = <<>>
         /\ Append(<<>>, x) = <<x>> /\ <<>> \in Seq(S)
         /\ DOMAIN <<x>> = {1} /\ <<x>>[1] = x
OBVIOUS

LEMMA TailTypes ==
  ASSUME NEW S, NEW s \in Seq(S), s # <<>>
  PROVE  Head(s) \in S /\ Tail(s) \in Seq(S)
OBVIOUS

LEMMA QuestionNumbers ==
  /\ \A q \in Questions : q \in Nat /\ q # 0
  /\ None \notin Attempts
BY ApprovalsAssumption DEF Questions

-------------------------------------------------------------------------------
\* Types.

USE DEF Go, Work, Put, Publish

LEMMA NewItems == Plain \in Items /\ Finish \in Items /\ Error \in Items
                  /\ \A q \in Questions : Ask(q) \in Items
BY DEF Items

LEMMA NewCommands == Continue \in Commands /\ Close \in Commands
                     /\ \A q \in Questions, v \in Verdicts : Decision(q, v) \in Commands
BY DEF Commands

\* A message is put into a queue or taken from it.
LEMMA QueueTypes ==
  ASSUME NEW S, NEW queue \in [Attempts -> Seq(S)], NEW k \in Attempts
  PROVE  /\ \A item \in S : Put(queue, k, item) \in [Attempts -> Seq(S)]
         /\ queue[k] # <<>> => /\ [queue EXCEPT ![k] = Tail(@)] \in [Attempts -> Seq(S)]
                               /\ Head(queue[k]) \in S
<1>1. queue[k] \in Seq(S) OBVIOUS
<1>2. \A item \in S : Append(queue[k], item) \in Seq(S) BY <1>1
<1>3. queue[k] # <<>> => Tail(queue[k]) \in Seq(S) /\ Head(queue[k]) \in S
  BY <1>1, TailTypes
<1>4. QED BY <1>2, <1>3

LEMMA CoroutineTypes ==
  ASSUME TypeInv, NEW k \in Attempts, Begin(k) \/ Coroutine(k) \/ Leave(k)
  PROVE  TypeInv'
<1> USE DEF TypeInv, turnVars, brokerVars, bridgeVars, clientVars
<1> DEFINE Places == {"new"} \cup InLock \cup Leaving \cup Over
           q == event[k].question
<1>0. /\ pc \in [Attempts -> Places] /\ event \in [Attempts -> Items]
      /\ event[k] \in Items /\ (event[k].kind = "ask" => q \in Questions)
      /\ \A stage \in Places : [pc EXCEPT ![k] = stage] \in [Attempts -> Places]
  BY AskItems DEF TypeOK
<1>1. CASE Begin(k)
  BY <1>0, <1>1 DEF TypeOK, Begin, InLock, AtQuestion
<1>2. CASE Receive(k)
  <2>1. /\ outputs' \in [Attempts -> Seq(Items)] /\ Head(outputs[k]) \in Items
    BY <1>2, QueueTypes DEF TypeOK, Receive
  <2>2. /\ event' \in [Attempts -> Items]
        /\ \A j \in Attempts : j # k => event'[j] = event[j]
    BY <1>0, <1>2, <2>1 DEF Receive
  <2>3. \E stage \in {"done", "failed", "audit"} : pc' = [pc EXCEPT ![k] = stage]
    <3>1. CASE Head(outputs[k]) = Finish BY <1>2, <3>1, ItemNames DEF Receive
    <3>2. CASE Head(outputs[k]) = Error BY <1>2, <3>2, ItemNames DEF Receive
    <3>3. CASE Head(outputs[k]) \notin {Finish, Error} BY <1>2, <3>3 DEF Receive
    <3>4. QED BY <3>1, <3>2, <3>3
  <2>4. pc' \in [Attempts -> Places] BY <1>0, <2>3 DEF InLock, Over
  <2>5. \A j \in Attempts : pc'[j] = "waiting" => pc[j] = "waiting" /\ j # k BY <1>0, <2>3
  <2>6. QED BY <1>2, <2>1, <2>2, <2>4, <2>5 DEF TypeOK, Receive
<1>3. CASE Send(k)
  <2>1. shown' \subseteq Attempts \X Questions BY <1>0, <1>3 DEF TypeOK, Send
  <2>2. QED BY <1>0, <1>3, <2>1 DEF TypeOK, Send, InLock
<1>4. CASE Proceed(k)
  <2>1. commands' \in [Attempts -> Seq(Commands)]
    BY <1>4, QueueTypes, NewCommands DEF TypeOK, Proceed
  <2>2. QED BY <1>0, <1>4, <2>1 DEF TypeOK, Proceed, InLock
<1>5. CASE Register(k)
  <2>1. q \in Questions /\ event[k].kind = "ask" BY <1>0, <1>5 DEF Register
  <2>2. broker' \in [Questions -> Attempts \cup {None}]
        /\ answer' \in [Questions -> Verdicts \cup {"open", "none"}]
    <3>1. CASE broker[q] = None
      <4>1. broker' = [broker EXCEPT ![q] = k] /\ answer' = [answer EXCEPT ![q] = "open"]
        BY <1>5, <3>1 DEF Register
      <4>2. broker' \in [Questions -> Attempts \cup {None}] BY <4>1 DEF TypeOK
      <4>3. answer' \in [Questions -> Verdicts \cup {"open", "none"}] BY <4>1 DEF TypeOK
      <4>4. QED BY <4>2, <4>3
    <3>2. CASE broker[q] # None BY <1>5, <2>1, <3>2 DEF TypeOK, Register
    <3>3. QED BY <3>1, <3>2
  <2>3. pc' \in [Attempts -> Places] /\ \A j \in Attempts : j # k => pc'[j] = pc[j]
    BY <1>0, <1>5 DEF Register, InLock, Leaving
  <2>4. QED BY <1>5, <2>1, <2>2, <2>3 DEF TypeOK, Register
<1>6. CASE Decide(k)
  <2>1. q \in Questions /\ answer[q] \in Verdicts /\ commands' = Put(commands, k, Decision(q, answer[q]))
    BY <1>0, <1>6 DEF Decide
  <2>2. commands' \in [Attempts -> Seq(Commands)]
    BY <2>1, QueueTypes, NewCommands DEF TypeOK
  <2>3. broker' \in [Questions -> Attempts \cup {None}]
        /\ answer' \in [Questions -> Verdicts \cup {"open", "none"}]
    BY <1>6 DEF TypeOK, Decide, Unregister
  <2>4. QED BY <1>0, <1>6, <2>2, <2>3 DEF TypeOK, Decide, InLock
<1>7. CASE CloseStream(k) \/ Disconnect(k)
  <2>0. commands' = Put(commands, k, Close) /\ token' = (operation # None)
    BY <1>7 DEF CloseStream, Disconnect, HangUp, Cancel
  <2>1. commands' \in [Attempts -> Seq(Commands)] /\ token' \in BOOLEAN
    <3>1. commands \in [Attempts -> Seq(Commands)] BY DEF TypeOK
    <3>2. Put(commands, k, Close) \in [Attempts -> Seq(Commands)]
      BY <3>1, QueueTypes, NewCommands
    <3>3. QED BY <2>0, <3>2
  <2>2. broker' \in [Questions -> Attempts \cup {None}]
        /\ answer' \in [Questions -> Verdicts \cup {"open", "none"}]
    BY <1>7 DEF TypeOK, CloseStream, Disconnect, Unregister
  <2>3. /\ pc' = [pc EXCEPT ![k] = "gone"] /\ event' = event /\ outputs' = outputs
        /\ worker' = worker /\ question' = question /\ operation' = operation
        /\ record' = record /\ acted' = acted /\ UNCHANGED <<posted, shown, accepted>>
    BY <1>7 DEF CloseStream, Disconnect
  <2>4. pc' \in [Attempts -> Places] /\ \A j \in Attempts : pc'[j] = "waiting" => pc[j] = "waiting"
    BY <1>0, <2>3 DEF Over
  <2>5. TypeOK'
    BY <2>1, <2>2, <2>3, <2>4 DEF TypeOK
  <2>6. QED BY <2>3, <2>4, <2>5
<1>8. CASE BreakOff(k) \/ Drop(k)
  <2>1. token' \in BOOLEAN BY <1>8 DEF TypeOK, BreakOff, Drop, Cancel
  <2>2. QED BY <1>0, <1>8, <2>1 DEF TypeOK, BreakOff, Drop, Leaving
<1>9. QED BY <1>1, <1>2, <1>3, <1>4, <1>5, <1>6, <1>7, <1>8 DEF Coroutine, Leave

LEMMA WorkerTypes ==
  ASSUME TypeInv, NEW k \in Attempts, Worker(k)
  PROVE  TypeInv'
<1> USE DEF TypeInv, coroutineVars, brokerVars, bridgeVars, clientVars
<1> DEFINE Stages == {"none", "starting", "ended"} \cup Running \cup Parked
<1>0. /\ worker \in [Attempts -> Stages] /\ question \in [Attempts -> Questions \cup {0}]
      /\ \A stage \in Stages : [worker EXCEPT ![k] = stage] \in [Attempts -> Stages]
      /\ outputs \in [Attempts -> Seq(Items)]
      /\ \A item \in Items : Put(outputs, k, item) \in [Attempts -> Seq(Items)]
      /\ AtQuestion \subseteq Running \cup Parked
  BY QueueTypes DEF TypeOK, AtQuestion, Running, Parked
<1>a. /\ None \in Attempts \cup {None} /\ FALSE \in BOOLEAN
      /\ record \in Questions \cup {0}
  BY DEF TypeOK
<1>1. CASE Start(k)
  <2>1. outputs' \in [Attempts -> Seq(Items)] BY <1>0, <1>1, NewItems DEF Start
  <2>2. worker' \in [Attempts -> Stages] /\ \A j \in Attempts : worker'[j] \in AtQuestion =>
                                              j # k /\ worker[j] \in AtQuestion
    <3>1. \E stage \in {"running", "ended"} : worker' = [worker EXCEPT ![k] = stage]
      BY <1>1 DEF Start
    <3>2. QED BY <1>0, <3>1 DEF Running, AtQuestion
  <2>3. /\ question' \in [Attempts -> Questions \cup {0}]
        /\ \A j \in Attempts : j # k => question'[j] = question[j]
    <3>1. question' = question \/ question' = [question EXCEPT ![k] = record]
      BY <1>1 DEF Start
    <3>2. QED BY <1>0, <1>a, <3>1
  <2>4. operation' \in Attempts \cup {None} /\ token' \in BOOLEAN BY <1>1 DEF TypeOK, Start
  <2>5. QED BY <1>1, <2>1, <2>2, <2>3, <2>4 DEF TypeOK, Start
<1>2. CASE Emit(k) \/ ObserveCancel(k)
  <2>1. outputs' \in [Attempts -> Seq(Items)]
    BY <1>0, <1>2, NewItems DEF Emit, ObserveCancel
  <2>2. worker' \in [Attempts -> Stages] /\ \A j \in Attempts : worker'[j] \in AtQuestion =>
                                              j # k /\ worker[j] \in AtQuestion
    BY <1>0, <1>2 DEF Emit, ObserveCancel, Parked, AtQuestion
  <2>3. QED BY <1>2, <2>1, <2>2 DEF TypeOK, Emit, ObserveCancel
<1>3. CASE AskApproval(k)
  <2>1. PICK q \in Questions :
          /\ record' = q /\ question' = [question EXCEPT ![k] = q]
          /\ \/ Work(k, "asked") /\ Publish(k, Ask(q)) /\ UNCHANGED <<operation, token>>
             \/ LeaveSession(k) /\ Publish(k, Error)
    BY <1>3 DEF AskApproval
  <2>2. outputs' \in [Attempts -> Seq(Items)]
    <3>1. \E item \in Items : outputs' = Put(outputs, k, item) BY <2>1, NewItems
    <3>2. QED BY <1>0, <3>1
  <2>3. worker' \in [Attempts -> Stages] /\ \A j \in Attempts : j # k => worker'[j] = worker[j]
    BY <1>0, <2>1 DEF LeaveSession, Parked
  <2>4. question' \in [Attempts -> Questions \cup {0}] /\ question'[k] = q
        /\ \A j \in Attempts : j # k => question'[j] = question[j]
    BY <1>0, <2>1
  <2>5. operation' \in Attempts \cup {None} /\ token' \in BOOLEAN
    BY <2>1 DEF TypeOK, LeaveSession
  <2>6. QED BY <1>3, <2>1, <2>2, <2>3, <2>4, <2>5 DEF TypeOK, AskApproval
<1>4. CASE Resume(k)
  <2>1. commands' \in [Attempts -> Seq(Commands)] BY <1>4, QueueTypes DEF TypeOK, Resume
  <2>2. /\ worker' \in [Attempts -> Stages]
        /\ \A j \in Attempts : worker'[j] \in AtQuestion => worker[j] \in AtQuestion
    <3>1. \/ worker' = [worker EXCEPT ![k] = "ended"]
          \/ worker' = [worker EXCEPT ![k] = "running"]
          \/ /\ worker[k] \in AtQuestion
             /\ \E stage \in {"acting", "granted", "declined"} :
                  worker' = [worker EXCEPT ![k] = stage]
      <4>1. CASE Head(commands[k]) = Close BY <1>4, <4>1 DEF Resume, LeaveSession
      <4>2. CASE Head(commands[k]) # Close
        <5>1. CASE worker[k] = "parked" BY <1>4, <4>2, <5>1 DEF Resume
        <5>2. CASE worker[k] = "resolved_yes" BY <1>4, <4>2, <5>2 DEF Resume, AtQuestion
        <5>3. CASE worker[k] = "resolved_no" BY <1>4, <4>2, <5>3 DEF Resume
        <5>4. CASE worker[k] = "asked" BY <1>4, <4>2, <5>4 DEF Resume, AtQuestion
        <5>5. QED BY <1>4, <5>1, <5>2, <5>3, <5>4 DEF Resume, Parked
      <4>3. QED BY <4>1, <4>2
    <3>2. QED BY <1>0, <3>1 DEF Running, AtQuestion
  <2>3. operation' \in Attempts \cup {None} /\ token' \in BOOLEAN
    BY <1>4 DEF TypeOK, Resume, LeaveSession
  <2>4. QED BY <1>4, <2>1, <2>2, <2>3 DEF TypeOK, Resume
<1>5. CASE Resolve(k) \/ EndTurn(k)
  <2>1. outputs' \in [Attempts -> Seq(Items)]
    BY <1>0, <1>5, NewItems DEF Resolve, EndTurn
  <2>2. /\ worker' \in [Attempts -> Stages]
        /\ \A j \in Attempts : worker'[j] \in AtQuestion => worker[j] \in AtQuestion
    <3>1. \/ worker' = [worker EXCEPT ![k] = "ended"]
          \/ /\ worker[k] \in AtQuestion
             /\ \E stage \in {"resolved_yes", "resolved_no"} :
                  worker' = [worker EXCEPT ![k] = stage]
      BY <1>5 DEF Resolve, EndTurn, LeaveSession, AtQuestion
    <3>2. QED BY <1>0, <3>1 DEF Parked, AtQuestion
  <2>3. operation' \in Attempts \cup {None} /\ token' \in BOOLEAN /\ record' \in Questions \cup {0}
    BY <1>5 DEF TypeOK, Resolve, EndTurn, LeaveSession
  <2>4. QED BY <1>5, <2>1, <2>2, <2>3 DEF TypeOK, Resolve, EndTurn
<1>6. CASE Act(k)
  <2>1. question[k] \in Questions BY <1>6 DEF Act, AtQuestion
  <2>2. acted' \subseteq Attempts \X Questions BY <1>6, <2>1 DEF TypeOK, Act
  <2>3. worker' \in [Attempts -> Stages] /\ \A j \in Attempts : worker'[j] \in AtQuestion =>
                                              worker[j] \in AtQuestion
    BY <1>0, <1>6 DEF Act, Running, AtQuestion
  <2>4. QED BY <1>6, <2>2, <2>3 DEF TypeOK, Act
<1>7. QED BY <1>1, <1>2, <1>3, <1>4, <1>5, <1>6 DEF Worker

LEMMA ClientTypes ==
  ASSUME TypeInv, Post \/ (\E p \in posted : SubmitApproval(p))
  PROVE  TypeInv'
<1> USE DEF TypeInv, coroutineVars, bridgeVars, turnVars, brokerVars
<1>1. CASE Post BY <1>1 DEF TypeOK, Post, Answers
<1>2. ASSUME NEW p \in posted, SubmitApproval(p) PROVE TypeInv'
  <2>1. p \in Answers /\ p.question \in Questions /\ p.verdict \in Verdicts
    BY DEF TypeOK, Answers
  <2>2. broker[p.question] \in Attempts \cup {None} BY <2>1 DEF TypeOK
  <2>3. answer' \in [Questions -> Verdicts \cup {"open", "none"}]
    BY <1>2, <2>1 DEF TypeOK, SubmitApproval
  <2>4. accepted' \subseteq Attempts \X Answers
    BY <1>2, <2>1, <2>2 DEF TypeOK, SubmitApproval
  <2>5. posted' \subseteq Answers BY <1>2 DEF TypeOK, SubmitApproval
  <2>6. QED BY <1>2, <2>3, <2>4, <2>5 DEF TypeOK, SubmitApproval
<1>3. QED BY <1>1, <1>2

LEMMA InitTypes == ASSUME Init PROVE TypeInv
<1>1. \A S : <<>> \in Seq(S) OBVIOUS
<1>2. outputs \in [Attempts -> Seq(Items)] /\ commands \in [Attempts -> Seq(Commands)]
  BY <1>1 DEF Init
<1>3. QED BY <1>2, NewItems DEF Init, TypeInv, TypeOK, AtQuestion

LEMMA NextTypes == ASSUME TypeInv, [Next]_vars PROVE TypeInv'
<1>1. CASE UNCHANGED vars
  BY <1>1 DEF TypeInv, TypeOK, vars, coroutineVars, bridgeVars, turnVars, brokerVars, clientVars
<1>2. QED BY <1>1, CoroutineTypes, WorkerTypes, ClientTypes DEF Next

LEMMA TypeInvHolds == Spec => []TypeInv
BY InitTypes, NextTypes, PTL DEF Spec

\* Types of the attempts, of the two queues between coroutine and worker, and of
\* the broker's table.
THEOREM TypeCorrect == Spec => []TypeOK
BY TypeInvHolds, PTL DEF TypeInv

-------------------------------------------------------------------------------
\* The two locks.

\* A step of one attempt leaves the others as they are.
LEMMA Frame ==
  ASSUME TypeInv, NEW k \in Attempts, NEW j \in Attempts, j # k,
         Begin(k) \/ Coroutine(k) \/ Worker(k) \/ Leave(k)
  PROVE  /\ pc'[j] = pc[j] /\ event'[j] = event[j] /\ worker'[j] = worker[j]
         /\ outputs'[j] = outputs[j] /\ commands'[j] = commands[j]
         /\ question'[j] = question[j]
<1> USE DEF TypeInv, coroutineVars, turnVars, bridgeVars, brokerVars, clientVars
<1>0. /\ pc \in [Attempts -> {"new"} \cup InLock \cup Leaving \cup Over]
      /\ event \in [Attempts -> Items]
      /\ outputs \in [Attempts -> Seq(Items)] /\ commands \in [Attempts -> Seq(Commands)]
      /\ worker \in [Attempts -> {"none", "starting", "ended"} \cup Running \cup Parked]
      /\ question \in [Attempts -> Questions \cup {0}]
  BY DEF TypeOK
<1>1. CASE Begin(k) BY <1>0, <1>1 DEF Begin
<1>2. CASE Receive(k) BY <1>0, <1>2 DEF Receive
<1>3. CASE Send(k) \/ Proceed(k) BY <1>0, <1>3 DEF Send, Proceed
<1>4. CASE Register(k) BY <1>0, <1>4 DEF Register
<1>5. CASE Decide(k) BY <1>0, <1>5 DEF Decide
<1>6. CASE CloseStream(k) \/ Disconnect(k) \/ BreakOff(k) \/ Drop(k)
  BY <1>0, <1>6 DEF CloseStream, Disconnect, BreakOff, Drop, HangUp
<1>7. CASE Start(k) BY <1>0, <1>7 DEF Start
<1>8. CASE Emit(k) \/ Act(k) \/ ObserveCancel(k) BY <1>0, <1>8 DEF Emit, Act, ObserveCancel
<1>9. CASE AskApproval(k) BY <1>0, <1>9 DEF AskApproval, LeaveSession
<1>10. CASE Resume(k) BY <1>0, <1>10 DEF Resume, LeaveSession
<1>11. CASE Resolve(k) \/ EndTurn(k) BY <1>0, <1>11 DEF Resolve, EndTurn, LeaveSession
<1>12. QED BY <1>1, <1>2, <1>3, <1>4, <1>5, <1>6, <1>7, <1>8, <1>9, <1>10, <1>11
           DEF Coroutine, Worker, Leave

\* Coroutines do not touch the turn, but for its token and for the start of a
\* worker; workers do not touch the coroutine and the broker.
LEMMA CoroutineFrame ==
  ASSUME TypeInv, NEW k \in Attempts, Begin(k) \/ Coroutine(k) \/ Leave(k)
  PROVE  /\ question' = question /\ operation' = operation /\ record' = record /\ acted' = acted
         /\ posted' = posted /\ accepted' = accepted
         /\ Begin(k) \/ worker' = worker
         /\ Begin(k) => pc[k] = "new" /\ worker' = [worker EXCEPT ![k] = "starting"]
BY DEF Begin, Coroutine, Leave, Receive, Send, Proceed, Register, Decide, CloseStream,
       Disconnect, BreakOff, Drop, coroutineVars, turnVars, bridgeVars, brokerVars, clientVars

LEMMA WorkerFrame ==
  ASSUME TypeInv, NEW k \in Attempts, Worker(k)
  PROVE  UNCHANGED <<pc, event, broker, answer, posted, shown, accepted>>
BY DEF Worker, Start, Emit, AskApproval, Resume, Resolve, Act, ObserveCancel, EndTurn,
       coroutineVars, turnVars, bridgeVars, brokerVars, clientVars

LEMMA ClientFrame ==
  ASSUME TypeInv, Post \/ (\E p \in posted : SubmitApproval(p))
  PROVE  UNCHANGED <<pc, event, outputs, commands, worker, question, operation, token, record,
                     acted, broker, shown>>
BY DEF Post, SubmitApproval, coroutineVars, turnVars, bridgeVars, brokerVars, clientVars

\* What a worker's step does to the operation lock.
LEMMA WorkerLock ==
  ASSUME TypeInv, NEW k \in Attempts, Worker(k)
  PROVE  \/ /\ worker[k] = "starting" /\ operation = None
            /\ worker'[k] = "running" /\ operation' = k /\ token' = FALSE
         \/ worker[k] = "starting" /\ worker'[k] = "ended" /\ UNCHANGED <<operation, token>>
         \/ /\ worker[k] \in Running \cup Parked
            /\ \/ worker'[k] \in Running \cup Parked /\ UNCHANGED <<operation, token>>
               \/ worker'[k] = "ended" /\ operation' = None /\ token' = FALSE
<1>0. worker \in [Attempts -> {"none", "starting", "ended"} \cup Running \cup Parked]
  BY DEF TypeInv, TypeOK
<1>1. CASE Start(k) BY <1>0, <1>1 DEF Start
<1>2. CASE Emit(k) \/ ObserveCancel(k)
  BY <1>0, <1>2 DEF Emit, ObserveCancel, Running, Parked
<1>3. CASE AskApproval(k) BY <1>0, <1>3 DEF AskApproval, LeaveSession, Running, Parked
<1>4. CASE Resume(k)
  <2>1. CASE Head(commands[k]) = Close BY <1>0, <1>4, <2>1 DEF Resume, LeaveSession
  <2>2. CASE Head(commands[k]) # Close
    <3>1. \E stage \in Running : worker' = [worker EXCEPT ![k] = stage]
      BY <1>4, <2>2 DEF Resume, Running
    <3>2. QED BY <1>0, <1>4, <2>2, <3>1 DEF Resume
  <2>3. QED BY <2>1, <2>2
<1>5. CASE Resolve(k)
  <2>1. worker[k] \in Running BY <1>5 DEF Resolve, Running
  <2>2. CASE LeaveSession(k) BY <1>0, <2>1, <2>2 DEF LeaveSession
  <2>3. CASE ~LeaveSession(k)
    <3>1. \E stage \in Parked : worker' = [worker EXCEPT ![k] = stage]
      BY <1>5, <2>3 DEF Resolve, Parked
    <3>2. QED BY <1>0, <1>5, <2>1, <2>3, <3>1 DEF Resolve
  <2>4. QED BY <2>2, <2>3
<1>6. CASE Act(k) \/ EndTurn(k) BY <1>0, <1>6 DEF Act, EndTurn, LeaveSession, Running
<1>7. QED BY <1>1, <1>2, <1>3, <1>4, <1>5, <1>6 DEF Worker

LEMMA ActiveStages ==
  /\ "none" \notin Running \cup Parked /\ "starting" \notin Running \cup Parked
  /\ "ended" \notin Running \cup Parked /\ None \notin Attempts
BY ApprovalsAssumption DEF Running, Parked

\* A coroutine enters the lock only at its beginning, and does not come back.
LEMMA CoroutinePlaces ==
  ASSUME TypeInv, NEW k \in Attempts, Coroutine(k) \/ Leave(k)
  PROVE  /\ pc[k] \in Served /\ pc'[k] \in Served \cup Over /\ pc'[k] # "new"
         /\ pc'[k] \in InLock => pc[k] \in InLock
<1> USE DEF Served, InLock, Leaving, Over
<1>0. pc \in [Attempts -> {"new"} \cup InLock \cup Leaving \cup Over] BY DEF TypeInv, TypeOK
<1>1. CASE Receive(k)
  <2>1. \E stage \in {"done", "failed", "audit"} : pc' = [pc EXCEPT ![k] = stage]
    <3>1. CASE Head(outputs[k]) = Finish BY <1>1, <3>1, ItemNames DEF Receive
    <3>2. CASE Head(outputs[k]) = Error BY <1>1, <3>2, ItemNames DEF Receive
    <3>3. CASE Head(outputs[k]) \notin {Finish, Error} BY <1>1, <3>3 DEF Receive
    <3>4. QED BY <3>1, <3>2, <3>3
  <2>2. QED BY <1>0, <1>1, <2>1 DEF Receive
<1>2. CASE Register(k) BY <1>0, <1>2 DEF Register
<1>3. CASE Send(k) \/ Proceed(k) \/ Decide(k) BY <1>0, <1>3 DEF Send, Proceed, Decide
<1>4. CASE CloseStream(k) \/ Leave(k)
  BY <1>0, <1>4 DEF CloseStream, Leave, Disconnect, BreakOff, Drop
<1>5. QED BY <1>1, <1>2, <1>3, <1>4 DEF Coroutine

LEMMA NextNewIsIdle ==
  ASSUME TypeInv, NewIsIdle, [Next]_vars
  PROVE  NewIsIdle'
<1> USE DEF NewIsIdle
<1>1. CASE UNCHANGED vars BY <1>1 DEF vars, coroutineVars, bridgeVars, turnVars
<1>2. ASSUME NEW k \in Attempts, Begin(k) PROVE NewIsIdle'
  <2>1. pc'[k] # "new" BY <1>2 DEF Begin, TypeInv, TypeOK
  <2>2. QED BY <1>2, <2>1, Frame
<1>3. ASSUME NEW k \in Attempts, Coroutine(k) \/ Leave(k) PROVE NewIsIdle'
  BY <1>3, Frame, CoroutinePlaces
<1>4. ASSUME NEW k \in Attempts, Worker(k) PROVE NewIsIdle'
  <2>1. worker[k] # "none" BY <1>4, WorkerLock, ActiveStages
  <2>2. QED BY <1>4, <2>1, Frame, WorkerFrame
<1>5. CASE Post \/ (\E p \in posted : SubmitApproval(p)) BY <1>5, ClientFrame
<1>6. QED BY <1>1, <1>2, <1>3, <1>4, <1>5 DEF Next

LEMMA NextLockHeld ==
  ASSUME TypeInv, NewIsIdle, LockHeld, [Next]_vars
  PROVE  LockHeld'
<1> USE DEF LockHeld
<1>1. CASE UNCHANGED vars BY <1>1 DEF vars, turnVars
<1>2. ASSUME NEW k \in Attempts, Begin(k) \/ Coroutine(k) \/ Leave(k) PROVE LockHeld'
  <2>1. operation' = operation BY <1>2, CoroutineFrame
  <2>2. CASE worker' = worker BY <2>1, <2>2
  <2>3. CASE Begin(k)
    <3>1. worker' = [worker EXCEPT ![k] = "starting"] BY <2>3, CoroutineFrame
    <3>2. worker[k] \notin Running \cup Parked
      BY <2>3, CoroutineFrame, ActiveStages DEF NewIsIdle
    <3>3. \A j \in Attempts : worker'[j] = IF j = k THEN "starting" ELSE worker[j]
      BY <3>1 DEF TypeInv, TypeOK
    <3>4. QED BY <2>1, <3>2, <3>3, ActiveStages
  <2>4. QED BY <1>2, <2>2, <2>3, CoroutineFrame
<1>3. ASSUME NEW k \in Attempts, Worker(k) PROVE LockHeld'
  <2>1. \A j \in Attempts : j # k => worker'[j] = worker[j] BY <1>3, Frame
  <2>2. \A j \in Attempts : j # k /\ worker[k] \in Running \cup Parked => operation # j
    OBVIOUS
  <2>3. /\ operation' \in {k, None} \/ operation' = operation
        /\ operation' # operation => operation \in {k, None}
        /\ worker'[k] \in Running \cup Parked <=> operation' = k
    <3>1. k # None BY ActiveStages
    <3>2. CASE worker[k] = "starting"
      <4>1. operation # k BY <3>2, ActiveStages
      <4>2. "running" \in Running \cup Parked BY DEF Running
      <4>3. QED BY <1>3, <3>1, <3>2, <4>1, <4>2, WorkerLock, ActiveStages
    <3>3. CASE worker[k] # "starting"
      <4>1. worker[k] \in Running \cup Parked BY <1>3, <3>3, WorkerLock
      <4>2. operation = k BY <4>1
      <4>3. \/ worker'[k] \in Running \cup Parked /\ operation' = operation
            \/ worker'[k] = "ended" /\ operation' = None
        BY <1>3, <3>3, WorkerLock
      <4>4. QED BY <3>1, <4>2, <4>3, ActiveStages
    <3>4. QED BY <3>2, <3>3
  <2>4. QED BY <2>1, <2>3, ActiveStages
<1>4. CASE Post \/ (\E p \in posted : SubmitApproval(p)) BY <1>4, ClientFrame
<1>5. QED BY <1>1, <1>2, <1>3, <1>4 DEF Next

LEMMA NextOneInLock ==
  ASSUME TypeInv, OneInLock, [Next]_vars
  PROVE  OneInLock'
<1> USE DEF OneInLock
<1>1. CASE UNCHANGED vars BY <1>1 DEF vars, coroutineVars
<1>2. ASSUME NEW k \in Attempts, Begin(k) PROVE OneInLock'
  <2>1. \A j \in Attempts : j # k => pc'[j] = pc[j] /\ pc[j] \notin InLock
    BY <1>2, Frame DEF Begin
  <2>2. QED BY <2>1
<1>3. ASSUME NEW k \in Attempts, Coroutine(k) \/ Leave(k) PROVE OneInLock'
  <2>1. \A j \in Attempts : j # k => pc'[j] = pc[j] BY <1>3, Frame
  <2>2. QED BY <1>3, <2>1, CoroutinePlaces
<1>4. ASSUME NEW k \in Attempts, Worker(k) PROVE OneInLock' BY <1>4, WorkerFrame
<1>5. CASE Post \/ (\E p \in posted : SubmitApproval(p)) BY <1>5, ClientFrame
<1>6. QED BY <1>1, <1>2, <1>3, <1>4, <1>5 DEF Next

-------------------------------------------------------------------------------
\* The bridge.

Shape(k) ==
  pc[k] \in Served => WorkerMoves(k) \/ ItemMoves(k) \/ EventHandled(k) \/ CommandMoves(k)

LEMMA AttemptTypes ==
  ASSUME TypeInv
  PROVE  /\ pc \in [Attempts -> {"new"} \cup InLock \cup Leaving \cup Over]
         /\ event \in [Attempts -> Items]
         /\ outputs \in [Attempts -> Seq(Items)] /\ commands \in [Attempts -> Seq(Commands)]
         /\ worker \in [Attempts -> {"none", "starting", "ended"} \cup Running \cup Parked]
         /\ question \in [Attempts -> Questions \cup {0}]
BY DEF TypeInv, TypeOK

LEMMA WorkerStages ==
  /\ \A stage \in Running \cup {"starting"} : stage \notin Parked \cup {"ended", "asked"}
  /\ \A stage \in Parked : stage # "ended"
  /\ "asked" \in Parked
BY DEF Running, Parked

\* Who is in the generators, or starts, has nothing in flight.
LEMMA QuietBridge ==
  ASSUME NEW k \in Attempts, Shape(k), pc[k] \in Served,
         worker[k] \in Running \cup {"starting"}
  PROVE  WorkerMoves(k)
BY WorkerStages DEF Shape, ItemMoves, EventHandled, CommandMoves, PublishedFrom

LEMMA Publishing ==
  ASSUME TypeInv, NEW k \in Attempts, Shape(k), worker[k] \in Running \cup {"starting"},
         NEW item \in Items, outputs' = Put(outputs, k, item),
         commands' = commands, pc' = pc, PublishedFrom(k, item)'
  PROVE  Shape(k)'
<1> SUFFICES ASSUME pc[k] \in Served PROVE ItemMoves(k)'
  BY DEF Shape, Served, InLock, Leaving
<1>1. WorkerMoves(k) BY QuietBridge
<1>2. outputs'[k] = <<item>> BY <1>1, AttemptTypes, Singletons DEF WorkerMoves
<1>3. QED BY <1>1, <1>2 DEF WorkerMoves, ItemMoves

LEMMA CoroutineShape ==
  ASSUME TypeInv, NEW k \in Attempts, Shape(k), Coroutine(k) \/ Leave(k)
  PROVE  Shape(k)'
<1>0. worker' = worker /\ question' = question /\ pc[k] \in Served /\ pc[k] # "new"
  BY CoroutineFrame, CoroutinePlaces DEF Begin, Served, InLock, Leaving
<1> DEFINE shapes == WorkerMoves(k) \/ ItemMoves(k) \/ EventHandled(k) \/ CommandMoves(k)
<1>a. shapes BY <1>0 DEF Shape
<1>b. ASSUME pc[k] # "sending"
      PROVE  /\ outputs[k] = <<>> /\ commands[k] = <<>> /\ PublishedFrom(k, event[k])
             /\ worker[k] \in Parked
  BY <1>a, <1>b DEF WorkerMoves, ItemMoves, EventHandled, CommandMoves
<1>1. CASE Receive(k)
  <2>1. ItemMoves(k) BY <1>a, <1>1 DEF Receive, WorkerMoves, EventHandled, CommandMoves
  <2>2. PICK item \in Items : outputs[k] = <<item>> /\ PublishedFrom(k, item)
    BY <2>1 DEF ItemMoves
  <2>3. Head(outputs[k]) = item /\ Tail(outputs[k]) = <<>> BY <2>2, Singletons
  <2>4. /\ event'[k] = item /\ outputs'[k] = <<>> /\ commands'[k] = <<>>
    BY <1>1, <2>1, <2>3, AttemptTypes DEF Receive, ItemMoves, bridgeVars
  <2>5. CASE item \in {Finish, Error}
    <3>1. pc'[k] \in {"done", "failed"}
      BY <1>1, <2>3, <2>5, AttemptTypes, ItemNames DEF Receive
    <3>2. QED BY <3>1 DEF Shape, Served, InLock, Leaving
  <2>6. CASE item \notin {Finish, Error}
    <3>1. pc'[k] = "audit" BY <1>1, <2>3, <2>6, AttemptTypes DEF Receive
    <3>2. worker[k] \in Parked BY <2>2, <2>6, WorkerStages DEF PublishedFrom
    <3>3. PublishedFrom(k, event[k])' BY <1>0, <2>2, <2>4 DEF PublishedFrom
    <3>4. EventHandled(k)' BY <1>0, <2>4, <3>1, <3>2, <3>3 DEF EventHandled, Served, InLock
    <3>5. QED BY <3>4 DEF Shape
  <2>7. QED BY <2>5, <2>6
<1>2. CASE Send(k) \/ Register(k) \/ BreakOff(k) \/ Drop(k)
  <2>1. pc[k] # "sending" /\ outputs' = outputs /\ commands' = commands /\ event' = event
    BY <1>2 DEF Send, Register, BreakOff, Drop, bridgeVars
  <2>2. pc'[k] \in Served \ {"sending"}
    BY <1>2, AttemptTypes DEF Send, Register, BreakOff, Drop, Served, InLock, Leaving
  <2>3. EventHandled(k)'
    <3>1. PublishedFrom(k, event[k])' BY <1>0, <1>b, <2>1 DEF PublishedFrom
    <3>2. QED BY <1>0, <1>b, <2>1, <2>2, <3>1 DEF EventHandled
  <2>4. QED BY <2>3 DEF Shape
<1>3. CASE Proceed(k) \/ Decide(k)
  <2>1. /\ pc[k] # "sending" /\ pc'[k] = "sending" /\ outputs' = outputs
        /\ \E command \in Commands \ {Close} : commands' = Put(commands, k, command)
    <3>1. CASE Proceed(k)
      BY <3>1, AttemptTypes, NewCommands, CommandNames DEF Proceed
    <3>2. CASE Decide(k)
      <4>1. event[k].kind = "ask" BY <3>2 DEF TypeInv, Decide
      <4>2. event[k].question \in Questions BY <4>1, AttemptTypes, AskItems
      <4>3. Decision(event[k].question, answer[event[k].question]) \in Commands \ {Close}
        BY <3>2, <4>2, NewCommands, CommandNames DEF Decide
      <4>4. QED BY <3>2, <4>3, AttemptTypes DEF Decide
    <3>3. QED BY <1>3, <3>1, <3>2
  <2>2. PICK command \in Commands \ {Close} : commands' = Put(commands, k, command)
    BY <2>1
  <2>3. commands'[k] = <<command>> BY <1>b, <2>1, <2>2, AttemptTypes, Singletons
  <2>4. CommandMoves(k)' BY <1>0, <1>b, <2>1, <2>3 DEF CommandMoves
  <2>5. QED BY <2>4 DEF Shape
<1>4. CASE Disconnect(k) \/ CloseStream(k)
  <2>1. pc'[k] = "gone" BY <1>4, AttemptTypes DEF Disconnect, CloseStream
  <2>2. QED BY <2>1 DEF Shape, Served, InLock, Leaving
<1>5. QED BY <1>1, <1>2, <1>3, <1>4 DEF Coroutine, Leave

LEMMA WorkerShape ==
  ASSUME TypeInv, NEW k \in Attempts, Shape(k), Worker(k)
  PROVE  Shape(k)'
<1>0. pc' = pc /\ event' = event BY WorkerFrame
<1>a. ASSUME commands' = commands, worker[k] \in Running \cup {"starting"},
             \/ outputs' = Put(outputs, k, Plain) /\ worker'[k] \in Parked
             \/ outputs' = Put(outputs, k, Error) /\ worker'[k] = "ended"
             \/ outputs' = Put(outputs, k, Finish) /\ worker'[k] = "ended"
             \/ outputs' = Put(outputs, k, Ask(question'[k])) /\ worker'[k] = "asked"
                /\ question'[k] \in Questions
      PROVE  Shape(k)'
  <2>1. PICK item \in Items : outputs' = Put(outputs, k, item) /\ PublishedFrom(k, item)'
    BY <1>a, NewItems DEF PublishedFrom
  <2>2. QED BY <1>0, <1>a, <2>1, Publishing
<1>b. ASSUME commands' = commands, outputs' = outputs, worker[k] \in Running \cup {"starting"},
             worker'[k] \in Running
      PROVE  Shape(k)'
  BY <1>0, <1>b, QuietBridge DEF Shape, WorkerMoves
<1>1. CASE Start(k)
  <2>1. worker[k] = "starting" /\ commands' = commands BY <1>1 DEF Start
  <2>2. \/ worker'[k] = "running" /\ outputs' = outputs
        \/ worker'[k] = "ended" /\ outputs' = Put(outputs, k, Error)
    BY <1>1, AttemptTypes DEF Start
  <2>3. QED BY <1>a, <1>b, <2>1, <2>2 DEF Running
<1>2. CASE Emit(k) \/ ObserveCancel(k)
  <2>1. /\ worker[k] \in Running /\ commands' = commands /\ worker'[k] \in Parked
        /\ outputs' = Put(outputs, k, Plain)
    BY <1>2, AttemptTypes DEF Emit, ObserveCancel, Running, Parked
  <2>2. QED BY <1>a, <2>1
<1>3. CASE AskApproval(k)
  <2>1. PICK q \in Questions :
          /\ question' = [question EXCEPT ![k] = q]
          /\ \/ Work(k, "asked") /\ Publish(k, Ask(q))
             \/ LeaveSession(k) /\ Publish(k, Error)
    BY <1>3 DEF AskApproval
  <2>2. question'[k] = q /\ worker[k] \in Running /\ commands' = commands
    BY <1>3, <2>1, AttemptTypes DEF AskApproval, Running
  <2>3. \/ worker'[k] = "asked" /\ outputs' = Put(outputs, k, Ask(q))
        \/ worker'[k] = "ended" /\ outputs' = Put(outputs, k, Error)
    BY <2>1, AttemptTypes DEF LeaveSession
  <2>4. QED BY <1>a, <2>2, <2>3
<1>4. CASE Resume(k)
  <2>1. outputs' = outputs /\ worker[k] \in Parked /\ commands[k] # <<>>
        /\ commands'[k] = Tail(commands[k])
    BY <1>4, AttemptTypes DEF Resume
  <2>2. SUFFICES ASSUME pc[k] \in Served PROVE WorkerMoves(k)'
    BY <1>0 DEF Shape
  <2>3. CommandMoves(k)
    BY <2>1, <2>2, WorkerStages DEF Shape, WorkerMoves, ItemMoves, EventHandled
  <2>4. PICK command \in Commands \ {Close} : commands[k] = <<command>>
    BY <2>3 DEF CommandMoves
  <2>5. Head(commands[k]) # Close /\ commands'[k] = <<>> BY <2>1, <2>4, Singletons
  <2>6. \E stage \in Running : worker' = [worker EXCEPT ![k] = stage]
    BY <1>4, <2>5 DEF Resume, Running
  <2>7. worker'[k] \in Running BY <2>6, AttemptTypes
  <2>8. QED BY <1>0, <2>1, <2>3, <2>5, <2>7 DEF WorkerMoves, CommandMoves
<1>5. CASE Resolve(k)
  <2>1. worker[k] \in Running /\ commands' = commands BY <1>5 DEF Resolve, Running
  <2>2. CASE LeaveSession(k) /\ Publish(k, Error)
    BY <1>a, <2>1, <2>2, AttemptTypes DEF LeaveSession
  <2>3. CASE ~(LeaveSession(k) /\ Publish(k, Error))
    <3>1. /\ \E stage \in Parked : worker' = [worker EXCEPT ![k] = stage]
          /\ outputs' = Put(outputs, k, Plain)
      BY <1>5, <2>3 DEF Resolve, Parked
    <3>2. worker'[k] \in Parked BY <3>1, AttemptTypes
    <3>3. QED BY <1>a, <2>1, <3>1, <3>2
  <2>4. QED BY <2>2, <2>3
<1>6. CASE Act(k)
  <2>1. worker[k] \in Running /\ commands' = commands /\ outputs' = outputs /\ worker'[k] \in Running
    BY <1>6, AttemptTypes DEF Act, Running, bridgeVars
  <2>2. QED BY <1>b, <2>1
<1>7. CASE EndTurn(k)
  <2>1. /\ worker[k] \in Running /\ commands' = commands /\ worker'[k] = "ended"
        /\ outputs' = Put(outputs, k, Error) \/ outputs' = Put(outputs, k, Finish)
    BY <1>7, AttemptTypes DEF EndTurn, LeaveSession, Running
  <2>2. QED BY <1>a, <2>1
<1>8. QED BY <1>1, <1>2, <1>3, <1>4, <1>5, <1>6, <1>7 DEF Worker

LEMMA NextBridgeShape ==
  ASSUME TypeInv, NewIsIdle, BridgeShape, [Next]_vars
  PROVE  BridgeShape'
<1> SUFFICES ASSUME NEW j \in Attempts PROVE Shape(j)'
  BY DEF BridgeShape, Shape
<1> USE DEF WorkerMoves, ItemMoves, EventHandled, CommandMoves, PublishedFrom
<1>0. Shape(j) BY DEF BridgeShape, Shape
<1>1. ASSUME pc'[j] = pc[j], event'[j] = event[j], worker'[j] = worker[j],
             outputs'[j] = outputs[j], commands'[j] = commands[j], question'[j] = question[j]
      PROVE  Shape(j)'
  BY <1>0, <1>1 DEF Shape
<1>2. CASE UNCHANGED vars
  BY <1>1, <1>2 DEF vars, coroutineVars, bridgeVars, turnVars
<1>3. ASSUME NEW k \in Attempts, Begin(k) PROVE Shape(j)'
  <2>1. CASE j # k BY <1>1, <1>3, <2>1, Frame
  <2>2. CASE j = k
    <3>1. outputs'[k] = <<>> /\ commands'[k] = <<>> BY <1>3 DEF Begin, NewIsIdle, bridgeVars
    <3>2. pc'[k] = "sending" /\ worker'[k] = "starting" BY <1>3, AttemptTypes DEF Begin
    <3>3. QED BY <2>2, <3>1, <3>2 DEF Shape
  <2>3. QED BY <2>1, <2>2
<1>4. ASSUME NEW k \in Attempts, Coroutine(k) \/ Worker(k) \/ Leave(k) PROVE Shape(j)'
  <2>1. CASE j # k BY <1>1, <1>4, <2>1, Frame
  <2>2. CASE j = k BY <1>0, <1>4, <2>2, CoroutineShape, WorkerShape
  <2>3. QED BY <2>1, <2>2
<1>5. CASE Post \/ (\E p \in posted : SubmitApproval(p)) BY <1>1, <1>5, ClientFrame
<1>6. QED BY <1>2, <1>3, <1>4, <1>5 DEF Next

\* Decisions.  The part of DecisionInPlace that is about one attempt.
Place(k) ==
  \A i \in DOMAIN commands[k] : commands[k][i].kind = "decision" =>
    i = 1 /\ worker[k] = "asked" /\ commands[k][i].question = question[k]

\* Something that is no decision is appended.
LEMMA AppendPlace ==
  ASSUME TypeInv, NEW k \in Attempts, Place(k), NEW command \in Commands,
         command.kind # "decision", commands' = Put(commands, k, command),
         worker' = worker, question' = question
  PROVE  Place(k)'
<1>1. commands[k] \in Seq(Commands) BY AttemptTypes
<1>2. commands'[k] = Append(commands[k], command) BY AttemptTypes
<1>3. ASSUME NEW i \in DOMAIN commands'[k], commands'[k][i].kind = "decision"
      PROVE  i = 1 /\ worker'[k] = "asked" /\ commands'[k][i].question = question'[k]
  <2>1. i \in 1..(Len(commands[k]) + 1) BY <1>1, <1>2, <1>3
  <2>2. i # Len(commands[k]) + 1 BY <1>1, <1>2, <1>3
  <2>3. i \in DOMAIN commands[k] /\ commands'[k][i] = commands[k][i]
    BY <1>1, <1>2, <2>1, <2>2
  <2>4. QED BY <1>3, <2>3 DEF Place
<1>4. QED BY <1>3 DEF Place

LEMMA CoroutinePlace ==
  ASSUME TypeInv, NEW k \in Attempts, Shape(k), Place(k), Coroutine(k) \/ Leave(k)
  PROVE  Place(k)'
<1>0. worker' = worker /\ question' = question /\ pc[k] \in Served
  BY CoroutineFrame, CoroutinePlaces DEF Begin, Served, InLock, Leaving
<1>1. CASE commands' = commands BY <1>0, <1>1 DEF Place
<1>2. CASE Proceed(k)
  <2>1. commands' = Put(commands, k, Continue) BY <1>2 DEF Proceed
  <2>2. QED BY <1>0, <2>1, AppendPlace, NewCommands, CommandNames
<1>3. CASE Disconnect(k) \/ CloseStream(k)
  <2>1. commands' = Put(commands, k, Close) BY <1>3 DEF Disconnect, CloseStream, HangUp
  <2>2. QED BY <1>0, <2>1, AppendPlace, NewCommands, CommandNames
<1>4. CASE Decide(k)
  <2>1. EventHandled(k)
    BY <1>0, <1>4 DEF Shape, Decide, WorkerMoves, ItemMoves, CommandMoves
  <2>2. event[k].kind = "ask" BY <1>4 DEF TypeInv, Decide
  <2>3. event[k] \notin {Plain, Finish, Error} BY <2>2, ItemNames
  <2>4. event[k] = Ask(question[k]) /\ worker[k] = "asked"
    BY <2>1, <2>3 DEF EventHandled, PublishedFrom
  <2>5. question[k] \in Questions BY <2>4 DEF TypeInv, AtQuestion
  <2>6. event[k].question = question[k] BY <2>4, <2>5, ItemNames
  <2>7. PICK v \in Verdicts : commands' = Put(commands, k, Decision(question[k], v))
    BY <1>4, <2>6 DEF Decide
  <2>8. Decision(question[k], v) \in Commands /\ Decision(question[k], v).question = question[k]
    BY <2>5, NewCommands, CommandNames
  <2>9. commands'[k] = <<Decision(question[k], v)>>
    BY <2>1, <2>7, <2>8, AttemptTypes, Singletons DEF EventHandled
  <2>10. DOMAIN commands'[k] = {1} /\ commands'[k][1] = Decision(question[k], v)
    BY <2>8, <2>9, Singletons
  <2>11. QED BY <1>0, <2>4, <2>8, <2>10 DEF Place
<1>5. QED BY <1>1, <1>2, <1>3, <1>4
          DEF Coroutine, Leave, Receive, Send, Register, BreakOff, Drop, bridgeVars

LEMMA WorkerPlace ==
  ASSUME TypeInv, NEW k \in Attempts, Place(k), Worker(k)
  PROVE  Place(k)'
<1>1. CASE Resume(k)
  <2>0. commands[k] \in Seq(Commands) /\ commands[k] # <<>> BY <1>1, AttemptTypes DEF Resume
  <2>1. commands'[k] = Tail(commands[k]) BY <1>1, AttemptTypes DEF Resume
  <2>2. ASSUME NEW i \in DOMAIN commands'[k] PROVE commands'[k][i].kind # "decision"
    <3>1. i + 1 \in DOMAIN commands[k] /\ commands'[k][i] = commands[k][i + 1] /\ i + 1 # 1
      BY <2>0, <2>1, <2>2
    <3>2. QED BY <3>1 DEF Place
  <2>3. QED BY <2>2 DEF Place
<1>2. CASE ~Resume(k)
  <2>1. commands' = commands /\ worker[k] # "asked"
    BY <1>2 DEF Worker, Start, Emit, AskApproval, Resolve, Act, ObserveCancel, EndTurn,
                bridgeVars
  <2>2. QED BY <2>1 DEF Place
<1>3. QED BY <1>1, <1>2

LEMMA NextDecisionInPlace ==
  ASSUME TypeInv, NewIsIdle, BridgeShape, DecisionInPlace, [Next]_vars
  PROVE  DecisionInPlace'
<1> SUFFICES ASSUME NEW j \in Attempts PROVE Place(j)'
  BY DEF DecisionInPlace, Place
<1>0. Place(j) /\ Shape(j) BY DEF DecisionInPlace, Place, BridgeShape, Shape
<1>1. ASSUME worker'[j] = worker[j], commands'[j] = commands[j], question'[j] = question[j]
      PROVE  Place(j)'
  BY <1>0, <1>1 DEF Place
<1>2. CASE UNCHANGED vars BY <1>1, <1>2 DEF vars, bridgeVars, turnVars
<1>3. ASSUME NEW k \in Attempts, Begin(k) PROVE Place(j)'
  <2>1. CASE j # k BY <1>1, <1>3, <2>1, Frame
  <2>2. CASE j = k
    <3>1. commands'[k] = <<>> BY <1>3 DEF Begin, NewIsIdle, bridgeVars
    <3>2. QED BY <2>2, <3>1 DEF Place
  <2>3. QED BY <2>1, <2>2
<1>4. ASSUME NEW k \in Attempts, Coroutine(k) \/ Worker(k) \/ Leave(k) PROVE Place(j)'
  <2>1. CASE j # k BY <1>1, <1>4, <2>1, Frame
  <2>2. CASE j = k BY <1>0, <1>4, <2>2, CoroutinePlace, WorkerPlace
  <2>3. QED BY <2>1, <2>2
<1>5. CASE Post \/ (\E p \in posted : SubmitApproval(p)) BY <1>1, <1>5, ClientFrame
<1>6. QED BY <1>2, <1>3, <1>4, <1>5 DEF Next

\* The shape says that one thing is in flight.
LEMMA ShapeIsOneThing ==
  ASSUME TypeInv, BridgeShape
  PROVE  OneThingInFlight
<1> SUFFICES ASSUME NEW k \in Attempts, pc[k] \in Served
    PROVE  Len(outputs[k]) + Len(commands[k]) + (IF pc[k] = "sending" THEN 0 ELSE 1)
             = IF worker[k] \in Parked \cup {"ended"} THEN 1 ELSE 0
  BY DEF OneThingInFlight, Served
<1>0. Len(<<>>) = 0 /\ \A item \in Items \cup Commands : Len(<<item>>) = 1 OBVIOUS
<1>1. CASE WorkerMoves(k) BY <1>0, <1>1, WorkerStages DEF WorkerMoves
<1>2. CASE ItemMoves(k)
  <2>1. worker[k] \in Parked \cup {"ended"}
    BY <1>2, WorkerStages DEF ItemMoves, PublishedFrom
  <2>2. Len(outputs[k]) = 1 /\ Len(commands[k]) = 0 /\ pc[k] = "sending"
    BY <1>0, <1>2 DEF ItemMoves
  <2>3. QED BY <2>1, <2>2
<1>3. CASE EventHandled(k) BY <1>0, <1>3 DEF EventHandled
<1>4. CASE CommandMoves(k)
  <2>1. Len(commands[k]) = 1 BY <1>0, <1>4 DEF CommandMoves
  <2>2. QED BY <1>0, <1>4, <2>1 DEF CommandMoves
<1>5. QED BY <1>1, <1>2, <1>3, <1>4 DEF BridgeShape

LEMMA ServedHasShape ==
  ASSUME BridgeShape, NEW k \in Attempts
  PROVE  Shape(k)
BY DEF BridgeShape, Shape

\* A coroutine that handles an event has a parked worker; that of a question is asked.
LEMMA HandledEvent ==
  ASSUME TypeInv, BridgeShape, NEW k \in Attempts, pc[k] \in Served \ {"sending"}
  PROVE  /\ worker[k] \in Parked /\ outputs[k] = <<>> /\ commands[k] = <<>>
         /\ event[k].kind = "ask" => /\ worker[k] = "asked" /\ question[k] \in Questions
                                     /\ event[k] = Ask(question[k])
                                     /\ event[k].question = question[k]
<1>1. EventHandled(k)
  BY ServedHasShape DEF Shape, WorkerMoves, ItemMoves, CommandMoves
<1>2. ASSUME event[k].kind = "ask" PROVE worker[k] = "asked" /\ event[k] = Ask(question[k])
  <2>1. event[k] \notin {Plain, Finish, Error} BY <1>2, ItemNames
  <2>2. QED BY <1>1, <2>1 DEF EventHandled, PublishedFrom
<1>3. QED BY <1>1, <1>2, ItemNames DEF EventHandled, TypeInv, AtQuestion

-------------------------------------------------------------------------------
\* The broker.

\* What a coroutine's step does to the broker's table.
LEMMA BrokerSteps ==
  ASSUME TypeInv, NEW k \in Attempts, Begin(k) \/ Coroutine(k) \/ Leave(k)
  PROVE  \/ UNCHANGED <<broker, answer>> /\ (pc[k] = "waiting" => CloseStream(k))
         \/ /\ Register(k) /\ pc[k] = "chunk" /\ pc'[k] = "waiting" /\ event' = event
            /\ event[k].kind = "ask" /\ event[k].question \in Questions
            /\ broker[event[k].question] = None
            /\ broker' = [broker EXCEPT ![event[k].question] = k]
            /\ answer' = [answer EXCEPT ![event[k].question] = "open"]
         \/ Unregister(k) /\ (Decide(k) \/ Disconnect(k))
<1>1. CASE Register(k)
  <2>1. event[k].question \in Questions BY <1>1, AttemptTypes, AskItems DEF Register
  <2>2. CASE broker[event[k].question] = None
    BY <1>1, <2>1, <2>2, AttemptTypes DEF Register
  <2>3. CASE broker[event[k].question] # None BY <1>1, <2>3 DEF Register, brokerVars
  <2>4. QED BY <2>2, <2>3
<1>2. CASE Decide(k) \/ Disconnect(k) BY <1>2 DEF Decide, Disconnect
<1>3. CASE CloseStream(k) BY <1>3 DEF CloseStream, brokerVars
<1>4. CASE Begin(k) \/ Receive(k) \/ Send(k) \/ Proceed(k) \/ BreakOff(k) \/ Drop(k)
  BY <1>4 DEF Begin, Receive, Send, Proceed, BreakOff, Drop, brokerVars
<1>5. QED BY <1>1, <1>2, <1>3, <1>4 DEF Coroutine, Leave

LEMMA NextRegistered ==
  ASSUME TypeInv, RegisteredIsWaiting, [Next]_vars
  PROVE  RegisteredIsWaiting'
<1> USE DEF RegisteredIsWaiting
<1>0. broker \in [Questions -> Attempts \cup {None}] /\ None \notin Attempts
  BY ActiveStages DEF TypeInv, TypeOK
<1>1. CASE UNCHANGED vars BY <1>1 DEF vars, coroutineVars, brokerVars
<1>2. ASSUME NEW k \in Attempts, Begin(k) \/ Coroutine(k) \/ Leave(k) PROVE RegisteredIsWaiting'
  <2>0. \A j \in Attempts : j # k => pc'[j] = pc[j] /\ event'[j] = event[j] BY <1>2, Frame
  <2>1. CASE UNCHANGED <<broker, answer>> /\ (pc[k] = "waiting" => CloseStream(k))
    <3>1. pc[k] # "waiting" BY <2>1 DEF CloseStream, Leaving
    <3>2. QED BY <1>0, <2>0, <2>1, <3>1
  <2>2. CASE /\ Register(k) /\ pc[k] = "chunk" /\ pc'[k] = "waiting" /\ event' = event
             /\ event[k].kind = "ask" /\ event[k].question \in Questions
             /\ broker[event[k].question] = None
             /\ broker' = [broker EXCEPT ![event[k].question] = k]
    <3>1. event[k] = Ask(event[k].question) BY <2>2, AttemptTypes, AskItems
    <3>2. \A q \in Questions : broker'[q] # None =>
            \/ q = event[k].question /\ broker'[q] = k
            \/ broker'[q] = broker[q] /\ broker[q] # k
      BY <1>0, <2>2
    <3>3. QED BY <1>0, <2>0, <2>2, <3>1, <3>2
  <2>3. CASE Unregister(k)
    <3>1. \A q \in Questions : broker'[q] # None => broker'[q] = broker[q] /\ broker[q] # k
      BY <2>3 DEF Unregister
    <3>2. QED BY <1>0, <2>0, <3>1
  <2>4. QED BY <1>2, <2>1, <2>2, <2>3, BrokerSteps
<1>3. ASSUME NEW k \in Attempts, Worker(k) PROVE RegisteredIsWaiting' BY <1>3, WorkerFrame
<1>4. CASE Post \/ (\E p \in posted : SubmitApproval(p)) BY <1>4, ClientFrame
<1>5. QED BY <1>1, <1>2, <1>3, <1>4 DEF Next

-------------------------------------------------------------------------------
\* Cancellation.

\* The token is the turn's whose coroutine cancels it.
LEMMA NextCancelled ==
  ASSUME TypeInv, NewIsIdle, LockHeld, OneInLock, BridgeShape, CancelledWasLeft, [Next]_vars
  PROVE  CancelledWasLeft'
<1> USE DEF CancelledWasLeft
<1>0. operation \in Attempts \cup {None} /\ token \in BOOLEAN BY DEF TypeInv, TypeOK
<1>1. CASE UNCHANGED vars BY <1>1 DEF vars, coroutineVars, turnVars
<1>2. ASSUME NEW k \in Attempts, Begin(k) \/ Coroutine(k) \/ Leave(k) PROVE CancelledWasLeft'
  <2>0. operation' = operation /\ \A j \in Attempts : j # k => pc'[j] = pc[j]
    BY <1>2, Frame, CoroutineFrame
  <2>1. CASE token' = token
    <3>1. SUFFICES ASSUME token PROVE operation # None /\ pc'[operation] \notin InLock
      BY <2>0, <2>1
    <3>2. operation \in Attempts /\ operation # None /\ pc[operation] \notin InLock
      BY <1>0, <3>1, ActiveStages
    <3>3. CASE operation # k BY <2>0, <3>2, <3>3
    <3>4. CASE operation = k
      <4>1. ~Begin(k) BY <3>2, <3>4, ActiveStages DEF Begin, NewIsIdle, LockHeld
      <4>2. QED BY <1>2, <3>2, <3>4, <4>1, CoroutinePlaces
    <3>5. QED BY <3>3, <3>4
  <2>2. CASE Cancel /\ (Disconnect(k) \/ BreakOff(k) \/ CloseStream(k))
    <3>1. SUFFICES ASSUME operation # None PROVE pc'[operation] \notin InLock
      BY <2>0, <2>2 DEF Cancel
    <3>2. pc'[k] \in {"gone", "erring"}
      BY <2>2, AttemptTypes DEF Disconnect, BreakOff, CloseStream
    <3>3. CASE operation = k BY <3>2, <3>3 DEF InLock
    <3>4. CASE operation # k
      <4>1. pc[k] \in InLock \/ (CloseStream(k) /\ pc[k] \in Leaving)
        BY <2>2 DEF Disconnect, BreakOff, CloseStream, InLock
      <4>2. CASE pc[k] \in InLock BY <1>0, <2>0, <3>1, <3>4, <4>2 DEF OneInLock
      <4>3. CASE pc[k] \in Leaving
        <5>1. pc[k] \in Served \ {"sending"} BY <4>3 DEF Served, Leaving
        <5>2. worker[k] \in Parked BY <5>1, HandledEvent
        <5>3. QED BY <3>4, <5>2 DEF LockHeld
      <4>4. QED BY <4>1, <4>2, <4>3
    <3>5. QED BY <3>3, <3>4
  <2>3. QED BY <1>2, <2>1, <2>2
       DEF Begin, Coroutine, Leave, Receive, Send, Proceed, Register, Decide, CloseStream,
           Disconnect, BreakOff, Drop, HangUp, turnVars
<1>3. ASSUME NEW k \in Attempts, Worker(k) PROVE CancelledWasLeft'
  <2>1. pc' = pc BY <1>3, WorkerFrame
  <2>2. token' = FALSE \/ UNCHANGED <<operation, token>> BY <1>3, WorkerLock
  <2>3. QED BY <2>1, <2>2
<1>4. CASE Post \/ (\E p \in posted : SubmitApproval(p)) BY <1>4, ClientFrame
<1>5. QED BY <1>1, <1>2, <1>3, <1>4 DEF Next

-------------------------------------------------------------------------------
\* Answers.

LEMMA NextWaiting ==
  ASSUME TypeInv, NewIsIdle, WaitingIsRegistered, [Next]_vars
  PROVE  WaitingIsRegistered'
<1> USE DEF WaitingIsRegistered
<1>0. /\ broker \in [Questions -> Attempts \cup {None}] /\ None \notin Attempts
      /\ \A j \in Attempts : pc[j] = "waiting" => event[j].question \in Questions
  BY ActiveStages, AttemptTypes, AskItems DEF TypeInv, TypeOK
<1>1. CASE UNCHANGED vars BY <1>1 DEF vars, coroutineVars, brokerVars
<1>2. ASSUME NEW k \in Attempts, Begin(k) \/ Coroutine(k) \/ Leave(k) PROVE WaitingIsRegistered'
  <2>0. \A j \in Attempts : j # k => pc'[j] = pc[j] /\ event'[j] = event[j] BY <1>2, Frame
  <2>1. CASE Register(k) /\ ~UNCHANGED <<broker, answer>>
    <3>1. /\ pc'[k] = "waiting" /\ event' = event /\ event[k].question \in Questions
          /\ broker[event[k].question] = None
          /\ broker' = [broker EXCEPT ![event[k].question] = k]
      <4>1. pc[k] = "chunk" BY <2>1 DEF Register
      <4>2. ~Decide(k) /\ ~Disconnect(k) BY <4>1 DEF Decide, Disconnect
      <4>3. ~UNCHANGED <<broker, answer>> BY <2>1
      <4>4. QED BY <1>2, <4>2, <4>3, BrokerSteps
    <3>2. broker'[event'[k].question] = k BY <1>0, <3>1
    <3>3. \A j \in Attempts : j # k /\ pc[j] = "waiting" =>
            broker[event[j].question] = j /\ broker'[event[j].question] = j
      BY <1>0, <3>1
    <3>4. QED BY <2>0, <3>2, <3>3
  <2>2. CASE ~Register(k) \/ UNCHANGED <<broker, answer>>
    <3>1. pc'[k] # "waiting"
      <4>1. CASE Register(k)
        <5>1. pc[k] = "chunk" /\ event[k].question \in Questions
          BY <4>1, AttemptTypes, AskItems DEF Register
        <5>2. CASE broker[event[k].question] = None
          <6>1. broker' = [broker EXCEPT ![event[k].question] = k] BY <4>1, <5>2 DEF Register
          <6>2. broker' = broker BY <2>2, <4>1
          <6>3. QED BY <1>0, <5>1, <5>2, <6>1, <6>2
        <5>3. CASE broker[event[k].question] # None
          BY <4>1, <5>3, AttemptTypes DEF Register
        <5>4. QED BY <5>2, <5>3
      <4>2. CASE Receive(k)
        <5>1. CASE Head(outputs[k]) = Finish BY <4>2, <5>1, AttemptTypes, ItemNames DEF Receive
        <5>2. CASE Head(outputs[k]) = Error BY <4>2, <5>2, AttemptTypes, ItemNames DEF Receive
        <5>3. CASE Head(outputs[k]) \notin {Finish, Error}
          BY <4>2, <5>3, AttemptTypes DEF Receive
        <5>4. QED BY <5>1, <5>2, <5>3
      <4>3. CASE ~Register(k) /\ ~Receive(k)
        BY <1>2, <4>3, AttemptTypes DEF Begin, Coroutine, Leave, Send, Proceed, Decide,
           CloseStream, Disconnect, BreakOff, Drop
      <4>4. QED BY <4>1, <4>2, <4>3
    <3>2. \A q \in Questions : broker[q] # k => broker'[q] = broker[q]
      BY <1>2, <2>2, BrokerSteps DEF Unregister
    <3>3. QED BY <1>0, <2>0, <3>1, <3>2
  <2>3. QED BY <2>1, <2>2
<1>3. ASSUME NEW k \in Attempts, Worker(k) PROVE WaitingIsRegistered' BY <1>3, WorkerFrame
<1>4. CASE Post \/ (\E p \in posted : SubmitApproval(p)) BY <1>4, ClientFrame
<1>5. QED BY <1>1, <1>2, <1>3, <1>4 DEF Next

LEMMA NextBrokerAccepted ==
  ASSUME TypeInv, BrokerAccepted, [Next]_vars
  PROVE  BrokerAccepted' /\ accepted \subseteq accepted'
<1> USE DEF BrokerAccepted
<1>0. /\ broker \in [Questions -> Attempts \cup {None}] /\ None \notin Attempts
      /\ answer \in [Questions -> Verdicts \cup {"open", "none"}]
      /\ "open" \notin Verdicts /\ "none" \notin Verdicts
  BY ActiveStages DEF TypeInv, TypeOK, Verdicts
<1>1. CASE UNCHANGED <<broker, answer, accepted>> BY <1>1 DEF Accepted
<1>2. ASSUME NEW k \in Attempts, Begin(k) \/ Coroutine(k) \/ Leave(k)
      PROVE  BrokerAccepted' /\ accepted \subseteq accepted'
  <2>0. accepted' = accepted BY <1>2, CoroutineFrame
  <2>1. \A q \in Questions : broker'[q] # None /\ answer'[q] \in Verdicts =>
          broker'[q] = broker[q] /\ answer'[q] = answer[q]
    <3>1. CASE Unregister(k) BY <1>0, <3>1 DEF Unregister
    <3>2. CASE ~Unregister(k)
      <4>1. \/ UNCHANGED <<broker, answer>>
            \/ \E r \in Questions : /\ broker' = [broker EXCEPT ![r] = k]
                                    /\ answer' = [answer EXCEPT ![r] = "open"]
        BY <1>2, <3>2, BrokerSteps
      <4>2. QED BY <1>0, <4>1
    <3>3. QED BY <3>1, <3>2
  <2>2. QED BY <2>0, <2>1 DEF Accepted
<1>3. ASSUME NEW k \in Attempts, Worker(k) PROVE BrokerAccepted' /\ accepted \subseteq accepted'
  BY <1>1, <1>3, WorkerFrame
<1>4. ASSUME NEW p \in posted, SubmitApproval(p)
      PROVE  BrokerAccepted' /\ accepted \subseteq accepted'
  <2>1. p \in Answers /\ p.question \in Questions BY DEF TypeInv, TypeOK, Answers
  <2>2. CASE broker[p.question] # None /\ answer[p.question] = "open"
    <3>1. /\ answer' = [answer EXCEPT ![p.question] = p.verdict] /\ broker' = broker
          /\ accepted' = accepted \cup {<<broker[p.question], p>>}
      BY <1>4, <2>2 DEF SubmitApproval
    <3>2. ASSUME NEW q \in Questions, broker'[q] # None, answer'[q] \in Verdicts
          PROVE  Accepted(broker[q], q, answer[q])'
      <4>1. CASE q = p.question
        <5>1. answer'[q] = p.verdict /\ <<broker'[q], p>> \in accepted'
          BY <1>0, <3>1, <4>1
        <5>2. QED BY <2>1, <4>1, <5>1 DEF Accepted
      <4>2. CASE q # p.question
        <5>1. answer'[q] = answer[q] /\ broker'[q] = broker[q] BY <1>0, <3>1, <4>2
        <5>2. Accepted(broker[q], q, answer[q]) BY <3>2, <5>1
        <5>3. QED BY <3>1, <5>1, <5>2 DEF Accepted
      <4>3. QED BY <4>1, <4>2
    <3>3. QED BY <3>1, <3>2
  <2>3. CASE ~(broker[p.question] # None /\ answer[p.question] = "open")
    BY <1>1, <1>4, <2>3 DEF SubmitApproval
  <2>4. QED BY <2>2, <2>3
<1>5. CASE Post BY <1>1, <1>5 DEF Post, brokerVars
<1>6. CASE UNCHANGED vars BY <1>1, <1>6 DEF vars, brokerVars, clientVars
<1>7. QED BY <1>2, <1>3, <1>4, <1>5, <1>6 DEF Next

LEMMA AppendAccepted ==
  ASSUME TypeInv, NEW k \in Attempts, CommandAccepted(k), NEW command \in Commands,
         command.kind # "decision", commands' = Put(commands, k, command),
         accepted \subseteq accepted'
  PROVE  CommandAccepted(k)'
<1>1. commands[k] \in Seq(Commands) BY AttemptTypes
<1>2. commands'[k] = Append(commands[k], command) BY AttemptTypes
<1>3. ASSUME NEW i \in DOMAIN commands'[k], commands'[k][i].kind = "decision"
      PROVE  Accepted(k, commands[k][i].question, commands[k][i].verdict)'
  <2>1. i \in 1..(Len(commands[k]) + 1) BY <1>1, <1>2, <1>3
  <2>2. i # Len(commands[k]) + 1 BY <1>1, <1>2, <1>3
  <2>3. i \in DOMAIN commands[k] /\ commands'[k][i] = commands[k][i]
    BY <1>1, <1>2, <2>1, <2>2
  <2>4. Accepted(k, commands[k][i].question, commands[k][i].verdict)
    BY <1>3, <2>3 DEF CommandAccepted
  <2>5. QED BY <2>3, <2>4 DEF Accepted
<1>4. QED BY <1>3 DEF CommandAccepted

LEMMA SameCommands ==
  ASSUME NEW k \in Attempts, CommandAccepted(k), commands'[k] = commands[k],
         accepted \subseteq accepted'
  PROVE  CommandAccepted(k)'
BY DEF CommandAccepted, Accepted

\* The decision a coroutine sends on is the answer that was accepted for it.
LEMMA DecisionAccepted ==
  ASSUME TypeInv, BridgeShape, WaitingIsRegistered, BrokerAccepted,
         NEW k \in Attempts, Decide(k)
  PROVE  CommandAccepted(k)'
<1>1. pc[k] \in Served \ {"sending"} /\ event[k].kind = "ask" /\ pc[k] = "waiting"
  BY DEF Decide, TypeInv, Served, InLock
<1>2. event[k].question \in Questions /\ commands[k] = <<>>
  BY <1>1, HandledEvent, AttemptTypes, AskItems
<1> DEFINE q == event[k].question
           v == answer[q]
<1>3. /\ v \in Verdicts /\ commands' = Put(commands, k, Decision(q, v))
      /\ broker[q] = k /\ accepted' = accepted
  BY <1>1 DEF Decide, WaitingIsRegistered, clientVars
<1>4. Accepted(k, q, v)
  BY <1>2, <1>3, ActiveStages DEF BrokerAccepted
<1>5. Decision(q, v) \in Commands /\ Decision(q, v).question = q /\ Decision(q, v).verdict = v
  BY <1>2, <1>3, NewCommands, CommandNames
<1> HIDE DEF q, v
<1>6. commands'[k] = <<Decision(q, v)>> BY <1>2, <1>3, <1>5, AttemptTypes, Singletons
<1>7. DOMAIN commands'[k] = {1} /\ commands'[k][1] = Decision(q, v)
  BY <1>5, <1>6, Singletons
<1>8. ASSUME NEW i \in DOMAIN commands'[k]
      PROVE  Accepted(k, commands[k][i].question, commands[k][i].verdict)'
  BY <1>3, <1>4, <1>5, <1>7 DEF Accepted
<1>9. QED BY <1>8 DEF CommandAccepted

LEMMA NextCommandAccepted ==
  ASSUME TypeInv, NewIsIdle, BridgeShape, WaitingIsRegistered, BrokerAccepted,
         \A k \in Attempts : CommandAccepted(k), [Next]_vars
  PROVE  \A k \in Attempts : CommandAccepted(k)'
<1> SUFFICES ASSUME NEW j \in Attempts PROVE CommandAccepted(j)'
  OBVIOUS
<1>0. CommandAccepted(j) /\ accepted \subseteq accepted' BY NextBrokerAccepted
<1>1. ASSUME commands'[j] = commands[j] PROVE CommandAccepted(j)'
  BY <1>0, <1>1, SameCommands
<1>2. CASE UNCHANGED vars BY <1>1, <1>2 DEF vars, bridgeVars
<1>3. ASSUME NEW k \in Attempts, Begin(k) PROVE CommandAccepted(j)'
  BY <1>1, <1>3 DEF Begin, bridgeVars
<1>4. ASSUME NEW k \in Attempts, Coroutine(k) \/ Leave(k) PROVE CommandAccepted(j)'
  <2>1. CASE j # k BY <1>1, <1>4, <2>1, Frame
  <2>2. CASE j = k /\ commands' = commands BY <1>1, <2>2
  <2>3. CASE j = k /\ Proceed(k)
    <3>1. commands' = Put(commands, k, Continue) BY <2>3 DEF Proceed
    <3>2. QED BY <1>0, <2>3, <3>1, AppendAccepted, NewCommands, CommandNames
  <2>4. CASE j = k /\ (Disconnect(k) \/ CloseStream(k))
    <3>1. commands' = Put(commands, k, Close) BY <2>4 DEF Disconnect, CloseStream, HangUp
    <3>2. QED BY <1>0, <2>4, <3>1, AppendAccepted, NewCommands, CommandNames
  <2>5. CASE j = k /\ Decide(k) BY <2>5, DecisionAccepted
  <2>6. QED BY <1>4, <2>1, <2>2, <2>3, <2>4, <2>5
            DEF Coroutine, Leave, Receive, Send, Register, BreakOff, Drop, bridgeVars
<1>5. ASSUME NEW k \in Attempts, Worker(k) PROVE CommandAccepted(j)'
  <2>1. CASE j # k BY <1>1, <1>5, <2>1, Frame
  <2>2. CASE j = k /\ Resume(k)
    <3>1. commands[k] \in Seq(Commands) /\ commands[k] # <<>>
          /\ commands'[k] = Tail(commands[k]) /\ accepted' = accepted
      BY <2>2, AttemptTypes DEF Resume, clientVars
    <3>2. ASSUME NEW i \in DOMAIN commands'[k], commands'[k][i].kind = "decision"
          PROVE  Accepted(k, commands[k][i].question, commands[k][i].verdict)'
      <4>1. i + 1 \in DOMAIN commands[k] /\ commands'[k][i] = commands[k][i + 1]
        BY <3>1, <3>2
      <4>2. Accepted(k, commands[k][i + 1].question, commands[k][i + 1].verdict)
        BY <1>0, <2>2, <3>2, <4>1 DEF CommandAccepted
      <4>3. QED BY <3>1, <4>1, <4>2 DEF Accepted
    <3>3. QED BY <2>2, <3>2 DEF CommandAccepted
  <2>3. CASE ~Resume(k)
    BY <1>1, <1>5, <2>3 DEF Worker, Start, Emit, AskApproval, Resolve, Act, ObserveCancel,
       EndTurn, bridgeVars
  <2>4. QED BY <2>1, <2>2, <2>3
<1>6. CASE Post \/ (\E p \in posted : SubmitApproval(p)) BY <1>1, <1>6, ClientFrame
<1>7. QED BY <1>2, <1>3, <1>4, <1>5, <1>6 DEF Next

\* The worker takes an accepted "yes" to its question along to the tool call.
LEMMA NextWorkerAccepted ==
  ASSUME TypeInv, NewIsIdle, BrokerAccepted, \A k \in Attempts : CommandAccepted(k),
         \A k \in Attempts : WorkerAccepted(k), [Next]_vars
  PROVE  \A k \in Attempts : WorkerAccepted(k)'
<1> SUFFICES ASSUME NEW j \in Attempts PROVE WorkerAccepted(j)'
  OBVIOUS
<1>0. /\ WorkerAccepted(j) /\ CommandAccepted(j) /\ accepted \subseteq accepted'
  BY NextBrokerAccepted
<1>1. ASSUME worker'[j] = worker[j], question'[j] = question[j] PROVE WorkerAccepted(j)'
  BY <1>0, <1>1 DEF WorkerAccepted, Accepted
<1>2. CASE UNCHANGED vars BY <1>1, <1>2 DEF vars, turnVars
<1>3. ASSUME NEW k \in Attempts, Begin(k) \/ Coroutine(k) \/ Leave(k) PROVE WorkerAccepted(j)'
  <2>1. CASE ~Begin(k) \/ j # k BY <1>1, <1>3, <2>1, CoroutineFrame, Frame
  <2>2. CASE Begin(k) /\ j = k
    <3>1. worker'[j] = "starting" BY <2>2, CoroutineFrame, AttemptTypes
    <3>2. QED BY <3>1 DEF WorkerAccepted
  <2>3. QED BY <2>1, <2>2
<1>4. ASSUME NEW k \in Attempts, Worker(k), j = k PROVE WorkerAccepted(j)'
  <2>0. accepted' = accepted BY <1>4, WorkerFrame
  <2>1. CASE worker'[k] \notin {"granted", "resolved_yes", "acting"}
    BY <1>4, <2>1 DEF WorkerAccepted
  <2>2. CASE worker[k] \in {"granted", "resolved_yes", "acting"} /\ question' = question
    BY <1>0, <1>4, <2>0, <2>2 DEF WorkerAccepted, Accepted
  <2>3. CASE Resume(k) /\ worker'[k] = "granted"
    <3>1. /\ question' = question /\ commands[k] # <<>> /\ worker[k] \in Parked
      BY <2>3 DEF Resume
    <3>2. Head(commands[k]) # Close
      BY <2>3, AttemptTypes DEF Resume, LeaveSession
    <3>3. worker[k] = "asked" /\ Head(commands[k]) = Decision(question[k], "yes")
      BY <2>3, <3>1, <3>2, AttemptTypes DEF Resume
    <3>4. question[k] \in Questions BY <3>3 DEF TypeInv, AtQuestion
    <3>5. 1 \in DOMAIN commands[k] /\ commands[k][1] = Head(commands[k])
      BY <3>1, AttemptTypes
    <3>6. Accepted(k, question[k], "yes")
      BY <1>0, <1>4, <3>3, <3>4, <3>5, CommandNames DEF CommandAccepted, Verdicts
    <3>7. QED BY <1>4, <2>0, <3>1, <3>6 DEF WorkerAccepted, Accepted
  <2>4. CASE Start(k) \/ Emit(k) \/ AskApproval(k) \/ Act(k) \/ ObserveCancel(k) \/ EndTurn(k)
    <3>1. worker'[k] \in {"running", "ended", "parked", "asked"}
      BY <2>4, AttemptTypes DEF Start, Emit, AskApproval, Act, ObserveCancel, EndTurn,
         LeaveSession
    <3>2. QED BY <2>1, <3>1
  <2>5. CASE Resolve(k)
    <3>1. question' = question /\ worker[k] \in {"granted", "declined"} BY <2>5 DEF Resolve
    <3>2. worker[k] = "declined" => worker'[k] \in {"resolved_no", "ended"}
      BY <2>5, AttemptTypes DEF Resolve, LeaveSession
    <3>3. QED BY <2>1, <2>2, <3>1, <3>2
  <2>6. CASE Resume(k)
    <3>1. question' = question BY <2>6 DEF Resume
    <3>2. worker'[k] \in {"resolved_yes", "acting"} =>
            worker[k] \in {"granted", "resolved_yes", "acting"}
      <4>1. CASE Head(commands[k]) = Close
        BY <2>6, <4>1, AttemptTypes DEF Resume, LeaveSession
      <4>2. CASE Head(commands[k]) # Close
        BY <2>6, <4>2, AttemptTypes DEF Resume
      <4>3. QED BY <4>1, <4>2
    <3>3. QED BY <2>1, <2>2, <2>3, <2>6, <3>1, <3>2
  <2>7. QED BY <1>4, <2>4, <2>5, <2>6 DEF Worker
<1>5. ASSUME NEW k \in Attempts, Worker(k), j # k PROVE WorkerAccepted(j)'
  BY <1>1, <1>5, Frame
<1>6. CASE Post \/ (\E p \in posted : SubmitApproval(p)) BY <1>1, <1>6, ClientFrame
<1>7. QED BY <1>2, <1>3, <1>4, <1>5, <1>6 DEF Next

LEMMA NextActed ==
  ASSUME TypeInv, NewIsIdle, BrokerAccepted, \A k \in Attempts : WorkerAccepted(k),
         ActedOnAnswer, [Next]_vars
  PROVE  ActedOnAnswer'
<1>0. accepted \subseteq accepted' BY NextBrokerAccepted
<1>1. CASE acted' = acted BY <1>0, <1>1 DEF ActedOnAnswer
<1>2. ASSUME NEW k \in Attempts, Act(k) PROVE ActedOnAnswer'
  <2>1. Accepted(k, question[k], "yes") BY <1>2 DEF Act, WorkerAccepted
  <2>2. acted' = acted \cup {<<k, question[k]>>} BY <1>2 DEF Act
  <2>3. QED BY <1>0, <2>1, <2>2 DEF ActedOnAnswer, Accepted
<1>3. ASSUME NEW k \in Attempts, Worker(k), ~Act(k) PROVE acted' = acted
  BY <1>3 DEF Worker, Start, Emit, AskApproval, Resume, Resolve, ObserveCancel, EndTurn
<1>4. ASSUME NEW k \in Attempts, Begin(k) \/ Coroutine(k) \/ Leave(k) PROVE acted' = acted
  BY <1>4, CoroutineFrame
<1>5. CASE UNCHANGED vars BY <1>1, <1>5 DEF vars, turnVars
<1>6. CASE Post \/ (\E p \in posted : SubmitApproval(p)) BY <1>1, <1>6, ClientFrame
<1>7. QED BY <1>1, <1>2, <1>3, <1>4, <1>5, <1>6 DEF Next

-------------------------------------------------------------------------------
\* The record, and the order of questions.

\* Only the turn that holds the operation lock touches the record.
LEMMA RecordHolder ==
  ASSUME TypeInv, LockHeld, NEW k \in Attempts, Worker(k)
  PROVE  \/ Start(k) /\ worker[k] = "starting" /\ operation # k /\ record' = record
         \/ worker[k] \in Running \cup Parked /\ operation = k /\ ~Start(k)
<1>1. CASE Start(k) BY <1>1, ActiveStages DEF Start, LockHeld
<1>2. CASE ~Start(k)
  <2>1. worker[k] \in Running \cup Parked
    BY <1>2 DEF Worker, Emit, AskApproval, Resume, Resolve, Act, ObserveCancel, EndTurn,
       Running, Parked
  <2>2. QED BY <1>2, <2>1 DEF LockHeld
<1>3. QED BY <1>1, <1>2

\* What becomes of the record and of the question of the attempt.
LEMMA WorkerQuestion ==
  ASSUME TypeInv, LockHeld, RecordInv, NEW k \in Attempts, Worker(k)
  PROVE  \/ UNCHANGED <<record, question>>
         \/ /\ Start(k) /\ record' = record /\ operation = None /\ operation' = k
            /\ k = 1 \/ record # 0
            /\ question[k] = 0 /\ question' = [question EXCEPT ![k] = record]
         \/ /\ AskApproval(k) /\ operation = k /\ worker[k] = "running"
            /\ record = 0 /\ record' = question[k] + 1
            /\ question' = [question EXCEPT ![k] = question[k] + 1]
         \/ /\ AskApproval(k) /\ operation = k /\ worker[k] = "running"
            /\ record # 0 /\ record' = record /\ question' = question
         \/ /\ Resolve(k) /\ operation = k /\ record' = 0 /\ question' = question
            /\ worker[k] \in {"granted", "declined"}
<1>1. CASE Start(k)
  <2>1. CASE operation = None /\ ((k = 1) <=> (record = 0))
    BY <1>1, <2>1 DEF Start, RecordInv
  <2>2. CASE ~(operation = None /\ ((k = 1) <=> (record = 0)))
    BY <1>1, <2>2 DEF Start
  <2>3. QED BY <2>1, <2>2
<1>2. CASE AskApproval(k)
  <2>1. operation = k /\ worker[k] = "running"
    BY <1>2 DEF LockHeld, AskApproval, Running
  <2>2. k # None BY ActiveStages
  <2>3. CASE record = 0 BY <1>2, <2>1, <2>3 DEF AskApproval
  <2>4. CASE record # 0
    <3>1. record' = record /\ question' = [question EXCEPT ![k] = record]
      BY <1>2, <2>4 DEF AskApproval
    <3>2. record = question[k] BY <2>1, <2>2, <2>4 DEF RecordInv
    <3>3. question' = question BY <3>1, <3>2, AttemptTypes
    <3>4. QED BY <1>2, <2>1, <2>4, <3>1, <3>3
  <2>5. QED BY <2>3, <2>4
<1>3. CASE Resolve(k)
  BY <1>3 DEF Resolve, LockHeld, Running
<1>4. CASE Emit(k) \/ Resume(k) \/ Act(k) \/ ObserveCancel(k) \/ EndTurn(k)
  BY <1>4 DEF Emit, Resume, Act, ObserveCancel, EndTurn
<1>5. QED BY <1>1, <1>2, <1>3, <1>4 DEF Worker

LEMMA NextRecord ==
  ASSUME TypeInv, NewIsIdle, LockHeld, RecordInv, [Next]_vars
  PROVE  RecordInv'
<1>0. /\ question \in [Attempts -> Questions \cup {0}] /\ None \notin Attempts
      /\ record \in Questions \cup {0}
      /\ operation \in Attempts \cup {None}
  BY ActiveStages, QuestionNumbers DEF TypeInv, TypeOK
<1>1. CASE UNCHANGED <<operation, record, question, worker>> BY <1>1 DEF RecordInv
<1>2. ASSUME NEW k \in Attempts, Begin(k) \/ Coroutine(k) \/ Leave(k) PROVE RecordInv'
  <2>1. CASE ~Begin(k) BY <1>1, <1>2, <2>1, CoroutineFrame
  <2>2. CASE Begin(k)
    <3>1. worker[k] = "none" /\ worker' = [worker EXCEPT ![k] = "starting"]
      BY <2>2, CoroutineFrame DEF NewIsIdle
    <3>2. UNCHANGED <<operation, record, question>> BY <2>2, CoroutineFrame
    <3>3. \A j \in Attempts : worker'[j] = worker[j] \/ (j = k /\ worker'[j] = "starting")
      BY <3>1, AttemptTypes
    <3>4. QED BY <3>1, <3>2, <3>3 DEF RecordInv
  <2>3. QED BY <2>1, <2>2
<1>3. ASSUME NEW k \in Attempts, Worker(k) PROVE RecordInv'
  <2>0. \A j \in Attempts : j # k => worker'[j] = worker[j] /\ question'[j] = question[j]
    BY <1>3, Frame
  <2>1. operation' # None /\ record' # 0 => record' = question'[operation']
    <3>1. CASE UNCHANGED <<record, question>>
      <4>1. operation' \in {None, operation} \/ (Start(k) /\ operation' = k)
        BY <1>3, WorkerLock DEF Worker, Emit, AskApproval, Resume, Resolve, Act, ObserveCancel,
           EndTurn, LeaveSession
      <4>2. CASE operation' \in {None, operation} BY <3>1, <4>2 DEF RecordInv
      <4>3. CASE Start(k) /\ operation' = k /\ operation' # operation
        <5>1. question' = [question EXCEPT ![k] = record] BY <4>3 DEF Start
        <5>2. QED BY <1>0, <3>1, <4>3, <5>1
      <4>4. QED BY <4>1, <4>2, <4>3
    <3>2. CASE Start(k) /\ question' = [question EXCEPT ![k] = record] /\ operation' = k
               /\ record' = record
      BY <1>0, <3>2
    <3>3. CASE AskApproval(k) /\ operation = k /\ record' = question'[k]
      <4>1. operation' \in {None, k} BY <3>3 DEF AskApproval, LeaveSession
      <4>2. QED BY <3>3, <4>1
    <3>4. CASE record' = 0 BY <3>4
    <3>5. CASE AskApproval(k) /\ operation = k /\ record # 0 /\ record' = record
               /\ question' = question
      <4>1. operation' \in {None, k} BY <3>5 DEF AskApproval, LeaveSession
      <4>2. QED BY <3>5, <4>1 DEF RecordInv
    <3>6. QED BY <1>0, <1>3, <3>1, <3>2, <3>3, <3>4, <3>5, WorkerQuestion
  <2>2. ASSUME NEW j \in Attempts, worker'[j] \in {"resolved_yes", "resolved_no", "acting"}
        PROVE  record' = 0
    <3>1. CASE j # k
      <4>1. operation = j /\ record = 0
        BY <2>0, <2>2, <3>1 DEF RecordInv, LockHeld, Running, Parked
      <4>2. record' = record BY <1>3, <3>1, <4>1, RecordHolder
      <4>3. QED BY <4>1, <4>2
    <3>2. CASE j = k
      <4>1. CASE Resolve(k) BY <4>1 DEF Resolve
      <4>2. CASE Resume(k)
        <5>1. worker[k] \in {"resolved_yes", "resolved_no"} /\ record' = record
          <6>1. CASE Head(commands[k]) = Close
            BY <2>2, <3>2, <4>2, <6>1, AttemptTypes DEF Resume, LeaveSession
          <6>2. CASE Head(commands[k]) # Close
            BY <2>2, <3>2, <4>2, <6>2, AttemptTypes DEF Resume
          <6>3. QED BY <6>1, <6>2
        <5>2. QED BY <5>1 DEF RecordInv
      <4>3. CASE Start(k) \/ Emit(k) \/ AskApproval(k) \/ Act(k) \/ ObserveCancel(k)
                 \/ EndTurn(k)
        <5>1. worker'[k] \in {"running", "ended", "parked", "asked"}
          BY <4>3, AttemptTypes DEF Start, Emit, AskApproval, Act, ObserveCancel, EndTurn,
             LeaveSession
        <5>2. QED BY <2>2, <3>2, <5>1
      <4>4. QED BY <1>3, <4>1, <4>2, <4>3 DEF Worker
    <3>3. QED BY <3>1, <3>2
  <2>3. ASSUME NEW j \in Attempts, worker'[j] \in {"none", "starting"} PROVE question'[j] = 0
    <3>1. worker'[k] \notin {"none", "starting"}
      BY <1>3, WorkerLock, ActiveStages DEF Running
    <3>2. j # k BY <2>3, <3>1
    <3>3. QED BY <2>0, <2>3, <3>2 DEF RecordInv
  <2>4. QED BY <2>1, <2>2, <2>3 DEF RecordInv
<1>4. CASE Post \/ (\E p \in posted : SubmitApproval(p)) BY <1>1, <1>4, ClientFrame
<1>5. CASE UNCHANGED vars BY <1>1, <1>5 DEF vars, turnVars
<1>6. QED BY <1>2, <1>3, <1>4, <1>5 DEF Next

LEMMA NextFirstStart ==
  ASSUME TypeInv, NewIsIdle, LockHeld, RecordInv, FirstStart, [Next]_vars
  PROVE  FirstStart'
<1>0. 1 \in Attempts /\ None \notin Attempts BY ApprovalsAssumption DEF Attempts
<1>1. CASE UNCHANGED <<operation, record, acted, worker>> BY <1>1 DEF FirstStart
<1>2. ASSUME NEW k \in Attempts, Begin(k) \/ Coroutine(k) \/ Leave(k) PROVE FirstStart'
  <2>1. UNCHANGED <<operation, record, acted>> BY <1>2, CoroutineFrame
  <2>2. worker'[1] \in {"none", "starting"} => worker[1] \in {"none", "starting"}
    <3>1. CASE ~Begin(k) BY <1>2, <3>1, CoroutineFrame
    <3>2. CASE Begin(k) /\ k # 1 BY <1>0, <3>2, Frame
    <3>3. CASE Begin(k) /\ k = 1 BY <3>3 DEF Begin, NewIsIdle
    <3>4. QED BY <3>1, <3>2, <3>3
  <2>3. QED BY <2>1, <2>2 DEF FirstStart
<1>3. ASSUME NEW k \in Attempts, Worker(k) PROVE FirstStart'
  <2>1. SUFFICES ASSUME worker'[1] \in {"none", "starting"}
        PROVE record' = 0 /\ operation' = None /\ acted' = {}
    BY DEF FirstStart
  <2>2. worker'[k] \notin {"none", "starting"}
    BY <1>3, WorkerLock, ActiveStages DEF Running
  <2>3. k # 1 /\ worker[1] = worker'[1] BY <1>0, <1>3, <2>1, <2>2, Frame
  <2>4. record = 0 /\ operation = None /\ acted = {} BY <2>1, <2>3 DEF FirstStart
  <2>5. Start(k) BY <1>0, <1>3, <2>4, RecordHolder
  <2>6. UNCHANGED <<record, operation, acted>> BY <2>3, <2>4, <2>5 DEF Start
  <2>7. QED BY <2>4, <2>6
<1>4. CASE Post \/ (\E p \in posted : SubmitApproval(p)) BY <1>1, <1>4, ClientFrame
<1>5. CASE UNCHANGED vars BY <1>1, <1>5 DEF vars, turnVars
<1>6. QED BY <1>2, <1>3, <1>4, <1>5 DEF Next

\* An attempt that is past its question stays so until it asks the next one.
LEMMA WorkerKeepsPast ==
  ASSUME TypeInv, NewIsIdle, LockHeld, RecordInv, NEW k \in Attempts, NEW j \in Attempts,
         Worker(k), Past(j), question'[j] = question[j]
  PROVE  Past(j)'
<1>0. UNCHANGED <<pc, answer>> BY WorkerFrame
<1>1. CASE j # k
  <2>1. UNCHANGED <<worker[j], commands[j]>> BY <1>1, Frame
  <2>2. worker[j] \in Running \cup Parked => record' = record
    BY <1>1, RecordHolder DEF LockHeld
  <2>3. QED BY <1>0, <2>1, <2>2 DEF Past, Running, Parked
<1>2. CASE j = k
  <2>1. CASE worker'[k] = "ended" BY <1>2, <2>1 DEF Past
  <2>2. CASE Start(k) BY <1>2, <2>2 DEF Start, Past
  <2>3. CASE Emit(k) \/ ObserveCancel(k) \/ Act(k)
    <3>1. worker[k] \in {"running", "acting"} /\ record' = record
          /\ worker'[k] \in {"running", "parked"}
      BY <2>3, AttemptTypes DEF Emit, ObserveCancel, Act
    <3>2. record = 0 BY <1>2, <3>1 DEF Past
    <3>3. QED BY <1>2, <3>1, <3>2 DEF Past
  <2>4. CASE AskApproval(k)
    <3>1. worker[k] = "running" /\ record = 0 BY <1>2, <2>4 DEF AskApproval, Past
    <3>2. question' = [question EXCEPT ![k] = question[k] + 1]
      BY <2>4, <3>1 DEF AskApproval
    <3>3. question[k] \in Nat
      <4>1. question[k] \in Questions \cup {0} BY AttemptTypes
      <4>2. QED BY <4>1, QuestionNumbers
    <3>4. question'[k] = question[k] + 1 BY <3>2, AttemptTypes
    <3>5. QED BY <1>2, <3>3, <3>4
  <2>5. CASE Resume(k) /\ worker'[k] # "ended"
    <3>1. Head(commands[k]) # Close /\ record' = record /\ worker[k] \in Parked
      BY <2>5, AttemptTypes DEF Resume, LeaveSession
    <3>2. CASE worker[k] = "asked"
      <4>1. worker'[k] \in {"granted", "declined"} BY <2>5, <3>1, <3>2, AttemptTypes DEF Resume
      <4>2. QED BY <1>2, <4>1 DEF Past
    <3>3. CASE worker[k] # "asked"
      <4>1. record = 0 BY <1>2, <3>1, <3>3 DEF Past, Parked
      <4>2. worker'[k] \in {"acting", "running"} BY <2>5, <3>1, <3>3, AttemptTypes DEF Resume
      <4>3. QED BY <1>2, <3>1, <4>1, <4>2 DEF Past
    <3>4. QED BY <3>2, <3>3
  <2>6. CASE Resolve(k) /\ worker'[k] # "ended"
    <3>1. record' = 0 BY <2>6 DEF Resolve
    <3>2. worker'[k] \in {"resolved_yes", "resolved_no"}
      BY <2>6, AttemptTypes DEF Resolve, LeaveSession
    <3>3. QED BY <1>2, <3>1, <3>2 DEF Past
  <2>7. CASE EndTurn(k)
    BY <2>1, <2>7, AttemptTypes DEF EndTurn, LeaveSession
  <2>8. QED BY <2>1, <2>2, <2>3, <2>4, <2>5, <2>6, <2>7 DEF Worker
<1>3. QED BY <1>1, <1>2

\* Nobody else takes the answer of a coroutine that waits.
LEMMA WaitingKeepsAnswer ==
  ASSUME TypeInv, WaitingIsRegistered, NEW k \in Attempts, NEW j \in Attempts, j # k,
         Begin(k) \/ Coroutine(k) \/ Leave(k), pc[j] = "waiting"
  PROVE  answer'[event[j].question] = answer[event[j].question]
<1>1. /\ event[j].question \in Questions /\ broker[event[j].question] = j
  BY AttemptTypes, AskItems DEF TypeInv, WaitingIsRegistered
<1>2. j # None BY ActiveStages
<1>3. CASE Unregister(k) BY <1>1, <1>2, <1>3 DEF Unregister
<1>4. CASE ~Unregister(k)
  <2>1. \/ answer' = answer
        \/ \E r \in Questions : broker[r] = None /\ answer' = [answer EXCEPT ![r] = "open"]
    BY <1>4, BrokerSteps
  <2>2. answer \in [Questions -> Verdicts \cup {"open", "none"}] BY DEF TypeInv, TypeOK
  <2>3. QED BY <1>1, <1>2, <2>1, <2>2
<1>5. QED BY <1>3, <1>4

LEMMA CoroutineKeepsPast ==
  ASSUME TypeInv, NewIsIdle, BridgeShape, WaitingIsRegistered,
         NEW k \in Attempts, NEW j \in Attempts,
         Begin(k) \/ Coroutine(k) \/ Leave(k), Past(j)
  PROVE  Past(j)'
<1>0. question' = question /\ record' = record BY CoroutineFrame
<1>1. CASE j # k
  <2>1. UNCHANGED <<worker[j], pc[j], commands[j]>> BY <1>1, Frame
  <2>2. pc[j] = "waiting" /\ worker[j] = "asked" => answer'[question[j]] = answer[question[j]]
    <3>1. SUFFICES ASSUME pc[j] = "waiting" PROVE answer'[question[j]] = answer[question[j]]
      OBVIOUS
    <3>2. event[j].question = question[j]
      BY <3>1, HandledEvent DEF TypeInv, Served, InLock
    <3>3. QED BY <1>1, <3>1, <3>2, WaitingKeepsAnswer
  <2>3. QED BY <1>0, <2>1, <2>2 DEF Past
<1>2. CASE j = k /\ Begin(k)
  BY <1>2 DEF Begin, NewIsIdle, Past
<1>3. CASE j = k /\ ~Begin(k)
  <2>1. worker' = worker BY <1>3, CoroutineFrame
  <2>2. pc[k] \in Served BY <1>3, CoroutinePlaces
  <2>3. CASE worker[k] # "asked" BY <1>0, <1>3, <2>1, <2>3 DEF Past
  <2>4. CASE worker[k] = "asked"
    <3>1. SUFFICES pc'[k] \in Over \/ commands'[k] # <<>>
      BY <1>3, <2>1, <2>4 DEF Past
    <3>2. pc[k] \notin Over BY <2>2 DEF Served, InLock, Leaving, Over
    <3>3. CASE commands[k] # <<>>
      <4>1. pc[k] = "sending" BY <2>2, <3>3, HandledEvent
      <4>2. commands'[k] = commands[k] \/ Disconnect(k)
        BY <1>3, <4>1 DEF Coroutine, Leave, Receive, Send, Proceed, Register, Decide,
           CloseStream, BreakOff, Drop, Leaving
      <4>3. Disconnect(k) => pc'[k] = "gone" BY AttemptTypes DEF Disconnect
      <4>4. QED BY <3>3, <4>2, <4>3 DEF Over
    <3>4. CASE commands[k] = <<>>
      <4>1. pc[k] = "waiting" BY <1>3, <2>4, <3>2, <3>4 DEF Past
      <4>2. Decide(k) \/ Disconnect(k)
        BY <1>3, <4>1 DEF Coroutine, Leave, Receive, Send, Proceed, Register,
           CloseStream, BreakOff, Drop, Leaving
      <4>3. CASE Decide(k)
        <5>1. \E command : commands' = Put(commands, k, command) BY <4>3 DEF Decide
        <5>2. PICK command : commands' = Put(commands, k, command) BY <5>1
        <5>3. commands'[k] = Append(commands[k], command) BY <5>2, AttemptTypes
        <5>4. commands'[k] = <<command>> BY <3>4, <5>3
        <5>5. QED BY <5>4
      <4>4. CASE Disconnect(k) BY <4>4, AttemptTypes DEF Disconnect, Over
      <4>5. QED BY <4>2, <4>3, <4>4
    <3>5. QED BY <3>3, <3>4
  <2>5. QED BY <2>3, <2>4
<1>4. QED BY <1>1, <1>2, <1>3

\* Questions of an attempt are asked in order.
LEMMA QuestionsGrow ==
  ASSUME TypeInv, NewIsIdle, LockHeld, RecordInv, [Next]_vars, NEW j \in Attempts
  PROVE  question[j] <= question'[j] /\ question[j] \in Nat /\ question'[j] \in Nat
<1>0. question[j] \in Nat /\ record \in Nat
  <2>1. question[j] \in Questions \cup {0} /\ record \in Questions \cup {0}
    BY AttemptTypes DEF TypeInv, TypeOK
  <2>2. QED BY <2>1, QuestionNumbers
<1>1. CASE question'[j] = question[j] BY <1>0, <1>1
<1>2. ASSUME NEW k \in Attempts, Worker(k), k = j
      PROVE  question[j] <= question'[j] /\ question'[j] \in Nat
  <2>1. CASE question' = question BY <1>0, <1>2, <2>1
  <2>2. CASE question' = [question EXCEPT ![k] = record] /\ question[k] = 0
    <3>1. question'[k] = record BY <2>2, AttemptTypes
    <3>2. QED BY <1>0, <1>2, <2>2, <3>1
  <2>3. CASE question' = [question EXCEPT ![k] = question[k] + 1]
    <3>1. question'[k] = question[k] + 1 BY <2>3, AttemptTypes
    <3>2. QED BY <1>0, <1>2, <3>1
  <2>4. QED BY <1>2, <2>1, <2>2, <2>3, WorkerQuestion
<1>3. ASSUME NEW k \in Attempts, Worker(k), k # j PROVE question'[j] = question[j]
  BY <1>3, Frame
<1>4. QED BY <1>0, <1>1, <1>2, <1>3, CoroutineFrame, ClientFrame DEF Next, vars, turnVars

\* An answer that is accepted finds its question open.
LEMMA AcceptedAtQuestion ==
  ASSUME TypeInv, BridgeShape, RegisteredIsWaiting, NEW q \in Questions, broker[q] # None
  PROVE  LET k == broker[q] IN
         /\ k \in Attempts /\ pc[k] = "waiting" /\ event[k] = Ask(q) /\ event[k].question = q
         /\ worker[k] = "asked" /\ question[k] = q /\ commands[k] = <<>>
<1> DEFINE k == broker[q]
<1>1. k \in Attempts /\ pc[k] = "waiting" /\ event[k] = Ask(q)
  BY DEF TypeInv, TypeOK, RegisteredIsWaiting
<1>2. event[k].kind = "ask" /\ event[k].question = q BY <1>1, ItemNames
<1>3. pc[k] \in Served \ {"sending"} BY <1>1 DEF Served, InLock
<1>4. QED BY <1>1, <1>2, <1>3, HandledEvent

LEMMA NextAcceptedIsPast ==
  ASSUME TypeInv, NewIsIdle, LockHeld, BridgeShape, RecordInv, RegisteredIsWaiting,
         WaitingIsRegistered, AcceptedIsPast, OneAnswerEach, [Next]_vars
  PROVE  AcceptedIsPast' /\ OneAnswerEach'
<1>0. accepted \subseteq Attempts \X Answers /\ \A p \in Answers : p.question \in Questions
  BY DEF TypeInv, TypeOK, Answers
<1>1. ASSUME NEW a \in accepted,
             \A j \in Attempts : Past(j) /\ question'[j] = question[j] => Past(j)'
      PROVE  /\ a[2].question <= question'[a[1]]
             /\ a[2].question = question'[a[1]] => Past(a[1])'
  <2>1. a[1] \in Attempts /\ a[2].question \in Questions BY <1>0
  <2>2. a[2].question \in Nat BY <2>1, QuestionNumbers
  <2>3. /\ question[a[1]] <= question'[a[1]]
        /\ question[a[1]] \in Nat /\ question'[a[1]] \in Nat
    BY <2>1, QuestionsGrow
  <2>4. a[2].question <= question[a[1]] /\ (a[2].question = question[a[1]] => Past(a[1]))
    BY DEF AcceptedIsPast
  <2>5. QED BY <1>1, <2>1, <2>2, <2>3, <2>4
<1>2. ASSUME accepted' = accepted,
             \A j \in Attempts : Past(j) /\ question'[j] = question[j] => Past(j)'
      PROVE  AcceptedIsPast' /\ OneAnswerEach'
  BY <1>1, <1>2 DEF AcceptedIsPast, OneAnswerEach
<1>3. ASSUME NEW k \in Attempts, Begin(k) \/ Coroutine(k) \/ Leave(k)
      PROVE  AcceptedIsPast' /\ OneAnswerEach'
  BY <1>2, <1>3, CoroutineKeepsPast, CoroutineFrame
<1>4. ASSUME NEW k \in Attempts, Worker(k) PROVE AcceptedIsPast' /\ OneAnswerEach'
  BY <1>2, <1>4, WorkerKeepsPast, WorkerFrame
<1>5. CASE UNCHANGED vars
  BY <1>2, <1>5 DEF vars, coroutineVars, bridgeVars, turnVars, brokerVars, clientVars, Past
<1>6. CASE Post
  BY <1>2, <1>6 DEF Post, coroutineVars, bridgeVars, turnVars, brokerVars, Past
<1>7. ASSUME NEW p \in posted, SubmitApproval(p) PROVE AcceptedIsPast' /\ OneAnswerEach'
  <2>0. /\ p \in Answers /\ p.question \in Questions /\ p.verdict \in Verdicts
        /\ answer \in [Questions -> Verdicts \cup {"open", "none"}]
        /\ UNCHANGED <<pc, commands, worker, question, record>>
    BY <1>7, ClientFrame DEF TypeInv, TypeOK, Answers
  <2>1. CASE ~(broker[p.question] # None /\ answer[p.question] = "open")
    <3>1. UNCHANGED <<answer, accepted>> BY <1>7, <2>1 DEF SubmitApproval
    <3>2. QED BY <1>2, <2>0, <3>1 DEF Past
  <2>2. CASE broker[p.question] # None /\ answer[p.question] = "open"
    <3>0. PICK k \in Attempts : k = broker[p.question]
      BY <2>0, <2>2 DEF TypeInv, TypeOK
    <3>1. /\ answer' = [answer EXCEPT ![p.question] = p.verdict]
          /\ accepted' = accepted \cup {<<k, p>>}
      BY <1>7, <2>2, <3>0 DEF SubmitApproval
    <3>2. /\ pc[k] = "waiting" /\ worker[k] = "asked"
          /\ question[k] = p.question /\ commands[k] = <<>>
      BY <2>0, <2>2, <3>0, AcceptedAtQuestion
    <3>3. \A q \in Questions : answer[q] \in Verdicts => answer'[q] \in Verdicts
      BY <2>0, <3>1
    <3>4. Past(k)' /\ ~Past(k)
      <4>1. answer'[p.question] \in Verdicts /\ answer[p.question] \notin Verdicts
        BY <2>0, <2>2, <3>1 DEF Verdicts
      <4>2. QED BY <2>0, <3>2, <4>1 DEF Past, Over
    <3>5. \A j \in Attempts : Past(j) => Past(j)'
      <4>1. SUFFICES ASSUME NEW j \in Attempts, Past(j) PROVE Past(j)'
        OBVIOUS
      <4>2. worker[j] = "asked" => question[j] \in Questions BY DEF TypeInv, AtQuestion
      <4>3. QED BY <2>0, <3>3, <4>1, <4>2 DEF Past
    <3>6. \A a \in accepted : a[1] = k => a[2].question # p.question
      BY <3>2, <3>4 DEF AcceptedIsPast
    <3>7. p.question \in Nat BY <2>0, QuestionNumbers
    <3>8. AcceptedIsPast'
      <4>1. SUFFICES ASSUME NEW a \in accepted'
            PROVE /\ a[2].question <= question'[a[1]]
                  /\ a[2].question = question'[a[1]] => Past(a[1])'
        BY DEF AcceptedIsPast
      <4>2. CASE a \in accepted BY <1>1, <3>5, <4>2
      <4>3. CASE a = <<k, p>> BY <2>0, <3>2, <3>4, <3>7, <4>3
      <4>4. QED BY <3>1, <4>1, <4>2, <4>3
    <3>9. OneAnswerEach' BY <3>1, <3>6 DEF OneAnswerEach
    <3>10. QED BY <3>8, <3>9
  <2>3. QED BY <2>1, <2>2
<1>8. QED BY <1>3, <1>4, <1>5, <1>6, <1>7 DEF Next

LEMMA NextActedIsBehind ==
  ASSUME TypeInv, NewIsIdle, LockHeld, RecordInv, FirstStart, ActedIsBehind, ActedOnce,
         [Next]_vars
  PROVE  ActedIsBehind' /\ ActedOnce'
<1>0. /\ acted \subseteq Attempts \X Questions /\ \A a \in acted : a[2] \in Nat
      /\ None \notin Attempts /\ record \in Nat /\ \A j \in Attempts : question[j] \in Nat
      /\ operation \in Attempts \cup {None}
  <2>1. acted \subseteq Attempts \X Questions BY DEF TypeInv, TypeOK
  <2>2. \A a \in acted : a[2] \in Questions BY <2>1
  <2>3. record \in Questions \cup {0} /\ \A j \in Attempts : question[j] \in Questions \cup {0}
    BY AttemptTypes DEF TypeInv, TypeOK
  <2>4. QED BY <2>1, <2>2, <2>3, QuestionNumbers, ActiveStages DEF TypeInv, TypeOK
<1>1. CASE UNCHANGED <<operation, record, question, acted>>
  BY <1>1 DEF ActedIsBehind, ActedOnce
<1>2. ASSUME NEW k \in Attempts, Begin(k) \/ Coroutine(k) \/ Leave(k)
      PROVE  ActedIsBehind' /\ ActedOnce'
  BY <1>1, <1>2, CoroutineFrame
<1>3. ASSUME NEW k \in Attempts, Worker(k) PROVE ActedIsBehind' /\ ActedOnce'
  <2>1. CASE Act(k)
    <3>1. /\ acted' = acted \cup {<<k, question[k]>>}
          /\ UNCHANGED <<operation, record, question>> /\ worker[k] = "acting"
      BY <2>1 DEF Act
    <3>2. operation = k /\ record = 0 BY <3>1 DEF LockHeld, RecordInv, Running
    <3>3. \A a \in acted : a[2] < question[k] \/ a = <<k, question[k]>>
      BY <1>0, <3>2 DEF ActedIsBehind
    <3>4. ActedIsBehind' BY <3>1, <3>2, <3>3 DEF ActedIsBehind
    <3>5. \A a \in acted : a[2] = question[k] => a = <<k, question[k]>> BY <1>0, <3>3
    <3>6. ActedOnce' BY <3>1, <3>5 DEF ActedOnce
    <3>7. QED BY <3>4, <3>6
  <2>2. CASE ~Act(k)
    <3>1. acted' = acted
      BY <1>3, <2>2 DEF Worker, Start, Emit, AskApproval, Resume, Resolve, ObserveCancel, EndTurn
    <3>2. ActedOnce' BY <3>1 DEF ActedOnce
    <3>3. operation' \in {None, operation} \/ (Start(k) /\ operation' = k)
      BY <1>3, WorkerLock DEF Worker, Emit, AskApproval, Resume, Resolve, Act, ObserveCancel,
         EndTurn, LeaveSession
    <3>4. ActedIsBehind'
      <4>1. SUFFICES ASSUME NEW a \in acted
            PROVE /\ record' # 0 => a[2] < record'
                  /\ operation' # None =>
                       a[2] < question'[operation'] \/ a = <<operation', question'[operation']>>
        BY <3>1 DEF ActedIsBehind
      <4>2. /\ record # 0 => a[2] < record
            /\ operation # None => a[2] < question[operation] \/ a = <<operation, question[operation]>>
        BY DEF ActedIsBehind
      <4>3. CASE UNCHANGED <<record, question>>
        <5>1. CASE operation' \in {None, operation} BY <4>2, <4>3, <5>1
        <5>2. CASE Start(k) /\ operation' = k /\ operation' \notin {None, operation}
          <6>1. operation = None /\ ((k = 1) <=> (record = 0)) /\ worker[k] = "starting"
                /\ question' = [question EXCEPT ![k] = record]
            BY <5>2 DEF Start
          <6>2. record # 0 BY <6>1 DEF FirstStart
          <6>3. question'[k] = record BY <6>1, AttemptTypes
          <6>4. QED BY <4>2, <4>3, <5>2, <6>2, <6>3
        <5>3. QED BY <3>3, <5>1, <5>2
      <4>4. CASE /\ Start(k) /\ record' = record /\ operation = None /\ operation' = k
                 /\ k = 1 \/ record # 0
                 /\ question' = [question EXCEPT ![k] = record]
        <5>1. record # 0 BY <4>4 DEF FirstStart, Start
        <5>2. question'[k] = record BY <4>4, AttemptTypes
        <5>3. QED BY <4>2, <4>4, <5>1, <5>2
      <4>5. CASE /\ AskApproval(k) /\ operation = k /\ record' = question[k] + 1
                 /\ question' = [question EXCEPT ![k] = question[k] + 1]
        <5>1. a[2] \in Nat /\ question[k] \in Nat BY <1>0
        <5>2. a[2] <= question[k] BY <1>0, <4>2, <4>5, <5>1
        <5>3. question'[k] = question[k] + 1 BY <4>5, AttemptTypes
        <5>4. operation' \in {None, k} BY <4>5 DEF AskApproval, LeaveSession
        <5>5. QED BY <4>5, <5>1, <5>2, <5>3, <5>4
      <4>6. CASE Resolve(k) /\ record' = 0 /\ question' = question
        <5>1. operation' \in {None, operation} BY <4>6 DEF Resolve, LeaveSession
        <5>2. QED BY <4>2, <4>6, <5>1
      <4>7. QED BY <1>3, <4>3, <4>4, <4>5, <4>6, WorkerQuestion
    <3>5. QED BY <3>2, <3>4
  <2>3. QED BY <2>1, <2>2
<1>4. CASE Post \/ (\E p \in posted : SubmitApproval(p)) BY <1>1, <1>4, ClientFrame
<1>5. CASE UNCHANGED vars BY <1>1, <1>5 DEF vars, turnVars
<1>6. QED BY <1>2, <1>3, <1>4, <1>5 DEF Next

-------------------------------------------------------------------------------
\* Previews.

AnyFinished ==
  \E k \in Attempts : pc[k] = "done" \/ (pc[k] = "sending" /\ outputs[k] = <<Finish>>)

LEMMA NextFinished ==
  ASSUME TypeInv, NewIsIdle, LockHeld, BridgeShape, FirstStart, FinishedIsOver, [Next]_vars
  PROVE  FinishedIsOver'
<1> USE DEF AnyFinished
<1>0. /\ 1 \in Attempts /\ None \notin Attempts
      /\ AnyFinished => record = 0 /\ operation = None /\ worker[1] \notin {"none", "starting"}
  BY ApprovalsAssumption DEF Attempts, FinishedIsOver
<1>1. CASE UNCHANGED <<pc, outputs, record, operation, worker>> BY <1>1 DEF FinishedIsOver
<1>2. ASSUME NEW k \in Attempts, Begin(k) PROVE FinishedIsOver'
  <2>1. pc'[k] = "sending" /\ outputs'[k] = <<>> /\ pc[k] = "new"
    BY <1>2, AttemptTypes DEF Begin, NewIsIdle, bridgeVars
  <2>2. \A j \in Attempts : j # k => pc'[j] = pc[j] /\ outputs'[j] = outputs[j]
    BY <1>2, Frame
  <2>3. AnyFinished' => AnyFinished BY <2>1, <2>2
  <2>4. AnyFinished => worker'[1] = worker[1]
    BY <1>0, <1>2, <2>1, Frame DEF NewIsIdle
  <2>5. UNCHANGED <<record, operation>> BY <1>2, CoroutineFrame
  <2>6. QED BY <1>0, <2>3, <2>4, <2>5 DEF FinishedIsOver
<1>3. ASSUME NEW k \in Attempts, Coroutine(k) \/ Leave(k) PROVE FinishedIsOver'
  <2>1. UNCHANGED <<record, operation, worker>> /\ pc[k] \in Served
    BY <1>3, CoroutineFrame, CoroutinePlaces DEF Begin, Served, InLock, Leaving
  <2>2. \A j \in Attempts : j # k => pc'[j] = pc[j] /\ outputs'[j] = outputs[j]
    BY <1>3, Frame
  <2>3. pc'[k] = "done" => AnyFinished
    <3>1. SUFFICES ASSUME pc'[k] = "done" PROVE outputs[k] = <<Finish>> /\ pc[k] = "sending"
      OBVIOUS
    <3>2. Receive(k)
      BY <1>3, <3>1, AttemptTypes DEF Coroutine, Leave, Send, Proceed, Register, Decide,
         CloseStream, Disconnect, BreakOff, Drop
    <3>3. Head(outputs[k]) = Finish
      <4>1. CASE Head(outputs[k]) = Error
        BY <3>1, <3>2, <4>1, AttemptTypes, ItemNames DEF Receive
      <4>2. CASE Head(outputs[k]) \notin {Finish, Error}
        BY <3>1, <3>2, <4>2, AttemptTypes DEF Receive
      <4>3. QED BY <4>1, <4>2
    <3>4. ItemMoves(k)
      BY <2>1, <3>2, ServedHasShape DEF Shape, Receive, WorkerMoves, EventHandled, CommandMoves
    <3>5. QED BY <3>3, <3>4, Singletons DEF ItemMoves
  <2>4. pc'[k] = "sending" => outputs'[k] = <<>>
    <3>1. SUFFICES ASSUME pc'[k] = "sending" PROVE outputs'[k] = <<>>
      OBVIOUS
    <3>2. CASE Proceed(k) \/ Decide(k)
      <4>1. pc[k] \in Served \ {"sending"} /\ outputs' = outputs
        BY <2>1, <3>2 DEF Proceed, Decide
      <4>2. QED BY <4>1, HandledEvent
    <3>3. CASE Receive(k)
      <4>1. CASE Head(outputs[k]) = Finish
        BY <3>1, <3>3, <4>1, AttemptTypes, ItemNames DEF Receive
      <4>2. CASE Head(outputs[k]) = Error
        BY <3>1, <3>3, <4>2, AttemptTypes, ItemNames DEF Receive
      <4>3. CASE Head(outputs[k]) \notin {Finish, Error}
        BY <3>1, <3>3, <4>3, AttemptTypes DEF Receive
      <4>4. QED BY <4>1, <4>2, <4>3
    <3>4. CASE Register(k)
      <4>1. pc'[k] \in {"waiting", "erring"} BY <3>4, AttemptTypes DEF Register
      <4>2. QED BY <3>1, <4>1
    <3>5. QED BY <1>3, <3>1, <3>2, <3>3, <3>4, AttemptTypes
              DEF Coroutine, Leave, Send, CloseStream, Disconnect, BreakOff, Drop
  <2>5. AnyFinished' => AnyFinished BY <2>2, <2>3, <2>4
  <2>6. QED BY <1>0, <2>1, <2>5 DEF FinishedIsOver
<1>4. ASSUME NEW k \in Attempts, Worker(k) PROVE FinishedIsOver'
  <2>0. pc' = pc /\ \A j \in Attempts : j # k => outputs'[j] = outputs[j] /\ worker'[j] = worker[j]
    BY <1>4, Frame, WorkerFrame
  <2>1. CASE AnyFinished
    <3>1. record = 0 /\ operation = None /\ worker[1] \notin {"none", "starting"}
      BY <1>0, <2>1
    <3>2. Start(k) /\ worker[k] = "starting" BY <1>0, <1>4, <3>1, RecordHolder
    <3>3. k # 1 BY <3>1, <3>2
    <3>4. UNCHANGED <<record, operation>> /\ worker'[1] = worker[1]
      BY <1>0, <2>0, <3>1, <3>2, <3>3 DEF Start
    <3>5. QED BY <3>1, <3>4 DEF FinishedIsOver
  <2>2. CASE ~AnyFinished
    <3>1. SUFFICES ASSUME AnyFinished'
          PROVE record' = 0 /\ operation' = None /\ worker'[1] \notin {"none", "starting"}
      BY DEF FinishedIsOver
    <3>2. pc[k] = "sending" /\ outputs'[k] = <<Finish>> /\ outputs[k] # <<Finish>>
      BY <2>0, <2>2, <3>1
    <3>3. outputs' # outputs BY <3>2
    <3>4. worker[k] \in Running \cup {"starting"}
      BY <1>4, <3>3 DEF Worker, Start, Emit, AskApproval, Resume, Resolve, Act, ObserveCancel,
         EndTurn, Running
    <3>5. outputs[k] = <<>>
      <4>1. pc[k] \in Served BY <3>2 DEF Served, InLock
      <4>2. QED BY <3>4, <4>1, ServedHasShape, QuietBridge DEF WorkerMoves
    <3>6. \A item \in Items : outputs' = Put(outputs, k, item) => item = Finish
      <4>1. SUFFICES ASSUME NEW item \in Items, outputs' = Put(outputs, k, item)
            PROVE item = Finish
        OBVIOUS
      <4>2. outputs'[k] = <<item>> BY <3>5, <4>1, AttemptTypes, Singletons
      <4>3. QED BY <3>2, <4>2
    <3>7. ~Publish(k, Error) /\ ~Publish(k, Plain) /\ \A q \in Questions : ~Publish(k, Ask(q))
      BY <3>6, NewItems, ItemNames
    <3>8. EndTurn(k) /\ record = 0
      BY <1>4, <3>3, <3>7 DEF Worker, Start, Emit, AskApproval, Resume, Resolve, Act,
         ObserveCancel, EndTurn, bridgeVars
    <3>9. record' = 0 /\ operation' = None /\ worker'[k] = "ended" /\ operation = k
      BY <3>8, AttemptTypes DEF EndTurn, LeaveSession, LockHeld, Running
    <3>10. worker[1] \notin {"none", "starting"} BY <1>0, <3>9 DEF FirstStart
    <3>11. QED BY <1>0, <2>0, <3>9, <3>10
  <2>3. QED BY <2>1, <2>2
<1>5. CASE Post \/ (\E p \in posted : SubmitApproval(p)) BY <1>1, <1>5, ClientFrame
<1>6. CASE UNCHANGED vars BY <1>1, <1>6 DEF vars, coroutineVars, bridgeVars, turnVars
<1>7. QED BY <1>2, <1>3, <1>4, <1>5, <1>6 DEF Next

LEMMA PlacesGoOn ==
  ASSUME TypeInv, [Next]_vars, NEW j \in Attempts
  PROVE  /\ pc[j] # "new" => pc'[j] # "new"
         /\ pc[j] \in {"gone", "failed"} => pc'[j] = pc[j]
<1>1. ASSUME NEW k \in Attempts, Begin(k)
      PROVE  \/ pc'[j] # "new" /\ (pc[j] \in {"gone", "failed"} => pc'[j] = pc[j])
             \/ pc'[j] = pc[j]
  <2>1. CASE j = k BY <1>1, <2>1, AttemptTypes DEF Begin
  <2>2. CASE j # k BY <1>1, <2>2, Frame
  <2>3. QED BY <2>1, <2>2
<1>2. ASSUME NEW k \in Attempts, Coroutine(k) \/ Leave(k)
      PROVE  \/ pc'[j] # "new" /\ (pc[j] \in {"gone", "failed"} => pc'[j] = pc[j])
             \/ pc'[j] = pc[j]
  <2>1. CASE j = k BY <1>2, <2>1, CoroutinePlaces DEF Served, InLock, Leaving
  <2>2. CASE j # k BY <1>2, <2>2, Frame
  <2>3. QED BY <2>1, <2>2
<1>3. ASSUME NEW k \in Attempts, Worker(k) PROVE pc' = pc BY <1>3, WorkerFrame
<1>4. QED BY <1>1, <1>2, <1>3, ClientFrame DEF Next, vars, coroutineVars

LEMMA NextPreview ==
  ASSUME TypeInv, NewIsIdle, PreviewInv, [Next]_vars
  PROVE  PreviewInv' /\ shown \subseteq shown'
<1> USE DEF PreviewInv
<1>0. shown \subseteq Attempts \X Questions BY DEF TypeInv, TypeOK
<1>1. ASSUME shown' = shown, posted' = posted,
             \A j \in Attempts, q \in Questions :
               pc'[j] \in {"chunk", "waiting"} /\ event'[j] = Ask(q) =>
                 pc[j] \in {"chunk", "waiting"} /\ event[j] = Ask(q)
      PROVE  PreviewInv' /\ shown \subseteq shown'
  BY <1>0, <1>1, PlacesGoOn
<1>2. ASSUME NEW k \in Attempts, Send(k) PROVE PreviewInv' /\ shown \subseteq shown'
  <2>1. pc' = [pc EXCEPT ![k] = "chunk"] /\ event' = event /\ posted' = posted
    BY <1>2 DEF Send
  <2>2. /\ shown' = IF event[k].kind = "ask" THEN shown \cup {<<k, event[k].question>>} ELSE shown
        /\ shown \subseteq shown'
    BY <1>2 DEF Send
  <2>3. \A s \in shown' : s \in shown \/ s[1] = k BY <2>2
  <2>4. \A s \in shown' : pc'[s[1]] # "new"
    <3>1. SUFFICES ASSUME NEW s \in shown' PROVE pc'[s[1]] # "new"
      OBVIOUS
    <3>2. CASE s \in shown
      <4>1. pc[s[1]] # "new" /\ s[1] \in Attempts BY <1>0, <3>2
      <4>2. QED BY <4>1, PlacesGoOn
    <3>3. CASE s[1] = k BY <2>1, <3>3, AttemptTypes
    <3>4. QED BY <2>3, <3>2, <3>3
  <2>5. ASSUME NEW j \in Attempts, NEW q \in Questions,
               pc'[j] \in {"chunk", "waiting"} /\ event'[j] = Ask(q)
        PROVE  <<j, q>> \in shown'
    <3>1. CASE j = k
      <4>1. event[k].kind = "ask" /\ event[k].question = q BY <2>1, <2>5, <3>1, ItemNames
      <4>2. QED BY <2>2, <3>1, <4>1
    <3>2. CASE j # k BY <2>1, <2>2, <2>5, <3>2
    <3>3. QED BY <3>1, <3>2
  <2>6. QED BY <2>1, <2>2, <2>4, <2>5
<1>3. ASSUME NEW k \in Attempts, Begin(k) \/ Coroutine(k) \/ Leave(k), ~Send(k)
      PROVE  PreviewInv' /\ shown \subseteq shown'
  <2>1. shown' = shown /\ posted' = posted
    BY <1>3, CoroutineFrame DEF Begin, Coroutine, Leave, Receive, Proceed, Register, Decide,
       CloseStream, Disconnect, BreakOff, Drop, clientVars
  <2>2. pc'[k] \in {"chunk", "waiting"} => pc[k] \in {"chunk", "waiting"} /\ event' = event
    <3>1. CASE Receive(k)
      <4>1. CASE Head(outputs[k]) = Finish BY <3>1, <4>1, AttemptTypes, ItemNames DEF Receive
      <4>2. CASE Head(outputs[k]) = Error BY <3>1, <4>2, AttemptTypes, ItemNames DEF Receive
      <4>3. CASE Head(outputs[k]) \notin {Finish, Error}
        BY <3>1, <4>3, AttemptTypes DEF Receive
      <4>4. QED BY <4>1, <4>2, <4>3
    <3>2. CASE Register(k) BY <3>2 DEF Register
    <3>3. CASE ~Receive(k) /\ ~Register(k)
      BY <1>3, <3>3, AttemptTypes DEF Begin, Coroutine, Leave, Proceed, Decide,
         CloseStream, Disconnect, BreakOff, Drop
    <3>4. QED BY <3>1, <3>2, <3>3
  <2>3. \A j \in Attempts : j # k => pc'[j] = pc[j] /\ event'[j] = event[j] BY <1>3, Frame
  <2>4. QED BY <1>1, <2>1, <2>2, <2>3
<1>4. ASSUME NEW k \in Attempts, Worker(k) PROVE PreviewInv' /\ shown \subseteq shown'
  BY <1>1, <1>4, WorkerFrame
<1>5. CASE Post
  <2>1. UNCHANGED <<shown, pc, event>> BY <1>5, ClientFrame
  <2>2. \A p \in posted' : p \in posted \/ <<p.seen, p.question>> \in shown
    <3>1. PICK s \in shown, v \in Verdicts :
            posted' = posted \cup {[question |-> s[2], seen |-> s[1], verdict |-> v]}
      BY <1>5 DEF Post
    <3>2. <<s[1], s[2]>> \in shown BY <3>1, <1>0
    <3>3. ASSUME NEW p \in posted',
                 p = [question |-> s[2], seen |-> s[1], verdict |-> v]
          PROVE  <<p.seen, p.question>> \in shown
      <4>1. p.seen = s[1] /\ p.question = s[2] BY <3>3
      <4>2. QED BY <3>2, <4>1
    <3>4. \A p \in posted' :
            p \in posted \/ p = [question |-> s[2], seen |-> s[1], verdict |-> v]
      BY <3>1
    <3>5. QED BY <3>3, <3>4
  <2>3. QED BY <2>1, <2>2
<1>6. ASSUME NEW p \in posted, SubmitApproval(p) PROVE PreviewInv' /\ shown \subseteq shown'
  <2>1. UNCHANGED <<shown, pc, event>> /\ posted' \subseteq posted
    BY <1>6, ClientFrame DEF SubmitApproval
  <2>2. QED BY <2>1
<1>7. CASE UNCHANGED vars BY <1>1, <1>7 DEF vars, coroutineVars, clientVars
<1>8. QED BY <1>2, <1>3, <1>4, <1>5, <1>6, <1>7 DEF Next, Coroutine

LEMMA NextAnswersMeetPreviews ==
  ASSUME TypeInv, NewIsIdle, LockHeld, OneInLock, BridgeShape, RegisteredIsWaiting,
         FinishedIsOver, PreviewInv, AnswersMeetPreviews, [Next]_vars
  PROVE  AnswersMeetPreviews'
<1> USE DEF AnswersMeetPreviews, AnswerAfterPreview, OldAnswersComeFromLostAttempts
<1>0. /\ shown \subseteq shown' /\ accepted \subseteq Attempts \X Answers
      /\ posted \subseteq Answers
      /\ \A p \in Answers : p.question \in Questions /\ p.seen \in Attempts
  BY NextPreview DEF TypeInv, TypeOK, Answers
<1>1. ASSUME NEW a \in accepted
      PROVE  /\ <<a[1], a[2].question>> \in shown'
             /\ a[2].seen # a[1] => pc'[a[2].seen] \in {"gone", "failed"}
  <2>1. a[2].seen \in Attempts BY <1>0
  <2>2. QED BY <1>0, <2>1, PlacesGoOn
<1>2. CASE accepted' = accepted BY <1>1, <1>2
<1>3. ASSUME NEW p \in posted, SubmitApproval(p) PROVE AnswersMeetPreviews'
  <2>1. CASE ~(broker[p.question] # None /\ answer[p.question] = "open")
    BY <1>2, <1>3, <2>1 DEF SubmitApproval
  <2>2. CASE broker[p.question] # None /\ answer[p.question] = "open"
    <3>0. p \in Answers /\ p.question \in Questions /\ p.seen \in Attempts BY <1>0
    <3>1. PICK k \in Attempts : k = broker[p.question]
      BY <2>2, <3>0 DEF TypeInv, TypeOK
    <3>2. accepted' = accepted \cup {<<k, p>>} /\ pc' = pc /\ shown' = shown
      BY <1>3, <2>2, <3>1, ClientFrame DEF SubmitApproval
    <3>3. pc[k] = "waiting" /\ event[k] = Ask(p.question) /\ worker[k] = "asked"
      BY <2>2, <3>0, <3>1, AcceptedAtQuestion
    <3>4. <<k, p.question>> \in shown BY <3>0, <3>3 DEF PreviewInv
    <3>5. ASSUME p.seen # k PROVE pc[p.seen] \in {"gone", "failed"}
      <4>1. <<p.seen, p.question>> \in shown BY DEF PreviewInv
      <4>2. pc[p.seen] # "new" BY <4>1 DEF PreviewInv
      <4>3. pc[p.seen] \notin InLock BY <3>0, <3>3, <3>5 DEF OneInLock, InLock
      <4>4. operation = k BY <3>3 DEF LockHeld, Parked
      <4>5. pc[p.seen] \notin Leaving
        <5>1. SUFFICES ASSUME pc[p.seen] \in Leaving PROVE FALSE
          OBVIOUS
        <5>2. worker[p.seen] \in Parked
          BY <3>0, <5>1, HandledEvent DEF Served, Leaving
        <5>3. operation = p.seen BY <3>0, <5>2 DEF LockHeld
        <5>4. QED BY <3>5, <4>4, <5>3
      <4>6. pc[p.seen] # "done" BY <3>0, <4>4, ActiveStages DEF FinishedIsOver
      <4>7. QED BY <3>0, <4>2, <4>3, <4>5, <4>6, AttemptTypes DEF Over
    <3>6. QED BY <1>1, <3>2, <3>4, <3>5
  <2>3. QED BY <2>1, <2>2
<1>4. QED BY <1>2, <1>3, CoroutineFrame, WorkerFrame DEF Next, Post, vars, clientVars

-------------------------------------------------------------------------------
\* The theorems.

LEMMA InitInv == ASSUME Init PROVE IInv
<1> USE DEF Init
<1>1. TypeInv BY InitTypes
<1>2. /\ NewIsIdle /\ OneInLock /\ BridgeShape /\ DecisionInPlace
      /\ RegisteredIsWaiting /\ WaitingIsRegistered
  BY DEF NewIsIdle, OneInLock, BridgeShape, DecisionInPlace, RegisteredIsWaiting,
         WaitingIsRegistered, Served, InLock, Leaving
<1>3. LockHeld BY ActiveStages DEF LockHeld
<1>4. AnswersAccepted /\ ActedOnAnswer
  BY DEF AnswersAccepted, BrokerAccepted, CommandAccepted, WorkerAccepted, ActedOnAnswer
<1>5. RecordInv /\ FirstStart /\ AcceptedIsPast /\ OneAnswerEach /\ ActedIsBehind /\ ActedOnce
  BY DEF RecordInv, FirstStart, AcceptedIsPast, OneAnswerEach, ActedIsBehind, ActedOnce
<1>6. FinishedIsOver /\ PreviewInv /\ AnswersMeetPreviews /\ CancelledWasLeft
  BY DEF FinishedIsOver, PreviewInv, AnswersMeetPreviews, AnswerAfterPreview,
         OldAnswersComeFromLostAttempts, CancelledWasLeft
<1>7. QED BY <1>1, <1>2, <1>3, <1>4, <1>5, <1>6 DEF IInv

LEMMA NextInv == ASSUME IInv, [Next]_vars PROVE IInv'
<1> USE DEF IInv, AnswersAccepted
<1>1. TypeInv' BY NextTypes
<1>2. NewIsIdle' /\ LockHeld' /\ OneInLock' BY NextNewIsIdle, NextLockHeld, NextOneInLock
<1>3. BridgeShape' /\ DecisionInPlace' BY NextBridgeShape, NextDecisionInPlace
<1>4. RegisteredIsWaiting' /\ WaitingIsRegistered' BY NextRegistered, NextWaiting
<1>5. BrokerAccepted' BY NextBrokerAccepted
<1>6. \A k \in Attempts : CommandAccepted(k)' BY NextCommandAccepted
<1>7. \A k \in Attempts : WorkerAccepted(k)' BY NextWorkerAccepted
<1>8. ActedOnAnswer' BY NextActed
<1>9. RecordInv' /\ FirstStart' BY NextRecord, NextFirstStart
<1>10. AcceptedIsPast' /\ OneAnswerEach' BY NextAcceptedIsPast
<1>11. ActedIsBehind' /\ ActedOnce' BY NextActedIsBehind
<1>12. FinishedIsOver' /\ PreviewInv' BY NextFinished, NextPreview
<1>13. AnswersMeetPreviews' BY NextAnswersMeetPreviews
<1>14. CancelledWasLeft' BY NextCancelled
<1>15. QED BY <1>1, <1>2, <1>3, <1>4, <1>5, <1>6, <1>7, <1>8, <1>9, <1>10, <1>11, <1>12,
              <1>13, <1>14

LEMMA InvHolds == Spec => []IInv
BY InitInv, NextInv, PTL DEF Spec

\* The two queues of a bridge never hold more than one thing, and a decision always
\* finds the worker at the question it was given to.
THEOREM BridgesAreInStep == Spec => []BridgeInStep
<1>1. IInv => BridgeInStep BY ShapeIsOneThing DEF IInv, BridgeInStep
<1>2. QED BY <1>1, InvHolds, PTL

\* Whoever is in the broker's table waits for the answer, on every way out.
THEOREM NobodyStaysRegistered == Spec => []RegisteredIsWaiting
<1>1. IInv => RegisteredIsWaiting BY DEF IInv
<1>2. QED BY <1>1, InvHolds, PTL

\* A tool runs on an accepted "yes" to its question in this attempt; a question
\* takes one answer each time it is put, and is acted on in one attempt only.
THEOREM OneUsePerAnswer == Spec => []AnswersAreUsedOnce
<1>1. IInv => AnswersAreUsedOnce BY DEF IInv, AnswersAreUsedOnce
<1>2. QED BY <1>1, InvHolds, PTL

\* An answer is accepted for a preview that is out, and an answer to an earlier
\* preview only when the attempt that sent that one was lost; one is accepted each
\* time a question is put.
THEOREM AnswersFollowPreviews == Spec => []AcceptedFits
<1>1. IInv => AcceptedFits BY DEF IInv, AcceptedFits
<1>2. QED BY <1>1, InvHolds, PTL

\* No attempt cancels the turn of another one that is still served.
THEOREM OnlyLeftTurnsAreCancelled == Spec => []CancelledWasLeft
<1>1. IInv => CancelledWasLeft BY DEF IInv
<1>2. QED BY <1>1, InvHolds, PTL

-------------------------------------------------------------------------------
\* What Permission needs beside IInv.

\* Question q is in the hands of attempt k's coroutine; it was answered in k.
InHand(k, q)     == pc[k] \in {"chunk", "waiting"} /\ event[k] = Ask(q)
AnsweredIn(k, q) == \E p \in Answers : <<k, p>> \in accepted /\ p.question = q

\* A question that was put was answered, unless it is in hand or its client left.
PutIsAnswered ==
  \A s \in shown : s[1] \in Left \/ InHand(s[1], s[2]) \/ AnsweredIn(s[1], s[2])

\* From the question to its resolution there is a record of it.
AskedIsRecorded ==
  \A k \in Attempts : worker[k] \in {"asked", "granted", "declined"} => record = question[k]

\* The turn of a client that left is cancelled, or a close is the next thing it sees.
LeftIsCancelled ==
  \A k \in Attempts : pc[k] = "gone" =>
    \/ worker[k] = "ended"
    \/ worker[k] \in Running \cup Parked /\ token
    \/ worker[k] \in {"starting", "running", "parked", "asked"} /\ commands[k] = <<Close>>

\* An attempt whose stream has ended has no worker.
OverIsEnded == \A k \in Attempts : pc[k] \in {"done", "failed"} => worker[k] = "ended"

RInv == IInv /\ PutIsAnswered /\ AskedIsRecorded /\ LeftIsCancelled /\ OverIsEnded

LEMMA AcceptedGrows ==
  ASSUME TypeInv, [Next]_vars
  PROVE  accepted \subseteq accepted'
<1>1. CASE UNCHANGED vars BY <1>1 DEF vars, clientVars
<1>2. CASE Next
  BY <1>2, CoroutineFrame, WorkerFrame DEF Next, Post, SubmitApproval, clientVars
<1>3. QED BY <1>1, <1>2

LEMMA NextPutIsAnswered ==
  ASSUME IInv, PutIsAnswered, [Next]_vars
  PROVE  PutIsAnswered'
<1> USE DEF PutIsAnswered
<1>0. /\ TypeInv /\ shown \subseteq Attempts \X Questions /\ accepted \subseteq accepted'
      /\ \A s \in shown : pc[s[1]] # "new"
      /\ \A s \in shown : s[1] \in Attempts /\ s[2] \in Questions /\ s = <<s[1], s[2]>>
      /\ \A k \in Attempts : k \in Left <=> pc[k] \in Leaving \cup Over
      /\ \A k \in Attempts : k \in Left' <=> pc'[k] \in Leaving \cup Over
  BY AcceptedGrows DEF IInv, TypeInv, TypeOK, PreviewInv, Left
<1>1. \A k, q : AnsweredIn(k, q) => AnsweredIn(k, q)'
  BY <1>0 DEF AnsweredIn
<1>2. CASE UNCHANGED <<pc, event, shown>>
  BY <1>0, <1>1, <1>2 DEF InHand
<1>3. ASSUME NEW k \in Attempts, Begin(k) \/ Coroutine(k) \/ Leave(k)
      PROVE  PutIsAnswered'
  <2>1. ASSUME NEW s \in shown
        PROVE  s[1] \in Left' \/ InHand(s[1], s[2])' \/ AnsweredIn(s[1], s[2])'
    <3>1. CASE s[1] # k
      <4>1. pc'[s[1]] = pc[s[1]] /\ event'[s[1]] = event[s[1]]
        BY <1>0, <1>3, <3>1, Frame
      <4>2. QED BY <1>0, <1>1, <4>1 DEF InHand
    <3>2. CASE s[1] = k
      <4>1. Coroutine(k) \/ Leave(k)
        BY <1>0, <1>3, <3>2 DEF Begin
      <4>2. CASE k \in Left
        <5>1. pc[k] \notin InLock /\ pc'[k] \in Served \cup Over /\ (pc'[k] \in InLock => pc[k] \in InLock)
          BY <1>0, <4>1, <4>2, CoroutinePlaces DEF InLock, Leaving, Over
        <5>2. QED BY <1>0, <3>2, <5>1 DEF Served
      <4>3. CASE InHand(k, s[2])
        <5>1. event[k] = Ask(s[2]) /\ event[k] # Plain /\ event[k].question = s[2]
          BY <1>0, <4>3, ItemNames DEF InHand
        <5>2. CASE Register(k)
          <6>1. event' = event /\ pc'[k] \in {"waiting", "erring"}
            BY <1>0, <5>2, AttemptTypes DEF Register
          <6>2. QED BY <1>0, <3>2, <5>1, <6>1 DEF InHand, Leaving
        <5>3. CASE Decide(k)
          <6>1. pc[k] = "waiting" /\ answer[s[2]] \in Verdicts
            BY <5>1, <5>3 DEF Decide
          <6>2. broker[s[2]] = k
            BY <5>1, <6>1 DEF IInv, WaitingIsRegistered
          <6>3. AnsweredIn(k, s[2])
            BY <1>0, <6>1, <6>2, ActiveStages DEF IInv, AnswersAccepted, BrokerAccepted, Accepted, AnsweredIn
          <6>4. QED BY <1>1, <3>2, <6>3
        <5>4. CASE Disconnect(k) \/ Drop(k)
          <6>1. pc'[k] \in {"gone", "dropped"}
            BY <1>0, <5>4, AttemptTypes DEF Disconnect, Drop
          <6>2. QED BY <1>0, <3>2, <6>1 DEF Leaving, Over
        <5>5. QED BY <4>1, <4>3, <5>1, <5>2, <5>3, <5>4
                  DEF Coroutine, Leave, Receive, Send, Proceed, CloseStream, BreakOff, Leaving, InHand
      <4>4. QED BY <1>1, <3>2, <4>2, <4>3
    <3>3. QED BY <3>1, <3>2
  <2>2. CASE shown' = shown
    BY <2>1, <2>2
  <2>3. CASE shown' # shown
    <3>1. Send(k)
      BY <1>3, <2>3 DEF Begin, Coroutine, Leave, Receive, Proceed, Register, Decide,
         CloseStream, Disconnect, BreakOff, Drop, clientVars
    <3>2. /\ shown' = shown \cup {<<k, event[k].question>>} /\ event[k].kind = "ask"
          /\ event' = event /\ pc'[k] = "chunk"
      BY <1>0, <2>3, <3>1, AttemptTypes DEF Send
    <3>3. event[k] = Ask(event[k].question)
      BY <1>0, <3>2, AttemptTypes, AskItems
    <3>4. InHand(k, event[k].question)'
      BY <3>2, <3>3 DEF InHand
    <3>5. ASSUME NEW s \in shown' PROVE s[1] \in Left' \/ InHand(s[1], s[2])' \/ AnsweredIn(s[1], s[2])'
      <4>1. CASE s \in shown BY <2>1, <4>1
      <4>2. CASE s = <<k, event[k].question>>
        <5>1. s[1] = k /\ s[2] = event[k].question BY <4>2
        <5>2. QED BY <3>2, <3>4, <5>1 DEF InHand
      <4>3. QED BY <3>2, <4>1, <4>2
    <3>6. QED BY <3>5
  <2>4. QED BY <2>2, <2>3
<1>4. ASSUME NEW k \in Attempts, Worker(k) PROVE PutIsAnswered'
  BY <1>0, <1>2, <1>4, WorkerFrame
<1>5. CASE Post \/ (\E p \in posted : SubmitApproval(p))
  BY <1>0, <1>2, <1>5, ClientFrame
<1>6. CASE UNCHANGED vars
  BY <1>2, <1>6 DEF vars, coroutineVars, clientVars
<1>7. QED BY <1>3, <1>4, <1>5, <1>6 DEF Next

\* The stages that a step of the worker leads to.
LEMMA WorkerGoes ==
  ASSUME TypeInv, NEW k \in Attempts, Worker(k)
  PROVE  \/ worker'[k] \in {"running", "parked", "ended", "resolved_yes", "resolved_no"}
         \/ AskApproval(k) /\ worker'[k] = "asked"
         \/ /\ Resume(k) /\ worker[k] = "asked" /\ worker'[k] \in {"granted", "declined"}
            /\ Head(commands[k]) # Close
         \/ Resume(k) /\ worker[k] = "resolved_yes" /\ worker'[k] = "acting"
<1>1. CASE Resume(k)
  <2>1. CASE Head(commands[k]) = Close
    BY <1>1, <2>1, AttemptTypes DEF Resume, LeaveSession
  <2>2. CASE Head(commands[k]) # Close
    BY <1>1, <2>2, AttemptTypes DEF Resume
  <2>3. QED BY <2>1, <2>2
<1>2. CASE AskApproval(k)
  BY <1>2, AttemptTypes DEF AskApproval, LeaveSession
<1>3. CASE Resolve(k)
  <2>1. \E stage \in {"ended", "resolved_yes", "resolved_no"} : worker' = [worker EXCEPT ![k] = stage]
    BY <1>3 DEF Resolve, LeaveSession
  <2>2. QED BY <2>1, AttemptTypes
<1>4. CASE Start(k) \/ Emit(k) \/ Act(k) \/ ObserveCancel(k) \/ EndTurn(k)
  BY <1>4, AttemptTypes DEF Start, Emit, Act, ObserveCancel, EndTurn, LeaveSession
<1>5. QED BY <1>1, <1>2, <1>3, <1>4 DEF Worker

LEMMA NextAskedIsRecorded ==
  ASSUME IInv, AskedIsRecorded, [Next]_vars
  PROVE  AskedIsRecorded'
<1> USE DEF AskedIsRecorded
<1>0. TypeInv /\ NewIsIdle /\ LockHeld /\ RecordInv
  BY DEF IInv
<1>1. CASE UNCHANGED <<worker, record, question>>
  BY <1>1
<1>2. ASSUME NEW k \in Attempts, Begin(k) \/ Coroutine(k) \/ Leave(k)
      PROVE  AskedIsRecorded'
  <2>1. \A j \in Attempts : worker'[j] = worker[j] \/ worker'[j] = "starting"
    BY <1>0, <1>2, CoroutineFrame, AttemptTypes
  <2>2. record' = record /\ question' = question
    BY <1>0, <1>2, CoroutineFrame
  <2>3. QED BY <2>1, <2>2
<1>3. ASSUME NEW k \in Attempts, Worker(k)
      PROVE  AskedIsRecorded'
  <2>1. ASSUME NEW j \in Attempts, worker'[j] \in {"asked", "granted", "declined"}, j # k
        PROVE  record' = question'[j]
    <3>1. worker[j] = worker'[j] /\ question'[j] = question[j]
      BY <1>0, <1>3, <2>1, Frame
    <3>2. operation = j
      BY <1>0, <2>1, <3>1 DEF LockHeld, Running, Parked
    <3>3. record' = record
      BY <1>0, <1>3, <2>1, <3>2, RecordHolder
    <3>4. QED BY <2>1, <3>1, <3>3
  <2>2. ASSUME worker'[k] \in {"asked", "granted", "declined"}
        PROVE  record' = question'[k]
    <3>1. CASE AskApproval(k)
      BY <1>0, <3>1, AttemptTypes DEF AskApproval
    <3>2. CASE Resume(k) /\ worker[k] = "asked"
      BY <3>2 DEF Resume
    <3>3. QED BY <1>0, <1>3, <2>2, <3>1, <3>2, WorkerGoes
  <2>3. QED BY <2>1, <2>2
<1>4. CASE Post \/ (\E p \in posted : SubmitApproval(p))
  BY <1>0, <1>1, <1>4, ClientFrame
<1>5. CASE UNCHANGED vars
  BY <1>1, <1>5 DEF vars, turnVars
<1>6. QED BY <1>2, <1>3, <1>4, <1>5 DEF Next

LEMMA NextOverIsEnded ==
  ASSUME IInv, OverIsEnded, [Next]_vars
  PROVE  OverIsEnded'
<1> USE DEF OverIsEnded
<1>0. TypeInv /\ BridgeShape
  BY DEF IInv
<1>1. CASE UNCHANGED <<pc, worker>>
  BY <1>1
<1>2. ASSUME NEW k \in Attempts, Begin(k)
      PROVE  OverIsEnded'
  <2>1. \A j \in Attempts : j # k => pc'[j] = pc[j] /\ worker'[j] = worker[j]
    BY <1>0, <1>2, Frame
  <2>2. pc'[k] = "sending"
    BY <1>0, <1>2, AttemptTypes DEF Begin
  <2>3. QED BY <2>1, <2>2
<1>3. ASSUME NEW k \in Attempts, Coroutine(k) \/ Leave(k)
      PROVE  OverIsEnded'
  <2>1. /\ \A j \in Attempts : j # k => pc'[j] = pc[j]
        /\ worker' = worker /\ pc[k] \in Served
    BY <1>0, <1>3, Frame, CoroutineFrame, CoroutinePlaces DEF Begin, Served, InLock, Leaving
  <2>2. ASSUME pc'[k] \in {"done", "failed"}
        PROVE  worker[k] = "ended"
    <3>1. Receive(k)
      BY <1>0, <1>3, <2>2, AttemptTypes DEF Coroutine, Leave, Send, Proceed, Register, Decide,
         CloseStream, Disconnect, BreakOff, Drop
    <3>2. PICK item : item = Head(outputs[k])
      OBVIOUS
    <3>3. item \in {Finish, Error}
      BY <1>0, <2>2, <3>1, <3>2, AttemptTypes DEF Receive
    <3>4. pc[k] = "sending" /\ outputs[k] # <<>>
      BY <3>1 DEF Receive
    <3>5. ItemMoves(k)
      BY <1>0, <2>1, <3>4, ServedHasShape DEF Shape, WorkerMoves, EventHandled, CommandMoves
    <3>6. PublishedFrom(k, item)
      BY <3>2, <3>5, Singletons DEF ItemMoves
    <3>7. item # Plain /\ item.kind # "ask"
      BY <3>3, ItemNames
    <3>8. CASE item = Ask(question[k])
      BY <3>7, <3>8 DEF Ask
    <3>9. QED BY <3>6, <3>7, <3>8 DEF PublishedFrom
  <2>3. QED BY <2>1, <2>2
<1>4. ASSUME NEW k \in Attempts, Worker(k)
      PROVE  OverIsEnded'
  <2>1. worker[k] # "ended" /\ pc' = pc /\ \A j \in Attempts : j # k => worker'[j] = worker[j]
    BY <1>0, <1>4, WorkerLock, WorkerFrame, Frame, ActiveStages
  <2>2. QED BY <2>1
<1>5. CASE Post \/ (\E p \in posted : SubmitApproval(p))
  BY <1>0, <1>1, <1>5, ClientFrame
<1>6. CASE UNCHANGED vars
  BY <1>1, <1>6 DEF vars, turnVars, coroutineVars
<1>7. QED BY <1>2, <1>3, <1>4, <1>5, <1>6 DEF Next

LEMMA NextLeftIsCancelled ==
  ASSUME IInv, LeftIsCancelled, [Next]_vars
  PROVE  LeftIsCancelled'
<1> USE DEF LeftIsCancelled
<1>0. TypeInv /\ BridgeShape /\ LockHeld
  BY DEF IInv
<1>1. CASE UNCHANGED <<pc, worker, commands, token>>
  BY <1>1
<1>2. ASSUME NEW k \in Attempts, Begin(k) \/ Coroutine(k) \/ Leave(k)
      PROVE  LeftIsCancelled'
  <2>1. /\ operation' = operation
        /\ token' = token \/ token' = (operation # None)
    BY <1>0, <1>2, CoroutineFrame DEF Begin, Coroutine, Leave, Receive, Send, Proceed, Register,
       Decide, CloseStream, Disconnect, BreakOff, Drop, HangUp, Cancel, turnVars
  <2>2. ASSUME NEW j \in Attempts, j # k, pc'[j] = "gone"
        PROVE  \/ worker'[j] = "ended"
               \/ worker'[j] \in Running \cup Parked /\ token'
               \/ /\ worker'[j] \in {"starting", "running", "parked", "asked"}
                  /\ commands'[j] = <<Close>>
    <3>1. pc'[j] = pc[j] /\ worker'[j] = worker[j] /\ commands'[j] = commands[j]
      BY <1>0, <1>2, <2>2, Frame
    <3>2. worker[j] \in Running \cup Parked => operation # None
      BY <1>0, ActiveStages DEF LockHeld
    <3>3. worker[j] \in Running \cup Parked /\ token => token'
      BY <2>1, <3>2, Zenon
    <3>4. CASE worker[j] \in Running \cup Parked /\ token
      BY <3>1, <3>3, <3>4
    <3>5. CASE ~(worker[j] \in Running \cup Parked /\ token)
      <4>1. pc[j] = "gone"
        BY <2>2, <3>1
      <4>2. \/ worker[j] = "ended"
            \/ /\ worker[j] \in {"starting", "running", "parked", "asked"}
               /\ commands[j] = <<Close>>
        BY <3>5, <4>1, Zenon
      <4>3. QED BY <3>1, <4>2
    <3>6. QED BY <3>4, <3>5
  <2>3. ASSUME pc'[k] = "gone"
        PROVE  \/ worker'[k] = "ended"
               \/ worker'[k] \in Running \cup Parked /\ token'
               \/ worker'[k] = "starting" /\ commands'[k] = <<Close>>
    <3>1. CloseStream(k) \/ Disconnect(k)
      <4>1. CASE Receive(k)
        <5>1. pc'[k] \in {"done", "failed", "audit"}
          BY <1>0, <4>1, AttemptTypes DEF Receive
        <5>2. QED BY <2>3, <5>1
      <4>2. CASE ~Receive(k)
        BY <1>0, <1>2, <2>3, <4>2, AttemptTypes DEF Begin, Coroutine, Leave, Send, Proceed,
           Register, Decide, BreakOff, Drop
      <4>3. QED BY <4>1, <4>2
    <3>2. /\ token' = (operation # None) /\ commands' = Put(commands, k, Close)
          /\ worker' = worker /\ pc[k] \in Served
      BY <3>1 DEF CloseStream, Disconnect, HangUp, Cancel, Served, InLock, Leaving
    <3>3. worker[k] \in Running \cup Parked \cup {"starting", "ended"}
      BY <1>0, <3>2, ServedHasShape DEF Shape, WorkerMoves, ItemMoves, EventHandled, CommandMoves,
         PublishedFrom, Parked
    <3>4. CASE worker[k] \in Running \cup Parked
      BY <1>0, <3>2, <3>4, ActiveStages DEF LockHeld
    <3>5. CASE worker[k] = "starting"
      <4>1. commands[k] = <<>>
        BY <1>0, <3>2, <3>5, ServedHasShape, QuietBridge DEF WorkerMoves
      <4>2. commands'[k] = <<Close>>
        BY <1>0, <3>2, <4>1, AttemptTypes, Singletons, NewCommands
      <4>3. QED BY <3>2, <3>5, <4>2
    <3>6. QED BY <3>2, <3>3, <3>4, <3>5
  <2>4. QED BY <2>2, <2>3
<1>3. ASSUME NEW k \in Attempts, Worker(k)
      PROVE  LeftIsCancelled'
  <2>1. /\ pc' = pc
        /\ \A j \in Attempts : j # k => worker'[j] = worker[j] /\ commands'[j] = commands[j]
    BY <1>0, <1>3, WorkerFrame, Frame
  <2>2. ASSUME NEW j \in Attempts, j # k, worker[j] \in Running \cup Parked
        PROVE  token' = token
    <3>1. operation = j /\ j # None
      BY <1>0, <2>2, ActiveStages DEF LockHeld
    <3>2. worker[k] \notin Running \cup Parked
      BY <1>0, <2>2, <3>1 DEF LockHeld
    <3>3. QED BY <1>0, <1>3, <3>1, <3>2, WorkerLock
  <2>3. ASSUME pc[k] = "gone"
        PROVE  \/ worker'[k] = "ended"
               \/ worker'[k] \in Running \cup Parked /\ token'
               \/ /\ worker'[k] \in {"starting", "running", "parked", "asked"}
                  /\ commands'[k] = <<Close>>
    <3>1. worker[k] # "ended"
      BY <1>0, <1>3, WorkerLock, ActiveStages
    <3>2. CASE worker[k] \in Running \cup Parked /\ token
      BY <1>0, <1>3, <3>2, WorkerLock, ActiveStages
    <3>3. CASE worker[k] \in {"starting", "running", "parked", "asked"} /\ commands[k] = <<Close>>
      <4>1. Head(commands[k]) = Close
        BY <3>3, Singletons
      <4>2. CASE Resume(k)
        BY <1>0, <4>1, <4>2, AttemptTypes DEF Resume, LeaveSession
      <4>3. CASE ~Resume(k)
        <5>1. commands' = commands
          BY <1>3, <4>3 DEF Worker, Start, Emit, AskApproval, Resolve, Act, ObserveCancel, EndTurn,
             bridgeVars
        <5>2. worker'[k] \in {"running", "parked", "ended", "asked"}
          <6>1. ~Resolve(k)
            BY <3>3 DEF Resolve
          <6>2. QED BY <1>0, <1>3, <4>3, <6>1, AttemptTypes DEF Worker, Start, Emit, AskApproval,
                       Act, ObserveCancel, EndTurn, LeaveSession
        <5>3. QED BY <3>3, <5>1, <5>2
      <4>4. QED BY <4>2, <4>3
    <3>4. QED BY <2>3, <3>1, <3>2, <3>3
  <2>4. QED BY <2>1, <2>2, <2>3
<1>4. CASE Post \/ (\E p \in posted : SubmitApproval(p))
  BY <1>0, <1>1, <1>4, ClientFrame
<1>5. CASE UNCHANGED vars
  BY <1>1, <1>5 DEF vars, turnVars, coroutineVars, bridgeVars
<1>6. QED BY <1>2, <1>3, <1>4, <1>5 DEF Next

LEMMA InitAsking == ASSUME Init PROVE RInv /\ Asking!PermissionInit
<1>1. IInv
  BY InitInv
<1>2. \A k \in Attempts : pc[k] = "new" /\ worker[k] = "none"
  BY DEF Init
<1>3. PutIsAnswered /\ AskedIsRecorded /\ LeftIsCancelled /\ OverIsEnded
  BY <1>2 DEF Init, PutIsAnswered, AskedIsRecorded, LeftIsCancelled, OverIsEnded
<1>4. Given = {} /\ Permits = {} /\ Left = {} /\ shown = {} /\ acted = {}
  BY <1>2 DEF Init, Given, Granted, Permits, Left, Leaving, Over
<1>5. QED BY <1>1, <1>3, <1>4 DEF RInv, Asking!PermissionInit

LEMMA NextRInv == ASSUME RInv, [Next]_vars PROVE RInv'
BY NextInv, NextPutIsAnswered, NextAskedIsRecorded, NextLeftIsCancelled, NextOverIsEnded DEF RInv

LEMMA RInvHolds == Spec => []RInv
BY InitAsking, NextRInv, PTL DEF Spec

-------------------------------------------------------------------------------
\* The refinement mapping.

LEMMA GivenIs ==
  ASSUME TypeInv, NEW k \in Attempts, NEW q, NEW v
  PROVE  <<k, q, v>> \in Given <=> Accepted(k, q, v)
<1>1. accepted \subseteq Attempts \X Answers
  BY DEF TypeInv, TypeOK
<1>2. ASSUME <<k, q, v>> \in Given PROVE Accepted(k, q, v)
  <2>1. PICK a \in accepted : <<k, q, v>> = <<a[1], a[2].question, a[2].verdict>>
    BY <1>2 DEF Given
  <2>2. a = <<k, a[2]>> /\ a[2] \in Answers /\ a[2].question = q /\ a[2].verdict = v
    BY <1>1, <2>1
  <2>3. QED BY <2>1, <2>2 DEF Accepted
<1>3. ASSUME Accepted(k, q, v) PROVE <<k, q, v>> \in Given
  <2>1. PICK p \in Answers : <<k, p>> \in accepted /\ p.question = q /\ p.verdict = v
    BY <1>3 DEF Accepted
  <2>2. <<k, p>>[1] = k /\ <<k, p>>[2] = p
    OBVIOUS
  <2>3. QED BY <2>1, <2>2 DEF Given
<1>4. QED BY <1>2, <1>3

LEMMA AnsweredIs ==
  ASSUME TypeInv, NEW k \in Attempts, NEW q
  PROVE  Asking!Answered(k, q) <=> AnsweredIn(k, q)
<1>1. \A p \in Answers : p.verdict \in Verdicts
  BY DEF Answers
<1>2. Asking!Answered(k, q) <=> \E v \in Verdicts : Accepted(k, q, v)
  BY GivenIs DEF Asking!Answered
<1>3. QED BY <1>1, <1>2 DEF AnsweredIn, Accepted

LEMMA LeftIs ==
  ASSUME NEW k \in Attempts
  PROVE  k \in Left <=> pc[k] \in Leaving \cup Over
BY DEF Left

LEMMA LockedIsNotLeft ==
  ASSUME NEW k \in Attempts, pc[k] \in InLock
  PROVE  k \notin Left
BY DEF Left, InLock, Leaving, Over

\* While an attempt is in the lock, whoever else put a question has left, and its
\* own questions are answered but for the one in hand.
LEMMA PutBefore ==
  ASSUME IInv, PutIsAnswered, NEW k \in Attempts, pc[k] \in InLock, NEW s \in shown
  PROVE  /\ s[1] \in Attempts /\ s[2] \in Nat /\ question[k] \in Nat
         /\ s[1] # k => s[1] \in Left
         /\ s[1] = k => /\ s[2] <= question[k]
                        /\ \/ InHand(k, s[2]) /\ s[2] = question[k]
                           \/ AnsweredIn(k, s[2]) /\ (s[2] = question[k] => Past(k))
<1>0. /\ TypeInv /\ BridgeShape /\ s[1] \in Attempts /\ s[2] \in Questions /\ s[2] \in Nat
      /\ question[k] \in Nat
  <2>1. TypeInv /\ BridgeShape
    BY DEF IInv
  <2>2. shown \subseteq Attempts \X Questions /\ question[k] \in Questions \cup {0}
    BY <2>1 DEF TypeInv, TypeOK
  <2>3. QED BY <2>1, <2>2, QuestionNumbers
<1>1. ASSUME s[1] # k PROVE s[1] \in Left
  <2>1. pc[s[1]] # "new" /\ pc[s[1]] \notin InLock
    BY <1>0, <1>1 DEF IInv, PreviewInv, OneInLock
  <2>2. pc[s[1]] \in {"new"} \cup InLock \cup Leaving \cup Over
    BY <1>0, AttemptTypes
  <2>3. QED BY <1>0, <2>1, <2>2, LeftIs
<1>2. ASSUME s[1] = k
      PROVE  /\ s[2] <= question[k]
             /\ \/ InHand(k, s[2]) /\ s[2] = question[k]
                \/ AnsweredIn(k, s[2]) /\ (s[2] = question[k] => Past(k))
  <2>1. InHand(k, s[2]) \/ AnsweredIn(k, s[2])
    BY <1>2, LockedIsNotLeft DEF PutIsAnswered
  <2>2. CASE InHand(k, s[2])
    <3>1. pc[k] \in Served \ {"sending"} /\ event[k] = Ask(s[2])
      BY <2>2 DEF InHand, Served, InLock
    <3>2. event[k] = Ask(question[k]) /\ question[k] \in Questions
      BY <1>0, <3>1, HandledEvent, ItemNames
    <3>3. s[2] = question[k]
      BY <1>0, <3>1, <3>2, ItemNames
    <3>4. QED BY <1>0, <2>2, <3>3
  <2>3. CASE AnsweredIn(k, s[2])
    <3>1. PICK p \in Answers : <<k, p>> \in accepted /\ p.question = s[2]
      BY <2>3 DEF AnsweredIn
    <3>2. <<k, p>>[1] = k /\ <<k, p>>[2] = p
      OBVIOUS
    <3>3. s[2] <= question[k] /\ (s[2] = question[k] => Past(k))
      BY <3>1, <3>2 DEF IInv, AcceptedIsPast
    <3>4. QED BY <2>3, <3>3
  <2>4. QED BY <2>1, <2>2, <2>3
<1>3. QED BY <1>0, <1>1, <1>2

Granting == {"granted", "resolved_yes", "acting"}

LEMMA PermitsStay ==
  ASSUME \A j \in Attempts :
           /\ worker[j] \in Granting <=> worker'[j] \in Granting
           /\ worker[j] \in Granting => question'[j] = question[j]
  PROVE  Permits' = Permits
BY DEF Permits, Granted, Granting

\* A permit is that of the running turn.
LEMMA PermitHeld ==
  ASSUME LockHeld, NEW k \in Attempts, worker[k] \in Running \cup Parked
  PROVE  /\ worker[k] \in Granting => Permits = {<<k, question[k]>>}
         /\ worker[k] \notin Granting => Permits = {}
<1>1. \A j \in Attempts : worker[j] \in Granting => j = k
  BY DEF LockHeld, Granting, Running, Parked
<1>2. QED BY <1>1 DEF Permits, Granted, Granting

-------------------------------------------------------------------------------
\* The steps.

LEMMA LeftSteps ==
  ASSUME TypeInv, NEW k \in Attempts, Begin(k) \/ Coroutine(k) \/ Leave(k)
  PROVE  \/ Left' = Left
         \/ k \notin Left /\ Left' = Left \cup {k}
<1>1. \A j \in Attempts : j # k => pc'[j] = pc[j]
  BY Frame
<1>2. pc[k] \in Leaving \cup Over => pc'[k] \in Leaving \cup Over
  <2>1. CASE Begin(k)
    BY <2>1 DEF Begin, Leaving, Over
  <2>2. CASE Coroutine(k) \/ Leave(k)
    BY <2>2, CoroutinePlaces DEF Served, InLock, Leaving, Over
  <2>3. QED BY <2>1, <2>2
<1>3. QED BY <1>1, <1>2 DEF Left

LEMMA SendPuts ==
  ASSUME RInv, NEW k \in Attempts, Send(k), event[k].kind = "ask"
  PROVE  Asking!PutQuestion(k, event[k].question)
<1>0. TypeInv /\ BridgeShape /\ IInv /\ pc[k] = "audit"
  BY DEF RInv, IInv, Send
<1>1. pc[k] \in InLock /\ pc[k] \in Served \ {"sending"}
  BY <1>0 DEF Served, InLock
<1>2. PICK q \in Questions : q = event[k].question /\ event[k] = Ask(q) /\ question[k] = q /\ worker[k] = "asked"
                              /\ commands[k] = <<>>
  BY <1>0, <1>1, HandledEvent, ItemNames
<1>3. k \notin Left
  BY <1>1, LockedIsNotLeft
<1>4. record = q /\ record # 0
  BY <1>2, QuestionNumbers DEF RInv, AskedIsRecorded
<1>5. \A a \in acted : a[2] < q
  BY <1>0, <1>4 DEF IInv, ActedIsBehind
<1>6. ~Past(k) /\ \A r : ~InHand(k, r)
  BY <1>0, <1>2 DEF Past, InHand, Over
<1>7. ASSUME NEW s \in shown
      PROVE  IF s[1] = k THEN s[2] < q /\ Asking!Answered(k, s[2]) ELSE s[1] \in Left
  <2>1. CASE s[1] # k
    BY <1>0, <1>1, <2>1, PutBefore DEF RInv
  <2>2. CASE s[1] = k
    <3>1. s[2] \in Nat /\ q \in Nat /\ s[2] <= q /\ s[2] # q /\ AnsweredIn(k, s[2])
      BY <1>0, <1>1, <1>2, <1>6, <2>2, PutBefore DEF RInv
    <3>2. QED BY <1>0, <2>2, <3>1, AnsweredIs
  <2>3. QED BY <2>1, <2>2
<1>8. /\ shown' = shown \cup {<<k, q>>} /\ Given' = Given /\ Permits' = Permits
      /\ acted' = acted /\ Left' = Left
  <2>1. /\ shown' = shown \cup {<<k, q>>} /\ accepted' = accepted /\ acted' = acted
        /\ worker' = worker /\ question' = question /\ pc' = [pc EXCEPT ![k] = "chunk"]
    BY <1>2 DEF Send, turnVars
  <2>2. \A j \in Attempts : pc'[j] \in Leaving \cup Over <=> pc[j] \in Leaving \cup Over
    BY <1>0, <2>1, AttemptTypes DEF Leaving, Over
  <2>3. QED BY <2>1, <2>2 DEF Given, Permits, Granted, Left
<1>9. QED BY <1>2, <1>3, <1>5, <1>7, <1>8 DEF Asking!PutQuestion, Asking!Undone

LEMMA CoroutineAsks ==
  ASSUME RInv, NEW k \in Attempts, Begin(k) \/ Coroutine(k) \/ Leave(k)
  PROVE  [Asking!PermissionNext]_(Asking!permissionVars)
<1>0. TypeInv
  BY DEF RInv, IInv
<1>1. CASE Send(k) /\ event[k].kind = "ask"
  <2>1. event[k].question \in Questions
    BY <1>0, <1>1, AttemptTypes, AskItems
  <2>2. QED BY <1>1, <2>1, SendPuts DEF Asking!PermissionNext
<1>2. CASE ~(Send(k) /\ event[k].kind = "ask")
  <2>1. shown' = shown
    BY <1>2 DEF Begin, Coroutine, Leave, Receive, Send, Proceed, Register, Decide,
       CloseStream, Disconnect, BreakOff, Drop, clientVars
  <2>2. acted' = acted /\ question' = question /\ accepted' = accepted
    BY <1>0, CoroutineFrame
  <2>3. Given' = Given
    BY <2>2 DEF Given
  <2>4. Permits' = Permits
    <3>1. \A j \in Attempts : worker'[j] = worker[j] \/ (worker'[j] = "starting" /\ worker[j] = "none")
      <4>1. CASE Begin(k)
        <5>1. worker[k] = "none" /\ worker'[k] = "starting"
          BY <1>0, <4>1, AttemptTypes DEF Begin, RInv, IInv, NewIsIdle
        <5>2. QED BY <1>0, <4>1, <5>1, Frame
      <4>2. CASE ~Begin(k)
        BY <1>0, <4>2, CoroutineFrame
      <4>3. QED BY <4>1, <4>2
    <3>2. QED BY <2>2, <3>1, PermitsStay DEF Granting
  <2>5. QED
    BY <1>0, <2>1, <2>2, <2>3, <2>4, LeftSteps
    DEF Asking!PermissionNext, Asking!EndAttempt, Asking!permissionVars
<1>3. QED BY <1>1, <1>2

LEMMA ClientAnswers ==
  ASSUME RInv, Post \/ (\E p \in posted : SubmitApproval(p))
  PROVE  [Asking!PermissionNext]_(Asking!permissionVars)
<1>0. TypeInv /\ BridgeShape /\ IInv /\ RegisteredIsWaiting
  BY DEF RInv, IInv
<1>1. /\ shown' = shown /\ acted' = acted /\ Permits' = Permits /\ Left' = Left
  BY <1>0, ClientFrame DEF Permits, Granted, Left
<1>2. CASE accepted' = accepted
  BY <1>1, <1>2 DEF Given, Asking!permissionVars
<1>3. CASE accepted' # accepted
  <2>1. PICK p \in posted : SubmitApproval(p)
    BY <1>3 DEF Post
  <2>2. /\ p \in Answers /\ p.question \in Questions /\ p.verdict \in Verdicts
    BY <1>0 DEF TypeInv, TypeOK, Answers
  <2>3. PICK q \in Questions : q = p.question
    BY <2>2
  <2>4. PICK k \in Attempts : k = broker[q]
    BY <1>0, <1>3, <2>1, <2>3, AcceptedAtQuestion DEF SubmitApproval
  <2>5. /\ answer[q] = "open" /\ accepted' = accepted \cup {<<k, p>>}
    BY <1>3, <2>1, <2>3, <2>4 DEF SubmitApproval
  <2>6. /\ broker[q] # None /\ pc[k] = "waiting" /\ event[k] = Ask(q)
        /\ worker[k] = "asked" /\ question[k] = q /\ commands[k] = <<>>
    BY <1>0, <2>3, <2>4, ActiveStages, AcceptedAtQuestion
  <2>7. ~Past(k)
    BY <2>5, <2>6 DEF Past, Over, Verdicts
  <2>8. pc[k] \in InLock /\ k \notin Left
    BY <2>6, LockedIsNotLeft DEF InLock
  <2>9. ~Asking!Answered(k, q)
    <3>1. ASSUME AnsweredIn(k, q) PROVE FALSE
      <4>1. PICK r \in Answers : <<k, r>> \in accepted /\ r.question = q
        BY <3>1 DEF AnsweredIn
      <4>2. <<k, r>>[1] = k /\ <<k, r>>[2] = r
        OBVIOUS
      <4>3. Past(k)
        BY <1>0, <2>6, <4>1, <4>2 DEF IInv, AcceptedIsPast
      <4>4. QED BY <2>7, <4>3
    <3>2. QED BY <1>0, <3>1, AnsweredIs
  <2>10. Asking!Latest(k, q)
    <3>1. <<k, q>> \in shown
      BY <1>0, <2>6 DEF IInv, PreviewInv
    <3>2. ASSUME NEW s \in shown PROVE IF s[1] = k THEN s[2] <= q ELSE s[1] \in Left
      BY <1>0, <2>6, <2>8, PutBefore DEF RInv
    <3>3. QED BY <3>1, <3>2 DEF Asking!Latest
  <2>11. Given' = Given \cup {<<k, q, p.verdict>>}
    <3>1. <<k, p>>[1] = k /\ <<k, p>>[2] = p
      OBVIOUS
    <3>2. QED BY <2>3, <2>5, <3>1 DEF Given
  <2>12. Asking!GiveAnswer(k, q, p.verdict)
    BY <1>1, <2>8, <2>9, <2>10, <2>11 DEF Asking!GiveAnswer
  <2>13. QED BY <2>2, <2>12 DEF Asking!PermissionNext
<1>4. QED BY <1>2, <1>3

\* A turn takes the permit that an answer gives it.
LEMMA ResumePermits ==
  ASSUME RInv, NEW k \in Attempts, Resume(k), worker[k] = "asked", worker'[k] = "granted"
  PROVE  <<k, question[k], "yes">> \in Given /\ Asking!Undone(question[k]) /\ question[k] \in Questions
<1>0. TypeInv /\ IInv /\ question[k] \in Questions
  BY DEF RInv, IInv, TypeInv, AtQuestion
<1>1. PICK q \in Questions : q = question[k]
  BY <1>0
<1>2. commands[k] # <<>> /\ commands[k] \in Seq(Commands) /\ Head(commands[k]) = Decision(q, "yes")
  BY <1>0, <1>1, AttemptTypes DEF Resume, LeaveSession
<1>3. 1 \in DOMAIN commands[k] /\ commands[k][1] = Decision(q, "yes")
  BY <1>2
<1>4. Accepted(k, q, "yes")
  BY <1>0, <1>3, CommandNames DEF IInv, AnswersAccepted, CommandAccepted, Verdicts
<1>5. record = q /\ record # 0
  BY <1>1, QuestionNumbers DEF RInv, AskedIsRecorded
<1>6. Asking!Undone(q)
  BY <1>0, <1>5 DEF IInv, ActedIsBehind, Asking!Undone
<1>7. QED BY <1>0, <1>1, <1>4, <1>6, GivenIs

\* The attempt that acts has not left, and its question is the latest.
LEMMA ActingIsLatest ==
  ASSUME RInv, NEW k \in Attempts, Act(k)
  PROVE  k \notin Left /\ Asking!Latest(k, question[k]) /\ question[k] \in Questions
<1>0. /\ TypeInv /\ IInv /\ BridgeShape /\ question[k] \in Questions
      /\ worker[k] = "acting" /\ token = FALSE
  BY DEF RInv, IInv, TypeInv, TypeOK, AtQuestion, Act
<1>1. worker[k] \notin Parked /\ worker[k] # "ended"
  BY <1>0 DEF Parked
<1>2. pc[k] # "gone" /\ pc[k] \notin {"done", "failed"}
  BY <1>0, <1>1 DEF RInv, LeftIsCancelled, OverIsEnded
<1>3. pc[k] \notin Leaving
  BY <1>0, <1>1, HandledEvent DEF Served, Leaving
<1>4. pc[k] # "new"
  BY <1>0 DEF IInv, NewIsIdle
<1>5. pc[k] \in InLock
  BY <1>0, <1>2, <1>3, <1>4, AttemptTypes DEF Over
<1>6. Accepted(k, question[k], "yes")
  BY <1>0 DEF IInv, AnswersAccepted, WorkerAccepted
<1>7. <<k, question[k]>> \in shown
  <2>1. PICK p \in Answers : <<k, p>> \in accepted /\ p.question = question[k]
    BY <1>6 DEF Accepted
  <2>2. <<k, p>>[1] = k /\ <<k, p>>[2] = p
    OBVIOUS
  <2>3. QED BY <1>0, <2>1, <2>2 DEF IInv, AnswersMeetPreviews, AnswerAfterPreview
<1>8. ASSUME NEW s \in shown PROVE IF s[1] = k THEN s[2] <= question[k] ELSE s[1] \in Left
  BY <1>0, <1>5, PutBefore DEF RInv
<1>9. QED BY <1>0, <1>5, <1>7, <1>8, LockedIsNotLeft DEF Asking!Latest

LEMMA WorkerPermits ==
  ASSUME RInv, NEW k \in Attempts, Worker(k)
  PROVE  [Asking!PermissionNext]_(Asking!permissionVars)
<1>0. TypeInv /\ LockHeld /\ IInv
  BY DEF RInv, IInv
<1>1. shown' = shown /\ Given' = Given /\ Left' = Left
  BY <1>0, WorkerFrame DEF Given, Left
<1>2. \A j \in Attempts : j # k => worker'[j] = worker[j] /\ question'[j] = question[j]
  BY <1>0, Frame
<1>3. worker[k] \in Granting => /\ \A j \in Attempts : j # k => worker[j] \notin Granting
                                /\ Permits = {<<k, question[k]>>}
  <2>1. Granting \subseteq Running \cup Parked
    BY DEF Granting, Running, Parked
  <2>2. QED BY <1>0, <2>1, PermitHeld DEF LockHeld
<1>4. ASSUME worker[k] \in Granting, worker'[k] \notin Granting
      PROVE  Permits' = {} /\ Permits # {}
  BY <1>2, <1>3, <1>4 DEF Permits, Granted, Granting
<1>5. ASSUME worker[k] \notin Granting, worker'[k] \notin Granting, acted' = acted
      PROVE  UNCHANGED Asking!permissionVars
  <2>1. Permits' = Permits
    BY <1>2, <1>5, PermitsStay
  <2>2. QED BY <1>1, <1>5, <2>1 DEF Asking!permissionVars
<1>6. ASSUME worker[k] \in Granting, worker'[k] \in Granting, acted' = acted, question' = question
      PROVE  UNCHANGED Asking!permissionVars
  <2>1. Permits' = Permits
    BY <1>2, <1>6, PermitsStay
  <2>2. QED BY <1>1, <1>6, <2>1 DEF Asking!permissionVars
<1>7. ASSUME worker[k] \in Granting, worker'[k] \notin Granting, acted' = acted
      PROVE  Asking!LosePermit
  BY <1>1, <1>4, <1>7 DEF Asking!LosePermit
<1>8. CASE Act(k)
  <2>1. worker[k] = "acting" /\ worker'[k] = "running" /\ acted' = acted \cup {<<k, question[k]>>}
    BY <1>0, <1>8, AttemptTypes DEF Act
  <2>2. Permits = {<<k, question[k]>>} /\ Permits' = {}
    BY <1>3, <1>4, <2>1 DEF Granting
  <2>3. Asking!UsePermit(k, question[k])
    BY <1>1, <1>8, <2>1, <2>2, ActingIsLatest DEF Asking!UsePermit
  <2>4. QED BY <1>8, <2>3, ActingIsLatest DEF Asking!PermissionNext
<1>9. CASE Resume(k) /\ worker[k] = "asked" /\ worker'[k] = "granted"
  <2>1. Permits = {}
    BY <1>0, <1>9, PermitHeld DEF Parked, Granting
  <2>2. Permits' = {<<k, question[k]>>}
    <3>1. \A j \in Attempts : j # k => worker'[j] \notin Granting
      BY <1>0, <1>2, <1>9 DEF LockHeld, Parked, Running, Granting
    <3>2. question' = question
      BY <1>9 DEF Resume
    <3>3. QED BY <1>9, <3>1, <3>2 DEF Permits, Granted, Granting
  <2>3. acted' = acted
    BY <1>9 DEF Resume
  <2>4. Asking!TakePermit(k, question[k])
    BY <1>1, <1>9, <2>1, <2>2, <2>3, ResumePermits DEF Asking!TakePermit
  <2>5. QED BY <1>9, <2>4, ResumePermits DEF Asking!PermissionNext
<1>10. CASE ~Act(k) /\ ~(Resume(k) /\ worker[k] = "asked" /\ worker'[k] = "granted")
  <2>1. acted' = acted
    BY <1>10 DEF Worker, Start, Emit, AskApproval, Resume, Resolve, ObserveCancel, EndTurn, turnVars
  <2>2. ASSUME worker'[k] \in Granting
        PROVE  worker[k] \in Granting /\ question' = question
    <3>1. CASE Resume(k)
      BY <1>0, <1>10, <2>2, <3>1, AttemptTypes DEF Resume, LeaveSession, Granting
    <3>2. CASE Resolve(k)
      BY <1>0, <2>2, <3>2, AttemptTypes DEF Resolve, LeaveSession, Granting
    <3>3. CASE Start(k) \/ Emit(k) \/ AskApproval(k) \/ ObserveCancel(k) \/ EndTurn(k)
      BY <1>0, <2>2, <3>3, AttemptTypes DEF Start, Emit, AskApproval, ObserveCancel, EndTurn,
         LeaveSession, Granting
    <3>4. QED BY <1>10, <3>1, <3>2, <3>3 DEF Worker
  <2>3. QED BY <1>5, <1>6, <1>7, <2>1, <2>2 DEF Asking!PermissionNext
<1>11. QED BY <1>8, <1>9, <1>10

LEMMA NextAsking ==
  ASSUME RInv, [Next]_vars
  PROVE  [Asking!PermissionNext]_(Asking!permissionVars)
<1>1. CASE UNCHANGED vars
  BY <1>1 DEF vars, coroutineVars, turnVars, clientVars, Asking!permissionVars, Given, Permits, Granted, Left
<1>2. QED BY <1>1, CoroutineAsks, WorkerPermits, ClientAnswers DEF Next

\* The service implements Permission: whatever coroutines, workers and clients do, a
\* question is put in its turn, an answer counts for the latest question of a client
\* that is there, and a permit starts one call or lapses.
THEOREM PermissionIsImplemented == Spec => ImplementsPermission
<1>1. Init => Asking!PermissionInit
  BY InitAsking
<1>2. RInv /\ [Next]_vars => [Asking!PermissionNext]_(Asking!permissionVars)
  BY NextAsking
<1>3. QED BY <1>1, <1>2, RInvHolds, PTL DEF Spec, ImplementsPermission, Asking!PermissionSpec
===============================================================================
