------------------------------- MODULE Approvals -------------------------------
(***************************************************************************)
(* Approvals in the web service: a turn that asks, and the resumes that ask *)
(* again, of one session.  Three parties work on each attempt:              *)
(*   - its coroutine, generate() of web_service.py over astream_* of        *)
(*     persistent_session.py, which sends events to the client, registers   *)
(*     the approval with ApprovalBroker and waits for the answer;           *)
(*   - its worker thread, run() of bridge_sync_generator, which drives the  *)
(*     generators of the session and the agent;                             *)
(*   - the answers of clients, which reach submit_approval on their own.    *)
(* The coroutine and the worker talk over two queues.  Coroutines run on    *)
(* one event loop: a step is what runs between two suspensions.  A worker   *)
(* runs whenever it likes.                                                  *)
(*                                                                         *)
(* Abstractions.  A question is the number of its tool call.  Every event   *)
(* that needs no decision is "plain".  Attempts hold the session lock of    *)
(* the service (WebTurns has the lock itself) from "sending" to "waiting".  *)
(* The record is agent._pending_approval (SessionTurn has its file, and the *)
(* resume whose preparer fails).                                            *)
(***************************************************************************)
EXTENDS Integers, Sequences, FiniteSets

CONSTANTS
  MaxAttempts,   \* bound: the first turn and its resumes
  MaxQuestions,  \* bound: approvals a turn may ask for
  MaxAnswers,    \* bound: answers that are on their way at the same time
  None

Attempts  == 1..MaxAttempts
Questions == 1..MaxQuestions
Verdicts  == {"yes", "no"}

ASSUME ApprovalsAssumption ==
  /\ MaxAttempts \in Nat \ {0} /\ MaxQuestions \in Nat /\ MaxAnswers \in Nat
  /\ None \notin Attempts

VARIABLES
  pc,         \* where each attempt's coroutine stands
  event,      \* the event it is handling
  outputs, commands,  \* the two queues of each attempt's bridge
  worker,     \* where each attempt's worker stands
  question,   \* the question each worker is at
  operation,  \* the attempt whose worker holds the session's operation lock
  token,      \* whether the token of the running turn is cancelled
  record,     \* the question a resume would ask again, 0 when there is none
  broker,     \* the attempt registered for each question
  answer,     \* the result of its future
  posted,     \* answers on their way: [question, seen, verdict]
  shown,      \* observer: <<attempt, question>> whose preview was sent
  accepted,   \* observer: <<attempt, answer>> that were accepted
  acted       \* observer: <<attempt, question>> whose tool call was started

coroutineVars == <<pc, event>>
bridgeVars    == <<outputs, commands>>
turnVars      == <<worker, question, operation, token, record, acted>>
brokerVars    == <<broker, answer>>
clientVars    == <<posted, shown, accepted>>
vars == <<coroutineVars, bridgeVars, turnVars, brokerVars, clientVars>>

\* Under the session lock; after it, with the stream still to be closed; over.
InLock  == {"sending", "audit", "chunk", "waiting"}
Leaving == {"erring", "dropped"}
Over    == {"done", "failed", "gone"}

\* A worker that is inside the generator, and one that waits for a command.
Running == {"running", "granted", "declined", "acting"}
Parked  == {"parked", "asked", "resolved_yes", "resolved_no"}

Answers == [question : Questions, seen : Attempts, verdict : Verdicts]
Plain   == [kind |-> "plain"]
Ask(q)  == [kind |-> "ask", question |-> q]
Finish  == [kind |-> "done"]
Error   == [kind |-> "error"]
Items   == {Plain, Finish, Error} \cup {Ask(q) : q \in Questions}
Continue     == [kind |-> "continue"]
Close        == [kind |-> "close"]
Decision(q, v) == [kind |-> "decision", question |-> q, verdict |-> v]
Commands     == {Continue, Close} \cup {Decision(q, v) : q \in Questions, v \in Verdicts}

Go(k, stage) == pc' = [pc EXCEPT ![k] = stage]

Work(k, stage) == worker' = [worker EXCEPT ![k] = stage]

Put(queue, k, item) == [queue EXCEPT ![k] = Append(@, item)]

-------------------------------------------------------------------------------
\* The coroutine.

\* Mutant: an attempt does not wait for the session lock.
BeginAnyway(k) ==
  /\ pc[k] = "new" /\ \A j \in 1..(k - 1) : pc[j] # "new"
  /\ Go(k, "sending") /\ Work(k, "starting")
  /\ UNCHANGED <<event, bridgeVars, question, operation, token, record, acted,
                 brokerVars, clientVars>>

\* The lock is free: the stream is made, its first asend starts the worker.
Begin(k) ==
  /\ pc[k] = "new" /\ \A j \in 1..(k - 1) : pc[j] # "new"
  /\ \A j \in Attempts : pc[j] \notin InLock
  /\ Go(k, "sending") /\ Work(k, "starting")
  /\ UNCHANGED <<event, bridgeVars, question, operation, token, record, acted,
                 brokerVars, clientVars>>

\* An item of the worker arrives; the end of the stream and an error leave the lock.
Receive(k) ==
  /\ pc[k] = "sending" /\ outputs[k] # <<>>
  /\ LET item == Head(outputs[k]) IN
       /\ event' = [event EXCEPT ![k] = item]
       /\ Go(k, CASE item = Finish -> "done" [] item = Error -> "failed" [] OTHER -> "audit")
  /\ outputs' = [outputs EXCEPT ![k] = Tail(@)]
  /\ UNCHANGED <<commands, turnVars, brokerVars, clientVars>>

\* The event is in the audit log and its chunk goes out.
Send(k) ==
  /\ pc[k] = "audit"
  /\ Go(k, "chunk")
  /\ shown' = IF event[k].kind = "ask" THEN shown \cup {<<k, event[k].question>>} ELSE shown
  /\ UNCHANGED <<event, bridgeVars, turnVars, brokerVars, posted, accepted>>

\* Mutant: the last decision is not reset and is sent again.
ProceedRepeating(k) ==
  /\ pc[k] = "chunk" /\ event[k] = Plain
  /\ commands' = Put(commands, k, IF question[k] = 0 THEN Continue ELSE Decision(question[k], "yes"))
  /\ Go(k, "sending")
  /\ UNCHANGED <<event, outputs, turnVars, brokerVars, clientVars>>

\* Mutant: the event is sent back into the stream.
ProceedEchoing(k) ==
  /\ pc[k] = "chunk" /\ event[k] = Plain
  /\ commands' = Put(commands, k, event[k])
  /\ Go(k, "sending")
  /\ UNCHANGED <<event, outputs, turnVars, brokerVars, clientVars>>

\* The next asend passes None on to the worker.
Proceed(k) ==
  /\ pc[k] = "chunk" /\ event[k] = Plain
  /\ commands' = Put(commands, k, Continue)
  /\ Go(k, "sending")
  /\ UNCHANGED <<event, outputs, turnVars, brokerVars, clientVars>>

\* Mutant: the question is registered before its chunk goes out.
RegisterFirst(k) ==
  /\ pc[k] \in {"audit", "chunk"} /\ event[k].kind = "ask" /\ Go(k, "waiting")
  /\ broker' = [broker EXCEPT ![event[k].question] = k]
  /\ answer' = [answer EXCEPT ![event[k].question] = "open"]
  /\ UNCHANGED <<event, bridgeVars, turnVars, clientVars>>

\* The question is registered once its chunk has gone out.  (One that is already
\* pending is an error; RegisteredIsWaiting shows that it does not come to that.)
Register(k) ==
  /\ pc[k] = "chunk" /\ event[k].kind = "ask"
  /\ LET q == event[k].question IN
       IF broker[q] = None
       THEN /\ broker' = [broker EXCEPT ![q] = k]
            /\ answer' = [answer EXCEPT ![q] = "open"]
            /\ Go(k, "waiting")
       ELSE Go(k, "erring") /\ UNCHANGED brokerVars
  /\ UNCHANGED <<event, bridgeVars, turnVars, clientVars>>

\* ApprovalBroker.unregister of what the attempt has registered.
Unregister(k) ==
  /\ broker' = [q \in Questions |-> IF broker[q] = k THEN None ELSE broker[q]]
  /\ answer' = [q \in Questions |-> IF broker[q] = k THEN "none" ELSE answer[q]]

\* Mutant: None is sent into the stream before the decision.
DecideTwice(k) ==
  /\ pc[k] = "waiting" /\ answer[event[k].question] \in Verdicts
  /\ commands' = Put(Put(commands, k, Continue), k,
                     Decision(event[k].question, answer[event[k].question]))
  /\ Unregister(k) /\ Go(k, "sending")
  /\ UNCHANGED <<event, outputs, turnVars, clientVars>>

\* The answer becomes the decision that is sent into the stream.
Decide(k) ==
  /\ pc[k] = "waiting"
  /\ LET q == event[k].question IN
       /\ answer[q] \in Verdicts
       /\ commands' = Put(commands, k, Decision(q, answer[q]))
  /\ Unregister(k)
  /\ Go(k, "sending")
  /\ UNCHANGED <<event, outputs, turnVars, clientVars>>

\* cancel_active_turn: the token is that of whatever turn the session runs.
Cancel == token' = (operation # None)

\* Mutant: the stream is left open.
HangUpSilently(k) == Cancel /\ UNCHANGED commands

\* The end of the bridge's consumer: cancel, then close at the next event.
HangUp(k) == Cancel /\ commands' = Put(commands, k, Close)

\* Mutant: the future of a client that left stays registered.
DisconnectRegistered(k) ==
  /\ pc[k] \in {"sending", "audit", "waiting"}
  /\ HangUp(k) /\ UNCHANGED brokerVars
  /\ Go(k, "gone")
  /\ UNCHANGED <<event, outputs, worker, question, operation, record, acted, clientVars>>

\* The client leaves while the coroutine waits for the worker, the audit log or
\* the answer.  Up to the close nothing suspends but the cancelled asend, which
\* the event loop resumes before anyone who waits for the session lock.
Disconnect(k) ==
  /\ pc[k] \in {"sending", "audit", "waiting"}
  /\ HangUp(k) /\ Unregister(k)
  /\ Go(k, "gone")
  /\ UNCHANGED <<event, outputs, worker, question, operation, record, acted, clientVars>>

\* The event cannot be handled, or the turn is too expensive: the lock is given
\* back and the error is sent before the stream is closed.
BreakOff(k) ==
  /\ pc[k] = "audit"
  /\ Cancel \/ UNCHANGED token
  /\ Go(k, "erring")
  /\ UNCHANGED <<event, bridgeVars, worker, question, operation, record, acted,
                 brokerVars, clientVars>>

\* The generator is thrown away at a yield; the stream is closed when the
\* generator is collected.
Drop(k) ==
  /\ pc[k] = "chunk"
  /\ Go(k, "dropped")
  /\ UNCHANGED <<event, bridgeVars, turnVars, brokerVars, clientVars>>

CloseStream(k) ==
  /\ pc[k] \in Leaving
  /\ HangUp(k) /\ Go(k, "gone")
  /\ UNCHANGED <<event, outputs, worker, question, operation, record, acted,
                 brokerVars, clientVars>>

-------------------------------------------------------------------------------
\* The worker.

Publish(k, item) == outputs' = Put(outputs, k, item)

\* The operation lock, and the token that cancels, end with the turn.
LeaveSession(k) ==
  /\ Work(k, "ended")
  /\ operation' = None /\ token' = FALSE

\* stream_turn and stream_resume_pending_approval: refused while another
\* operation runs, a turn while an approval waits, a resume while none does.
Start(k) ==
  /\ worker[k] = "starting"
  /\ IF operation = None /\ ((k = 1) <=> (record = 0))
     THEN /\ Work(k, "running")
          /\ operation' = k /\ token' = FALSE
          /\ question' = [question EXCEPT ![k] = record]
          /\ UNCHANGED outputs
     ELSE /\ Work(k, "ended") /\ Publish(k, Error)
          /\ UNCHANGED <<operation, token, question>>
  /\ UNCHANGED <<coroutineVars, commands, record, acted, brokerVars, clientVars>>

\* An event without a decision; a resume starts with its question.
Emit(k) ==
  /\ worker[k] = "running" /\ record = 0
  /\ Publish(k, Plain) /\ Work(k, "parked")
  /\ UNCHANGED <<coroutineVars, commands, question, operation, token, record, acted,
                 brokerVars, clientVars>>

\* The next question, or the one of the record with a fresh preview.  The record
\* is saved before the event leaves the session; without it the turn fails.
AskApproval(k) ==
  /\ worker[k] = "running"
  /\ \E q \in Questions :
       /\ q = IF record = 0 THEN question[k] + 1 ELSE record
       /\ record' = q /\ question' = [question EXCEPT ![k] = q]
       /\ \/ Work(k, "asked") /\ Publish(k, Ask(q)) /\ UNCHANGED <<operation, token>>
          \/ LeaveSession(k) /\ Publish(k, Error)
  /\ UNCHANGED <<coroutineVars, commands, acted, brokerVars, clientVars>>

\* Mutant: a decision is taken for an approval whatever it says.
ResumeGranting(k) ==
  /\ worker[k] \in Parked /\ commands[k] # <<>>
  /\ IF Head(commands[k]) = Close
     THEN LeaveSession(k)
     ELSE /\ Work(k, CASE worker[k] = "asked" -> "granted"
                       [] worker[k] = "resolved_yes" -> "acting"
                       [] OTHER -> "running")
          /\ UNCHANGED <<operation, token>>
  /\ commands' = [commands EXCEPT ![k] = Tail(@)]
  /\ UNCHANGED <<coroutineVars, outputs, question, record, acted, brokerVars, clientVars>>

\* A command arrives: a close ends the generators where they are; a decision
\* counts only for the question that waits.
Resume(k) ==
  /\ worker[k] \in Parked /\ commands[k] # <<>>
  /\ LET command == Head(commands[k]) IN
       IF command = Close
       THEN LeaveSession(k)
       ELSE /\ Work(k, IF worker[k] = "asked"
                       THEN IF command = Decision(question[k], "yes") THEN "granted" ELSE "declined"
                       ELSE IF worker[k] = "resolved_yes" THEN "acting" ELSE "running")
            /\ UNCHANGED <<operation, token>>
  /\ commands' = [commands EXCEPT ![k] = Tail(@)]
  /\ UNCHANGED <<coroutineVars, outputs, question, record, acted, brokerVars, clientVars>>

\* Mutant: the record is kept until the call has been made.
ResolveKeeping(k) ==
  /\ worker[k] \in {"granted", "declined"}
  /\ Work(k, IF worker[k] = "granted" THEN "resolved_yes" ELSE "resolved_no")
  /\ Publish(k, Plain)
  /\ UNCHANGED <<coroutineVars, commands, question, operation, token, record, acted,
                 brokerVars, clientVars>>

\* ApprovalResolvedEvent: the record goes before the tool may run.  Without its
\* deletion the turn fails.
Resolve(k) ==
  /\ worker[k] \in {"granted", "declined"}
  /\ record' = 0
  /\ \/ /\ Work(k, IF worker[k] = "granted" THEN "resolved_yes" ELSE "resolved_no")
        /\ Publish(k, Plain) /\ UNCHANGED <<operation, token>>
     \/ LeaveSession(k) /\ Publish(k, Error)
  /\ UNCHANGED <<coroutineVars, commands, question, acted, brokerVars, clientVars>>

Act(k) ==
  /\ worker[k] = "acting" /\ ~token
  /\ acted' = acted \cup {<<k, question[k]>>}
  /\ Work(k, "running")
  /\ UNCHANGED <<coroutineVars, bridgeVars, question, operation, token, record,
                 brokerVars, clientVars>>

\* The turn sees that it is cancelled and ends with an event of its own.
ObserveCancel(k) ==
  /\ worker[k] \in {"running", "acting"} /\ token
  /\ Publish(k, Plain) /\ Work(k, "parked")
  /\ UNCHANGED <<coroutineVars, commands, question, operation, token, record, acted,
                 brokerVars, clientVars>>

\* The generators return or raise, then the end of the stream is published.
EndTurn(k) ==
  /\ worker[k] = "running"
  /\ LeaveSession(k)
  /\ Publish(k, Error) \/ (record = 0 /\ Publish(k, Finish))
  /\ UNCHANGED <<coroutineVars, commands, question, record, acted, brokerVars, clientVars>>

-------------------------------------------------------------------------------
\* Clients.

\* Someone who saw a preview answers it; nobody has to, and anyone may twice.
Post ==
  /\ Cardinality(posted) < MaxAnswers
  /\ \E s \in shown, v \in Verdicts :
       posted' = posted \cup {[question |-> s[2], seen |-> s[1], verdict |-> v]}
  /\ UNCHANGED <<coroutineVars, bridgeVars, turnVars, brokerVars, shown, accepted>>

\* Mutant: an answer replaces the one that was accepted before.
ResolveAgain(p) ==
  /\ p \in posted /\ posted' = posted \ {p}
  /\ IF broker[p.question] # None
     THEN /\ answer' = [answer EXCEPT ![p.question] = p.verdict]
          /\ accepted' = accepted \cup {<<broker[p.question], p>>}
     ELSE UNCHANGED <<answer, accepted>>
  /\ UNCHANGED <<coroutineVars, bridgeVars, turnVars, broker, shown>>

\* submit_approval: 404 unless the question is registered and unanswered.
SubmitApproval(p) ==
  /\ p \in posted /\ posted' = posted \ {p}
  /\ IF broker[p.question] # None /\ answer[p.question] = "open"
     THEN /\ answer' = [answer EXCEPT ![p.question] = p.verdict]
          /\ accepted' = accepted \cup {<<broker[p.question], p>>}
     ELSE UNCHANGED <<answer, accepted>>
  /\ UNCHANGED <<coroutineVars, bridgeVars, turnVars, broker, shown>>

-------------------------------------------------------------------------------
Init ==
  /\ pc = [k \in Attempts |-> "new"]
  /\ event = [k \in Attempts |-> Plain]
  /\ outputs = [k \in Attempts |-> <<>>] /\ commands = [k \in Attempts |-> <<>>]
  /\ worker = [k \in Attempts |-> "none"]
  /\ question = [k \in Attempts |-> 0]
  /\ operation = None /\ token = FALSE /\ record = 0
  /\ broker = [q \in Questions |-> None]
  /\ answer = [q \in Questions |-> "none"]
  /\ posted = {} /\ shown = {} /\ accepted = {} /\ acted = {}

Coroutine(k) ==
  Receive(k) \/ Send(k) \/ Proceed(k) \/ Register(k) \/ Decide(k) \/ CloseStream(k)

Worker(k) ==
  \/ Start(k) \/ Emit(k) \/ AskApproval(k) \/ Resume(k) \/ Resolve(k) \/ Act(k)
  \/ ObserveCancel(k) \/ EndTurn(k)

Leave(k) == Disconnect(k) \/ BreakOff(k) \/ Drop(k)

Next ==
  \/ \E k \in Attempts : Begin(k) \/ Coroutine(k) \/ Worker(k) \/ Leave(k)
  \/ Post
  \/ \E p \in posted : SubmitApproval(p)

Spec == Init /\ [][Next]_vars

\* The event loop and every worker thread go on as long as they can.
FairSpec ==
  /\ Spec
  /\ \A k \in Attempts : WF_vars(Coroutine(k)) /\ WF_vars(Worker(k))
-------------------------------------------------------------------------------
TypeOK ==
  /\ pc \in [Attempts -> {"new"} \cup InLock \cup Leaving \cup Over]
  /\ event \in [Attempts -> Items]
  /\ outputs \in [Attempts -> Seq(Items)] /\ commands \in [Attempts -> Seq(Commands)]
  /\ worker \in [Attempts -> {"none", "starting", "ended"} \cup Running \cup Parked]
  /\ question \in [Attempts -> Questions \cup {0}]
  /\ operation \in Attempts \cup {None} /\ token \in BOOLEAN
  /\ record \in Questions \cup {0}
  /\ broker \in [Questions -> Attempts \cup {None}]
  /\ answer \in [Questions -> Verdicts \cup {"open", "none"}]
  /\ posted \subseteq Answers
  /\ shown \subseteq Attempts \X Questions /\ acted \subseteq Attempts \X Questions
  /\ accepted \subseteq Attempts \X Answers

\* One of the two sides of a bridge is waiting for the other: as long as the
\* coroutine has not hung up, the event it handles, an item or a command is the
\* only thing between it and a worker that is parked, and nothing is while the
\* worker runs.
OneThingInFlight ==
  \A k \in Attempts : pc[k] \in InLock \cup Leaving =>
    Len(outputs[k]) + Len(commands[k]) + (IF pc[k] = "sending" THEN 0 ELSE 1)
      = IF worker[k] \in Parked \cup {"ended"} THEN 1 ELSE 0

\* A decision that is on its way to a worker finds it at the question it answers.
DecisionInPlace ==
  \A k \in Attempts : \A i \in DOMAIN commands[k] :
    commands[k][i].kind = "decision" =>
      i = 1 /\ worker[k] = "asked" /\ commands[k][i].question = question[k]

\* The two queues of the bridge keep coroutine and worker in step.
BridgeInStep == OneThingInFlight /\ DecisionInPlace

\* A registered question has a coroutine that waits for its answer: none stays
\* behind on any way out, to block or mislead the resume that asks again.
RegisteredIsWaiting ==
  \A q \in Questions : broker[q] # None =>
    pc[broker[q]] = "waiting" /\ event[broker[q]] = Ask(q)

\* A tool call runs only if an answer "yes" to this question, given to this very
\* attempt, was accepted: no answer is delivered twice, to another question or
\* to another attempt.
ActedOnAnswer ==
  \A a \in acted : \E p \in Answers :
    <<a[1], p>> \in accepted /\ p.question = a[2] /\ p.verdict = "yes"

\* One answer is accepted for each time a question is put.
OneAnswerEach ==
  \A a, b \in accepted : a[1] = b[1] /\ a[2].question = b[2].question => a = b

\* A question is acted on in one attempt only, even when a resume is started while
\* the worker of an abandoned attempt still has its decision before it.
ActedOnce == \A a, b \in acted : a[2] = b[2] => a = b

\* An accepted answer is used for what it was accepted for, and once.  (This follows
\* from ImplementsPermission and AcceptedFits.)
AnswersAreUsedOnce == ActedOnAnswer /\ OneAnswerEach /\ ActedOnce

\* An accepted answer was given to the preview it is accepted for, unless the
\* attempt that sent the other preview has been lost.
OldAnswersComeFromLostAttempts ==
  \A a \in accepted : a[2].seen # a[1] => pc[a[2].seen] \in {"gone", "failed"}

\* What the documentation promises of a resume: it makes a new preview and asks
\* for approval again, so the answer it goes by is one to that preview.
AnswersItsPreview == \A a \in accepted : a[2].seen = a[1]

\* An answer is accepted only after the preview of that attempt has been sent.
AnswerAfterPreview == \A a \in accepted : <<a[1], a[2].question>> \in shown

\* What is accepted is an answer to a preview that was sent, with the exception named.
AnswersMeetPreviews == AnswerAfterPreview /\ OldAnswersComeFromLostAttempts

\* And there is one for each time a question is put, even when it arrives twice.
AcceptedFits == OneAnswerEach /\ AnswersMeetPreviews

\* What the answers, the workers and the coroutines amount to for Permission.
Given   == {<<a[1], a[2].question, a[2].verdict>> : a \in accepted}
Granted == {k \in Attempts : worker[k] \in {"granted", "resolved_yes", "acting"}}
Permits == {<<k, question[k]>> : k \in Granted}
Left    == {k \in Attempts : pc[k] \in Leaving \cup Over}

Asking == INSTANCE Permission WITH
  put <- shown, given <- Given, permit <- Permits, done <- acted, left <- Left

\* Queues, futures, tokens, locks and records together keep the promises of Permission:
\* every step is one of its steps or changes nothing that a person could rely on.
ImplementsPermission == Asking!PermissionSpec

\* The token that is cancelled is that of a turn whose client has left or whose
\* service has broken it off: no attempt cancels the turn of another one that is
\* still being served.
CancelledWasLeft == token => operation # None /\ pc[operation] \notin InLock

\* An answer that was accepted reaches the turn unless the client leaves.
AcceptedArrives ==
  \A k \in Attempts, q \in Questions :
    (broker[q] = k /\ answer[q] \in Verdicts) ~> (pc[k] \in Over \/ record # q)

\* The thread of an attempt that is over ends, wherever its worker was parked.
WorkersEnd ==
  \A k \in Attempts : (pc[k] \in Leaving \cup Over) ~> (worker[k] = "ended")
===============================================================================
