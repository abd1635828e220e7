------------------------------ MODULE CommandLine ------------------------------
(***************************************************************************)
(* main.py: programs in terminals that work on the sessions of one          *)
(* directory: ask, resume, :retry, :switch, :delete and the ways to exit.   *)
(* Nothing keeps two programs from one session.                             *)
(*                                                                         *)
(* A turn is its question and has one call at a time that needs approval;   *)
(* what else happens in a turn and in the store is in SessionTurn.          *)
(* A snapshot is the set of its turns; a session without turns has no file. *)
(* The question whether to delete a session is one step with its answer,    *)
(* for nothing of the program changes in between.  A terminal may start the *)
(* program again.                                                           *)
(***************************************************************************)
EXTENDS Naturals, FiniteSets

CONSTANTS
  Terminals, SessionNames,
  Nowhere,      \* not a session
  MaxQuestions, \* bound: questions
  MaxMishaps    \* bound: failures of the store

ASSUME CommandLineAssumption ==
  /\ Nowhere \notin SessionNames /\ MaxQuestions \in Nat /\ MaxMishaps \in Nat

Questions == 1..MaxQuestions

VARIABLES
  snapshots,  \* the turns in the file of each session
  records,    \* its pending record
  at,         \* the session that the program of each terminal has open
  screen,     \* what it shows
  history,    \* the turns in its memory
  unsaved,    \* session.dirty
  kept,       \* the pending record in its memory
  current,    \* the turn it runs
  asked, mishaps,
  home,       \* observer: the session of each question
  owed,       \* observer: the turns that were answered, without those whose
              \* session was deleted or shared and those that were in memory only
              \* when their program was killed or ended with a status that is not 0
  executed,   \* observer: turns whose call was executed
  repeated,   \* observer: those of them whose call was executed again
  leftRecord, \* observer: sessions whose record on file has served: it could not be
              \* deleted, or its turn went on without a preview
  shared      \* observer: sessions that a program opened or deleted while
              \* another one had it open

fileVars     == <<snapshots, records>>
countsVars   == <<asked, mishaps>>
watchVars    == <<home, owed, executed, repeated, leftRecord, shared>>
terminalVars == <<fileVars, at, screen, history, unsaved, kept, current, countsVars, watchVars>>

\* The record of a turn fits if a restore accepts the calls that follow its own: their
\* names, identifiers and arguments are checked there, not when it is made.
Record(question, base, fits) == [question |-> question, base |-> base, fits |-> fits]
NoRecord == Record(0, {}, TRUE)

Show(t, next) == screen' = [screen EXCEPT ![t] = next]
Live(t)       == screen[t] # "closed"
Mishap        == mishaps < MaxMishaps /\ mishaps' = mishaps + 1

\* A turn ends and the prompt is shown.
Prompt(t)   == Show(t, "prompt") /\ current' = [current EXCEPT ![t] = 0]
AtPrompt(t) == screen[t] = "prompt" /\ ~unsaved[t]

\* _validate_pending_approval: a record of another snapshot is refused.
Restores(record, base) == record.base = base /\ record.fits

\* PersistentSession.open.
Opens(s) == records[s] = NoRecord \/ Restores(records[s], snapshots[s])

OpenIn(t, s) == {r \in {s} : \E u \in Terminals \ {t} : Live(u) /\ at[u] = r}

StillOwed(gone) == {q \in owed : home[q] \notin gone}

\* Mutant: the record of the session before is kept.
OpenWithRecord(t, s) ==
  /\ at' = [at EXCEPT ![t] = s]
  /\ history' = [history EXCEPT ![t] = snapshots[s]]
  /\ kept' = [kept EXCEPT ![t] = IF Live(t) THEN @ ELSE records[s]]
  /\ shared' = shared \cup OpenIn(t, s) /\ owed' = StillOwed(shared')

OpenAt(t, s) ==
  /\ at' = [at EXCEPT ![t] = s]
  /\ history' = [history EXCEPT ![t] = snapshots[s]]
  /\ kept' = [kept EXCEPT ![t] = records[s]]
  /\ shared' = shared \cup OpenIn(t, s) /\ owed' = StillOwed(shared')

-------------------------------------------------------------------------------
\* The commands.

\* main: a session that cannot be opened ends the program.
Launch(t, s) ==
  /\ ~Live(t) /\ Opens(s)
  /\ OpenAt(t, s) /\ Show(t, "prompt")
  /\ UNCHANGED <<fileVars, unsaved, current, countsVars, home, executed, repeated,
                 leftRecord>>

\* Mutant: a turn is begun although another one waits for approval.
AskAnyway(t) ==
  /\ AtPrompt(t) /\ asked < MaxQuestions
  /\ asked' = asked + 1 /\ home' = [home EXCEPT ![asked + 1] = at[t]]
  /\ current' = [current EXCEPT ![t] = asked + 1]
  /\ Show(t, "working")
  /\ UNCHANGED <<fileVars, at, history, unsaved, kept, mishaps, owed, executed, repeated,
                 leftRecord, shared>>

\* _drive_turn.
AskQuestion(t) ==
  /\ AtPrompt(t) /\ kept[t] = NoRecord /\ asked < MaxQuestions
  /\ asked' = asked + 1 /\ home' = [home EXCEPT ![asked + 1] = at[t]]
  /\ current' = [current EXCEPT ![t] = asked + 1]
  /\ Show(t, "working")
  /\ UNCHANGED <<fileVars, at, history, unsaved, kept, mishaps, owed, executed, repeated,
                 leftRecord, shared>>

\* The preview is shown once its record is saved; if it cannot be, the turn ends
\* and the record stays in memory.
ShowPreview(t, record) ==
  /\ kept' = [kept EXCEPT ![t] = record]
  /\ \/ /\ records' = [records EXCEPT ![at[t]] = record]
        /\ current' = [current EXCEPT ![t] = record.question]
        /\ leftRecord' = leftRecord \ {at[t]}
        /\ Show(t, "approval") /\ UNCHANGED mishaps
     \/ Mishap /\ Prompt(t) /\ UNCHANGED <<records, leftRecord>>
  /\ UNCHANGED <<snapshots, at, history, unsaved, asked, home, owed, executed, repeated, shared>>

\* The calls that follow may be any that a model makes.
AskForApproval(t) ==
  /\ screen[t] = "working"
  /\ \E fits \in BOOLEAN : ShowPreview(t, Record(current[t], history[t], fits))

\* Mutant: it is not asked whether a turn waits.
ResumeAnyway(t) == AtPrompt(t) /\ ShowPreview(t, kept[t])

\* :resume; a record that does not restore changes nothing.
Resumable(t) == AtPrompt(t) /\ kept[t] # NoRecord /\ Restores(kept[t], history[t])

\* The call is previewed again.
ResumeTurn(t) == Resumable(t) /\ ShowPreview(t, kept[t])

\* The preview cannot be made again: the model is told so and the turn goes on, with the
\* record still in memory and on file.
ResumeUnprepared(t) ==
  /\ Resumable(t)
  /\ current' = [current EXCEPT ![t] = kept[t].question] /\ Show(t, "working")
  /\ leftRecord' = leftRecord \cup {at[t]}
  /\ UNCHANGED <<fileVars, at, history, unsaved, kept, countsVars, home, owed, executed,
                 repeated, shared>>

\* The call of the turn in a session; one of a shared session is not counted.
ExecuteCall(q, s, yes) ==
  IF yes /\ s \notin shared
  THEN executed' = executed \cup {q} /\ repeated' = repeated \cup ({q} \cap executed)
  ELSE UNCHANGED <<executed, repeated>>

\* Mutant: the call is executed although its record is still there.
AnswerPreviewAnyway(t, yes) ==
  /\ screen[t] = "approval"
  /\ kept' = [kept EXCEPT ![t] = NoRecord]
  /\ \/ records' = [records EXCEPT ![at[t]] = NoRecord] /\ UNCHANGED mishaps
     \/ Mishap /\ UNCHANGED records
  /\ ExecuteCall(current[t], at[t], yes)
  /\ Show(t, "answering")
  /\ UNCHANGED <<snapshots, at, history, unsaved, current, asked, home, owed,
                 leftRecord, shared>>

\* The answer to a preview: the record is deleted before the call is executed.
AnswerPreview(t, yes) ==
  /\ screen[t] = "approval"
  /\ kept' = [kept EXCEPT ![t] = NoRecord]
  /\ \/ /\ records' = [records EXCEPT ![at[t]] = NoRecord]
        /\ ExecuteCall(current[t], at[t], yes)
        /\ leftRecord' = leftRecord \ {at[t]}
        /\ Show(t, "answering") /\ UNCHANGED <<current, mishaps>>
     \/ /\ Mishap /\ leftRecord' = leftRecord \cup {at[t]}
        /\ Prompt(t) /\ UNCHANGED <<records, executed, repeated>>
  /\ UNCHANGED <<snapshots, at, history, unsaved, asked, home, owed, shared>>

\* The turn is answered and saved, or not saved.
AnswerTurn(t) ==
  /\ screen[t] \in {"working", "answering"} /\ Prompt(t)
  /\ history' = [history EXCEPT ![t] = @ \cup {current[t]}]
  /\ owed' = owed \cup {q \in {current[t]} : at[t] \notin shared}
  /\ \/ snapshots' = [snapshots EXCEPT ![at[t]] = history'[t]] /\ UNCHANGED <<unsaved, mishaps>>
     \/ Mishap /\ unsaved' = [unsaved EXCEPT ![t] = TRUE] /\ UNCHANGED snapshots
  /\ UNCHANGED <<records, at, kept, asked, home, executed, repeated, leftRecord, shared>>

\* Every other end of a turn.
StopTurn(t) ==
  /\ screen[t] \in {"working", "answering"} /\ Prompt(t)
  /\ UNCHANGED <<fileVars, at, history, unsaved, kept, countsVars, watchVars>>

\* :retry; one that fails changes nothing.
Retry(t) ==
  /\ screen[t] = "prompt" /\ unsaved[t]
  /\ snapshots' = [snapshots EXCEPT ![at[t]] = history[t]]
  /\ unsaved' = [unsaved EXCEPT ![t] = FALSE]
  /\ UNCHANGED <<records, at, screen, history, kept, current, countsVars, watchVars>>

\* Mutant: an unsaved state is left behind.
SwitchAnyway(t, s) ==
  /\ screen[t] = "prompt" /\ s # at[t] /\ Opens(s)
  /\ OpenAt(t, s) /\ unsaved' = [unsaved EXCEPT ![t] = FALSE]
  /\ UNCHANGED <<fileVars, screen, current, countsVars, home, executed, repeated, leftRecord>>

\* :switch; if the other session cannot be opened nothing changes.
Switch(t, s) ==
  /\ AtPrompt(t) /\ s # at[t] /\ Opens(s)
  /\ OpenAt(t, s)
  /\ UNCHANGED <<fileVars, screen, unsaved, current, countsVars, home, executed, repeated,
                 leftRecord>>

\* :delete of another session.  session_store.delete removes the snapshot, then
\* the record.
Delete(t, s) ==
  /\ AtPrompt(t) /\ s # at[t]
  /\ snapshots' = [snapshots EXCEPT ![s] = {}]
  /\ \/ /\ records' = [records EXCEPT ![s] = NoRecord]
        /\ leftRecord' = leftRecord \ {s} /\ UNCHANGED mishaps
     \/ /\ records[s] # NoRecord /\ Mishap
        /\ leftRecord' = leftRecord \cup {s} /\ UNCHANGED records
  /\ shared' = shared \cup OpenIn(t, s) /\ owed' = StillOwed(shared' \cup {s})
  /\ UNCHANGED <<at, screen, history, unsaved, kept, current, asked, home,
                 executed, repeated>>

\* A program that ends takes its memory with it.
Leave(t, isTold) ==
  /\ Show(t, "closed") /\ at' = [at EXCEPT ![t] = Nowhere]
  /\ history' = [history EXCEPT ![t] = {}] /\ kept' = [kept EXCEPT ![t] = NoRecord]
  /\ current' = [current EXCEPT ![t] = 0] /\ unsaved' = [unsaved EXCEPT ![t] = FALSE]
  /\ owed' = IF isTold THEN owed \ (history[t] \ snapshots[at[t]]) ELSE owed
  /\ UNCHANGED <<fileVars, asked, home, executed, repeated, leftRecord, shared>>

\* Mutant: the exit status is always 0.
StatusZero(t) == 0

\* _exit_status of an exit that is no interrupt.
ExitStatus(t) == IF unsaved[t] THEN 1 ELSE 0

\* An exit word or the end of the input, at the prompt or at a preview.
Exit(t) ==
  screen[t] \in {"prompt", "approval"} /\ Leave(t, ExitStatus(t) # 0) /\ UNCHANGED mishaps

\* An interrupt closes the turn; the exit status is 130.  A kill is the same step,
\* with no status.
Interrupt(t) == Live(t) /\ Leave(t, TRUE) /\ UNCHANGED mishaps

-------------------------------------------------------------------------------
CliInit ==
  /\ snapshots = [s \in SessionNames |-> {}] /\ records = [s \in SessionNames |-> NoRecord]
  /\ at = [t \in Terminals |-> Nowhere] /\ screen = [t \in Terminals |-> "closed"]
  /\ history = [t \in Terminals |-> {}] /\ unsaved = [t \in Terminals |-> FALSE]
  /\ kept = [t \in Terminals |-> NoRecord] /\ current = [t \in Terminals |-> 0]
  /\ asked = 0 /\ mishaps = 0 /\ home = [q \in Questions |-> Nowhere]
  /\ owed = {} /\ executed = {} /\ repeated = {} /\ leftRecord = {} /\ shared = {}

CliNext ==
  \E t \in Terminals :
    \/ AskQuestion(t) \/ AskForApproval(t) \/ ResumeTurn(t) \/ ResumeUnprepared(t)
    \/ \E yes \in BOOLEAN : AnswerPreview(t, yes)
    \/ AnswerTurn(t) \/ StopTurn(t) \/ Retry(t)
    \/ \E s \in SessionNames : Launch(t, s) \/ Switch(t, s) \/ Delete(t, s)
    \/ Exit(t) \/ Interrupt(t)

CliSpec == CliInit /\ [][CliNext]_terminalVars
-------------------------------------------------------------------------------
\* Types; a program that shows a preview has its record in memory.
CliTypeOK ==
  /\ snapshots \in [SessionNames -> SUBSET Questions]
  /\ \A s \in SessionNames : records[s].question \in Questions \cup {0}
  /\ \A t \in Terminals : Live(t) => at[t] \in SessionNames
  /\ \A t \in Terminals :
       screen[t] = "approval" => kept[t].question = current[t] /\ current[t] \in Questions

\* An answered turn is in the file of its session, or in the memory of a program that
\* has the session open and marks it as unsaved, until that program ends with a
\* status that says so.  Sessions that are deleted, or open in two programs at once,
\* are left out: the later save wins.
AnsweredIsSavedOrTold ==
  \A q \in owed :
    \/ q \in snapshots[home[q]]
    \/ \E t \in Terminals : at[t] = home[q] /\ q \in history[t] /\ unsaved[t]

\* The call of a turn is executed once, in whichever program and session its
\* approval is resumed.  (Two programs that have one session open each have its
\* record in memory and can both execute the call.)
ExecutedOnce == repeated = {}

\* A session can be opened again: its record, if it has one, is of the turns in its file.
\* The code keeps this with four exceptions: two programs had the session open, and one
\* saved a record over the other's snapshot; the record could not be deleted; its turn
\* was resumed and went on without a preview; its own call is followed by one that a
\* restore refuses.
OpensAgain ==
  \A s \in SessionNames : Opens(s) \/ s \in shared \cup leftRecord \/ ~records[s].fits

\* A program resumes only turns of the session it has open.
ResumesOwnTurns ==
  \A t \in Terminals : Live(t) /\ kept[t] # NoRecord => home[kept[t].question] = at[t]

\* An approval is resumed in its own session, and its call is executed once.
ApprovalsStayHome == ExecutedOnce /\ ResumesOwnTurns
===============================================================================
