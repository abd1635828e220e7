# A TLA+ model of the workspace agent

The repository is a Python agent that answers questions about a workspace. It
calls a model in a loop, runs tools, asks a person before it writes, keeps each
conversation in a file, and can be driven from a terminal or through a web
service. This directory holds TLA+ modules for the parts whose correctness
depends on the order of steps, on failures and on crashes; TLC configurations
that check them on small instances; and proofs that TLAPS checks for every
value of the constants.

## The system

| Part (source) | State it keeps | Operations | What makes it hard |
|---|---|---|---|
| Agent turn (`agent.py`) | committed messages and summary; the waiting approval; per turn: step, budgets, seen calls | start or resume a turn, model call, tool call, approval, commit, cancel | nothing of an unfinished turn may survive, except the waiting approval, which must survive everything |
| Persistent session (`persistent_session.py`) | dirty flag and the snapshot still to be written | stream a turn, resume, flush, open | save and delete can fail; the consumer may drop the stream at any event |
| Session store (`session_store.py`) | `<id>.json`, `<id>.pending.json` | save, save_pending, delete_pending, delete, load | a rename or unlink is durable only after the directory is synced |
| Tool middleware (`tool_execution.py`) | a circuit per tool; per call: attempt, deadline, token | execute with retry, backoff, timeout, circuit breaker | answers that arrive after the timeout, probes, cancellation while a worker runs on |
| Web turn service (`web_service.py`, `production_runtime.py`) | session pool, a lock per session, idempotency entries, waiting approvals, slots in use | turn, resume, approve, delete | concurrent requests, retries of the same request, disconnects, deletion while others wait |
| Async bridge (`async_runtime.py`) | two queues between a thread and the event loop | send, close, cancel | closing while the worker is inside a step |
| Workspace tools (`tools.py`) | the workspace files | prepare a write, execute it | the file changes between preview and replacement |
| Audit log (`audit_log.py`) | a log file per session and its rotations | record, rotate, prune, delete | a crash inside the rotation, deletion during recording |
| Knowledge index (`knowledge_index.py`, `knowledge_runtime.py`) | embedding cache file and lock file | load, embed, commit | two processes at once |
| Command line (`main.py`) | the current session | switch, delete, retry, resume | the same session named twice, failures half-way |
| Message history (`agent.py`) | none (pure functions) | trim, drop incomplete tool groups, extract removed turns | tool calls separated from their results |
| Documents, retrieval, citations, evaluation, security helpers, contracts | none | parse, rank, encrypt | data only |

How they interact: the web service or the command line opens a
`PersistentSession`, which owns one `WorkspaceAgent` and drives it as a
two-way generator: the agent yields events, the session writes to the store
*before* it passes an approval event on, and the consumer's answer to the event
is sent back down. A tool call goes through the middleware. The web service
runs the generator in a worker thread behind the async bridge and feeds it
decisions from the approval broker.

What should be true of each part:

* Turn, session, store: an approved call takes effect at most once; an answer
  reported as saved is never lost; an unfinished turn leaves nothing; a waiting
  approval can always be resumed; budgets belong to the turn and not to the
  process; every turn ends.
* Middleware: a side effect is not left running behind the caller's back; a
  circuit that opened lets a probe through again; a call returns.
* Web service: turns of one session are serial; a repeated request does not run
  a second turn; every slot, approval and lock is given back.
* Approvals and bridge: an answer is used once, for the question and the attempt
  it was given to; a closed stream ends its thread.
* Tools: an external change is never overwritten silently. Audit log: no record is
  lost by a rotation, and a deletion leaves none. Index: it can always be loaded,
  and does not keep what was deleted. Messages: what is committed can be restored,
  and what is trimmed was offered to the summary. Command line: no answer is left
  behind without a word, no approval is carried to another session.

## Modules

### `SessionStore`

The two files of one session. `snapFile` and `pendFile` are what a process
reads; `snapMedia` and `pendMedia` are the sets of contents that a power loss
may leave. Every operation of `session_store.py` replaces or unlinks a file
atomically and then syncs the directory, so it has three outcomes: `"ok"`,
`"failed"` (raised before the directory changed) and `"unsynced"` (the
directory changed, the sync raised). A successful sync makes the operation's
own entry durable, and the other outcomes add to the set. `PowerLoss` picks
one content of each set. `Faults` names the operations that may fail in a run
and `MaxFaults` bounds how many do.

### `SessionTurn`

One session and the turns on it: `agent.py` driven by `persistent_session.py`
over `SessionStore`. `pc` is the place of the one operation in progress:

| `pc` | where the code is |
|---|---|
| `"idle"`, `"down"`, `"refused"` | no operation; no process has the session open; `open` raised |
| `"model"` | in `_stream_response` |
| `"calls"` | in the loop over the response's tool calls, `queue` are those left |
| `"asking"`, `"approval"`, `"resolving"` | the approval event was created; was saved and shown; was answered |
| `"executing"` | inside the middleware, or about to enter it |
| `"committed"` | `self.messages` was replaced, `save` has not run |

Both locks (`_operation_lock`, `_turn_lock`) are held exactly while `pc` is a
stage, which is why one `pc` is enough: a second operation is refused at once
and changes nothing. The actions are the operations: `StartTurn` and
`ResumeTurn` with their refusals as guards; `ModelCalls`, `ModelAnswers`,
`ModelStops`, `NextStep` for the loop; `SkipCall`, `FailCall`, `AskApproval`,
`RunFreeCall`, `Execute`, `ExecutionCancelled` for `_execute_tool_call` in the
order of its checks; `PersistApproval`, `Decide`, `ClearApproval` for the
approval as both layers see it; `SaveAnswer`, `Flush`; `CloseStream` and
`CancelTurn` by the consumer; `Crash`, `Open`, `OpenRefused`, `DeleteSession`
around it.

What is abstracted:

* The committed messages and summary are a version number, larger for each
  commit. Two commits never have equal snapshots, since a commit adds messages.
* A tool call is its signature. `Kind` says how the registered tools treat it:
  approval with a preparer (`write_file`), approval without one, no approval, or
  a call that cannot be made. Call ids are fresh; a model that reuses an id
  within a turn is not modelled.
* Whether a result fills the result-character budget, whether an execution has
  an effect, and what the model answers are free choices.
* The middleware is one step: its retries are `ToolMiddleware`'s.
* Deleting a session happens while nobody has it open; the command line
  refuses to delete the current session.

Three variables observe and never influence a step: `ran` (effects of each call
in each turn), `spent` (middleware calls of each turn) and `acked` (the newest
version reported as saved).

### `WebTurns`

The turn and delete endpoints of `web_service.py` for one session, with the
registries of `production_runtime.py` they share. The actors are requests and
deletions, each made once. Requests of one `Key` are repetitions.

| `pc` | where the handler is |
|---|---|
| `"new"`, `"waiting"`, `"refused"`, `"done"` | not arrived; waits for the response of another request; turned away; answered |
| `"accepted"` | owns an idempotency entry, its generator has not entered a slot |
| `"lock"` | in a slot, waits for the session lock |
| `"opening"`, `"loaded"` | in `TenantSessionPool.get`, before and after the session object was built off the loop |
| `"turn"` | drives the bridge: `worker` says where the thread of the turn is |
| `"erring"` | left its contexts with an error, entry not yet completed |
| `"deleting"`, `"deleted"` | a deletion under the lock, before and after its files are gone |
| `"broken"`, `"gone"`, `"dropped"` | broken off by the service; the client left; the generator was closed at a yield or never started |

`Begin` is `RequestIdempotencyStore.begin` and the choice of response; `Enter`,
`Acquire`, `UsePooled`, `Load`, `Opened` lead into the turn; `Start`, `Commit`,
`End`, `Fail` are the worker thread, which goes on after its handler has left;
`Finish`, `Raise`, `BreakOff` (cost limit or audit failure),
`CompleteWithError`, `Disconnect`, `CloseAtYield`, `DropResponse` are the ways
out; `AskDelete`, `DeleteFiles`, `Discard` are a deletion, after which the session
leaves the pool, or stays in it if its logs could not be deleted. The event loop is one
thread, so a step is what runs between two suspensions. Lock objects, session
objects and snapshots are named after the actor that made them, which is what
lets two lock objects of one session be told apart.

What is abstracted: one session (`scope`) and one user, so that the per-user
and the global limit are one number; the registries' own asyncio locks, which
guard code without a suspension; the order in which an asyncio lock wakes its
waiters (any order); which completed entry is evicted (any); whether a
repetition has the body of the first request (it follows or is refused, both
are possible). A turn either commits and saves or not; its inside is
`SessionTurn`'s, and its events and approvals are `Approvals`'.

### `Approvals`

The events of a turn on their way from the worker thread to the client, and the
answers on their way back: `generate()` and the approval endpoint of
`web_service.py`, `ApprovalBroker` of `production_runtime.py`, the asynchronous
streams of `persistent_session.py` and `bridge_sync_generator` of
`async_runtime.py`. An attempt is the first turn or a resume. Each has a
coroutine (`pc`), a worker (`worker`) and the bridge's two queues between them
(`outputs`, `commands`); they share the session's operation lock (`operation`),
the token of the running turn, the waiting record and the broker's table
(`broker`, `answer`).

`Begin`, `Receive`, `Send`, `Proceed`, `Register`, `Decide`, `CloseStream` are
what the coroutine does between two suspensions: get an item, write the audit
record, send the chunk, register the approval *after* its preview was sent, wait,
pass the decision on, hang up. `Start`, `Emit`, `AskApproval`, `Resume`,
`Resolve`, `Act`, `ObserveCancel`, `EndTurn` are the worker's steps between two
waits. `Post` and `SubmitApproval` are a client's answer and its arrival, which
may be early, late, twice, or meant for the preview of an earlier attempt.
`Disconnect`, `BreakOff`, `Drop` are the ways in which a coroutine is lost.

Abstracted: the session lock is given free when a coroutine leaves its streaming
part (the lock object and its deletion are in `WebTurns`). An approval has no
timeout: a turn waits until it is answered or its client leaves.

### `Conversation`

What a session promises, without records, budgets, files or flags: a turn starts
from an answer that is stored, ends with an answer or with nothing, and a guarded
call takes effect only with a permit that was asked for and granted, once per
turn. Failing stores, ends of the process and power losses are steps of it as
well: it says what they may cost. `SessionTurn` maps its state to it
(`Talk == INSTANCE Conversation WITH ...`) and `ImplementsConversation` is the
claim that it implements it.

### `TurnService`

What the web service promises of one session's turns, without locks, pools, slots,
threads or idempotency entries: a turn runs alone and from the answer saved last, it
saves the next one, and requests with one key are answered once, except after a
client left or an entry was dropped (`excused`). A deletion takes the files from
under no turn whose client waits, and is final. What the code keeps of this after a
deletion is little, since the lock object is discarded with the session
(`web_v_serial`): then `TurnService` promises only that no key is answered twice.
`WebTurns` maps its state to it (`Serving == INSTANCE TurnService WITH ...`): the
saved file is `latest`, a worker before its save is the `turn` that runs.
`ImplementsTurnService` is the claim that it implements it.

### `Permission`

What whoever is asked for approval can rely on: a turn and its resumes put their
questions in order and one attempt at a time; an answer counts for the latest
question of an attempt that is there, and one per question put; a "yes" becomes a
permit, which starts one call while its client is there, or lapses; what was done is
never asked about or permitted again. `Approvals` maps its queues, futures and
workers to it (`Asking == INSTANCE Permission WITH ...`): a worker that has its "yes"
and has not started the call holds the permit (`Permits`), and a coroutine on its way
out is an attempt that `left`. `ImplementsPermission` is the claim.

### `ToolMiddleware`

Calls of one tool through `ToolExecutionMiddleware`. `policy` is chosen
initially among the valid ones, `ValidPolicy` being the rules of
`ToolExecutionPolicy.__post_init__`. `pc` is `"new"`, `"ready"` (top of the
attempt loop), `"starting"`, `"running"`, `"backoff"` or the way the call ended.
The token is looked at (`CheckToken`) before the thread of the attempt starts
(`StartAttempt`); a cancellation may come in between, and the attempt is made all
the same. `workers` are the attempts whose action still runs, whether or not
anybody waits for them; `outcome` is the one-place queue of the current attempt;
`succeeded` is an observer of the effects whose action returned. A deadline is
something that may pass at any moment (`TimeOut`, `BudgetRunsOut`), an open
circuit something that cools (`Cool`), and a non-retryable error a choice not
to retry. `late`, the passing of the total budget, is kept because it is looked
at later than it happens; the deadline of one attempt is not.

### `WorkspaceFiles`

Approved writes to one path (`prepare_write_file` and the `execute` it returns)
in a directory that other programs write to as well. `pc` goes through the looks
at the file system in the order of the code: `"reading"`, `"previewed"`,
`"approved"`, the first validation (`"located"` after the path, `"valid"` after
the file), `"staged"` (temporary file written), the second validation
(`"relocated"`, `"checked"`) and the replacement. `link` is where the path
leads, `place` and `expected` are what the closure of the preparer keeps. Two
observers say what the code cannot know: `moved` (the file changed since the
preview) and `missed` (it changed after the part of the last validation that
would have seen it). Abstracted: file modes, the temporary file itself, and the
preview text. Other programs replace whole files.

### `AuditLog`

The log of one session as its numbered files (`names` is the directory, slot 0
the current file, slot i its i-th rotation), and the calls that change it. A call
is taken from `calls` when the lock of the class is free and then goes through
its `stage`s, each one change of the directory: `Prune`, `Pruned` (retention, at
the first record of a logger), `Open`, `Rotate`, `Rotated`, `Reopen`,
`AppendLine`, `SyncNewFile` for `record`; `DeleteFile`, `Deleted` for
`delete_session_logs`. `FailCall` ends a call at any step; `Crash` and
`PowerFailure` end the process; `Month` lets the retention time pass;
`PruneElsewhere` is the retention of another session's record, which goes over
the whole directory. `AskForLock`, `TakeSessionLock`, `Emit`, `EndTurn`,
`CancelTurn`, `DeleteSnapshot`, `Discard` are the service's use of it: each record is
written by a thread of its own, which a cancelled coroutine leaves behind. Turns and
deletions hold a lock object of the session. The pool hands out one until a deletion
discards it (`lock` counts them, `web_service.py:961`); who waits for the old one
(`lockOf`) then runs beside the holders of the next, as `web_v_serial` shows for
turns. Whether the session has files to delete is left open in `DeleteSnapshot`:
turns save at their own moments, which this model does not have. A deletion that
found none is over, and no call removes the logs. Records have one size; what a record may
contain, its limits and its encoding are not looked at. The command line has the
same log without rotation.

### `MessageHistory`

The messages of a conversation over its turns: `Ask` is everything of a turn up
to its first request (trim to the context, drop tool groups that lost a part, put
the removed turns into the summary, fit the summary into the system message);
`CallTools` and `AppendResult` append a response and its results; `Answer`
commits; `GiveUp` forgets. The operators `TrimHistory`,
`HasCompleteToolGroups`, `HasOnlyCommittedTurns`, `RemoveIncompleteToolGroups`,
`FittingSummary` (a binary search) and `RemovedTurns` are the code's functions.
A message is its kind, its turn and its size in tokens; texts are not empty, and
the calls of one response have different ids. Restoring gives back what was
saved, hence no step.

### `KnowledgeIndex`

Starts of programs that share one index of embedded chunks: read the documents
one after the other, load the index under its lock, embed what is missing without
the lock, replace the index under the lock and sync its directory. A start's
place is its `phase`; the world edits documents (`EditDocument`), returns vectors
of another length (`ChangeService`), fails (`FailStart`) and loses power
(`LosePower`).

### `CommandLine`

Programs in two terminals that open the sessions of one directory by name, as
`main.py` lets them: ask, answer a preview, `:resume`, `:retry`, `:switch`,
`:delete`, leave by an exit word, by an interrupt or by a kill, and start again.
A turn is its question and one call at a time that needs approval; what else is in
a turn, and the syncs of the store, are `SessionTurn`'s. A resume may get its preview
(`ResumeTurn`) or find that it cannot be made again (`ResumeUnprepared`): the model is
told, the turn goes on and commits, and the record stays. A record is its question, the
turns it is based on, and whether a restore accepts the calls that follow its own
(`fits`). Nothing in the code keeps two programs from one session. What they can do to each other then (the
later save wins, an approval that both hold is executed twice, a record saved
over the other's snapshot cannot be opened) is in the model, and the properties
except the sessions that were `shared` in this way.

### `MC…` and `…Proofs`

`MCParts` puts `WorkspaceFiles`, `AuditLog`, `MessageHistory`,
`KnowledgeIndex` and `CommandLine`, which share no state, into one run: a
behaviour chooses its part at the start and the others stand still.
`MCApprovals` is an instance without definitions of its own.
`MCSessionTurn` says what kind each call is and gives responses of one or two
calls in every order, a repeated call included. `MCWebTurns` has two requests
of one key and one of another. `MCToolMiddleware` lists the policies: the
servers' read-only tools with and without retries, `write_file`, and the
cooperative and external tools of the tests, and cooperative writes. The modules
that end in `Proofs`, `SessionRefinement` and `SessionResume` hold the theorems;
`PartsProofs` has those of every part of `MCParts` but the audit log, and of the
parts together.

## Runs

A cfg names few invariants: those that belong together are the conjuncts of one.
The sections below give the parts, with the name the run checks in brackets.
The types of `SessionTurn`, `WebTurns`, `ToolMiddleware`, `Approvals` and
`WorkspaceFiles` are theorems of their own; those of the parts of `files` are checked
together (`PartsTypeOK`) and proved of their composition.

| Run | Question | Instance |
|---|---|---|
| `faults` | Do single-use approvals, durability of what was reported, and rollback survive failing operations and crashes, and is the session a `Conversation`? | two guarded calls, 2 turns, 3 steps, budget 2, any one operation failing, preparers that raise, 2 crashes or power losses |
| `recover` | Can the session always be opened and its approval resumed, does a resumed turn continue where it stopped, and does every turn end? | a guarded and two free calls, 2 turns, 2 crashes, one failing save or power loss |
| `v_prepare`, `v_broken` | Two ways in which a waiting approval makes its session unusable | the smallest instance that shows each |
| `web_serve` | Are turns serial, repetitions harmless, slots given back and waiters answered, whatever clients do, and is the service a `TurnService`? | a request, its repetition, another request and a deletion; two slots, two entries, every kind of departure, expiry and turns broken off |
| `web_v_serial`, `web_v_disconnect`, `web_v_stuck` | The same properties without their exceptions | the fewest actors that show each |
| `tool_calls` | Do attempts, deadlines, cancellation, threads left behind and the circuit breaker fit together? | three calls, one at a time, two with a key, threshold 2, seven policies |
| `approvals` | Does every answer reach the question, the attempt and the preview it is for, does every thread end, and do answers and calls follow `Permission`? | a turn that may ask twice, its resume, two answers on their way at a time |
| `approvals_v_late` | Does a resumed turn go by an answer to its own preview? | the same |
| `files` | Five questions to five parts | two writes to a path that leads to one of two files, three changes by another program; a log of two turns with two events each, two deletions and two rotations; three turns of a conversation that outgrows its context; two starts with two documents; two terminals with two sessions and two questions |

### Properties of a session

The properties and the code they are about:

* `EffectOnce`: an approved call takes effect at most once in its turn. The
  code deletes the record before the tool runs (README.md:114-116 promises
  at-most-once).
* `EffectInv`: the inductive reason, see Proofs.
* `AckedSurvives` (`NothingIsLost`): after `SessionSavedEvent`, no later flush and no power loss
  leaves an older version.
* `SavedOrDirty` (`NothingIsLost`): an idle session either holds what its file holds or knows
  what it has to write, even if the stream was dropped between commit and save.
* `ShownApprovalIsDurable`: at the moment a person is asked, the record and the
  snapshot it is based on are exactly what a power loss leaves.
* `RollbackExact` (a property of steps): a turn that ends before its commit
  leaves messages and snapshot file as it found them.
* `NoCallRunsTwice`, `BudgetAcrossResume` (`ResumeContinues`): a resume repeats no call and gets no
  new budget, because the record carries the state from before the call that
  waited (`state_before`, agent.py:689).
* `Reopenable`, `PendingCanBeResumed` (`Recoverable`): whatever was left behind can be opened
  and resumed. They hold while no preparer raises on a resume and no waiting
  approval is followed by a call that cannot be made (`v_prepare`, `v_broken`;
  findings in `PROJECT.json`), and while `delete_pending` does not fail: with
  `"delete_pending"` among the `Faults` of `recover`, TLC finds an approval
  record that outlives the commit of its turn and no longer fits the snapshot.
  With two failed directory syncs and a power loss `Reopenable` can fail as
  well: the run allows one failed operation.
* `TurnEnds`: fairness below.

A re-prepare that fails on a resume also breaks `NoCallRunsTwice` and
`BudgetAcrossResume`, by the same cause as `v_prepare`: the old record stays
and can be resumed again after calls that ran since. `EffectOnce` holds all the
same, because a guarded call always destroys the record first.

### Properties of the web service

Three promises fail in the code, each by a way out that a test hardly reaches;
the violation runs show them and `PROJECT.json` quotes the documentation:

* `OneTransaction` (turns and deletions of a session exclude each other):
  `delete_owned_session` discards the lock object others wait for.
* `TurnUnderLock` (the session lock covers the worker thread): a disconnect
  gives the lock back while the thread may still commit.
* `OpenEntriesAreServed` (an entry in flight has somebody who will complete
  it): a generator closed at a yield never reaches `complete`.

What holds is therefore stated with the exception named, so that any other way
to break it would be found:

* `SerialUntilDeleted`: no two turns at a time as long as nothing was deleted.
* `ImplementsTurnService`: turns, saves and deletions follow `TurnService`. Among
  what it implies is `NoLostUpdate` (proved): until the deletion a save continues the
  snapshot it replaces, even by a thread whose client has left. It does not follow
  from the lock: the pool's double check and the session's own lock carry it.
* `OneOwnerPerKey`, `CommitOncePerKey` (`AnswerPerKey`): a key has one response in generation,
  and a second answer only after the first client left or the entry was dropped.
* `OrphansWereDropped`: only a closed or never started generator orphans an
  entry. `RepetitionsEnd`: everybody else's repetitions are answered.
* `SlotsExact`: the limiter's count is the number of responses inside it.
* `DeletedWhileServed` (a property of steps): the first deletion of a session does
  not take its files from under a turn whose client is there. A second one may: it
  gets the new lock object, while a turn that waited for the discarded one runs.

### Properties of the middleware

* `EffectIsReported`: a write or an external effect without a deadline that succeeded
  is the last attempt of its call and is reported as a success, whenever the turn was
  cancelled and however many attempts were left. The model is not told that it failed
  and does not ask for it again.
* `ProbeHasOwner`, `OpenAtThreshold` (`BreakerInStep`): the flag of the recovery
  probe belongs to a call that will clear it, whichever way that call ends, backoff
  and cancellation included; a circuit is open exactly when its failures reached
  the threshold.
* `UntimedEffectStays`: a write or an external effect without a deadline runs only
  while its caller waits for it. This covers `write_file`. For cooperative tools
  with a deadline, which only the tests have, it would not hold: their thread runs
  on, and a retry even starts a second effect beside the first.
* `CallReturns`: a call with a deadline, in the caller's thread, or cancelled
  and abandonable does not stay in `execute`, even if its action hangs.

### Properties of approved writes

* `ReplacesPreview`: a replacement takes effect on what was previewed, where it
  was previewed. The roadmap (line 96) promises that outside changes are kept;
  between the last validation and `os.replace` no check is possible, so the
  property excepts exactly that window, and starts it for a redirected path at
  the look at the path, which comes before the look at the file.
* `OnePreviewOneWrite`: two sessions that were shown the same file do not both
  write it. `ConflictIsReal` (proved): no conflict is reported without a change.

### Properties of approvals

* `OneThingInFlight` (`BridgeInStep`): an item, a command or the event being handled is the only
  thing between a coroutine and a worker that is parked, and nothing is while it
  runs. It is why two unbounded queues behave like a call, and why a decision
  always finds the worker at its question (`DecisionInPlace`).
* `RegisteredIsWaiting`: whoever is in the broker's table waits for an answer, on
  every way out of the coroutine; nothing stays to mislead the resume.
* `ImplementsPermission`: questions, answers and calls follow `Permission`. It
  implies `ActedOnAnswer` and `ActedOnce`: a tool runs on an accepted "yes" to its
  question in this attempt, and a question is acted on in one attempt only, also when
  the worker of an abandoned attempt still has its decision before it. It says more:
  no question is put while an earlier attempt is still there or the one before it
  is open, and no call starts after its client has left.
* `OneAnswerEach`, `AnswerAfterPreview`, `OldAnswersComeFromLostAttempts`
  (`AcceptedFits`): one answer is accepted each time a question is put, none
  before the preview is out, and an answer to another attempt's preview only if that
  attempt was lost. `approvals_v_late` shows that this exception is real: an answer
  names a call, not a preview, and the documentation promises a fresh one.
* `CancelledWasLeft`: nobody cancels the turn of an attempt that is still served.
* `AcceptedArrives`, `WorkersEnd` (liveness): an accepted answer reaches its turn
  unless the client leaves; the thread of an attempt that is over ends wherever
  it was parked.

### Properties of the audit log

* `ReportedSurvives`: a record whose call returned is on disk after any crash or
  power failure, until rotation, retention or deletion removes it. The exception
  `atRisk` is real: when the creation of a file was cut short before the directory
  was synced, the records that follow go into a file whose name may be lost.
* `RotationKeepsDepth`, `FilesInOrder` (`RotationIsSound`, with the next): a
  rotation costs the oldest records only, and files read from the oldest on are in
  order, also after one stopped half-way.
* `TurnInOrder`: records of a turn are in the order of its events.
* `DeletedIsGone`: nothing of before a deletion that succeeded is in the log, nor
  comes back with a power failure. Two records may: one whose response was cancelled
  while its thread went on (`stray`), and one that a turn still waited for which runs
  on a lock object discarded by an earlier deletion (`beside`). Both are real: the
  coroutine cannot stop a thread, and the second is the consequence for the log of
  what `web_v_serial` shows. A deletion answers 404 once the snapshot is gone, so
  that after a crash between snapshot and logs no call removes the logs; they are not
  "deleted" in the sense of the property. Nor are files whose removal an earlier call
  left unsynced: a deletion that finds nothing syncs nothing.

### Properties of the messages

* `Restorable`: what is committed passes the checks of `restore_snapshot`,
  whatever was trimmed and removed before.
* `RequestFits`, `SummaryIsLongest`, `KeepsWhatFits` (`UsesItsContext`): the first request of a turn
  fits into the context, with as much of the summary and as many of the latest
  turns as fit. The last two compare the code's searches with what they search
  for, written as a quantifier.
* `NothingUnsaid`: a committed turn is in the messages, in the summary, or was
  removed while no summary could be made.

### Properties of the index

* `AlwaysLoadable` (`IndexSurvives`): no sequence of starts, changes of the service and power
  failures leaves an index that `_load` refuses.
* `DeletedChunksGo`: the commit of a start writes only chunks that were in a
  document since that start began. A start that began before a deletion may
  write a deleted chunk once more (roadmap line 158 says that the next successful
  commit cleans it away; the next start's does).
* `ReadyIsSaved` (`IndexSurvives`): a start that is ready has its vectors on disk until another one
  replaces the file.

### Properties of the command line

* `AnsweredIsSavedOrTold`: an answer is in its session's file, or in the memory of
  a program that marks it as unsaved, until it ends with a status that says so.
* `ExecutedOnce`, `ResumesOwnTurns` (`ApprovalsStayHome`): over switches, restarts and deletions an
  approval is resumed in its own session, and its call executed once.
* `OpensAgain`: a session opens again, over everything two programs do. The code has
  four exceptions, and the property names each: two programs had the session open; the
  record could not be deleted; its turn was resumed and went on without a preview
  (the run `v_prepare` shows it); its call is followed by one that a restore refuses
  (`v_broken`). The middle two are `leftRecord`, which ends when a record is saved or
  deleted.

### Bounds

`SessionTurn`: `MaxLoops = 3` gives two steps with tools and the last one
without (the code's default is 5, and the steps in between do not differ).
`MaxToolCalls = 2` is reached and exceeded. Two turns are needed for a record of
one to meet the commit of another, and suffice because records name one base
version. Two crashes let a turn be interrupted before and during a resume.
Responses have up to two calls, so that a call is followed by another one of
every kind. `MaxTurns`, `MaxCrashes`, `MaxFaults` bound the counters; they do
not appear in guards of the program's own steps.

`WebTurns`: two requests of one key and one of another are the fewest in which
a repetition and a competitor for the lock meet. With two keys and two entries the
store is never too small, and with a repetition waiting outside the limiter nor are
two slots: the eviction of an entry, the refusal by a full store and the refusal by
the limiter are in the model and the theorems, which hold for any numbers, but this
run does not reach them.

`ToolMiddleware`: two failures open the circuit and the third call is the
probe. An agent has a middleware of its own and makes one call at a time, hence
`MaxParallel = 1`; threads left behind by timeouts run beside later calls. The
theorems hold for any `MaxParallel`.

`WorkspaceFiles`: two writes can be each other's conflict, and three changes
allow one in each of: before the preview, between preview and validation, in the
window. The theorems hold for any numbers.

`Approvals`: two questions, so that an answer can be meant for the other one; two
attempts, so that it can be meant for the other preview; two answers, so that
they can compete.

`AuditLog`: files of one record and two rotations, so that four records go through
every slot and over the edge. Two deletions, since the second is the first that can
meet a turn on a discarded lock object. One end or failing step, so that a rotation,
a removal or a deletion is cut short somewhere; two of them in one behaviour are left
to the theorems. A month passes only when no turn or deletion is there or waits, and
no call; a file expires then and a turn is still to come. `Files` has a number for every file that a record, a rotation or an
interrupted step can create, so that a new file is never missing.
`MessageHistory`: sizes 1 and 2 in a context
of 6 with one tool group, so that a turn can be removed whole, in part, or not at
all; three turns, so that a turn is removed after one was. `KnowledgeIndex`: two
starts are enough to overwrite each other; two edits or changes of the service and
one failure. `CommandLine`: two questions, so that one can wait while the other is
answered; one failure of the store (two are left to the theorems).

Deadlock is not checked: a session may be left alone, and requests and calls
are finitely many.

### Fairness

`SessionTurn` has weak fairness of `AgentStep`: the worker thread is scheduled,
a model call and a tool call return or raise. The default policies give every
read-only tool a timeout, and the model client raises on a broken connection.
Nothing is assumed of the user (`Decide`, `CloseStream`, `CancelTurn`, `Flush`)
or of crashes, so `TurnEnds` allows a turn to wait at an approval forever.

`WebTurns` has weak fairness of `Progress`: as long as some handler, worker or
accepted deletion has a step, one of them takes one. That is what an event loop
and a thread scheduler give, and it is enough because requests are finitely
many. Clients need not arrive or leave, and a turn need not commit.

`ToolMiddleware` has weak fairness of `Progress`: the loop in `execute` goes on
and an action in the caller's thread ends (`execute` can do nothing about one
that does not). An action in a worker thread need not end.

`Approvals` has weak fairness of each attempt's coroutine and of each worker: the
event loop and the threads go on. Clients need not answer or leave, and new
attempts need not begin. The parts of `files` have safety properties only.

## Proofs

`SessionTurnProofs` proves, for every set of calls, every `Kind`, all budgets,
and any number of turns, crashes, power losses and failures:

* `TypeCorrect`: `Spec => []TypeOK`.
* `EffectInvariant`: `Spec => []EffectInv`, and from it `EffectAtMostOnce`:
  `Spec => []EffectOnce`.

`EffectOnce` alone is not inductive: a state in which a call has run and an old
record without it still exists would allow a second run. `EffectInv` adds:
`EffectIsSeen` (every record that can bring the turn back, in memory, on file
or among what a power loss may leave, knows the guarded calls that ran),
`GuardedCallPending` (from the question to the execution the call has not run,
and once it may run no record of its turn exists anywhere), `NoHiddenRecord`
(a turn that can continue has no record that exists only on the medium, so that
`missing_ok` in `delete_pending` cannot skip a sync that was needed),
`UnusedTurns` and `ClosedIsEmpty`. The proof has one lemma per group of actions:
`StoreRecords` says which records an operation of the store can leave;
`LoopEffect`, `CallEffect`, `ApprovalEffect`, `ExecuteEffect`, `UserEffect` and
`EnvironmentEffect` preserve the invariant. The assumptions are those named in
the modules (`FaultsAssumption`, `CallsAssumption`, `LimitsAssumption`,
`NoneAssumption`).

`SessionRefinement`, under the same assumptions:

* `SaveInvariant`: `Spec => []SaveInv`, and from it `NothingForgotten`
  (`SavedOrDirty`), `ReportedSurvives` (`AckedSurvives`) and `RollbackIsExact`.
  None of the three is inductive: `SaveInv` adds how the committed version, the
  version to be written, the file and what a power loss may leave are ordered, and
  that everything on the medium is older than the version being committed.
* `Implements`: `Spec => ImplementsConversation`. Initial states map to initial
  states, and each step maps to the step of `Conversation` its lemma names, or to
  a stutter; `EffectInv` gives that a permit is used once, `SaveInv` that a turn
  starts from what is stored.
* `NoTurnIsLost` puts the first two together, as the run `faults` does.

`WebTurnsProofs`, for every set of requests and deletions, every assignment of
keys, all limits and all ways of leaving:

* `TypeCorrect`; `OneOwner`, `CommitOnce` (together `OneAnswerPerKey`) and
  `OnlyDroppedOrphans` from `ReplayInv`:
  who is active owns an entry in the store (`OwnersEntered`), no two entries have
  one key (`UniqueKeys`), and a request that runs or saved a turn has its entry
  still, or lost it as a completed one, or its client left (`TurnsAreKnown`).
  Eviction takes completed entries only, so an active owner's entry stays.
* `SerialTurns`, `SavesAreConsecutive` from `SerialInv`: until a deletion there
  is one lock object in use, the pool's (`ThroughPool`), and one session object
  (`OneSession`); what a request loaded or its session has seen is the file
  (`LoadedFresh`); and one worker at a time is before its save (`OneWorker`).
  The lock alone would not do, since a worker may outlive its lock: the
  invariant rests on the session's own operation lock.
* `FilesOutliveTurns` (`DeletedWhileServed`): a worker whose client is there has its
  request inside the session lock (`WorkersServed`), and until a deletion has discarded
  it there is one lock object (`SerialInv`), which the deletion holds.
* `SlotsAreExact`: by the cardinality of a set that gains or loses one element.
* `TurnServiceIsImplemented`: `Spec => ImplementsTurnService`, from the invariants
  above and `SavedRan` (a request that saved is past its turn, so that it saves once).
  `OneTurn` draws from `SerialInv` what the mapping needs: until the deletion a worker
  that runs is the only one and its base is the file. `StaysUndeleted` and
  `DeletionIsFinal` tell the steps that are one promise from those that are the other.

`ToolMiddlewareProofs`, for every set of calls and keys, all valid policies and
thresholds and any number of calls at a time: `TypeCorrect` (with `AttemptsLeft`:
who backs off has an attempt left), `ProbeIsOwned`, `BreakerIsExact` (together
`BreakerAgrees`, each an invariant on its own, given the types), `EffectsStay` from
`EffectInv`, which adds that without a budget nobody is late and that an outcome in the
queue means that the thread has ended, and `EffectsAreReported` from `ReportInv` beside
it: an attempt that succeeded left its value in the queue of a call that takes nothing
else. It is here that the rules of `ToolExecutionPolicy` are used: a tool that is not
read-only cannot be abandoned.

`PartsProofs` has four groups of theorems, which share no state, and a fifth that
joins them. The writes, for every
set of writes, files and contents and any number of edits: `TypeCorrect`,
`WritesWhatWasSeen`, `ConflictsAreReal`, `OneWritePerPreview` from `FileInv`. Its parts say that a preview that has not
moved is what the path leads to (`PreviewHolds`), that the same holds of what
was looked at last (`LookHolds`), and that the content of a write appears only
once it has replaced a file and what it replaced does not come back
(`Replaced`), which is what makes the second of two writes see the first.

The index, for any number of starts, documents and vector lengths: `IndexIsLoadable`
(`IndexSurvives`) and `DeletedChunksLeave` (`DeletedChunksGo`) from `IndexInv`. The
start that loads, replaces or syncs the file holds the lock (`LockHeld`); every version
of the file that a power failure may leave has vectors of one length, for chunks that
its writer had read (`FilesSound`); a start has vectors of one length too, and one for
each of its chunks before it commits (`StartKnows`); and it syncs the file it has
written (`SyncsOwn`).

The command line, for any number of terminals, sessions and questions:
`NothingAnsweredIsLost`, `ApprovalsAreHome` and `SessionsOpenAgain` from `CliInv`.
Outside the `shared` sessions one program has a session (`Alone`), what it has in memory
is the file or more than it and marked as unsaved (`MemoryFits`), a record belongs to
the session its question was asked in (`RecordsAreHome`), and a call that waits has not
run (`NotYetExecuted`). `SessionsOpenAgain` says what `OpensAgain` says, with its four
exceptions and no other.

The messages, for any sizes, context, summary and numbers of turns and groups:
`CommittedIsRestorable` (`Restorable`), `ContextIsUsed` (`UsesItsContext`) and
`NoTurnIsDropped` (`NothingUnsaid`) from `HistoryInv`. It adds `TurnStands`: what the
two loops of `restore_snapshot` have found in the working messages are the calls that
are open, so that the answer leaves them complete, and the turns in the messages, in
the draft of the summary and unsaid are the committed ones and this. Trimming can
cut at questions only, and before a question nothing is pending (`FromQuestion`):
this is why a shortened conversation still passes both loops, and why
`RemoveIncompleteToolGroups` never removes more than trimming did (`CompleteIsKept`).
`FittingIs` is the correctness of the binary search. The loops are recursive
functions over one sequence, and the induction they need is over the finite set of
its indices (`CountUp`), from the well-foundedness of the numbers.

The five parts together: `PartsAreImplemented` proves that the specification of the
run `files`, which chooses a part and lets it move (`OnePartMoves`), implements the
specification of each part. Hence the theorems above and those of `AuditLogProofs` hold
of what TLC checks there: `PartsKeepTypes` (`PartsTypeOK`) and `PartsAreSafe`, all
properties of the run.

`AuditLogProofs`, for every number of rotated files, capacity, turns, events and
failures: `ReportsSurvive`, `RotationStaysSound` and `DeletedStaysGone` from `LogInv`.
Since a power failure may leave any directory since the last sync, every directory
that may be on disk is in order (`DirectoriesSound`), the one in memory is the
latest (`Latest`), and what two of them do not agree on is about to be synced or
known to be at risk (`DifferencesKnown`). `DepthKept` follows a rotation from slot to
slot by positions in the order of writing: a record in the file of a slot has as many
records behind it as the files of lower slots hold, also while the chain is moved, as
long as no rotation was cut short. For the deletion, a lock object has one holder
(`LocksExclude`), and a record on its way belongs to a turn inside its lock that waits
for it, or is `stray` (`OutstandingFits`): what is on its way when a deletion ends is
therefore stray or of another lock object.

`SessionResume`, for every set of calls, every `Kind` and all budgets:

* `ShownIsDurable` (`ShownApprovalIsDurable`), for all faults.
* `ResumeRepeatsNothing` (`ResumeContinues`) from `ResumeInv`: what each live record
  knows of its turn, in memory, on file and on the medium, and that the call in hand is
  none of those that ran (`CallIsNew`). Its hypothesis is
  `PreparersSucceed`: a preparer that raises on a resume leaves the old record, and
  the turn can be resumed from it after calls that ran since.
* `AlwaysRecoverable` (`Recoverable`) from `RecoverInv`: a record is based on the
  version beside it (`BaseKept`), all live records are of one turn
  (`RecordsOfOneTurn`), whatever a power failure leaves of the two files fits together
  (`FileOnMedia`, `MediaFit`), and every record leaves a step to its turn (`StepsLeft`).
  Its hypothesis is `OnlySavesFail`: only the writes of the snapshot and of the record
  fail, at most one fault where power may fail, and no call that cannot be made. TLC
  finds a counterexample without each of these, as the notes on `Recoverable` above say.

`ApprovalsProofs`, for any number of attempts, questions and answers on their way:
`TypeCorrect`, `BridgesAreInStep`, `NobodyStaysRegistered`, `OneUsePerAnswer`,
`AnswersFollowPreviews` (`AcceptedFits`) and `OnlyLeftTurnsAreCancelled`, all from `IInv`:

* `LockHeld`, `OneInLock`: the worker inside the generators holds the operation
  lock, and one coroutine is inside the session lock.
* `BridgeShape`: the four ways in which coroutine and worker share a bridge, by
  who moves next: the worker, an item on its way, the coroutine with the event in
  its hands, a command on its way. `OneThingInFlight` counts the same and is not
  inductive, since it does not say what the one thing is.
* `AnswersAccepted`: the answers accepted, followed from the broker's table through
  the command queue to the worker; its end is `ActedOnAnswer`.
* `RecordInv`, `FirstStart`, `AcceptedIsPast`, `ActedIsBehind`: questions are
  numbered in the order in which they are put, a turn that has an answer is past
  its question, and what was acted on is behind the record, so that a resume does
  not come to it again.
* `FinishedIsOver`, `PreviewInv`: a turn that finished leaves nothing to resume, and
  a preview is out before its question can be answered.
* `WaitingIsRegistered`: a coroutine that waits is in the broker's table.

`PermissionIsImplemented` (`Spec => ImplementsPermission`) is the refinement. `IInv`
has the order of the questions and where an answer is; four more invariants (`RInv`) say
what a client that leaves does to a turn: every question put was answered, unless it is
in hand or its client left (`PutIsAnswered`); from the question to its resolution the
record is the one of this question (`AskedIsRecorded`); where the client left, the token
is cancelled or a close is the next command the worker sees (`LeftIsCancelled`), so that a
"yes" already taken lapses; and a stream that has ended has no worker (`OverIsEnded`).

The assumption is `ApprovalsAssumption`.

Model-checked only: liveness (`TurnEnds`, `RepetitionsEnd`, `CallReturns`,
`AcceptedArrives`, `WorkersEnd`), which is out of the prover's reach.

## Plan

Every part whose state can go wrong in an interesting way has its module, and every
safety property that a run checks its theorem. What would be worth adding is a second
session in `WebTurns`, for the user's limit beside the global one.

## Not modelled

Text and data work (chunking, ranking, prompt wording, citation syntax, JSON
encoding, encryption), authentication, metrics, cost and rate limits other than
their breaking off a turn, the offline evaluation and the quality gate: they keep
no state that interacts, and a test of their functions says what a model would.
`write_file` without its preparer is called by neither program. Rendering of
events and the commands that only print change no state.
