------------------------------- MODULE WebTurns --------------------------------
(***************************************************************************)
(* The requests of one session in the web service (web_service.py) and the  *)
(* registries they share (production_runtime.py): the idempotency store,    *)
(* the concurrency slots, the session pool with its lock per session, the   *)
(* worker thread that runs the turn, client disconnects and the deletion of *)
(* the session.                                                             *)
(*                                                                         *)
(* The event loop is one thread: a step here is what runs between two       *)
(* suspensions of a handler, or what a worker thread does on its own.  The  *)
(* registries' own asyncio locks guard code without a suspension and are    *)
(* therefore never waited for.                                              *)
(*                                                                         *)
(* Every request and deletion is made once, so what it creates is named     *)
(* after it: a lock object or session object after the actor that put it in *)
(* the pool, an idempotency entry and a saved snapshot after its request.   *)
(* A turn is abstracted to: it runs, it may commit and save, it ends.  All  *)
(* requests are one user's; MaxSlots is the smaller of the two limits.      *)
(***************************************************************************)
EXTENDS Integers, FiniteSets

CONSTANTS
  Requests, Deletes,   \* the calls of the two endpoints
  Key,                 \* the Idempotency-Key of each request
  MaxSlots, MaxEntries,
  Departures,          \* the ways in which a client may leave
  Expiry,              \* whether completed entries may outlive their TTL
  Overruns,            \* whether the service may break off a turn
  None

Actors == Requests \cup Deletes

\* "poll": while an event or a lock is awaited.  "yield": while a chunk is sent.
\* "early": before the response body is started.
DepartureKinds == {"poll", "yield", "early"}

ASSUME ActorsAssumption ==
  /\ IsFiniteSet(Requests) /\ Requests \cap Deletes = {} /\ None \notin Actors
ASSUME ServiceAssumption ==
  /\ MaxSlots \in Nat \ {0} /\ MaxEntries \in Nat \ {0}
  /\ Departures \subseteq DepartureKinds /\ Expiry \in BOOLEAN /\ Overruns \in BOOLEAN

VARIABLES
  pc,           \* where each request and deletion stands
  entries,      \* the owners of the entries in the idempotency store
  future,       \* the future of each request's own entry
  awaited,      \* the entry whose response a repeated request gets
  slots,        \* slots in use
  poolLock, lockOf, holder,
                \* the lock in the pool, the lock each actor uses, who holds it
  poolSession, sessionOf, operation, seen,
                \* the session in the pool, the session each request uses, the
                \* request whose worker runs on a session, the snapshot it has
  worker, base, \* the worker thread of each request, the snapshot its turn is on
  file,         \* the request whose snapshot is in the session file
  saved,        \* observer: the requests whose answer was saved
  forgotten     \* observer: the requests whose completed entry was dropped

storeVars   == <<entries, future, awaited, forgotten>>
lockVars    == <<poolLock, lockOf, holder>>
sessionVars == <<poolSession, sessionOf, seen>>
turnVars    == <<operation, worker, base, file, saved>>
vars == <<pc, storeVars, slots, lockVars, sessionVars, turnVars>>

\* Stages of a request whose response is being generated, those that hold a
\* slot, and those under the session lock.
Active   == {"accepted", "lock", "opening", "loaded", "turn", "erring"}
InSlot   == {"lock", "opening", "loaded", "turn"}
InTurn   == {"opening", "loaded", "turn"}
Deleting == {"deleting", "deleted"}
Left     == {"gone", "dropped"}

Go(a, stage) == pc' = [pc EXCEPT ![a] = stage]

-------------------------------------------------------------------------------
\* RequestIdempotencyStore.begin and the response chosen from its mode.

Completed == {e \in entries : future[e] # "open"}

Refuse(r) == Go(r, "refused") /\ UNCHANGED <<future, awaited>>

Follow(r, owner) ==
  /\ Go(r, "waiting")
  /\ awaited' = [awaited EXCEPT ![r] = owner]
  /\ UNCHANGED future

Register(r) ==
  /\ Go(r, "accepted")
  /\ future' = [future EXCEPT ![r] = "open"]
  /\ UNCHANGED awaited

Keep(kept) ==
  /\ entries' = kept
  /\ forgotten' = forgotten \cup (entries \ kept)

\* A new entry when the store is full: only a completed one makes room.
Admit(r, kept) ==
  IF Cardinality(kept) < MaxEntries
  THEN Register(r) /\ Keep(kept \cup {r})
  ELSE IF kept \cap Completed = {}
  THEN Refuse(r) /\ Keep(kept)
  ELSE \E e \in kept \cap Completed : Register(r) /\ Keep((kept \ {e}) \cup {r})

SameKey(r, kept) == {e \in kept : Key[e] = Key[r]}

\* Mutant: an entry in flight is not found.
BeginUnlessCompleted(r) ==
  /\ pc[r] = "new"
  /\ LET same == SameKey(r, Completed) IN
       \/ same = {} /\ Admit(r, entries)
       \/ \E e \in same : Follow(r, e) /\ Keep(entries)
  /\ UNCHANGED <<slots, lockVars, sessionVars, turnVars>>

\* A request whose key is known repeats it, or has another body.
Begin(r) ==
  /\ pc[r] = "new"
  /\ \E expired \in IF Expiry THEN SUBSET Completed ELSE {{}} :
       LET kept == entries \ expired
           same == SameKey(r, kept)
       IN  \/ same = {} /\ Admit(r, kept)
           \/ \E e \in same : Follow(r, e) /\ Keep(kept)
           \/ same # {} /\ Refuse(r) /\ Keep(kept)
  /\ UNCHANGED <<slots, lockVars, sessionVars, turnVars>>

\* The answer, or the failure, of the request it repeats.
Replay(r) ==
  /\ pc[r] = "waiting" /\ future[awaited[r]] # "open"
  /\ Go(r, IF future[awaited[r]] = "result" THEN "done" ELSE "broken")
  /\ UNCHANGED <<storeVars, slots, lockVars, sessionVars, turnVars>>

-------------------------------------------------------------------------------
\* The slot, the session lock and the session.

Waiters(l) == {a \in Actors : pc[a] = "lock" /\ lockOf[a] = l}

CurrentLock(a) == IF poolLock = None THEN a ELSE poolLock

Free(l) == holder[l] = None /\ Waiters(l) = {}

\* lock_for, and the lock at once when nobody holds it or waits for it.
AskLock(a, stage) ==
  LET l == CurrentLock(a) IN
    /\ poolLock' = l
    /\ lockOf' = [lockOf EXCEPT ![a] = l]
    /\ IF Free(l)
       THEN Go(a, stage) /\ holder' = [holder EXCEPT ![l] = a]
       ELSE Go(a, "lock") /\ UNCHANGED holder

Enter(r) ==
  /\ pc[r] = "accepted"
  /\ IF slots < MaxSlots
     THEN slots' = slots + 1 /\ AskLock(r, "opening")
     ELSE Go(r, "erring") /\ UNCHANGED <<slots, lockVars>>
  /\ UNCHANGED <<storeVars, sessionVars, turnVars>>

\* Mutant: a waiting request goes on without the lock.
AcquireAnyway(a) ==
  /\ pc[a] = "lock"
  /\ holder' = [holder EXCEPT ![lockOf[a]] = a]
  /\ Go(a, IF a \in Deletes THEN "deleting" ELSE "opening")
  /\ UNCHANGED <<storeVars, slots, poolLock, lockOf, sessionVars, turnVars>>

Acquire(a) ==
  /\ pc[a] = "lock" /\ holder[lockOf[a]] = None
  /\ holder' = [holder EXCEPT ![lockOf[a]] = a]
  /\ Go(a, IF a \in Deletes THEN "deleting" ELSE "opening")
  /\ UNCHANGED <<storeVars, slots, poolLock, lockOf, sessionVars, turnVars>>

\* Mutant: the pooled session is not handed to the request.
UsePooledUnset(r) ==
  /\ pc[r] = "opening" /\ poolSession # None
  /\ Go(r, "turn")
  /\ UNCHANGED <<storeVars, slots, lockVars, sessionVars, turnVars>>

\* TenantSessionPool.get: the session in the pool, or one opened in a thread.
UsePooled(r) ==
  /\ pc[r] = "opening" /\ poolSession # None
  /\ sessionOf' = [sessionOf EXCEPT ![r] = poolSession]
  /\ Go(r, "turn")
  /\ UNCHANGED <<storeVars, slots, lockVars, poolSession, seen, turnVars>>

Load(r) ==
  /\ pc[r] = "opening" /\ poolSession = None
  /\ seen' = [seen EXCEPT ![r] = file]
  /\ Go(r, "loaded")
  /\ UNCHANGED <<storeVars, slots, lockVars, poolSession, sessionOf, turnVars>>

Opened(r) ==
  /\ pc[r] = "loaded"
  /\ poolSession' = IF poolSession = None THEN r ELSE poolSession
  /\ sessionOf' = [sessionOf EXCEPT ![r] = poolSession']
  /\ Go(r, "turn")
  /\ UNCHANGED <<storeVars, slots, lockVars, seen, turnVars>>

-------------------------------------------------------------------------------
\* The worker thread of a turn: PersistentSession.stream_turn behind the bridge.

Session(r) == sessionOf[r]

Release(r) == operation' = [operation EXCEPT ![Session(r)] = None]

\* Mutant: the operation lock of the session is not consulted.
StartAnyway(r) ==
  /\ pc[r] = "turn" /\ worker[r] = "none"
  /\ worker' = [worker EXCEPT ![r] = "running"]
  /\ operation' = [operation EXCEPT ![Session(r)] = r]
  /\ base' = [base EXCEPT ![r] = seen[Session(r)]]
  /\ UNCHANGED <<pc, storeVars, slots, lockVars, sessionVars, file, saved>>

\* The session refuses a second operation at once.
Start(r) ==
  /\ pc[r] = "turn" /\ worker[r] = "none"
  /\ IF operation[Session(r)] = None
     THEN /\ worker' = [worker EXCEPT ![r] = "running"]
          /\ operation' = [operation EXCEPT ![Session(r)] = r]
          /\ base' = [base EXCEPT ![r] = seen[Session(r)]]
     ELSE worker' = [worker EXCEPT ![r] = "failed"] /\ UNCHANGED <<operation, base>>
  /\ UNCHANGED <<pc, storeVars, slots, lockVars, sessionVars, file, saved>>

\* The answer is committed and its snapshot saved.  A client that left while
\* the worker was past its last event does not prevent it.
Commit(r) ==
  /\ worker[r] = "running"
  /\ worker' = [worker EXCEPT ![r] = "saved"]
  /\ file' = r /\ saved' = saved \cup {r}
  /\ seen' = [seen EXCEPT ![Session(r)] = r]
  /\ UNCHANGED <<pc, storeVars, slots, lockVars, poolSession, sessionOf, operation, base>>

\* The stream is exhausted, or closed at the event it is parked at, which comes
\* after the error of a turn that was broken off has been sent.
End(r) ==
  /\ worker[r] \in {"running", "saved", "closed"}
  /\ worker[r] = "closed" => pc[r] # "erring"
  /\ worker' = [worker EXCEPT ![r] = "ended"]
  /\ Release(r)
  /\ UNCHANGED <<pc, storeVars, slots, lockVars, sessionVars, base, file, saved>>

Fail(r) ==
  /\ worker[r] \in {"running", "saved"}
  /\ worker' = [worker EXCEPT ![r] = "failed"]
  /\ Release(r)
  /\ UNCHANGED <<pc, storeVars, slots, lockVars, sessionVars, base, file, saved>>

-------------------------------------------------------------------------------
\* The end of a response.

Unlock(a) ==
  holder' = IF lockOf[a] # None /\ holder[lockOf[a]] = a
            THEN [holder EXCEPT ![lockOf[a]] = None]
            ELSE holder

\* Mutant: the slot is given back only when the turn ended by itself.
ExitContextsKeepingSlot(r) ==
  Unlock(r) /\ UNCHANGED <<slots, poolLock, lockOf>>

\* Leaving the two context managers.
ExitContexts(r) ==
  /\ Unlock(r)
  /\ slots' = IF pc[r] \in InSlot THEN slots - 1 ELSE slots
  /\ UNCHANGED <<poolLock, lockOf>>

Finish(r) ==
  /\ pc[r] = "turn" /\ worker[r] = "ended"
  /\ ExitContexts(r)
  /\ future' = [future EXCEPT ![r] = "result"]
  /\ Go(r, "done")
  /\ UNCHANGED <<entries, awaited, forgotten, sessionVars, turnVars>>

\* Any other exception: the error is sent, then stored as the response.
Raise(r) ==
  /\ \/ pc[r] = "turn" /\ worker[r] = "failed"
     \/ pc[r] = "opening" /\ poolSession = None
  /\ ExitContexts(r)
  /\ Go(r, "erring")
  /\ UNCHANGED <<storeVars, sessionVars, turnVars>>

\* An event cannot be handled: the cost limit is exceeded, or the audit log
\* cannot be written.  The worker is parked at that event.
BreakOff(r) ==
  /\ Overruns
  /\ pc[r] = "turn" /\ worker[r] \in {"running", "saved"}
  /\ ExitContexts(r)
  /\ worker' = [worker EXCEPT ![r] = "closed"]
  /\ Go(r, "erring")
  /\ UNCHANGED <<storeVars, sessionVars, operation, base, file, saved>>

CompleteWithError(r) ==
  /\ pc[r] = "erring"
  /\ future' = [future EXCEPT ![r] = "result"]
  /\ Go(r, "done")
  /\ UNCHANGED <<entries, awaited, forgotten, slots, lockVars, sessionVars, turnVars>>

\* Mutant: a request that is cut off leaves its entry in the store.
LeaveEntry(r) == UNCHANGED <<entries, future>>

\* RequestIdempotencyStore.fail.
FailEntry(r) ==
  /\ entries' = {e \in entries : Key[e] # Key[r]}
  /\ future' = [future EXCEPT ![r] = "error"]

\* ClientDisconnected or CancelledError, raised at an await of the generator.
\* The worker is told to close and ends by itself.
Disconnect(r) ==
  /\ "poll" \in Departures
  /\ pc[r] \in InSlot
  /\ ExitContexts(r)
  /\ FailEntry(r)
  /\ Go(r, "gone")
  /\ UNCHANGED <<awaited, forgotten, sessionVars, turnVars>>

\* The generator is closed at one of its yields: GeneratorExit takes the branch
\* of any other exception, whose yield ends the generator without an answer.
CloseAtYield(r) ==
  /\ "yield" \in Departures
  /\ \/ pc[r] = "turn" /\ worker[r] \in {"running", "saved"}
     \/ pc[r] = "erring"
  /\ ExitContexts(r)
  /\ worker' = IF pc[r] = "turn" THEN [worker EXCEPT ![r] = "closed"] ELSE worker
  /\ Go(r, "dropped")
  /\ UNCHANGED <<storeVars, sessionVars, operation, base, file, saved>>

\* The response body is never started.
DropResponse(r) ==
  /\ "early" \in Departures
  /\ pc[r] = "accepted"
  /\ Go(r, "dropped")
  /\ UNCHANGED <<storeVars, slots, lockVars, sessionVars, turnVars>>

\* A repeated request gives up: the entry it waits for is shielded.
StopWaiting(r) ==
  /\ Departures # {} /\ pc[r] = "waiting"
  /\ Go(r, "gone")
  /\ UNCHANGED <<storeVars, slots, lockVars, sessionVars, turnVars>>

-------------------------------------------------------------------------------
\* delete_owned_session.

\* Mutant: the deletion does not look at the lock.
AskDeleteAnyway(d) ==
  /\ pc[d] = "new" /\ Go(d, "deleting")
  /\ UNCHANGED <<storeVars, slots, lockVars, sessionVars, turnVars>>

AskDelete(d) ==
  /\ pc[d] = "new"
  /\ \/ holder[CurrentLock(d)] = None /\ AskLock(d, "deleting")
     \/ /\ holder[CurrentLock(d)] # None
        /\ Go(d, "refused") /\ UNCHANGED lockVars
  /\ UNCHANGED <<storeVars, slots, sessionVars, turnVars>>

DeleteFiles(d) ==
  /\ pc[d] = "deleting"
  /\ IF file # None
     THEN Go(d, "deleted") /\ file' = None /\ UNCHANGED holder
     ELSE Go(d, "refused") /\ Unlock(d) /\ UNCHANGED file
  /\ UNCHANGED <<storeVars, slots, poolLock, lockOf, sessionVars, operation, worker, base, saved>>

\* The session leaves the pool, or stays in it: the logs could not be deleted.
Discard(d) ==
  /\ pc[d] = "deleted"
  /\ \/ poolSession' = None /\ poolLock' = None
     \/ UNCHANGED <<poolSession, poolLock>>
  /\ Unlock(d)
  /\ Go(d, "done")
  /\ UNCHANGED <<storeVars, slots, lockOf, sessionOf, seen, turnVars>>

-------------------------------------------------------------------------------
Init ==
  /\ pc = [a \in Actors |-> "new"]
  /\ entries = {}
  /\ future  = [r \in Requests |-> "none"]
  /\ awaited = [r \in Requests |-> None]
  /\ slots = 0
  /\ poolLock = None
  /\ lockOf = [a \in Actors |-> None]
  /\ holder = [a \in Actors |-> None]
  /\ poolSession = None
  /\ sessionOf = [r \in Requests |-> None]
  /\ operation = [r \in Requests |-> None]
  /\ seen = [r \in Requests |-> None]
  /\ worker = [r \in Requests |-> "none"]
  /\ base = [r \in Requests |-> None]
  /\ file = None /\ saved = {} /\ forgotten = {}

\* What the service does on its own for a request it has accepted.
Serve(r) ==
  \/ Replay(r) \/ Enter(r) \/ Acquire(r) \/ UsePooled(r) \/ Load(r) \/ Opened(r)
  \/ Start(r) \/ End(r) \/ Fail(r) \/ Finish(r) \/ Raise(r) \/ CompleteWithError(r)

Leave(r) == Disconnect(r) \/ CloseAtYield(r) \/ DropResponse(r) \/ StopWaiting(r)

Delete(d) == AskDelete(d) \/ Acquire(d) \/ DeleteFiles(d) \/ Discard(d)

Next ==
  \/ \E r \in Requests : Begin(r) \/ Serve(r) \/ Commit(r) \/ BreakOff(r) \/ Leave(r)
  \/ \E d \in Deletes : Delete(d)

Spec == Init /\ [][Next]_vars

\* What goes on by itself once a request or a deletion has been accepted.
Progress ==
  \/ \E r \in Requests : Serve(r)
  \/ \E d \in Deletes : Acquire(d) \/ DeleteFiles(d) \/ Discard(d)

\* The event loop and the worker threads do something as long as something is
\* ready; a turn ends.
FairSpec == Spec /\ WF_vars(Progress)
-------------------------------------------------------------------------------
Stages == Active \cup Deleting \cup {"new", "waiting", "refused", "done", "broken"} \cup Left

\* The values the service can build; under the session lock a request has a lock
\* object, in a turn a session, and a request that repeats another knows which.
TypeOK ==
  /\ pc \in [Actors -> Stages]
  /\ entries \subseteq Requests
  /\ future \in [Requests -> {"none", "open", "result", "error"}]
  /\ awaited \in [Requests -> Requests \cup {None}]
  /\ slots \in Int
  /\ poolLock \in Actors \cup {None}
  /\ lockOf \in [Actors -> Actors \cup {None}] /\ holder \in [Actors -> Actors \cup {None}]
  /\ poolSession \in Requests \cup {None}
  /\ sessionOf \in [Requests -> Requests \cup {None}]
  /\ operation \in [Requests -> Requests \cup {None}]
  /\ seen \in [Requests -> Requests \cup {None}] /\ base \in [Requests -> Requests \cup {None}]
  /\ worker \in [Requests -> {"none", "running", "saved", "closed", "ended", "failed"}]
  /\ file \in Requests \cup {None} /\ saved \subseteq Requests /\ forgotten \subseteq Requests
  /\ \A r \in Requests :
       /\ pc[r] = "waiting" => awaited[r] # None
       /\ pc[r] \in InSlot => lockOf[r] # None
       /\ pc[r] = "turn" \/ worker[r] # "none" => sessionOf[r] # None

\* One response is generated per key at a time, however often the request is
\* repeated: a repetition finds the entry of the one in flight.
OneOwnerPerKey ==
  \A q, r \in Requests : pc[q] \in Active /\ pc[r] \in Active /\ Key[q] = Key[r] => q = r

\* Turns and deletions of a session exclude each other: one actor at a time is
\* between taking a session lock and giving it back.
OneTransaction ==
  \A a, b \in Actors :
    pc[a] \in InTurn \cup Deleting /\ pc[b] \in InTurn \cup Deleting => a = b

Undeleted == \A d \in Deletes : pc[d] \notin {"deleted", "done"}

\* Turns are serial as long as the session is not deleted: every request finds
\* the same lock object, and it is free before the next one goes on.
SerialUntilDeleted == Undeleted => OneTransaction

\* The session lock covers the whole turn: while a worker thread may still
\* commit, its request is under the lock.
TurnUnderLock == \A r \in Requests : worker[r] \in {"running", "saved"} => pc[r] = "turn"

\* The slots in use are those of requests that are queued or running: none is
\* leaked on any way out, and none is given back twice.
SlotsExact == slots = Cardinality({r \in Requests : pc[r] \in InSlot})

\* An entry in flight has a request that will complete or fail it; otherwise its
\* repetitions wait forever and it can never be evicted.
OpenEntriesAreServed == \A r \in Requests : future[r] = "open" => pc[r] \in Active

\* No way out of a response leaves its entry in flight, but for the generator
\* closed at a yield or never started.
OrphansWereDropped ==
  \A r \in Requests : future[r] = "open" => pc[r] \in Active \cup {"dropped"}

\* Until the session is deleted, a saved snapshot continues the one it replaces, even
\* when it is saved by a worker whose client has left: no turn saves over an answer it
\* has not seen.  (After a deletion two turns may run at once; see OneTransaction.)
NoLostUpdate ==
  [][file' # file /\ file' # None /\ Undeleted => base[file'] = file]_vars

\* Two answers are saved under one key only if the client of the first one left
\* or its entry was dropped from the store.
CommitOncePerKey ==
  \A q, r \in saved : Key[q] = Key[r] /\ q # r =>
    \E x \in {q, r} : pc[x] \in Left \/ x \in forgotten

\* A key has one response at a time and, with the exceptions named, one answer.
AnswerPerKey == OneOwnerPerKey /\ CommitOncePerKey

\* The first deletion of a session does not take its files from under a running
\* turn, unless the client of that turn has left.  A later one may: it finds
\* another lock object than those who still wait for the first one.
DeletedWhileServed ==
  [][file # None /\ file' = None /\ Undeleted =>
       \A r \in Requests : worker[r] \in {"running", "saved"} => pc[r] \in Left]_vars

\* What requests, workers and the store amount to for TurnService.
Turn    == {[request |-> r, base |-> base[r]] : r \in {q \in Requests : worker[q] = "running"}}
Excused == {r \in Requests : pc[r] \in Left} \cup forgotten

Serving == INSTANCE TurnService WITH
  latest <- file, turn <- Turn, excused <- Excused, deleted <- ~Undeleted

\* Locks, pool, threads, entries and slots together keep the promises of TurnService:
\* every step is one of its steps or changes nothing that a client could rely on.
ImplementsTurnService == Serving!ServiceSpec

\* Every repetition gets an answer or a failure, or its client leaves, unless
\* the response it waits for was dropped: in the end nobody else waits.
RepetitionsEnd ==
  <>[](\A r \in Requests : pc[r] = "waiting" => pc[awaited[r]] = "dropped")
===============================================================================
