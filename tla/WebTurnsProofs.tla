---------------------------- MODULE WebTurnsProofs ----------------------------
(***************************************************************************)
(* Theorems about WebTurns for every set of requests and deletions, every   *)
(* assignment of keys, every limit and every way of leaving; the last one   *)
(* is that it implements TurnService.                                       *)
(***************************************************************************)
EXTENDS WebTurns, FiniteSetTheorems, TLAPS

USE DEF storeVars, lockVars, sessionVars, turnVars, vars, Go, Actors,
        Active, InSlot, InTurn, Deleting, Left, Stages

-------------------------------------------------------------------------------
\* The requests and the locks, slots and sessions they use keep their types.
\* Every action is looked at on its own.
LEMMA BeginTypes == ASSUME TypeOK, NEW r \in Requests, Begin(r) PROVE TypeOK'
<1>1. /\ pc[r] = "new" /\ UNCHANGED <<slots, lockVars, sessionVars, turnVars>>
      /\ \E stage \in {"waiting", "accepted", "refused"} : pc' = [pc EXCEPT ![r] = stage]
      /\ entries' \subseteq Requests /\ forgotten' \subseteq Requests
      /\ future' = future \/ future' = [future EXCEPT ![r] = "open"]
      /\ \/ awaited' = awaited /\ pc'[r] # "waiting"
         \/ \E e \in Requests : awaited' = [awaited EXCEPT ![r] = e]
  BY DEF TypeOK, Begin, Admit, Keep, Register, Refuse, Follow, SameKey, Completed
<1>2. QED BY <1>1, ActorsAssumption DEF TypeOK

LEMMA LockTypes ==
  ASSUME TypeOK, NEW a \in Actors, NEW stage \in Stages, AskLock(a, stage)
  PROVE  /\ poolLock' \in Actors
         /\ lockOf' \in [Actors -> Actors \cup {None}] /\ lockOf'[a] # None
         /\ \A b \in Actors \ {a} : lockOf'[b] = lockOf[b]
         /\ holder' \in [Actors -> Actors \cup {None}]
         /\ pc' \in [Actors -> Stages] /\ \E s \in {stage, "lock"} : pc' = [pc EXCEPT ![a] = s]
BY ActorsAssumption DEF TypeOK, AskLock, CurrentLock

LEMMA UnlockTypes ==
  ASSUME TypeOK, NEW a \in Actors, Unlock(a)
  PROVE  holder' \in [Actors -> Actors \cup {None}]
BY DEF TypeOK, Unlock

LEMMA ServeTypes ==
  ASSUME TypeOK, NEW r \in Requests, Serve(r) \/ Commit(r) \/ BreakOff(r) PROVE TypeOK'
<1>1. CASE Replay(r) BY <1>1 DEF TypeOK, Replay
<1>2. CASE Enter(r)
  <2>1. CASE slots < MaxSlots /\ AskLock(r, "opening")
    BY <1>2, <2>1, LockTypes, ActorsAssumption DEF TypeOK, Enter
  <2>2. CASE ~(slots < MaxSlots)
    BY <1>2, <2>2 DEF TypeOK, Enter
  <2>3. QED BY <1>2, <2>1, <2>2 DEF Enter
<1>3. CASE Acquire(r) BY <1>3 DEF TypeOK, Acquire
<1>4. CASE UsePooled(r) BY <1>4 DEF TypeOK, UsePooled
<1>5. CASE Load(r) BY <1>5 DEF TypeOK, Load
<1>6. CASE Opened(r) BY <1>6, ActorsAssumption DEF TypeOK, Opened
<1>7. CASE Start(r) BY <1>7 DEF TypeOK, Start, Session
<1>8. CASE Commit(r) BY <1>8 DEF TypeOK, Commit, Session
<1>9. CASE End(r) BY <1>9 DEF TypeOK, End, Session, Release
<1>10. CASE Fail(r) BY <1>10 DEF TypeOK, Fail, Session, Release
<1>11. CASE Finish(r) BY <1>11, UnlockTypes DEF TypeOK, Finish, ExitContexts
<1>12. CASE Raise(r) BY <1>12, UnlockTypes DEF TypeOK, Raise, ExitContexts
<1>13. CASE BreakOff(r) BY <1>13, UnlockTypes DEF TypeOK, BreakOff, ExitContexts
<1>14. CASE CompleteWithError(r) BY <1>14 DEF TypeOK, CompleteWithError
<1>15. QED
  BY <1>1, <1>2, <1>3, <1>4, <1>5, <1>6, <1>7, <1>8, <1>9, <1>10, <1>11, <1>12, <1>13,
     <1>14 DEF Serve

LEMMA LeaveTypes == ASSUME TypeOK, NEW r \in Requests, Leave(r) PROVE TypeOK'
<1>1. CASE Disconnect(r) BY <1>1, UnlockTypes DEF TypeOK, Disconnect, ExitContexts, FailEntry
<1>2. CASE CloseAtYield(r) BY <1>2, UnlockTypes DEF TypeOK, CloseAtYield, ExitContexts
<1>3. CASE DropResponse(r) BY <1>3 DEF TypeOK, DropResponse
<1>4. CASE StopWaiting(r) BY <1>4 DEF TypeOK, StopWaiting
<1>5. QED BY <1>1, <1>2, <1>3, <1>4 DEF Leave

LEMMA DeleteTypes == ASSUME TypeOK, NEW d \in Deletes, Delete(d) PROVE TypeOK'
<1>0. d \in Actors /\ \A r \in Requests : r # d /\ r \in Actors
  BY ActorsAssumption
<1>1. CASE AskDelete(d) /\ AskLock(d, "deleting")
  BY <1>0, <1>1, LockTypes DEF TypeOK, AskDelete
<1>2. CASE AskDelete(d) /\ Go(d, "refused") /\ UNCHANGED lockVars
  BY <1>0, <1>2 DEF TypeOK, AskDelete
<1>3. CASE Acquire(d) BY <1>0, <1>3 DEF TypeOK, Acquire
<1>4. CASE DeleteFiles(d) BY <1>0, <1>4, UnlockTypes DEF TypeOK, DeleteFiles
<1>5. CASE Discard(d) BY <1>0, <1>5, UnlockTypes DEF TypeOK, Discard
<1>6. QED BY <1>1, <1>2, <1>3, <1>4, <1>5 DEF Delete, AskDelete

\* Whatever requests and deletions do, the registries hold what the code
\* expects of them.
THEOREM TypeCorrect == Spec => []TypeOK
<1>1. Init => TypeOK
  BY ActorsAssumption DEF Init, TypeOK
<1>2. TypeOK /\ [Next]_vars => TypeOK'
  <2> SUFFICES ASSUME TypeOK, [Next]_vars PROVE TypeOK'
    OBVIOUS
  <2>1. CASE UNCHANGED vars BY <2>1 DEF TypeOK
  <2>2. CASE Next BY <2>2, BeginTypes, ServeTypes, LeaveTypes, DeleteTypes DEF Next
  <2>3. QED BY <2>1, <2>2
<1>3. QED BY <1>1, <1>2, PTL DEF Spec
-------------------------------------------------------------------------------
\* What makes a repetition safe: a request whose response is being generated
\* owns an entry in flight, entries have different keys, and a turn that ran is
\* known by its entry unless its client left or its entry was dropped.
OwnersEntered ==
  \A r \in Requests : pc[r] \in Active => r \in entries /\ future[r] = "open"

UniqueKeys == \A q, r \in entries : Key[q] = Key[r] => q = r

TurnsAreKnown ==
  \A r \in Requests : r \in saved \/ worker[r] # "none" =>
    r \in entries \cup forgotten \/ pc[r] \in Left

ReplayInv == TypeOK /\ OwnersEntered /\ UniqueKeys /\ TurnsAreKnown /\ OrphansWereDropped

LEMMA BeginReplay == ASSUME ReplayInv, NEW r \in Requests, Begin(r) PROVE ReplayInv'
<1>1. TypeOK /\ TypeOK'
  BY BeginTypes DEF ReplayInv
<1>2. PICK expired \in SUBSET Completed :
        LET kept == entries \ expired
            same == SameKey(r, kept)
        IN  \/ same = {} /\ Admit(r, kept)
            \/ \E e \in same : Follow(r, e) /\ Keep(kept)
            \/ same # {} /\ Refuse(r) /\ Keep(kept)
  BY DEF Begin
<1>3. /\ pc[r] = "new" /\ UNCHANGED <<slots, lockVars, sessionVars, turnVars>>
      /\ (r \notin saved /\ worker[r] = "none") \/ r \in entries \cup forgotten
  BY DEF Begin, ReplayInv, TurnsAreKnown
<1> DEFINE kept == entries \ expired
<1>4. ASSUME NEW left \in SUBSET kept, kept \ left \subseteq Completed,
             SameKey(r, kept) = {}, Register(r), Keep(left \cup {r})
      PROVE  ReplayInv'
  <2>1. OwnersEntered'
    BY <1>1, <1>3, <1>4 DEF ReplayInv, TypeOK, OwnersEntered, Register, Keep, Completed
  <2>2. UniqueKeys'
    BY <1>1, <1>3, <1>4 DEF ReplayInv, TypeOK, UniqueKeys, Register, Keep, SameKey
  <2>3. TurnsAreKnown'
    BY <1>1, <1>3, <1>4 DEF ReplayInv, TypeOK, TurnsAreKnown, Register, Keep
  <2>4. OrphansWereDropped'
    BY <1>1, <1>3, <1>4 DEF ReplayInv, TypeOK, OrphansWereDropped, Register
  <2>5. QED BY <1>1, <2>1, <2>2, <2>3, <2>4 DEF ReplayInv
<1>5. ASSUME NEW stage \in {"waiting", "refused"}, pc' = [pc EXCEPT ![r] = stage],
             future' = future, Keep(kept)
      PROVE  ReplayInv'
  <2>1. OwnersEntered'
    BY <1>1, <1>5 DEF ReplayInv, TypeOK, OwnersEntered, Keep, Completed
  <2>2. UniqueKeys'
    BY <1>1, <1>5 DEF ReplayInv, UniqueKeys, Keep
  <2>3. TurnsAreKnown'
    BY <1>1, <1>3, <1>5 DEF ReplayInv, TypeOK, TurnsAreKnown, Keep
  <2>4. OrphansWereDropped'
    BY <1>1, <1>3, <1>5 DEF ReplayInv, TypeOK, OrphansWereDropped
  <2>5. QED BY <1>1, <2>1, <2>2, <2>3, <2>4 DEF ReplayInv
<1>6. CASE SameKey(r, kept) = {} /\ Admit(r, kept)
  <2>1. CASE Register(r) /\ Keep(kept \cup {r})
    BY <1>4, <1>6, <2>1
  <2>2. CASE \E e \in kept \cap Completed : Register(r) /\ Keep((kept \ {e}) \cup {r})
    <3>1. PICK e \in kept \cap Completed : Register(r) /\ Keep((kept \ {e}) \cup {r})
      BY <2>2
    <3>2. kept \ {e} \in SUBSET kept /\ kept \ (kept \ {e}) \subseteq Completed
      BY <3>1
    <3>3. QED BY <1>4, <1>6, <3>1, <3>2
  <2>3. CASE Refuse(r) /\ Keep(kept)
    BY <1>5, <2>3 DEF Refuse
  <2>4. QED BY <1>6, <2>1, <2>2, <2>3 DEF Admit
<1>7. CASE \E e \in SameKey(r, kept) : Follow(r, e) /\ Keep(kept)
  BY <1>5, <1>7 DEF Follow
<1>8. CASE Refuse(r) /\ Keep(kept)
  BY <1>5, <1>8 DEF Refuse
<1>9. QED BY <1>2, <1>6, <1>7, <1>8

\* Steps that move a request without touching the store.
LEMMA MoveReplay ==
  ASSUME ReplayInv, TypeOK', NEW a \in Actors,
         UNCHANGED <<entries, future, forgotten>>,
         \A b \in Actors \ {a} : pc'[b] = pc[b],
         a \in Requests => \/ pc[a] \in Active /\ pc'[a] \in Active \cup {"dropped"}
                           \/ pc[a] = "waiting" /\ pc'[a] \notin Active
                           \/ pc'[a] = pc[a],
         \A r \in Requests : (r \in saved' \/ worker'[r] # "none") =>
            r \in saved \/ worker[r] # "none" \/ pc[r] = "turn"
  PROVE  ReplayInv'
<1>1. TypeOK
  BY DEF ReplayInv
<1>2. OwnersEntered'
  BY <1>1 DEF ReplayInv, OwnersEntered, TypeOK
<1>3. UniqueKeys'
  BY DEF ReplayInv, UniqueKeys
<1>4. TurnsAreKnown'
  BY <1>1 DEF ReplayInv, OwnersEntered, TurnsAreKnown, TypeOK
<1>5. OrphansWereDropped'
  BY <1>1 DEF ReplayInv, OrphansWereDropped, TypeOK
<1>6. QED BY <1>2, <1>3, <1>4, <1>5 DEF ReplayInv

LEMMA ServeReplay ==
  ASSUME ReplayInv, TypeOK', NEW r \in Requests, Serve(r) \/ Commit(r) \/ BreakOff(r)
  PROVE  ReplayInv'
<1>0. TypeOK /\ r \in Actors
  BY DEF ReplayInv
<1>1. CASE Replay(r) BY <1>0, <1>1, MoveReplay DEF TypeOK, Replay
<1>2. CASE Enter(r)
  <2>1. \E stage \in {"opening", "lock", "erring"} : pc' = [pc EXCEPT ![r] = stage]
    BY <1>2 DEF Enter, AskLock
  <2>2. QED BY <1>0, <1>2, <2>1, MoveReplay DEF TypeOK, Enter
<1>3. CASE Acquire(r) BY <1>0, <1>3, ActorsAssumption, MoveReplay DEF TypeOK, Acquire
<1>4. CASE UsePooled(r) BY <1>0, <1>4, MoveReplay DEF TypeOK, UsePooled
<1>5. CASE Load(r) BY <1>0, <1>5, MoveReplay DEF TypeOK, Load
<1>6. CASE Opened(r) BY <1>0, <1>6, MoveReplay DEF TypeOK, Opened
<1>7. CASE Start(r) BY <1>0, <1>7, MoveReplay DEF TypeOK, Start
<1>8. CASE Commit(r) BY <1>0, <1>8, MoveReplay DEF TypeOK, Commit
<1>9. CASE End(r) BY <1>0, <1>9, MoveReplay DEF TypeOK, End
<1>10. CASE Fail(r) BY <1>0, <1>10, MoveReplay DEF TypeOK, Fail
<1>11. CASE Finish(r) \/ CompleteWithError(r)
  <2>1. /\ pc[r] \in Active /\ pc' = [pc EXCEPT ![r] = "done"]
        /\ future' = [future EXCEPT ![r] = "result"]
        /\ UNCHANGED <<entries, forgotten, saved, worker>>
    BY <1>11 DEF Finish, CompleteWithError
  <2>2. OwnersEntered' /\ UniqueKeys' /\ OrphansWereDropped'
    BY <1>0, <2>1 DEF ReplayInv, TypeOK, OwnersEntered, UniqueKeys, OrphansWereDropped
  <2>3. TurnsAreKnown'
    BY <1>0, <2>1 DEF ReplayInv, TypeOK, TurnsAreKnown
  <2>4. QED BY <2>2, <2>3 DEF ReplayInv
<1>12. CASE Raise(r) BY <1>0, <1>12, MoveReplay DEF TypeOK, Raise
<1>13. CASE BreakOff(r) BY <1>0, <1>13, MoveReplay DEF TypeOK, BreakOff
<1>14. QED
  BY <1>1, <1>2, <1>3, <1>4, <1>5, <1>6, <1>7, <1>8, <1>9, <1>10, <1>11, <1>12, <1>13
  DEF Serve

LEMMA LeaveReplay == ASSUME ReplayInv, NEW r \in Requests, Leave(r) PROVE ReplayInv'
<1>0. TypeOK /\ TypeOK' /\ r \in Actors
  BY LeaveTypes DEF ReplayInv
<1>1. CASE Disconnect(r)
  <2>1. /\ pc[r] \in InSlot /\ pc' = [pc EXCEPT ![r] = "gone"]
        /\ entries' = {e \in entries : Key[e] # Key[r]}
        /\ future' = [future EXCEPT ![r] = "error"]
        /\ UNCHANGED <<forgotten, saved, worker>>
    BY <1>1 DEF Disconnect, FailEntry
  <2>2. r \in entries /\ entries' = entries \ {r}
    BY <2>1 DEF ReplayInv, OwnersEntered, UniqueKeys
  <2>3. OwnersEntered' /\ UniqueKeys' /\ OrphansWereDropped'
    BY <1>0, <2>1, <2>2 DEF ReplayInv, TypeOK, OwnersEntered, UniqueKeys, OrphansWereDropped
  <2>4. TurnsAreKnown'
    BY <1>0, <2>1, <2>2 DEF ReplayInv, TypeOK, TurnsAreKnown
  <2>5. QED BY <1>0, <2>3, <2>4 DEF ReplayInv
<1>2. CASE CloseAtYield(r) BY <1>0, <1>2, MoveReplay DEF TypeOK, CloseAtYield
<1>3. CASE DropResponse(r) BY <1>0, <1>3, MoveReplay DEF TypeOK, DropResponse
<1>4. CASE StopWaiting(r) BY <1>0, <1>4, MoveReplay DEF TypeOK, StopWaiting
<1>5. QED BY <1>1, <1>2, <1>3, <1>4 DEF Leave

LEMMA DeleteReplay == ASSUME ReplayInv, NEW d \in Deletes, Delete(d) PROVE ReplayInv'
<1>0. TypeOK /\ TypeOK' /\ d \in Actors /\ d \notin Requests
  BY DeleteTypes, ActorsAssumption DEF ReplayInv
<1>1. \A b \in Actors \ {d} : pc'[b] = pc[b]
  BY <1>0 DEF TypeOK, Delete, AskDelete, AskLock, Acquire, DeleteFiles, Discard
<1>2. UNCHANGED <<entries, future, forgotten, saved, worker>>
  BY DEF Delete, AskDelete, Acquire, DeleteFiles, Discard
<1>3. QED BY <1>0, <1>1, <1>2, MoveReplay

LEMMA ReplayInvariant == Spec => []ReplayInv
<1>1. Init => ReplayInv
  <2> SUFFICES ASSUME Init PROVE ReplayInv
    OBVIOUS
  <2>1. TypeOK
    BY ActorsAssumption DEF Init, TypeOK
  <2>2. OwnersEntered /\ UniqueKeys /\ TurnsAreKnown /\ OrphansWereDropped
    BY DEF Init, OwnersEntered, UniqueKeys, TurnsAreKnown, OrphansWereDropped
  <2>3. QED BY <2>1, <2>2 DEF ReplayInv
<1>2. ReplayInv /\ [Next]_vars => ReplayInv'
  <2> SUFFICES ASSUME ReplayInv, [Next]_vars PROVE ReplayInv'
    OBVIOUS
  <2>1. CASE UNCHANGED vars
    BY <2>1 DEF ReplayInv, TypeOK, OwnersEntered, UniqueKeys, TurnsAreKnown,
                OrphansWereDropped
  <2>2. CASE Next
    <3>1. TypeOK'
      BY <2>2, BeginTypes, ServeTypes, LeaveTypes, DeleteTypes DEF Next, ReplayInv
    <3>2. QED BY <2>2, <3>1, BeginReplay, ServeReplay, LeaveReplay, DeleteReplay DEF Next
  <2>3. QED BY <2>1, <2>2
<1>3. QED BY <1>1, <1>2, PTL DEF Spec

\* However often requests are repeated, cut off or evicted, one response is
\* generated per key at a time.
THEOREM OneOwner == Spec => []OneOwnerPerKey
<1>1. ReplayInv => OneOwnerPerKey
  BY DEF ReplayInv, OwnersEntered, UniqueKeys, OneOwnerPerKey
<1>2. QED BY <1>1, ReplayInvariant, PTL

\* A key saves a second answer only if the client of one of the two left or its
\* entry was dropped.
THEOREM CommitOnce == Spec => []CommitOncePerKey
<1>1. ReplayInv => CommitOncePerKey
  BY DEF ReplayInv, TypeOK, UniqueKeys, TurnsAreKnown, CommitOncePerKey
<1>2. QED BY <1>1, ReplayInvariant, PTL

\* However often a request is sent again, one owner at a time works for its key, and
\* a second turn commits under it only when the first answer could not be kept.
THEOREM OneAnswerPerKey == Spec => []AnswerPerKey
BY OneOwner, CommitOnce, PTL DEF AnswerPerKey

\* Only a dropped response leaves an entry in flight behind.
THEOREM OnlyDroppedOrphans == Spec => []OrphansWereDropped
<1>1. ReplayInv => OrphansWereDropped
  BY DEF ReplayInv
<1>2. QED BY <1>1, ReplayInvariant, PTL
-------------------------------------------------------------------------------
\* What makes turns serial until the session is deleted: everybody who waits for
\* a lock or is under one uses the lock object of the pool, and whoever is under
\* it is its holder.  What makes saves consecutive: there is one session object,
\* it holds the snapshot of the file, and the turn that runs started from it.
Under(a) == pc[a] \in InTurn \cup Deleting

ThroughPool ==
  \A a \in Actors : pc[a] = "lock" \/ Under(a) =>
    /\ poolLock # None /\ lockOf[a] = poolLock
    /\ Under(a) => holder[poolLock] = a

OneSession ==
  /\ \A r \in Requests : sessionOf[r] # None => sessionOf[r] = poolSession
  /\ poolSession # None => seen[poolSession] = file

LoadedFresh ==
  poolSession = None => \A r \in Requests : pc[r] = "loaded" => seen[r] = file

OneWorker ==
  \A r \in Requests :
    /\ worker[r] \in {"running", "saved", "closed"} => operation[sessionOf[r]] = r
    /\ worker[r] = "running" => base[r] = file

SerialInv ==
  TypeOK /\ (Undeleted => ThroughPool /\ OneSession /\ LoadedFresh /\ OneWorker)

\* Once a session is deleted it stays so in this sense.
LEMMA DeletionIsFinal == ASSUME TypeOK, [Next]_vars, Undeleted' PROVE Undeleted
<1> SUFFICES ASSUME NEW d \in Deletes, pc[d] \in {"deleted", "done"}
             PROVE  pc'[d] \in {"deleted", "done"}
  BY DEF Undeleted
<1>0. d \in Actors /\ d \notin Requests
  BY ActorsAssumption
<1>1. CASE UNCHANGED vars
  BY <1>1
<1>2. ASSUME NEW r \in Requests, Begin(r) \/ Leave(r) PROVE pc'[d] = pc[d]
  BY <1>0, <1>2 DEF TypeOK, Begin, Admit, Register, Refuse, Follow,
     Leave, Disconnect, CloseAtYield, DropResponse, StopWaiting
<1>3. ASSUME NEW r \in Requests, Serve(r) \/ Commit(r) \/ BreakOff(r) PROVE pc'[d] = pc[d]
  BY <1>0, <1>3 DEF TypeOK, Serve, Commit, BreakOff, Replay, Enter, AskLock, Acquire, UsePooled,
     Load, Opened, Start, End, Fail, Finish, Raise, CompleteWithError
<1>4. ASSUME NEW c \in Deletes, Delete(c)
      PROVE  pc'[d] \in {"deleted", "done"}
  <2>1. c \in Actors
    OBVIOUS
  <2>2. CASE c # d
    BY <1>0, <1>4, <2>1, <2>2 DEF TypeOK, Delete, AskDelete, AskLock, Acquire, DeleteFiles, Discard
  <2>3. CASE c = d
    BY <1>0, <1>4, <2>3 DEF TypeOK, Delete, AskDelete, Acquire, DeleteFiles, Discard
  <2>4. QED BY <2>2, <2>3
<1>5. QED BY <1>1, <1>2, <1>3, <1>4 DEF Next

\* The parts of the invariant are kept by steps that leave their variables alone.
LEMMA SerialFrames ==
  ASSUME SerialInv, TypeOK', Undeleted
  PROVE  /\ UNCHANGED <<lockVars, pc>> => ThroughPool'
         /\ UNCHANGED <<poolSession, sessionOf, seen, file>> => OneSession'
         /\ UNCHANGED <<poolSession, seen, file, pc>> => LoadedFresh'
         /\ UNCHANGED <<worker, operation, sessionOf, base, file>> => OneWorker'
BY DEF SerialInv, ThroughPool, Under, OneSession, LoadedFresh, OneWorker

\* An actor that goes from outside to waiting for the lock, or takes it.
LEMMA AskSerial ==
  ASSUME TypeOK, ThroughPool, NEW a \in Actors, NEW stage \in Stages, AskLock(a, stage),
         pc[a] # "lock", ~Under(a)
  PROVE  ThroughPool'
<1>1. pc \in [Actors -> Stages] /\ holder \in [Actors -> Actors \cup {None}]
      /\ lockOf \in [Actors -> Actors \cup {None}]
  BY DEF TypeOK
<1> DEFINE l == CurrentLock(a)
<1>2. l \in Actors /\ l # None /\ poolLock' = l /\ (poolLock # None => l = poolLock)
  BY ActorsAssumption DEF TypeOK, AskLock, CurrentLock
<1>3. lockOf' = [lockOf EXCEPT ![a] = l]
  BY DEF AskLock
<1>4. CASE Free(l) /\ Go(a, stage) /\ holder' = [holder EXCEPT ![l] = a]
  <2>1. \A b \in Actors : ~Under(b) \/ b = a
    BY <1>1, <1>2, <1>4, ActorsAssumption DEF ThroughPool, Free
  <2>2. QED BY <1>1, <1>2, <1>3, <1>4, <2>1 DEF ThroughPool, Under, Free
<1>5. CASE Go(a, "lock") /\ UNCHANGED holder
  BY <1>1, <1>2, <1>3, <1>5 DEF ThroughPool, Under
<1>6. QED BY <1>4, <1>5 DEF AskLock

LEMMA AcquireSerial ==
  ASSUME TypeOK, ThroughPool, NEW a \in Actors, Acquire(a)
  PROVE  ThroughPool'
BY ActorsAssumption DEF TypeOK, ThroughPool, Under, Acquire

\* An actor that gives the lock back takes it from nobody else.
LEMMA UnlockSerial ==
  ASSUME TypeOK, ThroughPool, NEW a \in Actors, Unlock(a), UNCHANGED <<poolLock, lockOf>>,
         pc' = [pc EXCEPT ![a] = pc'[a]], pc'[a] # "lock", ~Under(a)'
  PROVE  ThroughPool'
<1> SUFFICES ASSUME NEW b \in Actors, pc'[b] = "lock" \/ Under(b)'
             PROVE  /\ poolLock # None /\ lockOf[b] = poolLock
                    /\ Under(b)' => holder'[poolLock] = b
  BY DEF ThroughPool
<1>1. b # a /\ pc'[b] = pc[b]
  BY DEF TypeOK
<1>2. poolLock # None /\ lockOf[b] = poolLock /\ (Under(b) => holder[poolLock] = b)
  BY <1>1 DEF ThroughPool, Under
<1>3. Under(b)' => holder'[poolLock] = b
  BY <1>1, <1>2 DEF TypeOK, Unlock, Under
<1>4. QED BY <1>2, <1>3

\* Inside the turn nobody else is under the lock.
LEMMA InsideSerial ==
  ASSUME TypeOK, ThroughPool, NEW a \in Actors, UNCHANGED lockVars,
         NEW stage \in InTurn \cup Deleting, Under(a), pc' = [pc EXCEPT ![a] = stage]
  PROVE  ThroughPool'
BY DEF TypeOK, ThroughPool, Under
\* One actor is under the lock at a time.
LEMMA OneUnder ==
  ASSUME TypeOK, ThroughPool
  PROVE  \A a, b \in Actors : Under(a) /\ Under(b) => a = b
BY DEF ThroughPool

LEMMA ServeSerial ==
  ASSUME SerialInv, TypeOK', Undeleted, NEW r \in Requests,
         Begin(r) \/ Serve(r) \/ Commit(r) \/ BreakOff(r) \/ Leave(r)
  PROVE  SerialInv'
<1> USE DEF Session, Release
<1>0. /\ TypeOK /\ ThroughPool /\ OneSession /\ LoadedFresh /\ OneWorker
      /\ r \in Actors /\ r \notin Deletes /\ r # None
  BY ActorsAssumption DEF SerialInv
<1>a. /\ UNCHANGED <<lockVars, pc>> => ThroughPool'
      /\ UNCHANGED <<poolSession, sessionOf, seen, file>> => OneSession'
      /\ UNCHANGED <<poolSession, seen, file, pc>> => LoadedFresh'
      /\ UNCHANGED <<worker, operation, sessionOf, base, file>> => OneWorker'
  BY SerialFrames
<1>b. ASSUME UNCHANGED <<sessionVars, file>>, NEW stage \in Stages \ {"loaded"},
             pc' = [pc EXCEPT ![r] = stage]
      PROVE  OneSession' /\ LoadedFresh'
  BY <1>0, <1>a, <1>b DEF TypeOK, LoadedFresh
<1>c. ASSUME UNCHANGED <<sessionVars, operation, worker, base, file>>,
             NEW stage \in Stages \ {"loaded"}, pc' = [pc EXCEPT ![r] = stage], ThroughPool'
      PROVE  SerialInv'
  BY <1>0, <1>a, <1>b, <1>c DEF SerialInv
<1>d. ASSUME UNCHANGED lockVars, pc[r] \in {"new", "waiting", "accepted", "erring"},
             NEW stage \in Stages \ ({"lock"} \cup InTurn \cup Deleting),
             pc' = [pc EXCEPT ![r] = stage]
      PROVE  ThroughPool'
  BY <1>0, <1>d DEF TypeOK, ThroughPool, Under
<1>1. CASE Begin(r)
  <2>1. \E stage \in {"waiting", "accepted", "refused"} : pc' = [pc EXCEPT ![r] = stage]
    BY <1>1 DEF Begin, Admit, Register, Refuse, Follow
  <2>2. QED BY <1>1, <1>c, <1>d, <2>1 DEF Begin
<1>2. CASE Replay(r) \/ CompleteWithError(r) \/ DropResponse(r) \/ StopWaiting(r)
  <2>1. \E stage \in {"done", "broken", "dropped", "gone"} : pc' = [pc EXCEPT ![r] = stage]
    BY <1>2 DEF Replay, CompleteWithError, DropResponse, StopWaiting
  <2>2. pc[r] \in {"waiting", "accepted", "erring"} /\ UNCHANGED <<lockVars, sessionVars, turnVars>>
    BY <1>2 DEF Replay, CompleteWithError, DropResponse, StopWaiting
  <2>3. QED BY <1>c, <1>d, <2>1, <2>2
<1>3. CASE Enter(r)
  <2>1. CASE slots < MaxSlots
    <3>1. AskLock(r, "opening") /\ pc[r] = "accepted" /\ UNCHANGED <<sessionVars, turnVars>>
      BY <1>3, <2>1 DEF Enter
    <3>2. ThroughPool'
      BY <1>0, <3>1, AskSerial DEF Under
    <3>3. \E stage \in {"opening", "lock"} : pc' = [pc EXCEPT ![r] = stage]
      BY <3>1 DEF AskLock
    <3>4. QED BY <1>c, <3>1, <3>2, <3>3
  <2>2. CASE ~(slots < MaxSlots)
    BY <1>3, <1>c, <1>d, <2>2 DEF Enter
  <2>3. QED BY <2>1, <2>2
<1>4. CASE Acquire(r)
  <2>1. ThroughPool' /\ pc' = [pc EXCEPT ![r] = "opening"] /\ UNCHANGED <<sessionVars, turnVars>>
    BY <1>0, <1>4, AcquireSerial DEF Acquire
  <2>2. QED BY <1>c, <2>1
<1>5. CASE UsePooled(r)
  <2>1. ThroughPool'
    BY <1>0, <1>5, InsideSerial DEF Under, UsePooled
  <2>2. OneSession' /\ LoadedFresh'
    BY <1>0, <1>5 DEF TypeOK, OneSession, LoadedFresh, UsePooled
  <2>3. OneWorker'
    BY <1>0, <1>5 DEF TypeOK, OneSession, OneWorker, UsePooled
  <2>4. QED BY <2>1, <2>2, <2>3 DEF SerialInv
<1>6. CASE Load(r)
  <2>1. ThroughPool'
    BY <1>0, <1>6, InsideSerial DEF Under, Load
  <2>2. OneSession' /\ LoadedFresh'
    BY <1>0, <1>6 DEF TypeOK, OneSession, LoadedFresh, Load
  <2>3. OneWorker'
    BY <1>6, <1>a DEF Load
  <2>4. QED BY <2>1, <2>2, <2>3 DEF SerialInv
<1>7. CASE Opened(r)
  <2>1. ThroughPool'
    BY <1>0, <1>7, InsideSerial DEF Under, Opened
  <2>2. OneSession' /\ LoadedFresh'
    BY <1>0, <1>7 DEF TypeOK, OneSession, LoadedFresh, Opened
  <2>3. OneWorker'
    BY <1>0, <1>7 DEF TypeOK, OneSession, OneWorker, Opened
  <2>4. QED BY <2>1, <2>2, <2>3 DEF SerialInv
<1>8. CASE Start(r)
  <2>1. ThroughPool' /\ OneSession' /\ LoadedFresh'
    BY <1>8, <1>a DEF Start
  <2>2. sessionOf[r] = poolSession /\ poolSession \in Requests /\ seen[poolSession] = file
    BY <1>0, <1>8 DEF TypeOK, OneSession, Start
  <2>3. CASE operation[poolSession] = None
    <3>1. \A q \in Requests : worker[q] \notin {"running", "saved", "closed"}
      BY <1>0, <2>3, ActorsAssumption DEF TypeOK, OneSession, OneWorker
    <3>2. /\ worker' = [worker EXCEPT ![r] = "running"]
          /\ operation' = [operation EXCEPT ![poolSession] = r]
          /\ base' = [base EXCEPT ![r] = file] /\ UNCHANGED <<sessionOf, file>>
      BY <1>8, <2>2, <2>3 DEF Start
    <3>3. OneWorker'
      BY <1>0, <2>2, <3>1, <3>2 DEF TypeOK, OneWorker
    <3>4. QED BY <2>1, <3>3 DEF SerialInv
  <2>4. CASE operation[poolSession] # None
    <3>1. worker' = [worker EXCEPT ![r] = "failed"] /\ UNCHANGED <<operation, base, sessionOf, file>>
      BY <1>8, <2>2, <2>4 DEF Start
    <3>2. OneWorker'
      BY <1>0, <3>1 DEF TypeOK, OneWorker
    <3>3. QED BY <2>1, <3>2 DEF SerialInv
  <2>5. QED BY <2>3, <2>4
<1>9. CASE Commit(r)
  <2>1. ThroughPool'
    BY <1>9, <1>a DEF Commit
  <2>2. sessionOf[r] = poolSession /\ poolSession \in Requests
    BY <1>0, <1>9 DEF TypeOK, OneSession, Commit
  <2>3. OneSession' /\ LoadedFresh'
    BY <1>0, <1>9, <2>2 DEF TypeOK, OneSession, LoadedFresh, Commit
  <2>4. OneWorker'
    BY <1>0, <1>9, <2>2 DEF TypeOK, OneSession, OneWorker, Commit
  <2>5. QED BY <2>1, <2>3, <2>4 DEF SerialInv
<1>10. CASE End(r) \/ Fail(r)
  <2>1. /\ UNCHANGED <<pc, lockVars, sessionVars, base, file>>
        /\ worker[r] \in {"running", "saved", "closed"}
        /\ \E way \in {"ended", "failed"} : worker' = [worker EXCEPT ![r] = way]
        /\ operation' = [operation EXCEPT ![sessionOf[r]] = None]
    BY <1>10 DEF End, Fail
  <2>2. OneWorker'
    BY <1>0, <2>1 DEF TypeOK, OneSession, OneWorker
  <2>3. QED BY <1>a, <2>1, <2>2 DEF SerialInv
<1>11. CASE Finish(r) \/ Raise(r) \/ BreakOff(r) \/ Disconnect(r) \/ CloseAtYield(r)
  <2>1. /\ Unlock(r) /\ UNCHANGED <<poolLock, lockOf, sessionVars, operation, base, file>>
        /\ \E stage \in {"done", "erring", "gone", "dropped"} : pc' = [pc EXCEPT ![r] = stage]
        /\ \/ worker' = worker
           \/ /\ worker[r] \in {"running", "saved"}
              /\ worker' = [worker EXCEPT ![r] = "closed"]
    BY <1>11 DEF Finish, Raise, BreakOff, Disconnect, CloseAtYield, ExitContexts
  <2>2. ThroughPool'
    BY <1>0, <2>1, UnlockSerial DEF TypeOK, Under
  <2>3. OneWorker'
    BY <1>0, <2>1 DEF TypeOK, OneWorker
  <2>4. QED BY <1>b, <2>1, <2>2, <2>3 DEF SerialInv
<1>12. QED
  BY <1>1, <1>2, <1>3, <1>4, <1>5, <1>6, <1>7, <1>8, <1>9, <1>10, <1>11 DEF Serve, Leave

LEMMA DeleteSerial ==
  ASSUME SerialInv, TypeOK', Undeleted, Undeleted', NEW d \in Deletes, Delete(d)
  PROVE  SerialInv'
<1>0. /\ TypeOK /\ ThroughPool /\ d \in Actors /\ d \notin Requests
      /\ OneSession /\ LoadedFresh /\ OneWorker
  BY ActorsAssumption DEF SerialInv
<1>1. pc'[d] \notin {"deleted", "done"}
  BY DEF Undeleted
<1>2. /\ UNCHANGED <<sessionVars, turnVars>>
      /\ \A r \in Requests : pc'[r] = pc[r]
      /\ \/ AskDelete(d) \/ Acquire(d)
         \/ Unlock(d) /\ UNCHANGED <<poolLock, lockOf>> /\ pc' = [pc EXCEPT ![d] = "refused"]
  <2>1. CASE AskDelete(d)
    BY <1>0, <2>1 DEF TypeOK, AskDelete, AskLock
  <2>2. CASE Acquire(d)
    BY <1>0, <2>2 DEF TypeOK, Acquire
  <2>3. CASE DeleteFiles(d)
    BY <1>0, <1>1, <2>3 DEF TypeOK, DeleteFiles
  <2>4. CASE Discard(d)
    BY <1>0, <1>1, <2>4 DEF TypeOK, Discard
  <2>5. QED BY <2>1, <2>2, <2>3, <2>4 DEF Delete
<1>3. OneSession' /\ LoadedFresh' /\ OneWorker'
  BY <1>0, <1>2 DEF OneSession, LoadedFresh, OneWorker
<1>4. ThroughPool'
  <2>1. CASE AskDelete(d) /\ AskLock(d, "deleting")
    BY <1>0, <2>1, AskSerial DEF AskDelete, Under
  <2>2. CASE AskDelete(d) /\ Go(d, "refused") /\ UNCHANGED lockVars
    BY <1>0, <2>2 DEF TypeOK, ThroughPool, Under
  <2>3. CASE Acquire(d)
    BY <1>0, <2>3, AcquireSerial
  <2>4. CASE Unlock(d) /\ UNCHANGED <<poolLock, lockOf>> /\ pc' = [pc EXCEPT ![d] = "refused"]
    BY <1>0, <2>4, UnlockSerial DEF TypeOK, Under
  <2>5. QED BY <1>2, <2>1, <2>2, <2>3, <2>4 DEF AskDelete
<1>5. QED BY <1>3, <1>4 DEF SerialInv

LEMMA SerialStep == ASSUME SerialInv, [Next]_vars PROVE SerialInv'
<1>1. TypeOK'
  <2>1. CASE UNCHANGED vars BY <2>1 DEF SerialInv, TypeOK
  <2>2. CASE Next
    BY <2>2, BeginTypes, ServeTypes, LeaveTypes, DeleteTypes DEF Next, SerialInv
  <2>3. QED BY <2>1, <2>2
<1>2. CASE ~Undeleted'
  BY <1>1, <1>2 DEF SerialInv
<1>3. CASE Undeleted'
  <2>1. Undeleted
    BY <1>3, DeletionIsFinal DEF SerialInv
  <2>2. CASE UNCHANGED vars
    BY <1>1, <2>1, <2>2, SerialFrames DEF SerialInv
  <2>3. CASE Next
    BY <1>1, <1>3, <2>1, <2>3, ServeSerial, DeleteSerial DEF Next
  <2>4. QED BY <2>2, <2>3
<1>4. QED BY <1>2, <1>3

LEMMA SerialInit == Init => SerialInv
<1> SUFFICES ASSUME Init PROVE SerialInv
  OBVIOUS
<1>1. TypeOK
  BY ActorsAssumption DEF Init, TypeOK
<1>2. ThroughPool /\ OneSession /\ LoadedFresh /\ OneWorker
  BY DEF Init, ThroughPool, Under, OneSession, LoadedFresh, OneWorker
<1>3. QED BY <1>1, <1>2 DEF SerialInv

\* Until the session is deleted, turns and deletions of it exclude each other,
\* for any number of concurrent requests and whatever their clients do.
THEOREM SerialTurns == Spec => []SerialUntilDeleted
<1>1. SerialInv => SerialUntilDeleted
  BY OneUnder DEF SerialInv, SerialUntilDeleted, OneTransaction, Under
<1>2. QED BY <1>1, SerialInit, SerialStep, PTL DEF Spec

\* Until the session is deleted, every saved snapshot continues the one it
\* replaces, also when the client of its turn has left.
THEOREM SavesAreConsecutive == Spec => NoLostUpdate
<1>1. SerialInv /\ [Next]_vars =>
        [file' # file /\ file' # None /\ Undeleted => base[file'] = file]_vars
  <2> SUFFICES ASSUME SerialInv, Next, file' # file, file' # None, Undeleted
               PROVE  base[file'] = file
    BY DEF vars
  <2>1. PICK r \in Requests : Commit(r)
    <3>1. ASSUME NEW r \in Requests, Begin(r) \/ Serve(r) \/ BreakOff(r) \/ Leave(r)
          PROVE  file' = file
      BY <3>1 DEF Begin, Serve, BreakOff, Leave, Replay, Enter, Acquire, UsePooled, Load, Opened,
         Start, End, Fail, Finish, Raise, CompleteWithError, Disconnect, CloseAtYield,
         DropResponse, StopWaiting
    <3>2. ASSUME NEW d \in Deletes, Delete(d) PROVE file' = file \/ file' = None
      BY <3>2 DEF Delete, AskDelete, Acquire, DeleteFiles, Discard
    <3>3. QED BY <3>1, <3>2 DEF Next
  <2>2. QED BY <2>1 DEF SerialInv, OneWorker, Commit
<1>2. QED BY <1>1, SerialInit, SerialStep, PTL DEF Spec, NoLostUpdate

\* A worker that is not told to close has its request in the turn, unless the
\* client has left.
WorkersServed ==
  \A r \in Requests : worker[r] \in {"running", "saved"} => pc[r] \in {"turn"} \cup Left

LEMMA ServedStep == ASSUME TypeOK, WorkersServed, [Next]_vars PROVE WorkersServed'
<1> SUFFICES ASSUME NEW q \in Requests, worker'[q] \in {"running", "saved"}
             PROVE  pc'[q] \in {"turn"} \cup Left
  BY DEF WorkersServed
<1>0. q \in Actors /\ q \notin Deletes /\ (worker[q] \in {"running", "saved"} => pc[q] \in {"turn"} \cup Left)
  BY ActorsAssumption DEF WorkersServed
<1>1. CASE UNCHANGED vars
  BY <1>0, <1>1 DEF vars, turnVars
<1>2. ASSUME NEW r \in Requests, Begin(r)
      PROVE  pc'[q] \in {"turn"} \cup Left
  BY <1>0, <1>2 DEF TypeOK, Begin, Admit, Register, Refuse, Follow
<1>3. ASSUME NEW r \in Requests,
             Replay(r) \/ Enter(r) \/ Acquire(r) \/ UsePooled(r) \/ Load(r) \/ Opened(r)
      PROVE  pc'[q] \in {"turn"} \cup Left
  BY <1>0, <1>3, ActorsAssumption DEF TypeOK, Replay, Enter, AskLock, Acquire, UsePooled, Load, Opened
<1>4. ASSUME NEW r \in Requests, Start(r) \/ Commit(r) \/ End(r) \/ Fail(r)
      PROVE  pc'[q] \in {"turn"} \cup Left
  BY <1>0, <1>4 DEF TypeOK, Start, Commit, End, Fail
<1>5. ASSUME NEW r \in Requests,
             Finish(r) \/ Raise(r) \/ CompleteWithError(r) \/ BreakOff(r)
      PROVE  pc'[q] \in {"turn"} \cup Left
  BY <1>0, <1>5 DEF TypeOK, Finish, Raise, CompleteWithError, BreakOff
<1>6. ASSUME NEW r \in Requests, Leave(r)
      PROVE  pc'[q] \in {"turn"} \cup Left
  BY <1>0, <1>6 DEF TypeOK, Leave, Disconnect, CloseAtYield, DropResponse, StopWaiting
<1>7. ASSUME NEW d \in Deletes, Delete(d)
      PROVE  pc'[q] \in {"turn"} \cup Left
  BY <1>0, <1>7 DEF TypeOK, Delete, AskDelete, AskLock, Acquire, DeleteFiles, Discard
<1>8. QED
  BY <1>1, <1>2, <1>3, <1>4, <1>5, <1>6, <1>7 DEF Next, Serve

\* The first deletion of a session takes its files when no worker runs whose
\* client is there: the session lock covers the turn as long as nobody leaves.
THEOREM FilesOutliveTurns == Spec => DeletedWhileServed
<1>1. Init => WorkersServed
  BY DEF Init, WorkersServed
<1>2. SerialInv /\ WorkersServed /\ [Next]_vars => WorkersServed'
  BY ServedStep DEF SerialInv
<1>3. SerialInv /\ WorkersServed /\ [Next]_vars =>
        [file # None /\ file' = None /\ Undeleted =>
           \A r \in Requests : worker[r] \in {"running", "saved"} => pc[r] \in Left]_vars
  <2> SUFFICES ASSUME SerialInv, WorkersServed, Next, file # None, file' = None, Undeleted,
                      NEW r \in Requests, worker[r] \in {"running", "saved"}, pc[r] \notin Left
               PROVE  FALSE
    BY DEF vars
  <2>1. PICK d \in Deletes : DeleteFiles(d)
    <3>1. ASSUME NEW q \in Requests, Begin(q) \/ Serve(q) \/ BreakOff(q) \/ Leave(q)
          PROVE  file' = file
      BY <3>1 DEF Begin, Serve, BreakOff, Leave, Replay, Enter, Acquire, UsePooled, Load, Opened,
         Start, End, Fail, Finish, Raise, CompleteWithError, Disconnect, CloseAtYield,
         DropResponse, StopWaiting
    <3>2. ASSUME NEW q \in Requests, Commit(q) PROVE file' # None
      BY <3>2, ActorsAssumption DEF Commit
    <3>3. ASSUME NEW d \in Deletes, Delete(d), ~DeleteFiles(d) PROVE file' = file
      BY <3>3 DEF Delete, AskDelete, Acquire, Discard
    <3>4. QED BY <3>1, <3>2, <3>3 DEF Next
  <2>2. /\ d \in Actors /\ r \in Actors /\ d # r /\ TypeOK /\ ThroughPool
        /\ pc[d] = "deleting" /\ pc[r] = "turn"
    BY <2>1, ActorsAssumption DEF SerialInv, DeleteFiles, WorkersServed
  <2>3. Under(d) /\ Under(r)
    BY <2>2 DEF Under
  <2>4. QED BY <2>2, <2>3 DEF ThroughPool
<1>4. QED BY <1>1, <1>2, <1>3, SerialInit, SerialStep, PTL DEF Spec, DeletedWhileServed
-------------------------------------------------------------------------------
\* How a step of one request changes the number of requests that hold a slot.
Holding == {r \in Requests : pc[r] \in InSlot}

LEMMA HoldingChanges ==
  ASSUME TypeOK, NEW r \in Requests, NEW stage \in Stages, pc' = [pc EXCEPT ![r] = stage]
  PROVE  /\ (pc[r] \in InSlot <=> stage \in InSlot) => Cardinality(Holding') = Cardinality(Holding)
         /\ pc[r] \notin InSlot /\ stage \in InSlot =>
              Cardinality(Holding') = Cardinality(Holding) + 1
         /\ pc[r] \in InSlot /\ stage \notin InSlot =>
              Cardinality(Holding') = Cardinality(Holding) - 1
<1>1. IsFiniteSet(Holding)
  BY FS_Subset, ActorsAssumption DEF Holding
<1>2. (pc[r] \in InSlot <=> stage \in InSlot) => Holding' = Holding
  BY DEF TypeOK, Holding
<1>3. pc[r] \notin InSlot /\ stage \in InSlot => Holding' = Holding \cup {r} /\ r \notin Holding
  BY DEF TypeOK, Holding
<1>4. pc[r] \in InSlot /\ stage \notin InSlot => Holding' = Holding \ {r} /\ r \in Holding
  BY DEF TypeOK, Holding
<1>5. /\ Cardinality(Holding \cup {r}) =
            IF r \in Holding THEN Cardinality(Holding) ELSE Cardinality(Holding) + 1
      /\ Cardinality(Holding \ {r}) =
            IF r \in Holding THEN Cardinality(Holding) - 1 ELSE Cardinality(Holding)
  BY <1>1, FS_AddElement, FS_RemoveElement
<1>6. QED BY <1>2, <1>3, <1>4, <1>5

\* A request takes its slot when it enters and gives it back on every way out.
LEMMA RequestSlots ==
  ASSUME TypeOK, slots = Cardinality(Holding), NEW r \in Requests,
         Begin(r) \/ Serve(r) \/ Commit(r) \/ BreakOff(r) \/ Leave(r)
  PROVE  slots' = Cardinality(Holding')
<1>0. /\ r \in Actors /\ r \notin Deletes
      /\ (pc' = pc => Holding' = Holding)
  BY ActorsAssumption DEF Holding
<1>1. CASE Begin(r)
  <2>1. \E stage \in {"waiting", "accepted", "refused"} : pc' = [pc EXCEPT ![r] = stage]
    BY <1>1 DEF Begin, Admit, Register, Refuse, Follow
  <2>2. QED BY <1>1, <2>1, HoldingChanges DEF Begin
<1>2. CASE Replay(r) \/ CompleteWithError(r) \/ DropResponse(r) \/ StopWaiting(r)
  <2>1. \E stage \in {"done", "broken", "dropped", "gone"} : pc' = [pc EXCEPT ![r] = stage]
    BY <1>2 DEF Replay, CompleteWithError, DropResponse, StopWaiting
  <2>2. pc[r] \in {"waiting", "accepted", "erring"} /\ slots' = slots
    BY <1>2 DEF Replay, CompleteWithError, DropResponse, StopWaiting
  <2>3. QED BY <2>1, <2>2, HoldingChanges
<1>3. CASE Enter(r)
  <2>1. CASE slots < MaxSlots
    <3>1. slots' = slots + 1 /\ pc[r] = "accepted" /\ AskLock(r, "opening")
      BY <1>3, <2>1 DEF Enter
    <3>2. \E stage \in {"opening", "lock"} : pc' = [pc EXCEPT ![r] = stage]
      BY <3>1 DEF AskLock
    <3>3. QED BY <3>1, <3>2, HoldingChanges
  <2>2. CASE ~(slots < MaxSlots)
    BY <1>3, <2>2, HoldingChanges DEF Enter
  <2>3. QED BY <2>1, <2>2
<1>4. CASE Acquire(r) \/ UsePooled(r) \/ Load(r) \/ Opened(r)
  <2>1. \E stage \in InTurn : pc' = [pc EXCEPT ![r] = stage]
    BY <1>0, <1>4 DEF Acquire, UsePooled, Load, Opened
  <2>2. pc[r] \in InSlot /\ slots' = slots
    BY <1>4 DEF Acquire, UsePooled, Load, Opened
  <2>3. QED BY <2>1, <2>2, HoldingChanges
<1>5. CASE Start(r) \/ Commit(r) \/ End(r) \/ Fail(r)
  BY <1>0, <1>5 DEF Start, Commit, End, Fail
<1>6. CASE Finish(r) \/ Raise(r) \/ BreakOff(r) \/ Disconnect(r) \/ CloseAtYield(r)
  <2>1. slots' = IF pc[r] \in InSlot THEN slots - 1 ELSE slots
    BY <1>6 DEF Finish, Raise, BreakOff, Disconnect, CloseAtYield, ExitContexts
  <2>2. \E stage \in {"done", "erring", "gone", "dropped"} : pc' = [pc EXCEPT ![r] = stage]
    BY <1>6 DEF Finish, Raise, BreakOff, Disconnect, CloseAtYield
  <2>3. QED BY <2>1, <2>2, HoldingChanges
<1>7. QED BY <1>1, <1>2, <1>3, <1>4, <1>5, <1>6 DEF Serve, Leave

\* No way out of a response leaks a slot or gives one back twice.
THEOREM SlotsAreExact == Spec => []SlotsExact
<1>1. Init => SlotsExact
  <2> SUFFICES ASSUME Init PROVE SlotsExact
    OBVIOUS
  <2>1. {r \in Requests : pc[r] \in InSlot} = {}
    BY DEF Init
  <2>2. QED BY <2>1, FS_EmptySet DEF Init, SlotsExact
<1>2. TypeOK /\ SlotsExact /\ [Next]_vars => SlotsExact'
  <2> SUFFICES ASSUME TypeOK, SlotsExact, [Next]_vars PROVE SlotsExact'
    OBVIOUS
  <2>1. slots = Cardinality(Holding) /\ (SlotsExact' <=> slots' = Cardinality(Holding'))
    BY DEF SlotsExact, Holding
  <2>2. CASE UNCHANGED vars
    BY <2>2 DEF SlotsExact
  <2>3. ASSUME NEW d \in Deletes, Delete(d) PROVE SlotsExact'
    <3>1. d \in Actors /\ d \notin Requests
      BY ActorsAssumption
    <3>2. slots' = slots /\ \A r \in Requests : pc'[r] = pc[r]
      BY <2>3, <3>1 DEF TypeOK, Delete, AskDelete, AskLock, Acquire, DeleteFiles, Discard
    <3>3. Holding' = Holding
      BY <3>2 DEF Holding
    <3>4. QED BY <2>1, <3>2, <3>3
  <2>4. QED BY <2>1, <2>2, <2>3, RequestSlots DEF Next
<1>3. QED BY <1>1, <1>2, TypeCorrect, PTL DEF Spec

-------------------------------------------------------------------------------
\* That the service implements TurnService.

\* A request whose answer was saved is past its turn.
SavedRan == \A r \in saved : worker[r] \notin {"none", "running"}

ServiceInv == SerialInv /\ ReplayInv /\ WorkersServed /\ SavedRan

\* What a step does to the turns, the file and the answers.
LEMMA TurnChanges ==
  ASSUME TypeOK, [Next]_vars
  PROVE  \/ \E r \in Requests : Start(r) /\ operation[sessionOf[r]] = None
         \/ \E r \in Requests : Commit(r)
         \/ \E d \in Deletes : DeleteFiles(d) /\ file # None
         \/ /\ file' = file /\ saved' = saved /\ base' = base
            /\ \/ worker' = worker
               \/ \E r \in Requests, stage \in {"closed", "ended", "failed"} :
                    worker' = [worker EXCEPT ![r] = stage]
<1>1. CASE UNCHANGED vars
  BY <1>1
<1>2. ASSUME NEW r \in Requests, Begin(r) \/ Leave(r) \/ BreakOff(r)
      PROVE  /\ file' = file /\ saved' = saved /\ base' = base
             /\ worker' = worker \/ worker' = [worker EXCEPT ![r] = "closed"]
  BY <1>2 DEF Begin, Leave, BreakOff, Disconnect, CloseAtYield, DropResponse, StopWaiting
<1>3. ASSUME NEW r \in Requests, Serve(r), ~(Start(r) /\ operation[sessionOf[r]] = None)
      PROVE  /\ file' = file /\ saved' = saved /\ base' = base
             /\ \/ worker' = worker
                \/ \E stage \in {"closed", "ended", "failed"} : worker' = [worker EXCEPT ![r] = stage]
  BY <1>3 DEF Serve, Replay, Enter, Acquire, UsePooled, Load, Opened, Start, Session, End, Fail,
     Finish, Raise, CompleteWithError
<1>4. ASSUME NEW d \in Deletes, Delete(d), ~(DeleteFiles(d) /\ file # None)
      PROVE  file' = file /\ saved' = saved /\ base' = base /\ worker' = worker
  BY <1>4 DEF Delete, AskDelete, Acquire, DeleteFiles, Discard
<1>5. QED
  <2>1. CASE \E r \in Requests : Begin(r) \/ Leave(r) \/ BreakOff(r)
    BY <1>2, <2>1
  <2>2. CASE \E r \in Requests : Serve(r)
    BY <1>3, <2>2
  <2>3. CASE \E d \in Deletes : Delete(d)
    BY <1>4, <2>3
  <2>4. QED BY <1>1, <2>1, <2>2, <2>3 DEF Next

LEMMA SavedRanStep == ASSUME TypeOK, SavedRan, [Next]_vars PROVE SavedRan'
<1> USE DEF SavedRan
<1>1. ASSUME NEW r \in Requests, Start(r), operation[sessionOf[r]] = None PROVE SavedRan'
  BY <1>1 DEF TypeOK, Start, Session
<1>2. ASSUME NEW r \in Requests, Commit(r) PROVE SavedRan'
  BY <1>2 DEF TypeOK, Commit
<1>3. ASSUME NEW d \in Deletes, DeleteFiles(d) PROVE SavedRan'
  BY <1>3 DEF TypeOK, DeleteFiles
<1>4. CASE /\ saved' = saved
           /\ \/ worker' = worker
              \/ \E r \in Requests, stage \in {"closed", "ended", "failed"} :
                   worker' = [worker EXCEPT ![r] = stage]
  BY <1>4 DEF TypeOK
<1>5. QED BY <1>1, <1>2, <1>3, <1>4, TurnChanges

LEMMA InitService == ASSUME Init PROVE ServiceInv /\ Serving!ServiceInit
<1>1. TypeOK
  BY ActorsAssumption DEF Init, TypeOK
<1>2. SerialInv
  BY SerialInit
<1>3. ReplayInv
  BY <1>1 DEF Init, ReplayInv, OwnersEntered, UniqueKeys, TurnsAreKnown, OrphansWereDropped
<1>4. WorkersServed /\ SavedRan
  BY DEF Init, WorkersServed, SavedRan
<1>5. Turn = {} /\ Excused = {} /\ Undeleted
  BY ActorsAssumption DEF Init, Turn, Excused, Undeleted
<1>6. file = None /\ saved = {}
  BY DEF Init
<1>7. QED BY <1>2, <1>3, <1>4, <1>5, <1>6 DEF ServiceInv, Serving!ServiceInit

LEMMA ReplayStep == ASSUME ReplayInv, [Next]_vars PROVE ReplayInv'
<1>1. CASE UNCHANGED vars
  BY <1>1 DEF ReplayInv, TypeOK, OwnersEntered, UniqueKeys, TurnsAreKnown, OrphansWereDropped
<1>2. CASE Next
  <2>1. TypeOK'
    BY <1>2, BeginTypes, ServeTypes, LeaveTypes, DeleteTypes DEF Next, ReplayInv
  <2>2. QED BY <1>2, <2>1, BeginReplay, ServeReplay, LeaveReplay, DeleteReplay DEF Next
<1>3. QED BY <1>1, <1>2

LEMMA NextService == ASSUME ServiceInv, [Next]_vars PROVE ServiceInv'
BY SerialStep, ReplayStep, ServedStep, SavedRanStep DEF ServiceInv, SerialInv

\* Who left stays away, and what is forgotten is not remembered.
LEMMA ExcusedGrows == ASSUME TypeOK, [Next]_vars PROVE Excused \subseteq Excused'
<1>1. forgotten \subseteq forgotten'
  <2>1. ASSUME NEW r \in Requests, Begin(r) PROVE forgotten \subseteq forgotten'
    BY <2>1 DEF Begin, Admit, Keep
  <2>2. ASSUME NEW r \in Requests, Serve(r) \/ Commit(r) \/ BreakOff(r) \/ Leave(r)
        PROVE  forgotten' = forgotten
    BY <2>2 DEF Serve, Commit, BreakOff, Replay, Enter, Acquire, UsePooled, Load, Opened, Start, End,
       Fail, Finish, Raise, CompleteWithError, Leave, Disconnect, CloseAtYield, DropResponse,
       StopWaiting
  <2>3. ASSUME NEW d \in Deletes, Delete(d) PROVE forgotten' = forgotten
    BY <2>3 DEF Delete, AskDelete, Acquire, DeleteFiles, Discard
  <2>4. CASE UNCHANGED vars
    BY <2>4
  <2>5. QED BY <2>1, <2>2, <2>3, <2>4 DEF Next
<1>2. ASSUME NEW q \in Requests, pc[q] \in Left PROVE pc'[q] \in Left
  <2>0. q \in Actors /\ q \notin Deletes
    BY ActorsAssumption
  <2>1. ASSUME NEW r \in Requests, Begin(r) PROVE pc'[q] = pc[q]
    BY <1>2, <2>0, <2>1 DEF TypeOK, Begin, Admit, Register, Refuse, Follow
  <2>2. ASSUME NEW r \in Requests, Serve(r) \/ Commit(r) \/ BreakOff(r) PROVE pc'[q] = pc[q]
    BY <1>2, <2>0, <2>2 DEF TypeOK, Serve, Commit, BreakOff, Replay, Enter, AskLock, Acquire,
       UsePooled, Load, Opened, Start, End, Fail, Finish, Raise, CompleteWithError
  <2>3. ASSUME NEW r \in Requests, Leave(r) PROVE pc'[q] \in Left
    BY <1>2, <2>0, <2>3 DEF TypeOK, Leave, Disconnect, CloseAtYield, DropResponse, StopWaiting
  <2>4. ASSUME NEW d \in Deletes, Delete(d) PROVE pc'[q] = pc[q]
    BY <1>2, <2>0, <2>4 DEF TypeOK, Delete, AskDelete, AskLock, Acquire, DeleteFiles, Discard
  <2>5. CASE UNCHANGED vars
    BY <1>2, <2>5
  <2>6. QED BY <1>2, <2>1, <2>2, <2>3, <2>4, <2>5 DEF Next
<1>3. QED BY <1>1, <1>2 DEF Excused

\* Until the deletion one worker runs, and it runs from the file.
LEMMA OneTurn ==
  ASSUME SerialInv, Undeleted, NEW r \in Requests, worker[r] \in {"running", "saved", "closed"}
  PROVE  /\ \A q \in Requests : worker[q] \in {"running", "saved", "closed"} => q = r
         /\ worker[r] = "running" => Turn = {[request |-> r, base |-> file]}
         /\ worker[r] # "running" => Turn = {}
<1>1. TypeOK /\ OneSession /\ OneWorker
  BY DEF SerialInv
<1>2. \A q \in Requests : worker[q] \in {"running", "saved", "closed"} =>
        sessionOf[q] = poolSession /\ operation[poolSession] = q
  BY <1>1 DEF TypeOK, OneSession, OneWorker
<1>3. \A q \in Requests : worker[q] \in {"running", "saved", "closed"} => q = r
  BY <1>2
<1>4. worker[r] = "running" => base[r] = file
  BY <1>1 DEF OneWorker
<1>5. QED BY <1>3, <1>4 DEF Turn

\* Only the removal of the files ends it.
LEMMA StaysUndeleted ==
  ASSUME TypeOK, [Next]_vars, Undeleted, \A d \in Deletes : DeleteFiles(d) => file = None
  PROVE  Undeleted'
<1> SUFFICES ASSUME NEW d \in Deletes PROVE pc'[d] \notin {"deleted", "done"}
  BY DEF Undeleted
<1>0. d \in Actors /\ d \notin Requests /\ pc[d] \notin {"deleted", "done"}
  BY ActorsAssumption DEF Undeleted
<1>1. CASE UNCHANGED vars
  BY <1>0, <1>1
<1>2. ASSUME NEW r \in Requests, Begin(r) \/ Leave(r) PROVE pc'[d] = pc[d]
  BY <1>0, <1>2 DEF TypeOK, Begin, Admit, Register, Refuse, Follow,
     Leave, Disconnect, CloseAtYield, DropResponse, StopWaiting
<1>3. ASSUME NEW r \in Requests, Serve(r) \/ Commit(r) \/ BreakOff(r) PROVE pc'[d] = pc[d]
  BY <1>0, <1>3 DEF TypeOK, Serve, Commit, BreakOff, Replay, Enter, AskLock, Acquire, UsePooled,
     Load, Opened, Start, End, Fail, Finish, Raise, CompleteWithError
<1>4. ASSUME NEW c \in Deletes, Delete(c)
      PROVE  pc'[d] = pc[d] \/ pc'[d] \in {"lock", "deleting", "refused"}
  <2>1. c \in Actors /\ (DeleteFiles(c) => file = None)
    OBVIOUS
  <2>2. CASE c # d
    BY <1>0, <1>4, <2>1, <2>2 DEF TypeOK, Delete, AskDelete, AskLock, Acquire, DeleteFiles, Discard
  <2>3. CASE c = d
    BY <1>0, <1>4, <2>1, <2>3 DEF TypeOK, Delete, AskDelete, AskLock, Acquire, DeleteFiles, Discard
  <2>4. QED BY <2>2, <2>3
<1>5. QED BY <1>0, <1>1, <1>2, <1>3, <1>4 DEF Next

\* Every step of the service is a step of TurnService, or none.
LEMMA NextServing ==
  ASSUME ServiceInv, [Next]_vars
  PROVE  [Serving!ServiceNext]_(Serving!serviceVars)
<1>0. /\ TypeOK /\ SerialInv /\ ServiceInv' /\ Excused \subseteq Excused' /\ Serving!OncePerKey'
  <2>1. ServiceInv'
    BY NextService
  <2>2. Serving!OncePerKey'
    <3>1. ReplayInv'
      BY <2>1 DEF ServiceInv
    <3>2. CommitOncePerKey' /\ (saved \subseteq Requests)'
      BY <3>1 DEF ReplayInv, TypeOK, UniqueKeys, TurnsAreKnown, CommitOncePerKey
    <3>3. QED BY <3>2 DEF CommitOncePerKey, Serving!OncePerKey, Excused
  <2>3. TypeOK /\ SerialInv
    BY DEF ServiceInv, SerialInv
  <2>4. QED BY <2>1, <2>2, <2>3, ExcusedGrows
<1>1. saved \subseteq saved'
  <2>1. ASSUME NEW r \in Requests, Start(r) PROVE saved' = saved
    BY <2>1 DEF Start
  <2>2. ASSUME NEW d \in Deletes, DeleteFiles(d) PROVE saved' = saved
    BY <2>2 DEF DeleteFiles
  <2>3. ASSUME NEW r \in Requests, Commit(r) PROVE saved \subseteq saved'
    BY <2>3 DEF Commit
  <2>4. QED BY <1>0, <2>1, <2>2, <2>3, TurnChanges
<1>2. CASE ~Undeleted
  <2>1. ~Undeleted'
    BY <1>0, <1>2, DeletionIsFinal
  <2>2. Serving!AfterDeletion
    BY <1>0, <1>1, <1>2, <2>1 DEF Serving!AfterDeletion
  <2>3. QED BY <2>2 DEF Serving!ServiceNext
<1>3. ASSUME Undeleted, NEW r \in Requests, Start(r), operation[sessionOf[r]] = None
      PROVE  Serving!StartTurn(r)
  <2>1. /\ pc' = pc /\ file' = file /\ saved' = saved /\ forgotten' = forgotten
        /\ worker[r] = "none" /\ worker' = [worker EXCEPT ![r] = "running"]
        /\ base' = [base EXCEPT ![r] = seen[sessionOf[r]]] /\ sessionOf[r] # None
    BY <1>0, <1>3 DEF Start, Session, TypeOK
  <2>2. sessionOf[r] = poolSession /\ seen[poolSession] = file
    BY <1>0, <1>3, <2>1, ActorsAssumption DEF SerialInv, OneSession, TypeOK
  <2>3. \A q \in Requests : worker[q] # "running"
    BY <1>0, <1>3, <2>2, ActorsAssumption DEF SerialInv, OneSession, OneWorker, TypeOK
  <2>4. Turn = {} /\ Turn' = {[request |-> r, base |-> file]}
    BY <1>0, <2>1, <2>2, <2>3 DEF Turn, TypeOK
  <2>5. Excused' = Excused /\ Undeleted' = Undeleted
    BY <2>1 DEF Excused, Undeleted
  <2>6. r \notin saved
    BY <2>1 DEF ServiceInv, SavedRan
  <2>7. QED BY <1>3, <2>1, <2>4, <2>5, <2>6 DEF Serving!StartTurn
<1>4. ASSUME Undeleted, NEW r \in Requests, Commit(r)
      PROVE  Serving!SaveAnswer(r)
  <2>1. /\ pc' = pc /\ file' = r /\ saved' = saved \cup {r} /\ forgotten' = forgotten
        /\ worker[r] = "running" /\ worker' = [worker EXCEPT ![r] = "saved"] /\ base' = base
    BY <1>4 DEF Commit
  <2>2. /\ Turn = {[request |-> r, base |-> file]}
        /\ \A q \in Requests : worker[q] = "running" => q = r
    BY <1>0, <1>4, <2>1, OneTurn
  <2>3. Turn' = {}
    BY <1>0, <2>1, <2>2 DEF Turn, TypeOK
  <2>4. Excused' = Excused /\ Undeleted' = Undeleted
    BY <2>1 DEF Excused, Undeleted
  <2>5. QED BY <1>0, <1>4, <2>1, <2>2, <2>3, <2>4 DEF Serving!SaveAnswer
<1>5. ASSUME Undeleted, NEW d \in Deletes, DeleteFiles(d), file # None
      PROVE  Serving!DeleteSession
  <2>1. /\ pc' = [pc EXCEPT ![d] = "deleted"] /\ file' = None /\ pc[d] = "deleting"
        /\ UNCHANGED <<saved, forgotten, worker, base>>
    BY <1>5 DEF DeleteFiles
  <2>2. d \in Actors /\ d \notin Requests
    BY ActorsAssumption
  <2>3. \A r \in Requests : pc'[r] = pc[r]
    BY <1>0, <2>1, <2>2 DEF TypeOK
  <2>4. Turn' = Turn /\ Excused' = Excused
    BY <2>1, <2>3 DEF Turn, Excused
  <2>5. ~Undeleted'
    BY <1>0, <2>1, <2>2 DEF TypeOK, Undeleted
  <2>6. ASSUME NEW r \in Requests, worker[r] = "running" PROVE r \in Excused
    <3>1. pc[r] \in {"turn"} \cup Left
      BY <2>6 DEF ServiceInv, WorkersServed
    <3>2. pc[r] # "turn"
      BY <1>0, <1>5, <2>1, <2>2, OneUnder DEF SerialInv, Under
    <3>3. QED BY <3>1, <3>2 DEF Excused
  <2>7. \A t \in Turn : t.request \in Excused
    BY <2>6 DEF Turn
  <2>8. QED BY <1>5, <2>1, <2>4, <2>5, <2>7 DEF Serving!DeleteSession
<1>6. ASSUME Undeleted, file' = file, saved' = saved, base' = base,
             \/ worker' = worker
             \/ \E r \in Requests, stage \in {"closed", "ended", "failed"} :
                  worker' = [worker EXCEPT ![r] = stage],
             Undeleted'
      PROVE  Serving!EndTurn
  <2>1. \A q \in Requests : worker'[q] = "running" => worker[q] = "running"
    BY <1>0, <1>6 DEF TypeOK
  <2>2. CASE \A q \in Requests : worker[q] = "running" => worker'[q] = "running"
    <3>1. Turn' = Turn
      BY <1>6, <2>1, <2>2 DEF Turn
    <3>2. QED BY <1>0, <1>6, <3>1 DEF Serving!EndTurn
  <2>3. CASE ~\A q \in Requests : worker[q] = "running" => worker'[q] = "running"
    <3>1. PICK q \in Requests : worker[q] = "running" /\ worker'[q] # "running"
      BY <2>3
    <3>2. Turn' = {}
      BY <1>0, <1>6, <2>1, <3>1, OneTurn DEF Turn
    <3>3. QED BY <1>0, <1>6, <3>2 DEF Serving!EndTurn
  <2>4. QED BY <2>2, <2>3
<1>7. CASE Undeleted /\ \E d \in Deletes : DeleteFiles(d) /\ file # None
  BY <1>5, <1>7 DEF Serving!ServiceNext
<1>8. CASE Undeleted /\ \A d \in Deletes : DeleteFiles(d) => file = None
  <2>1. Undeleted'
    BY <1>0, <1>8, StaysUndeleted
  <2>2. CASE \E r \in Requests : Start(r) /\ operation[sessionOf[r]] = None
    BY <1>3, <1>8, <2>2 DEF Serving!ServiceNext
  <2>3. CASE \E r \in Requests : Commit(r)
    BY <1>4, <1>8, <2>3 DEF Serving!ServiceNext
  <2>4. CASE /\ file' = file /\ saved' = saved /\ base' = base
             /\ \/ worker' = worker
                \/ \E r \in Requests, stage \in {"closed", "ended", "failed"} :
                     worker' = [worker EXCEPT ![r] = stage]
    <3>1. Serving!EndTurn
      BY <1>6, <1>8, <2>1, <2>4
    <3>2. QED BY <3>1 DEF Serving!ServiceNext
  <2>5. QED BY <1>0, <1>8, <2>2, <2>3, <2>4, TurnChanges
<1>9. QED BY <1>2, <1>7, <1>8

\* The locks, the pool, the threads and the entries together give what
\* TurnService promises, whatever clients and deletions do in between: a turn
\* runs alone and from the last answer, an answer is saved once per key, files
\* go only from under a turn nobody waits for, and a deletion is final.
THEOREM TurnServiceIsImplemented == Spec => ImplementsTurnService
<1>1. Init => ServiceInv /\ Serving!ServiceInit
  BY InitService
<1>2. ServiceInv /\ [Next]_vars => ServiceInv'
  BY NextService
<1>3. ServiceInv /\ [Next]_vars => [Serving!ServiceNext]_(Serving!serviceVars)
  BY NextServing
<1>4. QED BY <1>1, <1>2, <1>3, PTL DEF Spec, ImplementsTurnService, Serving!ServiceSpec
===============================================================================
