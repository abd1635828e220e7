---------------------------- MODULE ToolMiddleware ----------------------------
(***************************************************************************)
(* tool_execution.py: calls of one tool through ToolExecutionMiddleware,    *)
(* with its policy, retries, deadlines, cancellation and circuit breaker.   *)
(*                                                                         *)
(* A call is one execution of `execute`.  Time is what it makes possible: a *)
(* deadline may pass at any moment, and an open circuit becomes cool some   *)
(* time after it opened.  An error that is not to be retried is a choice    *)
(* not to retry.  The agent makes one call at a time; the middleware itself *)
(* admits as many as its callers make, here MaxParallel.                    *)
(***************************************************************************)
EXTENDS Integers, FiniteSets

CONSTANTS
  Calls,        \* the calls of the tool
  Keyed,        \* those that carry an idempotency key
  Policies,     \* the policies the tool may be registered with
  Threshold,    \* circuit_failure_threshold
  MaxParallel

\* timeout, budget and backoff say whether the policy has one.
PolicyRecords ==
  [risk : {"read_only", "workspace_write", "external_side_effect"},
   abandon : BOOLEAN, cooperative : BOOLEAN, timeout : BOOLEAN, budget : BOOLEAN,
   backoff : BOOLEAN, attempts : Nat \ {0}]

\* ToolExecutionPolicy.__post_init__.
ValidPolicy(p) ==
  p.risk # "read_only" =>
    /\ ~p.abandon
    /\ ~p.cooperative => ~p.timeout /\ ~p.budget

ASSUME PoliciesAssumption == Policies \subseteq {p \in PolicyRecords : ValidPolicy(p)}
ASSUME CallsAssumption == Keyed \subseteq Calls /\ Threshold \in Nat \ {0} /\ MaxParallel \in Nat

VARIABLES
  policy,       \* the policy of the tool
  pc, attempt,  \* where a call stands and the number of its attempt
  cancelled,    \* the token of its turn is cancelled
  late,         \* its total deadline has passed
  outcome,      \* what its current attempt left in the queue
  workers,      \* attempts whose action is running
  fails, opened, cooled, probe,
                \* _CircuitState, and whether the recovery time has passed
  probes,       \* observer: calls admitted as recovery probes
  succeeded     \* observer: attempts at an effect whose action returned a value

callVars    == <<pc, attempt, outcome>>
tokenVars   == <<cancelled, late>>
circuitVars == <<fails, opened, cooled, probe>>
observed    == <<probes, succeeded>>
vars == <<policy, callVars, tokenVars, workers, circuitVars, observed>>

Active == {"ready", "starting", "running", "backoff"}
Ended  == {"returned", "failed", "cancelled", "rejected", "blocked"}

ReadOnly == policy.risk = "read_only"

\* Everything else runs in the caller's thread: no deadline, no cancellation.
InWorker == ReadOnly \/ policy.cooperative

\* A call goes on, and with it goes the queue of its attempt.
Go(c, stage) ==
  /\ pc' = [pc EXCEPT ![c] = stage]
  /\ outcome' = [outcome EXCEPT ![c] = "none"]

-------------------------------------------------------------------------------
\* The ways in which a call ends, and what they do to the circuit.

\* Mutant: a success closes the circuit and forgets to reset the count.
SucceedKeepingCount(c) ==
  /\ Go(c, "returned")
  /\ opened' = FALSE /\ cooled' = FALSE /\ probe' = FALSE
  /\ UNCHANGED fails

Succeed(c) ==
  /\ Go(c, "returned")
  /\ fails' = 0 /\ opened' = FALSE /\ cooled' = FALSE /\ probe' = FALSE

Fail(c) ==
  /\ Go(c, "failed")
  /\ fails' = fails + 1 /\ probe' = FALSE
  /\ IF fails + 1 >= Threshold
     THEN opened' = TRUE /\ cooled' = FALSE
     ELSE UNCHANGED <<opened, cooled>>

\* Mutant: a cancelled probe is not released.
CancelKeepingProbe(c) == Go(c, "cancelled") /\ UNCHANGED circuitVars

Cancel(c) ==
  /\ Go(c, "cancelled") /\ probe' = FALSE
  /\ UNCHANGED <<fails, opened, cooled>>

-------------------------------------------------------------------------------
\* The checks before the first attempt.

KeyRequired ==
  \/ policy.risk = "external_side_effect"
  \/ ~ReadOnly /\ policy.attempts > 1

KeyAccepted(c) == KeyRequired => c \in Keyed

Blocking == opened /\ (~cooled \/ probe)

\* Rejected for its key, cancelled before it began, or blocked by the circuit.
Refuse(c) ==
  /\ pc[c] = "new"
  /\ \/ ~KeyAccepted(c) /\ Go(c, "rejected")
     \/ KeyAccepted(c) /\ cancelled[c] /\ Go(c, "cancelled")
     \/ KeyAccepted(c) /\ ~cancelled[c] /\ Blocking /\ Go(c, "blocked")
  /\ UNCHANGED <<policy, attempt, tokenVars, workers, circuitVars, observed>>

Admit(c) ==
  /\ pc[c] = "new" /\ KeyAccepted(c) /\ ~cancelled[c] /\ ~Blocking
  /\ Cardinality({d \in Calls : pc[d] \in Active}) < MaxParallel
  /\ Go(c, "ready")
  /\ probe' = (probe \/ opened)
  /\ probes' = IF opened THEN probes \cup {c} ELSE probes
  /\ UNCHANGED <<policy, attempt, tokenVars, workers, fails, opened, cooled, succeeded>>

-------------------------------------------------------------------------------
\* The attempts.

\* The token is looked at before the thread of the attempt begins; the turn may be
\* cancelled between the two, and the attempt is made all the same.
CheckToken(c) ==
  /\ pc[c] = "ready" /\ ~cancelled[c] /\ ~late[c]
  /\ Go(c, "starting")
  /\ UNCHANGED <<policy, attempt, tokenVars, workers, circuitVars, observed>>

StartAttempt(c) ==
  /\ pc[c] = "starting"
  /\ Go(c, "running")
  /\ attempt' = [attempt EXCEPT ![c] = @ + 1]
  /\ workers' = workers \cup {<<c, attempt[c] + 1>>}
  /\ UNCHANGED <<policy, tokenVars, circuitVars, observed>>

StopBeforeAttempt(c) ==
  /\ pc[c] = "ready"
  /\ \/ cancelled[c] /\ Cancel(c)
     \/ ~cancelled[c] /\ late[c] /\ Fail(c)
  /\ UNCHANGED <<policy, attempt, tokenVars, workers, observed>>

\* An action ends.  Its outcome reaches the call only if the call still waits
\* for this attempt; a cooperative action may report what its token told it.
WorkerEnds(c, n) ==
  /\ <<c, n>> \in workers
  /\ workers' = workers \ {<<c, n>>}
  /\ \E result \in {"value", "error"} \cup
                    (IF policy.cooperative /\ cancelled[c] THEN {"cancelled"} ELSE {}) :
       /\ IF pc[c] = "running" /\ attempt[c] = n
          THEN outcome' = [outcome EXCEPT ![c] = result]
          ELSE UNCHANGED outcome
       /\ succeeded' = IF result = "value" /\ ~ReadOnly
                        THEN succeeded \cup {<<c, n>>} ELSE succeeded
  /\ UNCHANGED <<policy, pc, attempt, tokenVars, circuitVars, probes>>

\* Mutant: the last attempt is followed by another.
MayRetryOnceMore(c) == attempt[c] <= policy.attempts /\ (ReadOnly \/ c \in Keyed)

MayRetry(c) == attempt[c] < policy.attempts /\ (ReadOnly \/ c \in Keyed)

\* An error of the attempt ends the call or leads to the next attempt.
Raised(c) ==
  \/ Fail(c)
  \/ MayRetry(c) /\ Go(c, "backoff") /\ UNCHANGED circuitVars

\* Mutant: a call that is cancelled does not look at what its attempt left.
TakeOutcomeUnlessCancelled(c) ==
  /\ pc[c] = "running"
  /\ \/ cancelled[c] /\ outcome[c] # "none" /\ Cancel(c)
     \/ ~cancelled[c] /\ outcome[c] = "value" /\ Succeed(c)
     \/ ~cancelled[c] /\ outcome[c] = "error" /\ Raised(c)
  /\ UNCHANGED <<policy, attempt, tokenVars, workers, observed>>

TakeOutcome(c) ==
  /\ pc[c] = "running"
  /\ \/ outcome[c] = "value" /\ Succeed(c)
     \/ outcome[c] = "error" /\ Raised(c)
     \/ outcome[c] = "cancelled" /\ Cancel(c)
  /\ UNCHANGED <<policy, attempt, tokenVars, workers, observed>>

\* Mutant: every tool is abandoned on cancellation.
AbandonAny(c) ==
  /\ pc[c] = "running" /\ InWorker /\ cancelled[c]
  /\ Cancel(c)
  /\ UNCHANGED <<policy, attempt, tokenVars, workers, observed>>

\* The caller stops waiting; the worker goes on.
Abandon(c) ==
  /\ pc[c] = "running" /\ InWorker /\ cancelled[c] /\ policy.abandon
  /\ Cancel(c)
  /\ UNCHANGED <<policy, attempt, tokenVars, workers, observed>>

\* Mutant: the deadline is looked at only when there is an outcome.
TimeOutWithOutcome(c) ==
  /\ pc[c] = "running" /\ InWorker /\ outcome[c] # "none"
  /\ policy.timeout \/ late[c]
  /\ Raised(c)
  /\ UNCHANGED <<policy, attempt, tokenVars, workers, observed>>

\* The deadline of the attempt, or of all of them, has passed.
TimeOut(c) ==
  /\ pc[c] = "running" /\ InWorker
  /\ policy.timeout \/ late[c]
  /\ Raised(c)
  /\ UNCHANGED <<policy, attempt, tokenVars, workers, observed>>

\* A delay that does not fit into the budget fails; a cancellation during the
\* delay ends the call.
Backoff(c) ==
  /\ pc[c] = "backoff"
  /\ \/ policy.backoff /\ policy.budget /\ Fail(c)
     \/ policy.backoff /\ cancelled[c] /\ Cancel(c)
     \/ /\ policy.backoff => ~cancelled[c] /\ ~late[c]
        /\ Go(c, "ready") /\ UNCHANGED circuitVars
  /\ UNCHANGED <<policy, attempt, tokenVars, workers, observed>>

-------------------------------------------------------------------------------
\* What happens to a call from outside.

CancelTurn(c) ==
  /\ pc[c] \in Active \cup {"new"} /\ ~cancelled[c]
  /\ cancelled' = [cancelled EXCEPT ![c] = TRUE]
  /\ UNCHANGED <<policy, callVars, late, workers, circuitVars, observed>>

BudgetRunsOut(c) ==
  /\ pc[c] \in Active /\ policy.budget /\ ~late[c]
  /\ late' = [late EXCEPT ![c] = TRUE]
  /\ UNCHANGED <<policy, callVars, cancelled, workers, circuitVars, observed>>

Cool ==
  /\ opened /\ ~cooled
  /\ cooled' = TRUE
  /\ UNCHANGED <<policy, callVars, tokenVars, workers, fails, opened, probe, observed>>

-------------------------------------------------------------------------------
Init ==
  /\ policy \in Policies
  /\ pc = [c \in Calls |-> "new"] /\ attempt = [c \in Calls |-> 0]
  /\ outcome = [c \in Calls |-> "none"]
  /\ cancelled = [c \in Calls |-> FALSE] /\ late = [c \in Calls |-> FALSE]
  /\ workers = {}
  /\ fails = 0 /\ opened = FALSE /\ cooled = FALSE /\ probe = FALSE
  /\ probes = {} /\ succeeded = {}

\* What execute does once it has admitted a call.
Advance(c) ==
  \/ CheckToken(c) \/ StartAttempt(c) \/ StopBeforeAttempt(c) \/ TakeOutcome(c)
  \/ Abandon(c) \/ TimeOut(c) \/ Backoff(c)

Next ==
  \/ \E c \in Calls :
       \/ Refuse(c) \/ Admit(c) \/ Advance(c) \/ CancelTurn(c) \/ BudgetRunsOut(c)
  \/ \E w \in workers : WorkerEnds(w[1], w[2])
  \/ Cool

Spec == Init /\ [][Next]_vars

Progress ==
  \/ \E c \in Calls : Advance(c)
  \/ \E w \in workers : ~InWorker /\ WorkerEnds(w[1], w[2])

\* Threads in execute go on, a deadline that matters passes, and an action in the
\* caller's thread ends; an action in a worker need not.
FairSpec == Spec /\ WF_vars(Progress)
-------------------------------------------------------------------------------
TypeOK ==
  /\ policy \in Policies
  /\ pc \in [Calls -> Active \cup Ended \cup {"new"}]
  /\ attempt \in [Calls -> Nat] /\ \A c \in Calls : attempt[c] <= policy.attempts
  /\ \A c \in Calls : pc[c] \in {"ready", "starting"} => attempt[c] < policy.attempts
  /\ outcome \in [Calls -> {"none", "value", "error", "cancelled"}]
  /\ cancelled \in [Calls -> BOOLEAN] /\ late \in [Calls -> BOOLEAN]
  /\ workers \subseteq Calls \X (Nat \ {0})
  /\ fails \in Nat /\ opened \in BOOLEAN /\ cooled \in BOOLEAN /\ probe \in BOOLEAN
  /\ probes \subseteq Calls /\ succeeded \subseteq Calls \X (Nat \ {0})

\* The probe flag is owned by a probe that is still being executed; a flag left
\* behind would block the tool for as long as the process lives.
ProbeHasOwner == probe => \E c \in probes : pc[c] \in Active

\* The circuit is open exactly when as many calls as the threshold failed since
\* the last success, whatever order late calls end in.
OpenAtThreshold == opened <=> fails >= Threshold

\* The breaker opens with the count of failures and can close again: every way in
\* which a call ends keeps count, open state and the flag of the probe in step.
BreakerInStep == OpenAtThreshold /\ ProbeHasOwner

\* A write or external effect is never left running behind the caller's back:
\* its action runs only while its call waits for it.
EffectStaysWithCall ==
  ~ReadOnly => \A w \in workers : pc[w[1]] = "running" /\ attempt[w[1]] = w[2]

\* The same for effects whose policy has no deadline.
UntimedEffectStays == ~policy.timeout /\ ~policy.budget => EffectStaysWithCall

\* An effect that succeeded, under a policy without a deadline, is reported as a
\* success and is not made again: its attempt is the last, and its call returned
\* or is about to take its value, whenever its turn was cancelled and however
\* many attempts were left.
EffectIsReported ==
  ~ReadOnly /\ ~policy.timeout /\ ~policy.budget =>
    \A w \in succeeded :
      /\ attempt[w[1]] = w[2]
      /\ \/ pc[w[1]] = "returned"
         \/ pc[w[1]] = "running" /\ outcome[w[1]] = "value"

\* A call in the caller's thread, with a deadline, or cancelled and abandonable,
\* does not stay in execute: its attempts are finite, and a hung action holds up
\* none of them.
CallReturns ==
  <>[](\A c \in Calls :
         pc[c] \in Active =>
           InWorker /\ ~policy.timeout /\ ~late[c] /\ ~(policy.abandon /\ cancelled[c]))
===============================================================================
