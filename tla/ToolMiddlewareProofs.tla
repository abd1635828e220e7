------------------------- MODULE ToolMiddlewareProofs -------------------------
(***************************************************************************)
(* Theorems about ToolMiddleware for every set of calls and keys, every set *)
(* of valid policies, every threshold and any number of calls at a time.    *)
(***************************************************************************)
EXTENDS ToolMiddleware, TLAPS

USE DEF callVars, tokenVars, circuitVars, observed, vars, Active, Ended, Go

\* The steps after which a call has moved on or ended, by what they do to it.
LEMMA Steps ==
  ASSUME TypeOK, [Next]_vars
  PROVE  \/ UNCHANGED vars
         \/ \E c \in Calls :
              \/ Refuse(c) \/ Admit(c) \/ CheckToken(c) \/ StartAttempt(c)
              \/ StopBeforeAttempt(c) \/ TakeOutcome(c) \/ Abandon(c) \/ TimeOut(c) \/ Backoff(c)
              \/ CancelTurn(c) \/ BudgetRunsOut(c)
         \/ \E c \in Calls, n \in Nat \ {0} : WorkerEnds(c, n)
         \/ Cool
<1>1. ASSUME NEW w \in workers, WorkerEnds(w[1], w[2])
      PROVE  \E c \in Calls, n \in Nat \ {0} : WorkerEnds(c, n)
  <2>1. w[1] \in Calls /\ w[2] \in Nat \ {0} BY DEF TypeOK
  <2>2. QED BY <1>1, <2>1
<1>2. QED BY <1>1 DEF Next, Advance

\* The policy never changes and is a valid one.
LEMMA PolicyIsValid ==
  ASSUME TypeOK
  PROVE  policy \in PolicyRecords /\ ValidPolicy(policy)
BY PoliciesAssumption DEF TypeOK

LEMMA EndTypes ==
  ASSUME TypeOK, NEW c \in Calls, Succeed(c) \/ Fail(c) \/ Cancel(c)
  PROVE  /\ \E stage \in Ended : pc' = [pc EXCEPT ![c] = stage]
         /\ outcome' = [outcome EXCEPT ![c] = "none"]
         /\ fails' \in Nat /\ opened' \in BOOLEAN /\ cooled' \in BOOLEAN /\ probe' = FALSE
<1>1. CASE Succeed(c) BY <1>1 DEF TypeOK, Succeed
<1>2. CASE Fail(c)
  <2>1. /\ pc' = [pc EXCEPT ![c] = "failed"] /\ outcome' = [outcome EXCEPT ![c] = "none"]
        /\ fails' = fails + 1 /\ probe' = FALSE
    BY <1>2 DEF Fail
  <2>2. opened' \in BOOLEAN /\ cooled' \in BOOLEAN
    <3>1. CASE fails + 1 >= Threshold BY <1>2, <3>1 DEF Fail
    <3>2. CASE ~(fails + 1 >= Threshold) BY <1>2, <3>2 DEF Fail, TypeOK
    <3>3. QED BY <3>1, <3>2
  <2>3. QED BY <2>1, <2>2 DEF TypeOK
<1>3. CASE Cancel(c) BY <1>3 DEF TypeOK, Cancel
<1>4. QED BY <1>1, <1>2, <1>3

LEMMA RaisedTypes ==
  ASSUME TypeOK, NEW c \in Calls, Raised(c)
  PROVE  /\ \E stage \in Ended \cup {"backoff"} :
              /\ pc' = [pc EXCEPT ![c] = stage]
              /\ stage = "backoff" => attempt[c] < policy.attempts
         /\ outcome' = [outcome EXCEPT ![c] = "none"]
         /\ fails' \in Nat /\ opened' \in BOOLEAN /\ cooled' \in BOOLEAN
         /\ probe' \in BOOLEAN
         /\ probe' => pc'[c] = "backoff" /\ probe
<1>1. CASE Fail(c) BY <1>1, EndTypes DEF TypeOK
<1>2. CASE Go(c, "backoff") /\ MayRetry(c) /\ UNCHANGED circuitVars
  BY <1>2 DEF TypeOK, MayRetry
<1>3. QED BY <1>1, <1>2 DEF Raised

-------------------------------------------------------------------------------
\* TypeOK is inductive once a call that is new or backs off has attempts left.
AttemptsLeft ==
  \A c \in Calls : pc[c] \in {"new", "ready", "starting", "backoff"} => attempt[c] < policy.attempts

TypeInv == TypeOK /\ AttemptsLeft

LEMMA InitTypes == Init => TypeInv
<1> SUFFICES ASSUME Init PROVE TypeInv OBVIOUS
<1>1. policy \in PolicyRecords BY PoliciesAssumption DEF Init
<1>2. policy.attempts \in Nat \ {0} BY <1>1 DEF PolicyRecords
<1>3. /\ pc \in [Calls -> Active \cup Ended \cup {"new"}] /\ attempt \in [Calls -> Nat]
      /\ outcome \in [Calls -> {"none", "value", "error", "cancelled"}]
      /\ cancelled \in [Calls -> BOOLEAN] /\ late \in [Calls -> BOOLEAN]
  BY DEF Init
<1>4. AttemptsLeft BY <1>2 DEF Init, AttemptsLeft
<1>5. /\ \A c \in Calls : attempt[c] <= policy.attempts
      /\ \A c \in Calls : pc[c] \in {"ready", "starting"} => attempt[c] < policy.attempts
  BY <1>2 DEF Init
<1>6. /\ workers \subseteq Calls \X (Nat \ {0}) /\ probes \subseteq Calls
      /\ succeeded \subseteq Calls \X (Nat \ {0})
      /\ fails \in Nat /\ {opened, cooled, probe} \subseteq BOOLEAN /\ policy \in Policies
  BY DEF Init
<1>7. QED BY <1>3, <1>4, <1>5, <1>6 DEF TypeInv, TypeOK

LEMMA NextTypes == TypeInv /\ [Next]_vars => TypeInv'
<1> SUFFICES ASSUME TypeOK, AttemptsLeft, [Next]_vars PROVE TypeOK' /\ AttemptsLeft'
  BY DEF TypeInv
<1> USE DEF TypeOK, AttemptsLeft
<1>1. policy.attempts \in Nat \ {0} BY PolicyIsValid DEF PolicyRecords
<1>2. ASSUME NEW c \in Calls, Refuse(c) PROVE TypeOK' /\ AttemptsLeft'
  BY <1>2 DEF Refuse
<1>3. ASSUME NEW c \in Calls, Admit(c) PROVE TypeOK' /\ AttemptsLeft'
  BY <1>3 DEF Admit
<1>4. ASSUME NEW c \in Calls, StartAttempt(c) PROVE TypeOK' /\ AttemptsLeft'
  BY <1>1, <1>4 DEF StartAttempt
<1>5. ASSUME NEW c \in Calls, CheckToken(c) PROVE TypeOK' /\ AttemptsLeft'
  BY <1>1, <1>5 DEF CheckToken
<1>16. ASSUME NEW c \in Calls, StopBeforeAttempt(c) PROVE TypeOK' /\ AttemptsLeft'
  BY <1>1, <1>16, EndTypes DEF StopBeforeAttempt
<1>6. ASSUME NEW c \in Calls, TakeOutcome(c) PROVE TypeOK' /\ AttemptsLeft'
  <2>1. CASE Succeed(c) \/ Cancel(c) BY <1>1, <1>6, <2>1, EndTypes DEF TakeOutcome
  <2>2. CASE Raised(c) BY <1>1, <1>6, <2>2, RaisedTypes DEF TakeOutcome
  <2>3. QED BY <1>6, <2>1, <2>2 DEF TakeOutcome
<1>7. ASSUME NEW c \in Calls, Abandon(c) PROVE TypeOK' /\ AttemptsLeft'
  BY <1>1, <1>7, EndTypes DEF Abandon
<1>8. ASSUME NEW c \in Calls, TimeOut(c) PROVE TypeOK' /\ AttemptsLeft'
  BY <1>1, <1>8, RaisedTypes DEF TimeOut
<1>9. ASSUME NEW c \in Calls, Backoff(c) PROVE TypeOK' /\ AttemptsLeft'
  <2>1. CASE Fail(c) \/ Cancel(c) BY <1>1, <1>9, <2>1, EndTypes DEF Backoff
  <2>2. CASE Go(c, "ready") /\ UNCHANGED circuitVars BY <1>1, <1>9, <2>2 DEF Backoff
  <2>3. QED BY <1>9, <2>1, <2>2 DEF Backoff
<1>10. ASSUME NEW c \in Calls, CancelTurn(c) PROVE TypeOK' /\ AttemptsLeft'
  BY <1>10 DEF CancelTurn
<1>11. ASSUME NEW c \in Calls, BudgetRunsOut(c) PROVE TypeOK' /\ AttemptsLeft'
  BY <1>11 DEF BudgetRunsOut
<1>12. ASSUME NEW c \in Calls, NEW n \in Nat \ {0}, WorkerEnds(c, n)
       PROVE  TypeOK' /\ AttemptsLeft'
  BY <1>12 DEF WorkerEnds
<1>13. CASE Cool BY <1>13 DEF Cool
<1>14. CASE UNCHANGED vars BY <1>14
<1>15. QED
  BY Steps, <1>2, <1>3, <1>4, <1>5, <1>6, <1>7, <1>8, <1>9, <1>10, <1>11, <1>12, <1>13, <1>14,
     <1>16

\* Type correctness of the middleware; in particular a call never makes more
\* attempts than its policy allows, whatever happens to it.
THEOREM TypeCorrect == Spec => []TypeOK
<1>1. TypeInv => TypeOK BY DEF TypeInv
<1>2. QED BY InitTypes, NextTypes, <1>1, PTL DEF Spec

LEMMA TypeInvHolds == Spec => []TypeInv
BY InitTypes, NextTypes, PTL DEF Spec

-------------------------------------------------------------------------------
\* Whoever sets the probe flag is admitted by it, and every call that ends
\* clears it, so a flag never outlives its probe.
THEOREM ProbeIsOwned == Spec => []ProbeHasOwner
<1>1. Init => ProbeHasOwner BY DEF Init, ProbeHasOwner
<1>2. TypeInv /\ ProbeHasOwner /\ [Next]_vars => ProbeHasOwner'
  <2> SUFFICES ASSUME TypeOK, ProbeHasOwner, [Next]_vars, probe'
               PROVE  \E c \in probes' : pc'[c] \in Active
    BY DEF TypeInv, ProbeHasOwner
  <2> USE DEF TypeOK, ProbeHasOwner
  <2>1. ASSUME NEW c \in Calls, Refuse(c) PROVE \E d \in probes' : pc'[d] \in Active
    BY <2>1 DEF Refuse
  <2>2. ASSUME NEW c \in Calls, Admit(c) PROVE \E d \in probes' : pc'[d] \in Active
    <3>1. CASE opened BY <2>2, <3>1 DEF Admit
    <3>2. CASE ~opened BY <2>2, <3>2 DEF Admit
    <3>3. QED BY <3>1, <3>2
  <2>3. ASSUME NEW c \in Calls, CheckToken(c) \/ StartAttempt(c)
        PROVE  \E d \in probes' : pc'[d] \in Active
    BY <2>3 DEF CheckToken, StartAttempt
  <2>4. ASSUME NEW c \in Calls, StopBeforeAttempt(c) \/ Abandon(c) PROVE FALSE
    BY <2>4, EndTypes DEF StopBeforeAttempt, Abandon
  <2>5. ASSUME NEW c \in Calls, TakeOutcome(c) \/ TimeOut(c)
        PROVE  \E d \in probes' : pc'[d] \in Active
    <3>1. Raised(c) BY <2>5, EndTypes DEF TakeOutcome, TimeOut
    <3>2. probe /\ probes' = probes /\ pc' = [pc EXCEPT ![c] = "backoff"]
      BY <2>5, <3>1, RaisedTypes DEF TakeOutcome, TimeOut
    <3>3. QED BY <3>2
  <2>6. ASSUME NEW c \in Calls, Backoff(c) PROVE \E d \in probes' : pc'[d] \in Active
    BY <2>6, EndTypes DEF Backoff
  <2>7. ASSUME NEW c \in Calls, CancelTurn(c) \/ BudgetRunsOut(c)
        PROVE  \E d \in probes' : pc'[d] \in Active
    BY <2>7 DEF CancelTurn, BudgetRunsOut
  <2>8. ASSUME NEW c \in Calls, NEW n \in Nat \ {0}, WorkerEnds(c, n)
        PROVE  \E d \in probes' : pc'[d] \in Active
    BY <2>8 DEF WorkerEnds
  <2>9. CASE Cool BY <2>9 DEF Cool
  <2>10. CASE UNCHANGED vars BY <2>10
  <2>11. QED BY Steps, <2>1, <2>2, <2>3, <2>4, <2>5, <2>6, <2>7, <2>8, <2>9, <2>10
<1>3. QED BY <1>1, <1>2, TypeInvHolds, PTL DEF Spec

\* The breaker counts the failures since the last success and is open exactly
\* from the threshold on, whatever calls end while it is open.
THEOREM BreakerIsExact == Spec => []OpenAtThreshold
<1>1. Init => OpenAtThreshold BY CallsAssumption DEF Init, OpenAtThreshold
<1>2. TypeInv /\ OpenAtThreshold /\ [Next]_vars => OpenAtThreshold'
  <2> SUFFICES ASSUME TypeOK, OpenAtThreshold, [Next]_vars PROVE OpenAtThreshold'
    BY DEF TypeInv
  <2>1. fails \in Nat /\ Threshold \in Nat \ {0} /\ opened \in BOOLEAN
    BY CallsAssumption DEF TypeOK
  <2>2. ASSUME NEW c \in Calls, Succeed(c) \/ Fail(c) \/ Cancel(c) PROVE OpenAtThreshold'
    BY <2>1, <2>2 DEF Succeed, Fail, Cancel, OpenAtThreshold
  <2>3. CASE UNCHANGED <<fails, opened>> BY <2>3 DEF OpenAtThreshold
  <2>4. ASSUME NEW c \in Calls,
               \/ StopBeforeAttempt(c) \/ Abandon(c) \/ TakeOutcome(c) \/ TimeOut(c)
               \/ Backoff(c)
        PROVE  OpenAtThreshold'
    BY <2>2, <2>3, <2>4
    DEF StopBeforeAttempt, Abandon, TakeOutcome, TimeOut, Backoff, Raised
  <2>5. ASSUME NEW c \in Calls,
               \/ Refuse(c) \/ Admit(c) \/ CheckToken(c) \/ StartAttempt(c)
               \/ CancelTurn(c) \/ BudgetRunsOut(c) \/ \E n \in Nat \ {0} : WorkerEnds(c, n)
        PROVE  UNCHANGED <<fails, opened>>
    BY <2>5 DEF Refuse, Admit, CheckToken, StartAttempt, CancelTurn, BudgetRunsOut, WorkerEnds
  <2>6. Cool => UNCHANGED <<fails, opened>> BY DEF Cool
  <2>7. QED BY Steps, <2>3, <2>4, <2>5, <2>6
<1>3. QED BY <1>1, <1>2, TypeInvHolds, PTL DEF Spec

\* The circuit breaker is open exactly when its failures say so, and the half-open
\* probe always belongs to a call that is still running.
THEOREM BreakerAgrees == Spec => []BreakerInStep
BY ProbeIsOwned, BreakerIsExact, PTL DEF BreakerInStep

-------------------------------------------------------------------------------
\* Without a deadline no call is ever late; a tool that is not read-only is never
\* abandoned; and the outcome of an effect arrives only when its thread has ended.
EffectInv ==
  /\ ~policy.budget => \A c \in Calls : ~late[c]
  /\ ~policy.timeout /\ ~policy.budget /\ ~ReadOnly =>
       \A w \in workers :
         pc[w[1]] = "running" /\ attempt[w[1]] = w[2] /\ outcome[w[1]] = "none"

LEMMA NextEffect == TypeInv /\ EffectInv /\ [Next]_vars => EffectInv'
<1> SUFFICES ASSUME TypeOK, EffectInv, [Next]_vars PROVE EffectInv' BY DEF TypeInv
<1> USE DEF TypeOK
<1>1. policy' = policy /\ (ReadOnly' <=> ReadOnly)
  BY Steps DEF ReadOnly, Refuse, Admit, CheckToken, StartAttempt, StopBeforeAttempt, TakeOutcome,
     Abandon, TimeOut, Backoff, CancelTurn, BudgetRunsOut, WorkerEnds, Cool
<1>2. ~policy.budget => \A c \in Calls : ~late'[c]
  BY Steps DEF EffectInv, Refuse, Admit, CheckToken, StartAttempt, StopBeforeAttempt, TakeOutcome,
     Abandon, TimeOut, Backoff, CancelTurn, BudgetRunsOut, WorkerEnds, Cool
<1>3. ASSUME ~policy.timeout, ~policy.budget, ~ReadOnly, NEW w \in workers'
      PROVE  pc'[w[1]] = "running" /\ attempt'[w[1]] = w[2] /\ outcome'[w[1]] = "none"
  <2>1. ASSUME NEW v \in workers
        PROVE  v[1] \in Calls /\ pc[v[1]] = "running" /\ attempt[v[1]] = v[2]
               /\ outcome[v[1]] = "none"
    BY <1>3, <2>1 DEF EffectInv
  <2>2. ASSUME NEW c \in Calls, workers' = workers, pc[c] # "running", attempt' = attempt,
               \/ UNCHANGED <<pc, outcome>>
               \/ \E stage : Go(c, stage)
        PROVE  pc'[w[1]] = "running" /\ attempt'[w[1]] = w[2] /\ outcome'[w[1]] = "none"
    BY <1>3, <2>1, <2>2
  <2>3. CASE UNCHANGED callVars /\ workers' = workers BY <1>3, <2>1, <2>3
  <2>4. ASSUME NEW c \in Calls,
               Refuse(c) \/ Admit(c) \/ CheckToken(c) \/ StopBeforeAttempt(c) \/ Backoff(c)
        PROVE  pc'[w[1]] = "running" /\ attempt'[w[1]] = w[2] /\ outcome'[w[1]] = "none"
    <3>1. pc[c] # "running" /\ workers' = workers /\ attempt' = attempt
      BY <2>4 DEF Refuse, Admit, CheckToken, StopBeforeAttempt, Backoff
    <3>2. \E stage : Go(c, stage)
      BY <2>4 DEF Refuse, Admit, CheckToken, StopBeforeAttempt, Backoff, Fail, Cancel
    <3>3. QED BY <2>2, <3>1, <3>2
  <2>5. ASSUME NEW c \in Calls, StartAttempt(c)
        PROVE  pc'[w[1]] = "running" /\ attempt'[w[1]] = w[2] /\ outcome'[w[1]] = "none"
    <3>1. CASE w = <<c, attempt[c] + 1>> BY <2>5, <3>1 DEF StartAttempt
    <3>2. CASE w \in workers
      <4>1. w[1] # c BY <2>1, <2>5, <3>2 DEF StartAttempt
      <4>2. QED BY <2>1, <2>5, <3>2, <4>1 DEF StartAttempt
    <3>3. QED BY <1>3, <2>5, <3>1, <3>2 DEF StartAttempt
  <2>6. ASSUME NEW c \in Calls, TakeOutcome(c)
        PROVE  pc'[w[1]] = "running" /\ attempt'[w[1]] = w[2] /\ outcome'[w[1]] = "none"
    <3>1. outcome[c] # "none" /\ workers' = workers /\ attempt' = attempt
          /\ \E stage : Go(c, stage)
      BY <2>6 DEF TakeOutcome, Succeed, Raised, Fail, Cancel
    <3>2. w[1] # c BY <1>3, <2>1, <3>1
    <3>3. QED BY <1>3, <2>1, <3>1, <3>2
  <2>7. ASSUME NEW c \in Calls, Abandon(c) \/ TimeOut(c) PROVE FALSE
    BY <1>3, <2>7, PolicyIsValid DEF Abandon, TimeOut, EffectInv, ReadOnly, ValidPolicy,
       PolicyRecords
  <2>8. ASSUME NEW c \in Calls, NEW n \in Nat \ {0}, WorkerEnds(c, n)
        PROVE  pc'[w[1]] = "running" /\ attempt'[w[1]] = w[2] /\ outcome'[w[1]] = "none"
    <3>1. w \in workers /\ w # <<c, n>> /\ attempt[c] = n /\ pc' = pc /\ attempt' = attempt
      BY <1>3, <2>1, <2>8 DEF WorkerEnds
    <3>2. w[1] # c BY <2>1, <3>1
    <3>3. outcome'[w[1]] = outcome[w[1]] BY <2>1, <2>8, <3>1, <3>2 DEF WorkerEnds
    <3>4. QED BY <2>1, <3>1, <3>3
  <2>9. ASSUME NEW c \in Calls, CancelTurn(c) \/ BudgetRunsOut(c)
        PROVE  UNCHANGED callVars /\ workers' = workers
    BY <2>9 DEF CancelTurn, BudgetRunsOut
  <2>10. Cool => UNCHANGED callVars /\ workers' = workers BY DEF Cool
  <2>11. QED BY Steps, <2>3, <2>4, <2>5, <2>6, <2>7, <2>8, <2>9, <2>10
<1>4. QED BY <1>1, <1>2, <1>3 DEF EffectInv

\* An effect whose policy has no deadline runs only while its caller waits: not a
\* cancellation, a retry or an open circuit leaves it running behind the caller.
THEOREM EffectsStay == Spec => []UntimedEffectStays
<1>1. Init => EffectInv BY DEF Init, EffectInv
<1>2. EffectInv => UntimedEffectStays BY DEF EffectInv, UntimedEffectStays, EffectStaysWithCall
<1>3. QED BY <1>1, <1>2, NextEffect, TypeInvHolds, PTL DEF Spec

-------------------------------------------------------------------------------
\* An effect that succeeded stays with its call until the call returns its value:
\* nothing cancels, times out or retries a call that has one to take.
ReportInv == ~policy.timeout /\ ~policy.budget => EffectIsReported

LEMMA NextReport == TypeInv /\ EffectInv /\ ReportInv /\ [Next]_vars => ReportInv'
<1> SUFFICES ASSUME TypeOK, EffectInv, ReportInv, [Next]_vars,
                    ~policy'.timeout, ~policy'.budget, ~ReadOnly', NEW w \in succeeded'
             PROVE  /\ attempt'[w[1]] = w[2]
                    /\ \/ pc'[w[1]] = "returned"
                       \/ pc'[w[1]] = "running" /\ outcome'[w[1]] = "value"
  BY DEF TypeInv, ReportInv, EffectIsReported
<1> USE DEF TypeOK
<1> DEFINE Reported == /\ attempt'[w[1]] = w[2]
                       /\ \/ pc'[w[1]] = "returned"
                          \/ pc'[w[1]] = "running" /\ outcome'[w[1]] = "value"
<1>1. policy' = policy
  BY Steps DEF Refuse, Admit, CheckToken, StartAttempt, StopBeforeAttempt, TakeOutcome,
     Abandon, TimeOut, Backoff, CancelTurn, BudgetRunsOut, WorkerEnds, Cool
<1>2. ~policy.timeout /\ ~policy.budget /\ ~ReadOnly BY <1>1 DEF ReadOnly
<1>3. ASSUME w \in succeeded
      PROVE  /\ w[1] \in Calls /\ attempt[w[1]] = w[2]
             /\ \/ pc[w[1]] = "returned"
                \/ pc[w[1]] = "running" /\ outcome[w[1]] = "value"
  BY <1>2, <1>3 DEF ReportInv, EffectIsReported
\* A step of a call that is neither running nor returned leaves the others alone.
<1>4. ASSUME NEW c \in Calls, w \in succeeded, pc[c] \notin {"running", "returned"},
             \A d \in Calls \ {c} :
               attempt'[d] = attempt[d] /\ pc'[d] = pc[d] /\ outcome'[d] = outcome[d]
      PROVE  Reported
  BY <1>3, <1>4
<1>5. ASSUME NEW c \in Calls,
             \/ Refuse(c) \/ Admit(c) \/ CheckToken(c) \/ StartAttempt(c)
             \/ StopBeforeAttempt(c) \/ Backoff(c)
      PROVE  Reported
  <2>1. pc[c] \notin {"running", "returned"} /\ succeeded' = succeeded
    BY <1>5 DEF Refuse, Admit, CheckToken, StartAttempt, StopBeforeAttempt, Backoff
  <2>2. /\ \E stage : Go(c, stage)
        /\ attempt' = attempt \/ attempt' = [attempt EXCEPT ![c] = @ + 1]
    BY <1>5
    DEF Refuse, Admit, CheckToken, StartAttempt, StopBeforeAttempt, Backoff, Fail, Cancel
  <2>3. \A d \in Calls \ {c} :
          attempt'[d] = attempt[d] /\ pc'[d] = pc[d] /\ outcome'[d] = outcome[d]
    BY <2>2
  <2>4. QED BY <1>4, <2>1, <2>3
<1>6. ASSUME NEW c \in Calls, TakeOutcome(c) PROVE Reported
  <2>1. succeeded' = succeeded /\ attempt' = attempt BY <1>6 DEF TakeOutcome
  <2>2. CASE w[1] = c
    <3>1. outcome[c] = "value" BY <1>3, <1>6, <2>1, <2>2 DEF TakeOutcome
    <3>2. Succeed(c) BY <1>6, <3>1 DEF TakeOutcome
    <3>3. QED BY <1>3, <2>1, <2>2, <3>2 DEF Succeed
  <2>3. CASE w[1] # c
    <3>1. \E stage : Go(c, stage) BY <1>6 DEF TakeOutcome, Succeed, Raised, Fail, Cancel
    <3>2. QED BY <1>3, <2>1, <2>3, <3>1
  <2>4. QED BY <2>2, <2>3
<1>7. ASSUME NEW c \in Calls, Abandon(c) \/ TimeOut(c) PROVE FALSE
  BY <1>2, <1>7, PolicyIsValid DEF Abandon, TimeOut, EffectInv, ReadOnly, ValidPolicy,
     PolicyRecords
<1>8. ASSUME NEW c \in Calls, NEW n \in Nat \ {0}, WorkerEnds(c, n) PROVE Reported
  <2>1. pc[c] = "running" /\ attempt[c] = n /\ outcome[c] = "none"
    BY <1>2, <1>8 DEF WorkerEnds, EffectInv
  <2>2. CASE w = <<c, n>> /\ w \notin succeeded
    BY <1>8, <2>1, <2>2 DEF WorkerEnds
  <2>3. CASE w \in succeeded
    <3>1. w[1] # c BY <1>3, <2>1, <2>3
    <3>2. QED BY <1>3, <1>8, <2>1, <2>3, <3>1 DEF WorkerEnds
  <2>4. QED BY <1>8, <2>2, <2>3 DEF WorkerEnds
<1>9. CASE UNCHANGED <<callVars, succeeded>> BY <1>3, <1>9
<1>10. ASSUME NEW c \in Calls, CancelTurn(c) \/ BudgetRunsOut(c)
       PROVE  UNCHANGED <<callVars, succeeded>>
  BY <1>10 DEF CancelTurn, BudgetRunsOut
<1>11. Cool => UNCHANGED <<callVars, succeeded>> BY DEF Cool
<1>12. QED BY Steps, <1>5, <1>6, <1>7, <1>8, <1>9, <1>10, <1>11

\* Whatever the cancellations, retries and attempts of its call, an effect without
\* a deadline that succeeded is reported as a success and is not made again.
THEOREM EffectsAreReported == Spec => []EffectIsReported
<1>1. Init => EffectInv /\ ReportInv BY DEF Init, EffectInv, ReportInv, EffectIsReported
<1>2. ReportInv => EffectIsReported BY DEF ReportInv, EffectIsReported
<1>3. QED BY <1>1, <1>2, NextEffect, NextReport, TypeInvHolds, PTL DEF Spec
===============================================================================
