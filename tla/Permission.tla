------------------------------ MODULE Permission ------------------------------
(***************************************************************************)
(* What the service promises whoever is asked for approval, without saying  *)
(* how.  A turn and the resumes that take it up again put questions in      *)
(* their order, one attempt at a time.  An answer counts for the latest     *)
(* question of an attempt that is still there, and one answer counts each   *)
(* time a question is put.  A "yes" becomes a permit; a permit starts one   *)
(* call, while the client of its attempt is there, or lapses; and nothing   *)
(* that was done is asked about or permitted again.                         *)
(***************************************************************************)
EXTENDS Integers

CONSTANTS Attempts, Questions, Verdicts

VARIABLES
  put,    \* <<attempt, question>>: questions that were put
  given,  \* <<attempt, question, verdict>>: answers that count
  permit, \* the permit that is held: at most one <<attempt, question>>
  done,   \* <<attempt, question>>: calls that were started
  left    \* attempts that are over, or whose client has left

permissionVars == <<put, given, permit, done, left>>

Answered(k, q) == \E v \in Verdicts : <<k, q, v>> \in given

\* Whoever put a question has left, or is k and has put none after q.
Latest(k, q) ==
  <<k, q>> \in put /\ \A a \in put : IF a[1] = k THEN a[2] <= q ELSE a[1] \in left

\* All that was done comes before q.
Undone(q) == \A a \in done : a[2] < q

PermissionInit == put = {} /\ given = {} /\ permit = {} /\ done = {} /\ left = {}

PutQuestion(k, q) ==
  /\ k \notin left /\ Undone(q)
  /\ \A a \in put : IF a[1] = k THEN a[2] < q /\ Answered(k, a[2]) ELSE a[1] \in left
  /\ put' = put \cup {<<k, q>>}
  /\ UNCHANGED <<given, permit, done, left>>

GiveAnswer(k, q, v) ==
  /\ k \notin left /\ Latest(k, q) /\ ~Answered(k, q)
  /\ given' = given \cup {<<k, q, v>>}
  /\ UNCHANGED <<put, permit, done, left>>

TakePermit(k, q) ==
  /\ <<k, q, "yes">> \in given /\ permit = {} /\ Undone(q)
  /\ permit' = {<<k, q>>}
  /\ UNCHANGED <<put, given, done, left>>

\* The call is started.
UsePermit(k, q) ==
  /\ k \notin left /\ Latest(k, q) /\ permit = {<<k, q>>}
  /\ done' = done \cup {<<k, q>>} /\ permit' = {}
  /\ UNCHANGED <<put, given, left>>

\* The turn ends, or is cancelled, before the call is started.
LosePermit ==
  /\ permit # {} /\ permit' = {}
  /\ UNCHANGED <<put, given, done, left>>

EndAttempt(k) ==
  /\ k \notin left /\ left' = left \cup {k}
  /\ UNCHANGED <<put, given, permit, done>>

PermissionNext ==
  \/ \E k \in Attempts, q \in Questions :
       \/ PutQuestion(k, q) \/ TakePermit(k, q) \/ UsePermit(k, q)
       \/ \E v \in Verdicts : GiveAnswer(k, q, v)
  \/ LosePermit
  \/ \E k \in Attempts : EndAttempt(k)

PermissionSpec == PermissionInit /\ [][PermissionNext]_permissionVars
===============================================================================
