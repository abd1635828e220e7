----------------------------- MODULE Conversation -----------------------------
(***************************************************************************)
(* What a persisted session promises whoever talks to it, without saying    *)
(* how: an answer is the conversation's only once its turn has produced it, *)
(* a turn starts only from an answer that is stored, what was reported as   *)
(* stored can be replaced by a newer answer or a deletion only, and a       *)
(* guarded call takes effect only with a permit that was asked for and      *)
(* granted, once per turn.                                                  *)
(*                                                                         *)
(* A turn that is broken off, a failing store, a process exit and a power   *)
(* loss are steps of this specification too: it says what they may cost.    *)
(***************************************************************************)
EXTENDS Integers

CONSTANTS Turns, Calls

VARIABLES
  phase,     \* "closed", "rest", "turn", "answered"
  answer,    \* the newest answer of the open conversation, 0 when there is none
  stored,    \* the answer in the store
  durable,   \* the answers the store may hold after a power loss
  reported,  \* the newest answer that was reported as stored
  asked,     \* the question put to the person: at most one <<turn, call>>
  permit,    \* the effect that was granted and has not been used
  effects    \* how often each call took effect in each turn

convVars == <<phase, answer, stored, durable, reported, asked, permit, effects>>

Questions == Turns \X Calls

Quiet == asked' = {} /\ permit' = {} /\ UNCHANGED effects

ConvInit ==
  /\ phase = "closed" /\ answer = 0
  /\ stored = 0 /\ durable = {0} /\ reported = 0
  /\ asked = {} /\ permit = {}
  /\ effects = [q \in Questions |-> 0]

\* The conversation continues from what the store holds.
Reopen ==
  /\ phase = "closed" /\ phase' = "rest"
  /\ answer' = stored
  /\ UNCHANGED <<stored, durable, reported, asked, permit, effects>>

\* A turn, new or resumed, starts from an answer that is stored.
Begin ==
  /\ phase = "rest" /\ answer = stored
  /\ phase' = "turn"
  /\ UNCHANGED <<answer, stored, durable, reported, asked, permit, effects>>

\* A question is put about an effect that has not taken place in its turn.
Ask ==
  /\ phase = "turn" /\ asked = {} /\ permit = {}
  /\ \E q \in Questions : effects[q] = 0 /\ asked' = {q}
  /\ UNCHANGED <<phase, answer, stored, durable, reported, permit, effects>>

Grant ==
  /\ phase = "turn" /\ asked # {}
  /\ permit' = asked /\ asked' = {}
  /\ UNCHANGED <<phase, answer, reported, effects>>
  /\ UNCHANGED stored /\ durable' \subseteq durable /\ stored \in durable'

Decline ==
  /\ phase = "turn" /\ asked # {} /\ asked' = {}
  /\ UNCHANGED <<phase, answer, reported, permit, effects>>
  /\ UNCHANGED stored /\ durable' \subseteq durable /\ stored \in durable'

\* A permit is used up by its one use, whether the effect takes place or not.
UsePermit ==
  /\ permit # {} /\ permit' = {}
  /\ \E q \in permit : \E done \in {0, 1} : effects' = [effects EXCEPT ![q] = @ + done]

Act ==
  /\ phase = "turn" /\ UsePermit
  /\ UNCHANGED <<phase, answer, stored, durable, reported, asked>>

\* The turn has its answer, which is newer than all before it.
Answer ==
  /\ phase = "turn" /\ asked = {} /\ permit = {}
  /\ phase' = "answered"
  /\ answer' \in Nat /\ \A v \in durable \cup {answer, reported} : v < answer'
  /\ UNCHANGED <<stored, durable, reported, asked, permit, effects>>

\* The answer is stored and reported, or kept to be stored later.
Store ==
  \/ stored' = answer /\ durable' = {answer} /\ reported' = answer
  \/ /\ stored' \in {stored, answer} /\ durable' \in {durable, durable \cup {stored'}}
     /\ stored' \in durable' /\ UNCHANGED reported

Conclude ==
  /\ phase = "answered" /\ phase' = "rest" /\ Quiet
  /\ Store
  /\ UNCHANGED answer

StoreLater ==
  /\ phase = "rest"
  /\ Store
  /\ UNCHANGED <<phase, answer, asked, permit, effects>>

\* The turn ends without an answer: nothing of it stays but its effects.
GiveUp ==
  /\ phase = "turn" /\ phase' = "rest" /\ Quiet
  /\ UNCHANGED <<answer, stored, reported>>
  /\ durable' \subseteq durable /\ stored \in durable'

\* What was to be made durable for a question that is being put has been.
Settle ==
  /\ phase = "turn"
  /\ durable' \subseteq durable /\ stored \in durable'
  /\ UNCHANGED <<phase, answer, stored, reported, asked, permit, effects>>

\* The process is gone; after a power loss one of the durable answers is left.
Lose ==
  /\ phase' = "closed" /\ answer' = 0 /\ Quiet
  /\ \/ UNCHANGED <<stored, durable>>
     \/ stored' \in durable /\ durable' = {stored'}
  /\ UNCHANGED reported

Remove ==
  /\ phase = "closed"
  /\ stored' = 0 /\ durable' \in {{0}, durable \cup {0}} /\ reported' = 0
  /\ UNCHANGED <<phase, answer, asked, permit, effects>>

ConvNext ==
  \/ Reopen \/ Begin \/ Ask \/ Grant \/ Decline \/ Act \/ Answer \/ Conclude
  \/ StoreLater \/ GiveUp \/ Settle \/ Lose \/ Remove

ConvSpec == ConvInit /\ [][ConvNext]_convVars
===============================================================================
