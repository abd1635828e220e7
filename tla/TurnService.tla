------------------------------ MODULE TurnService ------------------------------
(***************************************************************************)
(* What the service promises of the turns of one session, without locks,    *)
(* pools, threads or entries.  Turns run one at a time, each from the       *)
(* answer that was saved last, and only such a turn saves the next one.     *)
(* Requests with one key are one request: it is answered once, unless a     *)
(* client left or the service has had to forget.  A deletion does not come  *)
(* upon a turn whose client waits.  It is final: what the service promises  *)
(* of a session that was deleted is that no key is answered twice.          *)
(***************************************************************************)
CONSTANTS Requests, Key, None

VARIABLES
  latest,   \* the request whose answer was saved last, None before the first
  turn,     \* the turn that runs: at most one [request, base]
  saved,    \* the requests whose answers were saved
  excused,  \* requests whose client has left, or that were forgotten
  deleted

serviceVars == <<latest, turn, saved, excused, deleted>>

OncePerKey ==
  \A q, r \in saved : Key[q] = Key[r] /\ q # r => q \in excused \/ r \in excused

ServiceInit ==
  latest = None /\ turn = {} /\ saved = {} /\ excused = {} /\ deleted = FALSE

StartTurn(r) ==
  /\ ~deleted /\ turn = {} /\ r \notin saved
  /\ turn' = {[request |-> r, base |-> latest]}
  /\ UNCHANGED <<latest, saved, excused, deleted>>

SaveAnswer(r) ==
  /\ ~deleted /\ turn = {[request |-> r, base |-> latest]}
  /\ latest' = r /\ turn' = {} /\ saved' = saved \cup {r} /\ OncePerKey'
  /\ UNCHANGED <<excused, deleted>>

\* A turn ends without an answer; with it or by itself a request may be excused.
EndTurn ==
  /\ turn' \in {turn, {}} /\ excused \subseteq excused'
  /\ UNCHANGED <<latest, saved, deleted>>

DeleteSession ==
  /\ ~deleted /\ latest # None /\ \A t \in turn : t.request \in excused
  /\ deleted' /\ latest' = None
  /\ UNCHANGED <<turn, saved, excused>>

AfterDeletion ==
  /\ deleted /\ deleted' /\ saved \subseteq saved' /\ excused \subseteq excused'
  /\ OncePerKey'

ServiceNext ==
  \/ \E r \in Requests : StartTurn(r) \/ SaveAnswer(r)
  \/ EndTurn \/ DeleteSession \/ AfterDeletion

ServiceSpec == ServiceInit /\ [][ServiceNext]_serviceVars
===============================================================================
