---------------------------- MODULE MCSessionTurn -----------------------------
(***************************************************************************)
(* Instances of SessionTurn: the calls a model may make and how they are   *)
(* treated.                                                                 *)
(***************************************************************************)
EXTENDS SessionTurn

CONSTANTS write, exec, read, look, typo

MCKind ==
  [s \in Sigs |->
     CASE s = write -> "safe"
       [] s = exec  -> "plain"
       [] s = typo  -> "broken"
       [] OTHER     -> "free"]

\* One call or two, in every order, a call repeated in one response included.
MCBatches == [1..1 -> Sigs] \cup [1..2 -> Sigs]
===============================================================================
