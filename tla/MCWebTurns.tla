------------------------------ MODULE MCWebTurns -------------------------------
(***************************************************************************)
(* Instances of WebTurns: a request, the same request again, another one,   *)
(* and a deletion.                                                          *)
(***************************************************************************)
EXTENDS WebTurns

CONSTANTS first, again, other, fourth, del1

MCKey == [r \in Requests |-> IF r = again THEN first ELSE r]
===============================================================================
