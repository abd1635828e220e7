------------------------------ MODULE MCApprovals ------------------------------
(***************************************************************************)
(* Instance of Approvals: a turn that may ask twice, and its resume.        *)
(***************************************************************************)
EXTENDS Approvals
===============================================================================
