--------------------------- MODULE MCToolMiddleware ---------------------------
(***************************************************************************)
(* Instances of ToolMiddleware: three calls of a tool with one of a few     *)
(* policies.                                                                *)
(***************************************************************************)
EXTENDS ToolMiddleware

CONSTANTS call1, call2, call3

Policy(risk, abandon, cooperative, timeout, budget, attempts) ==
  [risk |-> risk, abandon |-> abandon, cooperative |-> cooperative, timeout |-> timeout,
   budget |-> budget, backoff |-> budget, attempts |-> attempts]

\* The two servers' read-only tools and write_file, the cooperative and external
\* tools of the tests, and cooperative writes with and without a deadline.
MCPolicies ==
  {Policy("read_only", TRUE, FALSE, TRUE, FALSE, 1),
   Policy("read_only", TRUE, FALSE, TRUE, TRUE, 2),
   Policy("read_only", FALSE, TRUE, TRUE, TRUE, 1),
   Policy("workspace_write", FALSE, FALSE, FALSE, FALSE, 1),
   Policy("workspace_write", FALSE, TRUE, TRUE, FALSE, 2),
   Policy("workspace_write", FALSE, TRUE, FALSE, FALSE, 2),
   Policy("external_side_effect", FALSE, FALSE, FALSE, FALSE, 2)}
===============================================================================
