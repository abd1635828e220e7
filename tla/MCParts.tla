-------------------------------- MODULE MCParts --------------------------------
(***************************************************************************)
(* One instance of each of five parts that share no state: writes to the    *)
(* workspace, the audit log, the messages of a conversation, the index of   *)
(* embeddings and the command line.  A behaviour chooses its part at first  *)
(* and leaves the others in one of their initial states.                    *)
(***************************************************************************)
EXTENDS WorkspaceFiles, AuditLog, MessageHistory, KnowledgeIndex, CommandLine

CONSTANTS write1, write2, write3, here, there, base, foreign

VARIABLE part

partVars == <<vars, logVars, historyVars, knowledgeVars, terminalVars, part>>

\* Of the initial states of a part that stands still, one.
WorkspaceAtRest == part = "files" \/ \A p \in Places : link = here /\ contents[p] = None
IndexAtRest     == part = "index" \/ \A d \in Documents : documents[d] = {}

PartsInit ==
  /\ part \in {"files", "log", "history", "index", "cli"}
  /\ Init /\ LogInit /\ HistoryInit /\ IndexInit /\ CliInit
  /\ WorkspaceAtRest /\ IndexAtRest
  /\ dimensions = 2     \* the lengths are interchangeable

PartsNext ==
  /\ UNCHANGED part
  /\ \/ /\ part = "files" /\ Next
        /\ UNCHANGED <<logVars, historyVars, knowledgeVars, terminalVars>>
     \/ /\ part = "log" /\ LogNext
        /\ UNCHANGED <<vars, historyVars, knowledgeVars, terminalVars>>
     \/ /\ part = "history" /\ HistoryNext
        /\ UNCHANGED <<vars, logVars, knowledgeVars, terminalVars>>
     \/ /\ part = "index" /\ IndexNext
        /\ UNCHANGED <<vars, logVars, historyVars, terminalVars>>
     \/ /\ part = "cli" /\ CliNext
        /\ UNCHANGED <<vars, logVars, historyVars, knowledgeVars>>

PartsSpec == PartsInit /\ [][PartsNext]_partVars

\* Types of all parts.
PartsTypeOK == TypeOK /\ LogTypeOK /\ HistoryTypeOK /\ IndexTypeOK /\ CliTypeOK
===============================================================================
