----------------------------- MODULE MessageHistory -----------------------------
(***************************************************************************)
(* agent.py: the messages of a conversation over its turns.  A turn starts  *)
(* from what of the committed messages fits into the context, has what is   *)
(* removed put into the long-term summary, appends responses and tool       *)
(* results, and is committed with its answer or forgotten.                  *)
(*                                                                         *)
(* Abstractions.  A text is its size: tokens of a message, characters (and  *)
(* tokens) of the summary.  The summary is the set of turns the summary     *)
(* model was told, and a length.  The system message is the length of the   *)
(* summary in it and is not in the sequences.  A turn is its number; the    *)
(* calls of one response have different ids.                                *)
(***************************************************************************)
EXTENDS Integers, Sequences, FiniteSets, SequencesExt

CONSTANTS
  TextSizes,    \* sizes of questions and answers
  ToolSizes,    \* sizes of responses with tool calls and of tool results
  CallIds,      \* ids that the model gives to tool calls
  PromptSize,   \* tokens of SYSTEM_PROMPT
  MaxContext,   \* max_context_tokens
  MaxSummary,   \* max_summary_characters
  MaxDialogues, \* bound: turns
  MaxGroups     \* bound: tool groups of a turn

ASSUME MessageHistoryAssumption ==
  /\ TextSizes \cup ToolSizes \subseteq Nat \ {0}
  /\ IsFiniteSet(CallIds) /\ "broken" \notin CallIds     \* Broken is no set of ids
  /\ PromptSize \in Nat \ {0} /\ MaxContext \in Nat /\ MaxSummary \in Nat
  /\ MaxDialogues \in Nat /\ MaxGroups \in Nat

Dialogues == 1..MaxDialogues

VARIABLES
  messages,     \* committed: self.messages without the system message
  memory,       \* committed: self.memory_summary, as [covers, length]
  embedded,     \* committed: how much of it the system message holds
  working,      \* the same three of the running turn
  draft,
  fitted,
  open,         \* calls of the last response that have no result yet
  groups,       \* responses with calls in this turn
  dialogue,     \* the number of the turn, 0 before the first
  running,      \* whether it runs
  committed,    \* observer: turns that were committed
  unsaid,       \* observer: turns that were removed while no summary could be made
  draftUnsaid

committedVars == <<messages, memory, embedded, committed, unsaid>>
turnStateVars == <<working, draft, fitted, open, groups, draftUnsaid>>
historyVars == <<committedVars, turnStateVars, dialogue, running>>

-------------------------------------------------------------------------------
\* Messages.

Human(t, size)        == [kind |-> "human", turn |-> t, size |-> size, calls |-> {}]
Response(t, size, ids) == [kind |-> "ai", turn |-> t, size |-> size, calls |-> ids]
Result(t, size, id)   == [kind |-> "tool", turn |-> t, size |-> size, calls |-> {id}]
IsHuman(m)            == m.kind = "human"

Tokens(history) ==
  LET sum[k \in 0..Len(history)] == IF k = 0 THEN 0 ELSE sum[k - 1] + history[k].size
  IN  sum[Len(history)]

From(history, first) == SubSeq(history, first, Len(history))

\* The least number of a set that is not empty.
Least(numbers) == CHOOSE n \in numbers : \A k \in numbers : n <= k

\* Mutant: messages are cut where they no longer fit.
TrimAnywhere(summaryLength, history) ==
  LET room  == MaxContext - (PromptSize + summaryLength)
      ends  == {k \in 1..(Len(history) + 1) : From(history, k) = <<>>
                                              \/ Tokens(From(history, k)) <= room}
  IN  From(history, Least(ends))

\* trim_messages with strategy "last", include_system and start_on: the longest
\* end that fits beside the system message, from its first question on.
TrimHistory(summaryLength, history) ==
  LET room  == MaxContext - (PromptSize + summaryLength)
      ends  == {k \in 1..(Len(history) + 1) : From(history, k) = <<>>
                                              \/ Tokens(From(history, k)) <= room}
      first == Least(ends)
  IN  From(history, Least({k \in first..(Len(history) + 1) :
                             k = Len(history) + 1 \/ IsHuman(history[k])}))

\* _has_complete_tool_groups, a loop over the messages: the ids that still miss
\* their result, or that the groups are broken.
Broken == {"broken"}

AfterMessage(pending, m) ==
  CASE m.kind = "ai" /\ m.calls # {} -> IF pending = {} THEN m.calls ELSE Broken
    [] m.kind = "tool" -> IF m.calls \subseteq pending THEN pending \ m.calls ELSE Broken
    [] OTHER -> IF pending = {} THEN {} ELSE Broken

Pending(history) ==
  LET pending[k \in 0..Len(history)] ==
        IF k = 0 THEN {} ELSE AfterMessage(pending[k - 1], history[k])
  IN  pending[Len(history)]

HasCompleteToolGroups(history) == Pending(history) = {}

\* _has_only_committed_turns, the same way: what the next message has to be.
Expect(what, ids) == [what |-> what, ids |-> ids]

AfterTurnMessage(next, m) ==
  CASE next.what = "human" /\ IsHuman(m) -> Expect("ai", {})
    [] next.what = "ai" /\ m.kind = "ai" ->
         IF m.calls = {} THEN Expect("human", {}) ELSE Expect("results", m.calls)
    [] next.what = "results" /\ m.kind = "tool" /\ m.calls \subseteq next.ids ->
         IF next.ids = m.calls THEN Expect("ai", {}) ELSE Expect("results", next.ids \ m.calls)
    [] OTHER -> Expect("nothing", {})

Awaited(history) ==
  LET next[k \in 0..Len(history)] ==
        IF k = 0 THEN Expect("human", {}) ELSE AfterTurnMessage(next[k - 1], history[k])
  IN  next[Len(history)]

HasOnlyCommittedTurns(history) == Awaited(history) = Expect("human", {})

\* _remove_incomplete_tool_groups: turns are dropped from the front until the
\* groups are complete; the question alone if they never are.
RemoveIncompleteToolGroups(history, current) ==
  LET complete == {k \in 1..Len(history) : /\ k = 1 \/ IsHuman(history[k])
                                           /\ HasCompleteToolGroups(From(history, k))}
  IN  IF complete = {} THEN <<current>> ELSE From(history, Least(complete))

\* _contains_required_context, and _messages_fit.
ContainsCurrent(history, current) == history # <<>> /\ Last(history) = current

MessagesFit(summaryLength, history) ==
  /\ TrimHistory(summaryLength, history) = history
  /\ ContainsCurrent(TrimHistory(summaryLength, history), Last(history))

\* Mutant: the summary is taken as it is.
FittingSummaryWhole(history, length) == length

\* _with_fitting_summary: how much of a summary the system message takes, by
\* binary search.
FittingSummary(history, length) ==
  LET best[search \in [low : 0..(length + 1), high : (-1)..length, found : 0..length]] ==
        IF search.low > search.high THEN search.found
        ELSE LET middle == (search.low + search.high) \div 2
             IN  IF MessagesFit(middle, history)
                 THEN best[[low |-> middle + 1, high |-> search.high, found |-> middle]]
                 ELSE best[[low |-> search.low, high |-> middle - 1, found |-> search.found]]
  IN  IF MessagesFit(length, history) THEN length
      ELSE best[[low |-> 0, high |-> length, found |-> 0]]

TurnsOf(history) == {history[i].turn : i \in DOMAIN history}

\* Mutant: turns that lost their first messages only are not looked at.
RemovedTurnsBut(history) == {t \in TurnsOf(messages) \ TurnsOf(history) : t + 1 \notin TurnsOf(history)}

\* _extract_removed_turns: none of their messages is left.
RemovedTurns(history) == TurnsOf(messages) \ TurnsOf(history)

-------------------------------------------------------------------------------
\* The turn.

NoMemory == [covers |-> {}, length |-> 0]

\* _run_turn_transaction up to the first call of the model.  The summary model
\* answers, or fails, which does not stop the turn.  A question that does not fit
\* changes nothing.
Ask(size) ==
  LET current == Human(dialogue + 1, size)
      inPrompt == FittingSummary(<<current>>, memory.length)
      trimmed == TrimHistory(inPrompt, Append(messages, current))
      kept    == RemoveIncompleteToolGroups(trimmed, current)
      removed == RemovedTurns(kept)
  IN
  /\ ~running /\ dialogue < MaxDialogues
  /\ MessagesFit(0, <<current>>) /\ ContainsCurrent(trimmed, current)
  /\ \/ /\ draft' = memory /\ draftUnsaid' = removed
     \/ /\ removed # {} /\ draftUnsaid' = {}
        /\ \E length \in 1..MaxSummary :
             draft' = [covers |-> memory.covers \cup removed, length |-> length]
  /\ working' = kept
  /\ fitted' = FittingSummary(kept, draft'.length)
  /\ running' = TRUE /\ dialogue' = dialogue + 1 /\ open' = {} /\ groups' = 0
  /\ UNCHANGED committedVars

\* A response with tool calls.
CallTools(size, ids) ==
  /\ running /\ open = {} /\ groups < MaxGroups /\ ids # {}
  /\ working' = Append(working, Response(dialogue, size, ids))
  /\ open' = ids /\ groups' = groups + 1
  /\ UNCHANGED <<committedVars, draft, fitted, draftUnsaid, dialogue, running>>

\* Every call gets a result, whatever becomes of it.
AppendResult(size, id) ==
  /\ running /\ id \in open
  /\ working' = Append(working, Result(dialogue, size, id))
  /\ open' = open \ {id}
  /\ UNCHANGED <<committedVars, draft, fitted, groups, draftUnsaid, dialogue, running>>

\* Mutant: the answer is committed while calls have no result.
AnswerEarly(size) ==
  /\ running
  /\ messages' = Append(working, Response(dialogue, size, {}))
  /\ memory' = draft /\ embedded' = fitted
  /\ committed' = committed \cup {dialogue} /\ unsaid' = unsaid \cup draftUnsaid
  /\ running' = FALSE
  /\ UNCHANGED <<turnStateVars, dialogue>>

\* Mutant: the messages are committed without the summary.
AnswerOnly(size) ==
  /\ running /\ open = {}
  /\ messages' = Append(working, Response(dialogue, size, {}))
  /\ embedded' = fitted
  /\ committed' = committed \cup {dialogue} /\ unsaid' = unsaid \cup draftUnsaid
  /\ running' = FALSE
  /\ UNCHANGED <<memory, turnStateVars, dialogue>>

\* A response without calls is the answer and commits the turn.
Answer(size) ==
  /\ running /\ open = {}
  /\ messages' = Append(working, Response(dialogue, size, {}))
  /\ memory' = draft /\ embedded' = fitted
  /\ committed' = committed \cup {dialogue} /\ unsaid' = unsaid \cup draftUnsaid
  /\ running' = FALSE
  /\ UNCHANGED <<turnStateVars, dialogue>>

\* Every other end of the turn leaves the conversation as it was.
GiveUp ==
  /\ running /\ running' = FALSE
  /\ UNCHANGED <<committedVars, turnStateVars, dialogue>>

-------------------------------------------------------------------------------
HistoryInit ==
  /\ messages = <<>> /\ memory = NoMemory /\ embedded = 0
  /\ working = <<>> /\ draft = NoMemory /\ fitted = 0
  /\ open = {} /\ groups = 0 /\ dialogue = 0 /\ running = FALSE
  /\ committed = {} /\ unsaid = {} /\ draftUnsaid = {}

HistoryNext ==
  \/ \E size \in TextSizes : Ask(size) \/ Answer(size)
  \/ \E size \in ToolSizes :
       \/ \E ids \in SUBSET CallIds : CallTools(size, ids)
       \/ \E id \in CallIds : AppendResult(size, id)
  \/ GiveUp

HistorySpec == HistoryInit /\ [][HistoryNext]_historyVars
-------------------------------------------------------------------------------
Messages == [kind : {"human", "ai", "tool"}, turn : Dialogues, size : TextSizes \cup ToolSizes,
             calls : SUBSET CallIds]
Memories == [covers : SUBSET Dialogues, length : 0..MaxSummary]

HistoryTypeOK ==
  /\ messages \in Seq(Messages) /\ working \in Seq(Messages)
  /\ memory \in Memories /\ draft \in Memories
  /\ embedded \in 0..memory.length /\ fitted \in 0..draft.length
  /\ open \subseteq CallIds /\ groups \in 0..MaxGroups
  /\ dialogue \in 0..MaxDialogues /\ running \in BOOLEAN
  /\ committed \subseteq Dialogues /\ unsaid \subseteq Dialogues /\ draftUnsaid \subseteq Dialogues

\* What is committed passes the checks of restore_snapshot, whatever was trimmed
\* and removed before: a saved conversation can always be opened again.
Restorable ==
  /\ HasCompleteToolGroups(messages) /\ HasOnlyCommittedTurns(messages)
  /\ memory.length <= MaxSummary /\ embedded <= memory.length

\* The request that opens a turn fits into the context, with the summary as it is
\* after the update.
RequestFits ==
  running /\ groups = 0 => PromptSize + fitted + Tokens(working) <= MaxContext

\* The system message holds as much of the summary as fits: the binary search
\* finds the longest.
SummaryIsLongest ==
  running /\ groups = 0 =>
    \A n \in 0..draft.length : PromptSize + n + Tokens(working) <= MaxContext => n <= fitted

\* A turn starts from whole turns, the latest ones, and from as many as fit: with
\* one more, and the summary as it was, the request would be too long.
KeepsWhatFits ==
  running /\ groups = 0 =>
    LET current  == Last(working)
        first    == Len(messages) + 2 - Len(working)
        inPrompt == FittingSummary(<<current>>, memory.length)
    IN  /\ working = Append(From(messages, first), current)
        /\ first <= Len(messages) => IsHuman(messages[first])
        /\ \A i \in 1..(first - 1) : IsHuman(messages[i]) =>
             PromptSize + inPrompt + Tokens(Append(From(messages, i), current)) > MaxContext

\* The request that opens a turn fits, and wastes nothing of the context.
UsesItsContext == RequestFits /\ SummaryIsLongest /\ KeepsWhatFits

\* A committed turn is in the messages, in the summary, or was removed while no
\* summary could be made: none is dropped without the summary model being asked.
NothingUnsaid == committed = TurnsOf(messages) \cup memory.covers \cup unsaid
===============================================================================
