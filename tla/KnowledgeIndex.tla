----------------------------- MODULE KnowledgeIndex -----------------------------
(***************************************************************************)
(* knowledge_runtime.py, knowledge_index.py: the starts of programs that    *)
(* share one index of embedded chunks.  A start reads the documents, loads  *)
(* the index under its file lock, has the missing chunks embedded without   *)
(* the lock, and replaces the index under the lock.  Documents change, the  *)
(* embedding service changes what it returns, programs end and power fails  *)
(* at any time.                                                             *)
(*                                                                         *)
(* A document is the set of its chunks, a chunk is its text (the index has  *)
(* its SHA-256), a vector is its number of dimensions.  The other checks of *)
(* the index file are met by every file that is written here.               *)
(***************************************************************************)
EXTENDS Integers, FiniteSets

CONSTANTS
  Starts,        \* starts of a program with this index
  NoStart,       \* not one of them
  DocumentCount, \* documents, in the order of their names
  Texts,         \* texts of chunks
  Dimensions,    \* lengths that vectors of the service may have
  MaxChanges,    \* bound: edits of documents and changes of the service
  MaxFailures    \* bound: ends of programs, power failures, failing steps

ASSUME KnowledgeIndexAssumption ==
  /\ NoStart \notin Starts /\ DocumentCount \in Nat
  /\ Dimensions \subseteq Nat \ {0} /\ MaxChanges \in Nat /\ MaxFailures \in Nat

Documents == 1..DocumentCount

VARIABLES
  documents,  \* the chunks of each document
  dimensions, \* the length of the service's vectors
  index,      \* the index file: [entries, by]; `by` is an observer
  durable,    \* the index files that a power failure may leave
  holder,     \* who has the file lock
  phase,      \* what a start does next
  nextRead,   \* the document it reads next
  corpus,     \* the chunks it has read
  cache,      \* its vectors
  changes, failures,
  seen        \* observer: chunks that were in a document since the start began

worldVars == <<documents, dimensions, changes>>
indexVars == <<index, durable>>
startVars == <<phase, nextRead, corpus, cache>>
knowledgeVars == <<worldVars, indexVars, holder, startVars, failures, seen>>

Entries == UNION {[keys -> Dimensions] : keys \in SUBSET Texts}
NoEntries == [t \in {} |-> 0]
Lengths(entries) == {entries[t] : t \in DOMAIN entries}

\* _load refuses vectors of different lengths.
Loadable(entries) == Cardinality(Lengths(entries)) <= 1

Become(p, next) == phase' = [phase EXCEPT ![p] = next]

Chunks == UNION {documents[d] : d \in Documents}

-------------------------------------------------------------------------------
\* A start.

\* create_knowledge_runtime.
BeginStart(p) ==
  /\ phase[p] = "idle"
  /\ Become(p, "reading")
  /\ seen' = [seen EXCEPT ![p] = Chunks]
  /\ UNCHANGED <<worldVars, indexVars, holder, nextRead, corpus, cache, failures>>

\* The documents are read one after the other; one that cannot be read is left out.
ReadDocument(p) ==
  /\ phase[p] = "reading" /\ nextRead[p] <= DocumentCount
  /\ nextRead' = [nextRead EXCEPT ![p] = @ + 1]
  /\ \/ corpus' = [corpus EXCEPT ![p] = @ \cup documents[nextRead[p]]] /\ UNCHANGED failures
     \/ failures < MaxFailures /\ failures' = failures + 1 /\ UNCHANGED corpus
  /\ UNCHANGED <<worldVars, indexVars, holder, phase, cache, seen>>

AskToLoad(p) ==
  /\ phase[p] = "reading" /\ nextRead[p] > DocumentCount
  /\ Become(p, "to load")
  /\ UNCHANGED <<worldVars, indexVars, holder, nextRead, corpus, cache, failures, seen>>

\* Mutant: a commit does not take the lock.
LockToLoad(p) ==
  /\ phase[p] \in {"to load", "to commit"} /\ holder = NoStart
  /\ holder' = IF phase[p] = "to load" THEN p ELSE NoStart
  /\ Become(p, IF phase[p] = "to load" THEN "load" ELSE "write")
  /\ UNCHANGED <<worldVars, indexVars, nextRead, corpus, cache, failures, seen>>

\* _file_lock; whoever has waited too long gives up.
Lock(p) ==
  /\ phase[p] \in {"to load", "to commit"} /\ holder = NoStart
  /\ holder' = p
  /\ Become(p, IF phase[p] = "to load" THEN "load" ELSE "write")
  /\ UNCHANGED <<worldVars, indexVars, nextRead, corpus, cache, failures, seen>>

LockTimesOut(p) ==
  /\ phase[p] \in {"to load", "to commit"} /\ holder # NoStart
  /\ Become(p, "failed")
  /\ UNCHANGED <<worldVars, indexVars, holder, nextRead, corpus, cache, failures, seen>>

Load(p) ==
  /\ phase[p] = "load" /\ holder' = NoStart
  /\ IF Loadable(index.entries)
     THEN cache' = [cache EXCEPT ![p] = index.entries] /\ Become(p, "embed")
     ELSE Become(p, "failed") /\ UNCHANGED cache
  /\ UNCHANGED <<worldVars, indexVars, nextRead, corpus, failures, seen>>

\* The vectors of an index with those that the service returns for more texts.
WithEmbedded(entries, texts) ==
  [t \in DOMAIN entries \cup texts |-> IF t \in DOMAIN entries THEN entries[t] ELSE dimensions]

\* Mutant: the length of the new vectors is not compared.
EmbedAny(p) ==
  LET missing == corpus[p] \ DOMAIN cache[p]
  IN  /\ phase[p] = "embed"
      /\ cache' = [cache EXCEPT ![p] = WithEmbedded(@, missing)]
      /\ Become(p, "to commit")
      /\ UNCHANGED <<worldVars, indexVars, holder, nextRead, corpus, failures, seen>>

\* embed_documents: only missing chunks are sent to the service, and their vectors
\* have to be as long as those of the index, of chunks that are gone too.
Embed(p) ==
  LET missing == corpus[p] \ DOMAIN cache[p]
  IN  /\ phase[p] = "embed"
      /\ IF missing # {} /\ ~(Lengths(cache[p]) \subseteq {dimensions})
         THEN Become(p, "failed") /\ UNCHANGED cache
         ELSE /\ cache' = [cache EXCEPT ![p] = WithEmbedded(@, missing)]
              /\ Become(p, "to commit")
      /\ UNCHANGED <<worldVars, indexVars, holder, nextRead, corpus, failures, seen>>

\* Mutant: what the start has loaded is written back too.
ReplaceIndexWithAll(p) ==
  /\ phase[p] = "write"
  /\ index' = [entries |-> cache[p], by |-> p] /\ durable' = durable \cup {index'}
  /\ Become(p, "sync")
  /\ UNCHANGED <<worldVars, holder, nextRead, corpus, cache, failures, seen>>

\* commit: the vectors of the chunks that were read replace the index at once.
ReplaceIndex(p) ==
  /\ phase[p] = "write"
  /\ index' = [entries |-> [t \in corpus[p] |-> cache[p][t]], by |-> p]
  /\ durable' = durable \cup {index'}
  /\ Become(p, "sync")
  /\ UNCHANGED <<worldVars, holder, nextRead, corpus, cache, failures, seen>>

\* Mutant: the directory is not synced.
SyncNothing(p) ==
  /\ phase[p] = "sync"
  /\ holder' = NoStart
  /\ Become(p, "ready")
  /\ UNCHANGED <<worldVars, indexVars, nextRead, corpus, cache, failures, seen>>

SyncIndex(p) ==
  /\ phase[p] = "sync"
  /\ durable' = {index} /\ holder' = NoStart
  /\ Become(p, "ready")
  /\ UNCHANGED <<worldVars, index, nextRead, corpus, cache, failures, seen>>

\* A step fails, too much is to be read, or the program ends: its lock is free.
FailStart(p) ==
  /\ phase[p] \notin {"idle", "failed"} /\ failures < MaxFailures
  /\ failures' = failures + 1
  /\ Become(p, "failed")
  /\ holder' = IF holder = p THEN NoStart ELSE holder
  /\ UNCHANGED <<worldVars, indexVars, nextRead, corpus, cache, seen>>

-------------------------------------------------------------------------------
\* The world.

EditDocument(d, chunks) ==
  /\ changes < MaxChanges /\ chunks # documents[d]
  /\ documents' = [documents EXCEPT ![d] = chunks] /\ changes' = changes + 1
  /\ seen' = [p \in Starts |-> seen[p] \cup chunks]
  /\ UNCHANGED <<dimensions, indexVars, holder, startVars, failures>>

\* The service returns vectors of another length under the same name.
ChangeService ==
  /\ changes < MaxChanges /\ changes' = changes + 1
  /\ dimensions' \in Dimensions \ {dimensions}
  /\ UNCHANGED <<documents, indexVars, holder, startVars, failures, seen>>

LosePower ==
  /\ failures < MaxFailures /\ failures' = failures + 1
  /\ index' \in durable /\ durable' = {index'} /\ holder' = NoStart
  /\ phase' = [p \in Starts |-> IF phase[p] = "idle" THEN "idle" ELSE "failed"]
  /\ UNCHANGED <<worldVars, nextRead, corpus, cache, seen>>

-------------------------------------------------------------------------------
IndexInit ==
  /\ documents \in [Documents -> {{}} \cup {{t} : t \in Texts}]
  /\ dimensions \in Dimensions
  /\ index = [entries |-> NoEntries, by |-> NoStart] /\ durable = {index}
  /\ holder = NoStart /\ phase = [p \in Starts |-> "idle"]
  /\ nextRead = [p \in Starts |-> 1] /\ corpus = [p \in Starts |-> {}]
  /\ cache = [p \in Starts |-> NoEntries]
  /\ changes = 0 /\ failures = 0 /\ seen = [p \in Starts |-> {}]

IndexNext ==
  \/ \E p \in Starts :
       \/ BeginStart(p) \/ ReadDocument(p) \/ AskToLoad(p) \/ Lock(p) \/ LockTimesOut(p)
       \/ Load(p) \/ Embed(p) \/ ReplaceIndex(p) \/ SyncIndex(p) \/ FailStart(p)
  \/ \E d \in Documents, chunks \in SUBSET Texts : EditDocument(d, chunks)
  \/ ChangeService \/ LosePower

IndexSpec == IndexInit /\ [][IndexNext]_knowledgeVars
-------------------------------------------------------------------------------
Phases == {"idle", "reading", "to load", "load", "embed", "to commit", "write", "sync",
           "ready", "failed"}

IndexTypeOK ==
  /\ documents \in [Documents -> SUBSET Texts] /\ dimensions \in Dimensions
  /\ index.entries \in Entries /\ index.by \in Starts \cup {NoStart} /\ index \in durable
  /\ holder \in Starts \cup {NoStart} /\ phase \in [Starts -> Phases]
  /\ nextRead \in [Starts -> 1..(DocumentCount + 1)] /\ corpus \in [Starts -> SUBSET Texts]
  /\ \A p \in Starts : cache[p] \in Entries /\ (phase[p] \in {"load", "write", "sync"} => holder = p)

\* The index can be loaded whatever a power failure leaves, whichever starts
\* committed in turn, and whatever the service returned to each of them.
AlwaysLoadable == \A i \in durable : Loadable(i.entries)

\* A chunk that was deleted is gone from the index with the next commit of a start
\* that began after the deletion.  (One that began before may write it once more,
\* after another start has cleaned it away.)
DeletedChunksGo ==
  \A i \in durable : i.by # NoStart => DOMAIN i.entries \subseteq seen[i.by]

\* A start that is ready has all its chunks in the index file, and power does not
\* take them away, until another start replaces the file.
ReadyIsSaved ==
  \A p \in Starts : phase[p] = "ready" /\ index.by = p =>
    durable = {index} /\ DOMAIN index.entries = corpus[p]

\* No failure leaves an index that cannot be loaded, or lacks what a program that is
\* ready has put there.
IndexSurvives == AlwaysLoadable /\ ReadyIsSaved
===============================================================================
