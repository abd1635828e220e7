------------------------------ MODULE PartsProofs -------------------------------
(***************************************************************************)
(* Theorems about the parts of MCParts: the index of embeddings, the command *)
(* line, the writes to workspace files and the messages of a conversation.  *)
(* They share no state; each theorem is about the specification of one of   *)
(* them.  At the end, with the theorems of AuditLogProofs, what this says of *)
(* MCParts: it implements every one of its parts.                           *)
(***************************************************************************)
EXTENDS MCParts, AuditLogProofs, FiniteSetTheorems, WellFoundedInduction

(***************************************************************************)
(* The index.  Whoever has replaced the index file without syncing it holds *)
(* the lock, and whatever may be left of the file was written by a start    *)
(* that had vectors of one length for exactly the chunks it had read.       *)
(***************************************************************************)

\* All vectors have one length.
Uniform(entries) == \A t, u \in DOMAIN entries : entries[t] = entries[u]

IndexFiles == [entries : Entries, by : Starts \cup {NoStart}]

IndexTypes ==
  /\ documents \in [Documents -> SUBSET Texts] /\ dimensions \in Dimensions
  /\ durable \subseteq IndexFiles /\ index \in durable
  /\ holder \in Starts \cup {NoStart} /\ phase \in [Starts -> Phases]
  /\ nextRead \in [Starts -> 1..(DocumentCount + 1)] /\ corpus \in [Starts -> SUBSET Texts]
  /\ cache \in [Starts -> Entries] /\ seen \in [Starts -> SUBSET Texts]

\* The lock is held from the load to its end and from the commit to its sync.
LockHeld == \A p \in Starts : phase[p] \in {"load", "write", "sync"} => holder = p

\* What a start knows: chunks it may have read, and vectors of one length.
StartKnows ==
  \A p \in Starts :
    /\ corpus[p] \subseteq seen[p]
    /\ IF phase[p] = "idle" THEN corpus[p] = {} ELSE Chunks \subseteq seen[p]
    /\ Uniform(cache[p])
    /\ phase[p] \in {"to commit", "write", "sync", "ready"} => corpus[p] \subseteq DOMAIN cache[p]

\* What a power failure may leave of the file.
FilesSound ==
  \A i \in durable :
    /\ Uniform(i.entries)
    /\ i.by # NoStart => phase[i.by] # "idle" /\ DOMAIN i.entries \subseteq seen[i.by]

\* A file that is being synced is the start's own.
SyncsOwn ==
  \A p \in Starts : phase[p] = "sync" => index.by = p /\ DOMAIN index.entries = corpus[p]

\* The inductive invariant behind IndexSurvives and DeletedChunksGo.
IndexInv == IndexTypes /\ LockHeld /\ StartKnows /\ FilesSound /\ SyncsOwn /\ ReadyIsSaved

\* Vectors of one length can be loaded.
LEMMA UniformLoads ==
  ASSUME NEW entries, Uniform(entries)
  PROVE  Loadable(entries)
<1>1. CASE DOMAIN entries = {}
  <2>1. Lengths(entries) = {}
    BY <1>1 DEF Lengths
  <2>2. QED BY <2>1, FS_EmptySet DEF Loadable
<1>2. CASE DOMAIN entries # {}
  <2>1. PICK t \in DOMAIN entries : TRUE
    BY <1>2
  <2>2. Lengths(entries) = {entries[t]}
    BY <2>1 DEF Lengths, Uniform
  <2>3. QED BY <2>2, FS_Singleton DEF Loadable
<1>3. QED BY <1>1, <1>2

\* A table of lengths for some texts.
LEMMA IsEntries ==
  ASSUME NEW keys \in SUBSET Texts, NEW f \in [keys -> Dimensions]
  PROVE  f \in Entries
BY DEF Entries

LEMMA EntriesAre ==
  ASSUME NEW f \in Entries
  PROVE  DOMAIN f \subseteq Texts /\ f \in [DOMAIN f -> Dimensions]
BY DEF Entries

\* What becomes of the phases.
LEMMA BecomeGives ==
  ASSUME IndexTypes, NEW p \in Starts, NEW next \in Phases, Become(p, next)
  PROVE  /\ phase' \in [Starts -> Phases]
         /\ \A q \in Starts : phase'[q] = IF q = p THEN next ELSE phase[q]
BY DEF IndexTypes, Become

\* A step of one start that leaves the file, its vectors and what was seen alone.
LEMMA PhaseStep ==
  ASSUME IndexInv, NEW p \in Starts, NEW next \in Phases, Become(p, next),
         UNCHANGED <<worldVars, indexVars, nextRead, corpus, cache, seen>>,
         phase[p] # "idle", next \notin {"idle", "sync", "ready"},
         next \in {"to commit", "write"} => corpus[p] \subseteq DOMAIN cache[p],
         holder' \in Starts \cup {NoStart}, LockHeld'
  PROVE  IndexInv'
<1>1. /\ UNCHANGED <<documents, dimensions, index, durable, nextRead, corpus, cache, seen>>
      /\ phase' \in [Starts -> Phases] /\ Chunks' = Chunks
      /\ \A q \in Starts : phase'[q] = IF q = p THEN next ELSE phase[q]
  <2>1. UNCHANGED <<documents, dimensions, index, durable, nextRead, corpus, cache, seen>>
    BY DEF worldVars, indexVars
  <2>2. Chunks' = Chunks
    BY <2>1 DEF Chunks
  <2>3. QED BY <2>1, <2>2, BecomeGives DEF IndexInv
<1>2. IndexTypes'
  BY <1>1 DEF IndexInv, IndexTypes
<1>3. StartKnows'
  BY <1>1 DEF IndexInv, StartKnows
<1>4. FilesSound'
  <2>1. ASSUME NEW i \in durable, i.by # NoStart PROVE i.by \in Starts
    BY <2>1 DEF IndexInv, IndexTypes, IndexFiles
  <2>2. QED BY <1>1, <2>1 DEF IndexInv, FilesSound
<1>5. SyncsOwn' /\ ReadyIsSaved'
  BY <1>1 DEF IndexInv, SyncsOwn, ReadyIsSaved
<1>6. QED BY <1>2, <1>3, <1>4, <1>5 DEF IndexInv

\* The steps of a start that only move it on, or end it.
LEMMA MovesOn ==
  ASSUME IndexInv, NEW p \in Starts,
         AskToLoad(p) \/ Lock(p) \/ LockTimesOut(p) \/ FailStart(p)
  PROVE  IndexInv'
<1>0. IndexTypes /\ NoStart \notin Starts
  BY KnowledgeIndexAssumption DEF IndexInv
<1>1. CASE AskToLoad(p) \/ LockTimesOut(p)
  <2>1. PICK next \in {"to load", "failed"} :
          /\ Become(p, next) /\ phase[p] # "idle" /\ holder' = holder
          /\ UNCHANGED <<worldVars, indexVars, nextRead, corpus, cache, seen>>
    BY <1>1 DEF AskToLoad, LockTimesOut
  <2>2. next \in Phases
    BY DEF Phases
  <2>3. LockHeld'
    BY <1>0, <2>1, <2>2, BecomeGives DEF IndexInv, LockHeld
  <2>4. QED BY <1>0, <2>1, <2>2, <2>3, PhaseStep DEF IndexTypes
<1>2. CASE Lock(p)
  <2>1. PICK next \in {"load", "write"} :
          /\ Become(p, next) /\ phase[p] # "idle" /\ holder = NoStart /\ holder' = p
          /\ next = "write" => phase[p] = "to commit"
          /\ UNCHANGED <<worldVars, indexVars, nextRead, corpus, cache, seen>>
    BY <1>2 DEF Lock
  <2>2. next \in Phases
    BY DEF Phases
  <2>3. LockHeld'
    BY <1>0, <2>1, <2>2, BecomeGives DEF IndexInv, LockHeld
  <2>4. next = "write" => corpus[p] \subseteq DOMAIN cache[p]
    BY <2>1 DEF IndexInv, StartKnows
  <2>5. QED BY <2>1, <2>2, <2>3, <2>4, PhaseStep
<1>3. CASE FailStart(p)
  <2>1. /\ Become(p, "failed") /\ phase[p] # "idle"
        /\ holder' = IF holder = p THEN NoStart ELSE holder
        /\ UNCHANGED <<worldVars, indexVars, nextRead, corpus, cache, seen>>
    BY <1>3 DEF FailStart
  <2>2. "failed" \in Phases
    BY DEF Phases
  <2>3. LockHeld'
    BY <1>0, <2>1, <2>2, BecomeGives DEF IndexInv, LockHeld
  <2>4. holder' \in Starts \cup {NoStart}
    BY <1>0, <2>1 DEF IndexTypes
  <2>5. QED BY <2>1, <2>2, <2>3, <2>4, PhaseStep
<1>4. QED BY <1>1, <1>2, <1>3

\* A start begins, and reads what is in a document at that moment.
LEMMA Reads ==
  ASSUME IndexInv, NEW p \in Starts, BeginStart(p) \/ ReadDocument(p)
  PROVE  IndexInv'
<1>0. IndexTypes /\ \A i \in durable : i.by # NoStart => i.by \in Starts
  BY DEF IndexInv, IndexTypes, IndexFiles
<1>1. CASE BeginStart(p)
  <2>1. /\ UNCHANGED <<documents, dimensions, index, durable, holder, nextRead, corpus, cache>>
        /\ phase[p] = "idle" /\ Become(p, "reading") /\ seen' = [seen EXCEPT ![p] = Chunks]
        /\ Chunks' = Chunks
    BY <1>1 DEF BeginStart, worldVars, indexVars, Chunks
  <2>2. /\ phase' \in [Starts -> Phases]
        /\ \A q \in Starts : phase'[q] = IF q = p THEN "reading" ELSE phase[q]
    BY <1>0, <2>1, BecomeGives DEF Phases
  <2>3. Chunks \subseteq Texts
    BY <1>0 DEF IndexTypes, Chunks
  <2>4. \A q \in Starts : seen'[q] = IF q = p THEN Chunks ELSE seen[q]
    BY <1>0, <2>1 DEF IndexTypes
  <2>5. IndexTypes'
    BY <1>0, <2>1, <2>2, <2>3 DEF IndexTypes
  <2>6. LockHeld' /\ StartKnows'
    BY <2>1, <2>2, <2>4 DEF IndexInv, LockHeld, StartKnows
  <2>7. FilesSound'
    BY <1>0, <2>1, <2>2, <2>4 DEF IndexInv, FilesSound
  <2>8. SyncsOwn' /\ ReadyIsSaved'
    BY <2>1, <2>2 DEF IndexInv, SyncsOwn, ReadyIsSaved
  <2>9. QED BY <2>5, <2>6, <2>7, <2>8 DEF IndexInv
<1>2. CASE ReadDocument(p)
  <2>1. /\ UNCHANGED <<documents, dimensions, index, durable, holder, phase, cache, seen>>
        /\ phase[p] = "reading" /\ nextRead[p] <= DocumentCount
        /\ nextRead' = [nextRead EXCEPT ![p] = @ + 1]
        /\ corpus' \in {corpus, [corpus EXCEPT ![p] = @ \cup documents[nextRead[p]]]}
        /\ Chunks' = Chunks
    BY <1>2 DEF ReadDocument, worldVars, indexVars, Chunks
  <2>2. nextRead[p] \in Documents
    BY <1>0, <2>1, KnowledgeIndexAssumption DEF IndexTypes, Documents
  <2>3. documents[nextRead[p]] \subseteq Chunks /\ Chunks \subseteq seen[p]
    BY <2>1, <2>2 DEF IndexInv, StartKnows, Chunks
  <2>4. /\ corpus' \in [Starts -> SUBSET Texts]
        /\ \A q \in Starts : q # p => corpus'[q] = corpus[q]
        /\ corpus'[p] \subseteq seen[p]
    BY <1>0, <2>1, <2>2, <2>3 DEF IndexTypes, IndexInv, StartKnows
  <2>5. nextRead' \in [Starts -> 1..(DocumentCount + 1)]
    BY <1>0, <2>1, <2>2, KnowledgeIndexAssumption DEF IndexTypes, Documents
  <2>6. IndexTypes'
    BY <1>0, <2>1, <2>4, <2>5 DEF IndexTypes
  <2>7. LockHeld' /\ StartKnows'
    BY <2>1, <2>4 DEF IndexInv, LockHeld, StartKnows
  <2>8. FilesSound'
    BY <2>1 DEF IndexInv, FilesSound
  <2>9. SyncsOwn' /\ ReadyIsSaved'
    BY <2>1, <2>4 DEF IndexInv, SyncsOwn, ReadyIsSaved
  <2>10. QED BY <2>6, <2>7, <2>8, <2>9 DEF IndexInv
<1>3. QED BY <1>1, <1>2

\* A start takes the vectors of the file, and has the missing ones made.
LEMMA Embeds ==
  ASSUME IndexInv, NEW p \in Starts, Load(p) \/ Embed(p)
  PROVE  IndexInv'
<1>0. /\ IndexTypes /\ NoStart \notin Starts
      /\ \A i \in durable : i.by # NoStart => i.by \in Starts
  BY KnowledgeIndexAssumption DEF IndexInv, IndexTypes, IndexFiles
<1>1. /\ UNCHANGED <<documents, dimensions, index, durable, nextRead, corpus, seen>>
      /\ phase[p] # "idle" /\ phase'[p] \notin {"idle", "sync", "ready", "load", "write"}
      /\ phase' \in [Starts -> Phases] /\ Chunks' = Chunks
      /\ \A q \in Starts : q # p => phase'[q] = phase[q]
  <2>1. PICK next \in {"embed", "to commit", "failed"} : Become(p, next)
    BY DEF Load, Embed
  <2>2. next \in Phases
    BY DEF Phases
  <2>3. UNCHANGED <<documents, dimensions, index, durable, nextRead, corpus, seen>>
    BY DEF Load, Embed, worldVars, indexVars
  <2>4. Chunks' = Chunks
    BY <2>3 DEF Chunks
  <2>5. phase[p] # "idle"
    BY DEF Load, Embed
  <2>6. QED BY <1>0, <2>1, <2>2, <2>3, <2>4, <2>5, BecomeGives
<1>2. holder' \in Starts \cup {NoStart} /\ LockHeld'
  <2>1. CASE Load(p)
    <3>1. phase[p] = "load" /\ holder' = NoStart
      BY <2>1 DEF Load
    <3>2. QED BY <1>0, <1>1, <3>1 DEF IndexInv, LockHeld
  <2>2. CASE Embed(p)
    <3>1. holder' = holder
      BY <2>2 DEF Embed
    <3>2. QED BY <1>0, <1>1, <3>1 DEF IndexInv, LockHeld, IndexTypes
  <2>3. QED BY <2>1, <2>2
<1>3. /\ cache' \in [Starts -> Entries] /\ \A q \in Starts : q # p => cache'[q] = cache[q]
      /\ Uniform(cache'[p]) /\ (phase'[p] = "to commit" => corpus[p] \subseteq DOMAIN cache'[p])
  <2>1. CASE cache' = cache /\ phase'[p] # "to commit"
    BY <1>0, <2>1 DEF IndexInv, IndexTypes, StartKnows
  <2>2. CASE Load(p) /\ cache' = [cache EXCEPT ![p] = index.entries]
    <3>1. index.entries \in Entries /\ Uniform(index.entries)
      BY <1>0 DEF IndexInv, IndexTypes, IndexFiles, FilesSound
    <3>2. phase'[p] # "to commit"
      <4>1. PICK next \in {"embed", "failed"} : Become(p, next)
        BY <2>2 DEF Load
      <4>2. next \in Phases
        BY DEF Phases
      <4>3. QED BY <1>0, <4>1, <4>2, BecomeGives
    <3>3. QED BY <1>0, <2>2, <3>1, <3>2 DEF IndexTypes
  <2>3. CASE Embed(p) /\ cache' # cache
    <3> DEFINE missing == corpus[p] \ DOMAIN cache[p]
               new == WithEmbedded(cache[p], missing)
    <3>1. /\ missing = {} \/ Lengths(cache[p]) \subseteq {dimensions}
          /\ cache' = [cache EXCEPT ![p] = new]
      BY <2>3 DEF Embed
    <3>2. /\ corpus[p] \in SUBSET Texts /\ cache[p] \in Entries /\ dimensions \in Dimensions
          /\ Uniform(cache[p])
      BY <1>0 DEF IndexTypes, IndexInv, StartKnows
    <3>3. /\ DOMAIN new = DOMAIN cache[p] \cup missing
          /\ \A t \in DOMAIN new : new[t] = IF t \in DOMAIN cache[p] THEN cache[p][t] ELSE dimensions
      BY DEF WithEmbedded
    <3>4. new \in Entries
      <4>1. DOMAIN cache[p] \subseteq Texts /\ \A t \in DOMAIN cache[p] : cache[p][t] \in Dimensions
        BY <3>2, EntriesAre
      <4>2. new \in [DOMAIN cache[p] \cup missing -> Dimensions]
        BY <3>2, <3>3, <4>1 DEF WithEmbedded
      <4>3. DOMAIN cache[p] \cup missing \in SUBSET Texts
        BY <3>2, <4>1
      <4>4. QED BY <4>2, <4>3, IsEntries
    <3>5. Uniform(new)
      <4>1. CASE missing = {}
        BY <3>2, <3>3, <4>1 DEF Uniform
      <4>2. CASE Lengths(cache[p]) \subseteq {dimensions}
        <5>1. \A t \in DOMAIN cache[p] : cache[p][t] = dimensions
          BY <4>2 DEF Lengths
        <5>2. QED BY <3>3, <5>1 DEF Uniform
      <4>3. QED BY <3>1, <4>1, <4>2
    <3>6. corpus[p] \subseteq DOMAIN new
      BY <3>3
    <3> HIDE DEF new
    <3>7. QED BY <1>0, <3>1, <3>4, <3>5, <3>6 DEF IndexTypes
  <2>4. CASE Embed(p) /\ cache' = cache
    <3>1. CASE phase'[p] = "to commit"
      <4> DEFINE missing == corpus[p] \ DOMAIN cache[p]
                 new == WithEmbedded(cache[p], missing)
      <4>1. cache' = [cache EXCEPT ![p] = new]
        <5>1. ~Become(p, "failed")
          BY <1>0, <3>1, BecomeGives DEF Phases
        <5>2. QED BY <2>4, <5>1 DEF Embed
      <4>2. DOMAIN new = DOMAIN cache[p] \cup missing
        BY DEF WithEmbedded
      <4>3. cache[p] = new
        BY <1>0, <2>4, <4>1 DEF IndexTypes
      <4>4. QED BY <1>0, <2>4, <4>2, <4>3 DEF IndexInv, IndexTypes, StartKnows
    <3>2. CASE phase'[p] # "to commit"
      BY <2>1, <2>4, <3>2
    <3>3. QED BY <3>1, <3>2
  <2>5. Load(p) => \/ cache' = cache /\ phase'[p] # "to commit"
                   \/ cache' = [cache EXCEPT ![p] = index.entries]
    <3>1. SUFFICES ASSUME Load(p), cache' # [cache EXCEPT ![p] = index.entries]
                   PROVE  cache' = cache /\ phase'[p] # "to commit"
      OBVIOUS
    <3>2. cache' = cache /\ Become(p, "failed")
      BY <3>1 DEF Load
    <3>3. QED BY <1>0, <3>2, BecomeGives DEF Phases
  <2>6. QED BY <2>1, <2>2, <2>3, <2>4, <2>5
<1>4. IndexTypes'
  BY <1>0, <1>1, <1>2, <1>3 DEF IndexTypes
<1>5. StartKnows'
  BY <1>1, <1>3 DEF IndexInv, StartKnows
<1>6. FilesSound'
  BY <1>0, <1>1 DEF IndexInv, FilesSound
<1>7. SyncsOwn' /\ ReadyIsSaved'
  BY <1>1 DEF IndexInv, SyncsOwn, ReadyIsSaved
<1>8. QED BY <1>2, <1>4, <1>5, <1>6, <1>7 DEF IndexInv

\* A start replaces the file by the vectors of the chunks it has read.
LEMMA Replaces ==
  ASSUME IndexInv, NEW p \in Starts, ReplaceIndex(p)
  PROVE  IndexInv'
<1> DEFINE entries == [t \in corpus[p] |-> cache[p][t]]
           replaced == [entries |-> entries, by |-> p]
<1>0. /\ IndexTypes /\ NoStart \notin Starts /\ holder = p
      /\ \A i \in durable : i.by # NoStart => i.by \in Starts
      /\ \A q \in Starts : phase[q] \in {"load", "write", "sync"} => q = p
  BY KnowledgeIndexAssumption DEF ReplaceIndex, IndexInv, IndexTypes, IndexFiles, LockHeld
<1>1. /\ UNCHANGED <<documents, dimensions, holder, nextRead, corpus, cache, seen>>
      /\ phase[p] = "write" /\ Become(p, "sync")
      /\ index' = replaced /\ durable' = durable \cup {replaced}
  BY DEF ReplaceIndex, worldVars
<1>2. /\ phase' \in [Starts -> Phases] /\ Chunks' = Chunks
      /\ \A q \in Starts : phase'[q] = IF q = p THEN "sync" ELSE phase[q]
  <2>1. "sync" \in Phases
    BY DEF Phases
  <2>2. Chunks' = Chunks
    BY <1>1 DEF Chunks
  <2>3. QED BY <1>0, <1>1, <2>1, <2>2, BecomeGives
<1>3. /\ corpus[p] \subseteq DOMAIN cache[p] /\ corpus[p] \subseteq seen[p]
      /\ Uniform(cache[p]) /\ cache[p] \in Entries /\ corpus[p] \in SUBSET Texts
  BY <1>0, <1>1 DEF IndexInv, IndexTypes, StartKnows
<1>4. entries \in Entries /\ Uniform(entries) /\ DOMAIN entries = corpus[p]
  <2>1. cache[p] \in [DOMAIN cache[p] -> Dimensions]
    BY <1>3, EntriesAre
  <2>2. entries \in [corpus[p] -> Dimensions]
    BY <1>3, <2>1
  <2>3. QED BY <1>3, <2>2, IsEntries DEF Uniform
<1>5. replaced \in IndexFiles /\ replaced.by = p /\ replaced.entries = entries
  BY <1>4 DEF IndexFiles
<1> HIDE DEF entries, replaced
<1>6. IndexTypes'
  BY <1>0, <1>1, <1>2, <1>5 DEF IndexTypes
<1>7. LockHeld' /\ StartKnows'
  BY <1>0, <1>1, <1>2 DEF IndexInv, LockHeld, StartKnows
<1>8. FilesSound'
  BY <1>0, <1>1, <1>2, <1>3, <1>4, <1>5 DEF IndexInv, FilesSound
<1>9. SyncsOwn' /\ ReadyIsSaved'
  BY <1>0, <1>1, <1>2, <1>4, <1>5 DEF SyncsOwn, ReadyIsSaved
<1>10. QED BY <1>6, <1>7, <1>8, <1>9 DEF IndexInv

\* The file that a start has put there is on disk.
LEMMA Syncs ==
  ASSUME IndexInv, NEW p \in Starts, SyncIndex(p)
  PROVE  IndexInv'
<1>0. /\ IndexTypes /\ NoStart \notin Starts /\ index.by \in Starts \cup {NoStart}
      /\ index.by = p /\ DOMAIN index.entries = corpus[p]
      /\ \A q \in Starts : phase[q] \in {"load", "write", "sync"} => q = p
  BY KnowledgeIndexAssumption
     DEF SyncIndex, IndexInv, IndexTypes, IndexFiles, LockHeld, SyncsOwn
<1>1. /\ UNCHANGED <<documents, dimensions, index, nextRead, corpus, cache, seen>>
      /\ phase[p] = "sync" /\ Become(p, "ready") /\ holder' = NoStart /\ durable' = {index}
  BY DEF SyncIndex, worldVars
<1>2. /\ phase' \in [Starts -> Phases] /\ Chunks' = Chunks
      /\ \A q \in Starts : phase'[q] = IF q = p THEN "ready" ELSE phase[q]
  <2>1. "ready" \in Phases
    BY DEF Phases
  <2>2. Chunks' = Chunks
    BY <1>1 DEF Chunks
  <2>3. QED BY <1>0, <1>1, <2>1, <2>2, BecomeGives
<1>3. IndexTypes'
  BY <1>0, <1>1, <1>2 DEF IndexTypes
<1>4. LockHeld' /\ StartKnows'
  BY <1>0, <1>1, <1>2 DEF IndexInv, LockHeld, StartKnows
<1>5. FilesSound'
  BY <1>0, <1>1, <1>2 DEF IndexInv, FilesSound, IndexTypes
<1>6. SyncsOwn' /\ ReadyIsSaved'
  BY <1>0, <1>1, <1>2 DEF SyncsOwn, ReadyIsSaved
<1>7. QED BY <1>3, <1>4, <1>5, <1>6 DEF IndexInv

\* The documents, the service and the power.
LEMMA WorldMoves ==
  ASSUME IndexInv,
         \/ \E d \in Documents, chunks \in SUBSET Texts : EditDocument(d, chunks)
         \/ ChangeService \/ LosePower
  PROVE  IndexInv'
<1>0. /\ IndexTypes /\ NoStart \notin Starts
      /\ \A i \in durable : i.by # NoStart => i.by \in Starts
  BY KnowledgeIndexAssumption DEF IndexInv, IndexTypes, IndexFiles
<1>1. ASSUME NEW d \in Documents, NEW chunks \in SUBSET Texts, EditDocument(d, chunks)
      PROVE  IndexInv'
  <2>1. /\ UNCHANGED <<dimensions, index, durable, holder, phase, nextRead, corpus, cache>>
        /\ documents' = [documents EXCEPT ![d] = chunks]
        /\ seen' = [q \in Starts |-> seen[q] \cup chunks]
    BY <1>1 DEF EditDocument, indexVars, startVars
  <2>2. documents' \in [Documents -> SUBSET Texts] /\ Chunks' \subseteq Chunks \cup chunks
    <3>1. documents \in [Documents -> SUBSET Texts]
      BY <1>0 DEF IndexTypes
    <3>2. \A e \in Documents : documents'[e] = IF e = d THEN chunks ELSE documents[e]
      BY <2>1, <3>1
    <3>3. QED BY <2>1, <3>1, <3>2 DEF Chunks
  <2>3. seen' \in [Starts -> SUBSET Texts] /\ \A q \in Starts : seen'[q] = seen[q] \cup chunks
    BY <1>0, <2>1 DEF IndexTypes
  <2>4. IndexTypes'
    BY <1>0, <2>1, <2>2, <2>3 DEF IndexTypes
  <2>5. LockHeld' /\ StartKnows'
    BY <2>1, <2>2, <2>3 DEF IndexInv, LockHeld, StartKnows
  <2>6. FilesSound'
    BY <1>0, <2>1, <2>3 DEF IndexInv, FilesSound
  <2>7. SyncsOwn' /\ ReadyIsSaved'
    BY <2>1 DEF IndexInv, SyncsOwn, ReadyIsSaved
  <2>8. QED BY <2>4, <2>5, <2>6, <2>7 DEF IndexInv
<1>2. CASE ChangeService
  <2>1. /\ UNCHANGED <<documents, index, durable, holder, phase, nextRead, corpus, cache, seen>>
        /\ dimensions' \in Dimensions
    BY <1>2 DEF ChangeService, indexVars, startVars
  <2>2. Chunks' = Chunks
    BY <2>1 DEF Chunks
  <2>3. IndexTypes'
    BY <1>0, <2>1 DEF IndexTypes
  <2>4. LockHeld' /\ StartKnows' /\ FilesSound' /\ SyncsOwn' /\ ReadyIsSaved'
    BY <2>1, <2>2 DEF IndexInv, LockHeld, StartKnows, FilesSound, SyncsOwn, ReadyIsSaved
  <2>5. QED BY <2>3, <2>4 DEF IndexInv
<1>3. CASE LosePower
  <2>1. /\ UNCHANGED <<documents, dimensions, nextRead, corpus, cache, seen>>
        /\ index' \in durable /\ durable' = {index'} /\ holder' = NoStart
        /\ phase' = [q \in Starts |-> IF phase[q] = "idle" THEN "idle" ELSE "failed"]
    BY <1>3 DEF LosePower, worldVars
  <2>2. Chunks' = Chunks
    BY <2>1 DEF Chunks
  <2>3. /\ phase' \in [Starts -> Phases]
        /\ \A q \in Starts : phase'[q] = IF phase[q] = "idle" THEN "idle" ELSE "failed"
    BY <2>1 DEF Phases
  <2>4. IndexTypes'
    BY <1>0, <2>1, <2>3 DEF IndexTypes
  <2>5. LockHeld' /\ StartKnows'
    BY <2>1, <2>2, <2>3 DEF IndexInv, LockHeld, StartKnows
  <2>6. FilesSound'
    BY <1>0, <2>1, <2>3 DEF IndexInv, FilesSound
  <2>7. SyncsOwn' /\ ReadyIsSaved'
    BY <2>3 DEF SyncsOwn, ReadyIsSaved
  <2>8. QED BY <2>4, <2>5, <2>6, <2>7 DEF IndexInv
<1>4. QED BY <1>1, <1>2, <1>3

LEMMA IndexStarts ==
  ASSUME IndexInit
  PROVE  IndexInv
<1> DEFINE first == [entries |-> NoEntries, by |-> NoStart]
<1>1. /\ index = first /\ durable = {first} /\ NoEntries \in Entries /\ Uniform(NoEntries)
      /\ phase = [p \in Starts |-> "idle"] /\ holder = NoStart
      /\ nextRead = [p \in Starts |-> 1] /\ corpus = [p \in Starts |-> {}]
      /\ cache = [p \in Starts |-> NoEntries] /\ seen = [p \in Starts |-> {}]
  <2>1. {} \in SUBSET Texts /\ NoEntries \in [{} -> Dimensions]
    BY DEF NoEntries
  <2>2. NoEntries \in Entries
    BY <2>1, IsEntries
  <2>3. QED BY <2>2 DEF IndexInit, Uniform, NoEntries
<1>2. documents \in [Documents -> SUBSET Texts] /\ dimensions \in Dimensions
  BY DEF IndexInit
<1>3. first \in IndexFiles
  BY <1>1 DEF IndexFiles
<1>4. first.by = NoStart /\ first.entries = NoEntries
  OBVIOUS
<1> HIDE DEF first
<1>5. IndexTypes
  <2>1. 1 \in 1..(DocumentCount + 1)
    BY KnowledgeIndexAssumption
  <2>2. QED BY <1>1, <1>2, <1>3, <2>1 DEF IndexTypes, Phases
<1>6. LockHeld /\ StartKnows /\ FilesSound /\ SyncsOwn /\ ReadyIsSaved
  BY <1>1, <1>4 DEF LockHeld, StartKnows, FilesSound, SyncsOwn, ReadyIsSaved
<1>7. QED BY <1>5, <1>6 DEF IndexInv

\* The strengthening of IndexTypeOK, IndexSurvives and DeletedChunksGo holds in every state.
THEOREM IndexInvariant == IndexSpec => []IndexInv
<1>1. IndexInit => IndexInv
  BY IndexStarts
<1>2. IndexInv /\ [IndexNext]_knowledgeVars => IndexInv'
  <2>1. SUFFICES ASSUME IndexInv, [IndexNext]_knowledgeVars PROVE IndexInv'
    OBVIOUS
  <2>2. CASE UNCHANGED knowledgeVars
    <3>1. UNCHANGED <<documents, dimensions, index, durable, holder, phase, nextRead, corpus,
                      cache, seen>>
      BY <2>2 DEF knowledgeVars, worldVars, indexVars, startVars
    <3>2. Chunks' = Chunks
      BY <3>1 DEF Chunks
    <3>3. QED BY <2>1, <3>1, <3>2 DEF IndexInv, IndexTypes, LockHeld, StartKnows, FilesSound,
                                     SyncsOwn, ReadyIsSaved
  <2>3. ASSUME NEW p \in Starts,
               \/ BeginStart(p) \/ ReadDocument(p) \/ AskToLoad(p) \/ Lock(p)
               \/ LockTimesOut(p) \/ Load(p) \/ Embed(p) \/ ReplaceIndex(p) \/ SyncIndex(p)
               \/ FailStart(p)
        PROVE  IndexInv'
    BY <2>1, <2>3, Reads, MovesOn, Embeds, Replaces, Syncs
  <2>4. QED BY <2>1, <2>2, <2>3, WorldMoves DEF IndexNext
<1>3. QED BY <1>1, <1>2, PTL DEF IndexSpec

\* No failure, no power loss and no other program leaves an index that cannot be loaded, and
\* none takes from it what a start that is ready has put there (knowledge_index.py: commit).
THEOREM IndexIsLoadable == IndexSpec => []IndexSurvives
<1>1. IndexInv => IndexSurvives
  BY UniformLoads DEF IndexInv, FilesSound, IndexSurvives, AlwaysLoadable
<1>2. QED BY <1>1, IndexInvariant, PTL

\* A chunk that is deleted leaves the index with the next commit of a start that began
\* after it was gone.
THEOREM DeletedChunksLeave == IndexSpec => []DeletedChunksGo
<1>1. IndexInv => DeletedChunksGo
  BY DEF IndexInv, FilesSound, DeletedChunksGo
<1>2. QED BY <1>1, IndexInvariant, PTL

(***************************************************************************)
(* The command line.  As long as a session is open in one program at a      *)
(* time, that program's memory is its file and what is unsaved, and the     *)
(* record in its file is none or the one in memory.  Sessions that two      *)
(* programs had open, and records that have served, are left out part by    *)
(* part where the code loses its hold on them.                              *)
(***************************************************************************)

Screens     == {"closed", "prompt", "working", "approval", "answering"}
AskedSoFar  == 1..asked
SavedRecords == [question : Nat, base : SUBSET Nat, fits : BOOLEAN]
Holds(t, s) == Live(t) /\ at[t] = s

CliTypes ==
  /\ asked \in 0..MaxQuestions
  /\ snapshots \in [SessionNames -> SUBSET AskedSoFar]
  /\ records \in [SessionNames -> SavedRecords]
  /\ at \in [Terminals -> SessionNames \cup {Nowhere}] /\ screen \in [Terminals -> Screens]
  /\ history \in [Terminals -> SUBSET AskedSoFar] /\ unsaved \in [Terminals -> BOOLEAN]
  /\ kept \in [Terminals -> SavedRecords] /\ current \in [Terminals -> Nat]
  /\ home \in [Questions -> SessionNames \cup {Nowhere}]
  /\ executed \subseteq AskedSoFar /\ owed \subseteq AskedSoFar
  /\ leftRecord \subseteq SessionNames /\ shared \subseteq SessionNames

\* A record is one of a turn of its session.
IsHome(record, s) ==
  record # NoRecord => record.question \in AskedSoFar /\ home[record.question] = s

\* What the screen of a program says of its memory.
ScreensFit ==
  \A t \in Terminals :
    /\ IF Live(t) THEN at[t] \in SessionNames
                  ELSE at[t] = Nowhere /\ kept[t] = NoRecord /\ ~unsaved[t]
    /\ unsaved[t] => screen[t] = "prompt"
    /\ unsaved[t] \/ screen[t] = "working" =>
         kept[t] = NoRecord \/ at[t] \in shared \cup leftRecord
    /\ screen[t] = "answering" => kept[t] = NoRecord
    /\ screen[t] \in {"working", "answering"} =>
         current[t] \in AskedSoFar /\ home[current[t]] = at[t]
    /\ screen[t] = "approval" => kept[t] # NoRecord /\ kept[t].question = current[t]

RecordsAreHome ==
  /\ \A t \in Terminals : IsHome(kept[t], at[t])
  /\ \A s \in SessionNames : IsHome(records[s], s)

\* Two programs are at one session only if it is counted as shared.
Alone ==
  \A t, u \in Terminals : t # u /\ Live(t) /\ Live(u) /\ at[t] = at[u] => at[t] \in shared

\* The memory of a program that is alone at its session.
MemoryFits ==
  \A t \in Terminals : Live(t) /\ at[t] \notin shared =>
    /\ snapshots[at[t]] \subseteq history[t]
    /\ ~unsaved[t] => snapshots[at[t]] = history[t]
    /\ kept[t] # NoRecord => kept[t].base = snapshots[at[t]] \/ at[t] \in leftRecord
    /\ at[t] \notin leftRecord => records[at[t]] \in {NoRecord, kept[t]}

\* A turn that can be resumed, or still runs for the first time, was not executed.
NotYetExecuted ==
  /\ repeated = {}
  /\ \A s \in SessionNames \ shared : records[s].question \notin executed
  /\ \A t \in Terminals : Live(t) /\ at[t] \notin shared =>
       kept[t].question \notin executed /\ (screen[t] = "working" => current[t] \notin executed)

OwedAtHome == \A q \in owed : home[q] \in SessionNames \ shared

\* The inductive invariant of the command line.
CliInv ==
  /\ CliTypes /\ ScreensFit /\ RecordsAreHome /\ Alone /\ MemoryFits /\ NotYetExecuted
  /\ OwedAtHome /\ AnsweredIsSavedOrTold /\ OpensAgain

LEMMA RecordIs ==
  /\ NoRecord \in SavedRecords /\ NoRecord.question = 0
  /\ \A question \in Nat \ {0}, version \in SUBSET Nat, fits \in BOOLEAN :
       LET record == Record(question, version, fits)
       IN  record \in SavedRecords /\ record # NoRecord
           /\ record.question = question /\ record.base = version
BY DEF NoRecord, Record, SavedRecords

\* The questions so far are positive numbers below the bound.
LEMMA AskedAre ==
  ASSUME CliTypes
  PROVE  AskedSoFar \subseteq Questions /\ AskedSoFar \subseteq Nat \ {0} /\ asked \in Nat
BY CommandLineAssumption DEF CliTypes, AskedSoFar, Questions

\* The next screen.
LEMMA ShowGives ==
  ASSUME CliTypes, NEW t \in Terminals, NEW next \in Screens, Show(t, next)
  PROVE  /\ screen' \in [Terminals -> Screens] /\ screen'[t] = next
         /\ \A u \in Terminals : u # t => screen'[u] = screen[u] /\ Live(u)' = Live(u)
BY DEF CliTypes, Show, Live

\* _drive_turn begins a turn with a new question.
LEMMA CliAsks ==
  ASSUME CliInv, NEW t \in Terminals, AskQuestion(t)
  PROVE  CliInv'
<1>0. CliTypes /\ asked + 1 \in Nat /\ asked \in Nat
  BY AskedAre DEF CliInv
<1>1. /\ UNCHANGED <<snapshots, records, at, history, unsaved, kept, owed, executed, repeated,
                     leftRecord, shared>>
      /\ screen[t] = "prompt" /\ ~unsaved[t] /\ kept[t] = NoRecord
      /\ asked < MaxQuestions /\ asked' = asked + 1
      /\ home' = [home EXCEPT ![asked + 1] = at[t]]
      /\ current' = [current EXCEPT ![t] = asked + 1] /\ Show(t, "working")
  <2>1. screen[t] = "prompt" /\ ~unsaved[t] /\ kept[t] = NoRecord /\ asked < MaxQuestions
    BY DEF AskQuestion, AtPrompt
  <2>2. QED BY <2>1 DEF AskQuestion, fileVars
<1>2. /\ asked' \in 0..MaxQuestions /\ asked + 1 \in Questions
      /\ AskedSoFar' = AskedSoFar \cup {asked + 1} /\ asked + 1 \notin AskedSoFar
      /\ AskedSoFar \subseteq Questions
  BY <1>0, <1>1, AskedAre, CommandLineAssumption DEF AskedSoFar, Questions, CliTypes
<1>3. /\ home' \in [Questions -> SessionNames \cup {Nowhere}] /\ home'[asked + 1] = at[t]
      /\ \A q \in AskedSoFar : home'[q] = home[q]
  BY <1>0, <1>1, <1>2 DEF CliTypes
<1>4. /\ current' \in [Terminals -> Nat] /\ current'[t] = asked + 1
      /\ \A u \in Terminals : u # t => current'[u] = current[u]
  BY <1>0, <1>1 DEF CliTypes
<1>5. /\ screen' \in [Terminals -> Screens] /\ screen'[t] = "working"
      /\ \A u \in Terminals : u # t => screen'[u] = screen[u]
      /\ \A u \in Terminals : Live(u)' = Live(u)
  <2>1. "working" \in Screens
    BY DEF Screens
  <2>2. QED BY <1>0, <1>1, <2>1, ShowGives DEF Live
<1>6. CliTypes'
  BY <1>0, <1>1, <1>2, <1>3, <1>4, <1>5 DEF CliTypes
<1>7. ScreensFit'
  BY <1>1, <1>2, <1>3, <1>4, <1>5 DEF CliInv, ScreensFit, Live
<1>8. RecordsAreHome'
  BY <1>1, <1>2, <1>3 DEF CliInv, RecordsAreHome, IsHome
<1>9. Alone' /\ MemoryFits'
  BY <1>1, <1>5 DEF CliInv, Alone, MemoryFits
<1>10. NotYetExecuted'
  <2>1. asked + 1 \notin executed
    BY <1>0, <1>2 DEF CliTypes
  <2>2. QED BY <1>1, <1>4, <1>5, <2>1 DEF CliInv, NotYetExecuted
<1>11. OwedAtHome' /\ AnsweredIsSavedOrTold'
  BY <1>0, <1>1, <1>3 DEF CliInv, CliTypes, OwedAtHome, AnsweredIsSavedOrTold
<1>12. OpensAgain'
  BY <1>1 DEF CliInv, OpensAgain, Opens, Restores
<1>13. QED BY <1>6, <1>7, <1>8, <1>9, <1>10, <1>11, <1>12 DEF CliInv

\* The preview of a turn of this session is shown, or its record stays in memory.
LEMMA CliShows ==
  ASSUME CliInv, NEW t \in Terminals, NEW record \in SavedRecords, ShowPreview(t, record),
         Live(t), ~unsaved[t], record # NoRecord, IsHome(record, at[t]),
         kept[t] \in {NoRecord, record} \/ at[t] \in shared \cup leftRecord,
         at[t] \notin shared => record.question \notin executed /\ record.base = snapshots[at[t]]
  PROVE  CliInv'
<1>0. CliTypes /\ AskedSoFar \subseteq Nat \ {0} /\ at[t] \in SessionNames
  BY AskedAre DEF CliInv, ScreensFit
<1>1. /\ UNCHANGED <<snapshots, at, history, unsaved, asked, home, owed, executed, repeated,
                     shared, AskedSoFar>>
      /\ kept' \in [Terminals -> SavedRecords] /\ kept'[t] = record
      /\ \A u \in Terminals : u # t => kept'[u] = kept[u]
  BY <1>0 DEF ShowPreview, AskedSoFar, CliTypes
<1>2. record.question \in AskedSoFar /\ record.question \in Nat /\ home[record.question] = at[t]
  BY <1>0 DEF IsHome
<1>3. /\ records' \in [SessionNames -> SavedRecords]
      /\ \/ records'[at[t]] = record /\ leftRecord' = leftRecord \ {at[t]}
         \/ records'[at[t]] = records[at[t]] /\ leftRecord' = leftRecord
      /\ \A s \in SessionNames : s # at[t] => records'[s] = records[s]
      /\ screen'[t] = "approval" => records'[at[t]] = record /\ current'[t] = record.question
  BY <1>0 DEF ShowPreview, Prompt, Show, CliTypes
<1>4. /\ screen' \in [Terminals -> Screens] /\ screen'[t] \in {"approval", "prompt"}
      /\ \A u \in Terminals : u # t => screen'[u] = screen[u]
      /\ \A u \in Terminals : Live(u)' = Live(u)
  <2>1. "approval" \in Screens /\ "prompt" \in Screens
    BY DEF Screens
  <2>2. QED BY <1>0, <2>1, ShowGives DEF Live, ShowPreview, Prompt
<1>5. /\ current' \in [Terminals -> Nat]
      /\ \A u \in Terminals : u # t => current'[u] = current[u]
  BY <1>0, <1>2 DEF ShowPreview, Prompt, CliTypes
<1>6. CliTypes'
  BY <1>0, <1>1, <1>3, <1>4, <1>5 DEF CliTypes
<1>7. ScreensFit'
  <2>1. ASSUME NEW u \in Terminals, u # t, Live(u)
        PROVE  at[u] # at[t] \/ at[u] \in shared
    BY <1>0, <2>1 DEF CliInv, Alone
  <2>2. \A u \in Terminals : u # t /\ Live(u) =>
          (at[u] \in shared \cup leftRecord => at[u] \in shared' \cup leftRecord')
    BY <1>1, <1>3, <2>1
  <2>3. QED BY <1>0, <1>1, <1>3, <1>4, <1>5, <2>2 DEF CliInv, ScreensFit, Live
<1>8. RecordsAreHome'
  BY <1>0, <1>1, <1>2, <1>3 DEF CliInv, RecordsAreHome, IsHome
<1>9. Alone'
  BY <1>1, <1>4 DEF CliInv, Alone
<1>10. MemoryFits'
  <2>1. ASSUME NEW u \in Terminals, Live(u), at[u] \notin shared, u # t
        PROVE  at[u] # at[t] /\ at[u] \in SessionNames
    BY <2>1 DEF CliInv, Alone, ScreensFit
  <2>2. QED BY <1>0, <1>1, <1>3, <1>4, <2>1 DEF CliInv, MemoryFits
<1>11. NotYetExecuted'
  BY <1>0, <1>1, <1>3, <1>4, <1>5 DEF CliInv, NotYetExecuted
<1>12. OwedAtHome' /\ AnsweredIsSavedOrTold'
  BY <1>1 DEF CliInv, OwedAtHome, AnsweredIsSavedOrTold
<1>13. OpensAgain'
  BY <1>0, <1>1, <1>3 DEF CliInv, OpensAgain, Opens, Restores
<1>14. QED BY <1>6, <1>7, <1>8, <1>9, <1>10, <1>11, <1>12, <1>13 DEF CliInv

\* A turn asks for approval, or its approval is resumed.
LEMMA CliPreviews ==
  ASSUME CliInv, NEW t \in Terminals, AskForApproval(t) \/ ResumeTurn(t)
  PROVE  CliInv'
<1>0. CliTypes /\ AskedSoFar \subseteq Nat \ {0}
  BY AskedAre DEF CliInv
<1>1. CASE AskForApproval(t)
  <2>0. PICK fits \in BOOLEAN : ShowPreview(t, Record(current[t], history[t], fits))
    BY <1>1 DEF AskForApproval
  <2> DEFINE record == Record(current[t], history[t], fits)
  <2>1. /\ screen[t] = "working" /\ Live(t) /\ ~unsaved[t]
        /\ kept[t] = NoRecord \/ at[t] \in shared \cup leftRecord
        /\ current[t] \in AskedSoFar /\ home[current[t]] = at[t] /\ at[t] \in SessionNames
    BY <1>1 DEF AskForApproval, CliInv, ScreensFit, Live
  <2>2. current[t] \in Nat \ {0} /\ history[t] \in SUBSET Nat
    BY <1>0, <2>1 DEF CliTypes
  <2>3. /\ record \in SavedRecords /\ record # NoRecord
        /\ record.question = current[t] /\ record.base = history[t]
    BY <2>2, RecordIs
  <2>4. at[t] \notin shared => current[t] \notin executed /\ history[t] = snapshots[at[t]]
    BY <2>1 DEF CliInv, MemoryFits, NotYetExecuted
  <2>5. ShowPreview(t, record)
    BY <2>0
  <2>6. IsHome(record, at[t])
    BY <2>1, <2>3 DEF IsHome
  <2> HIDE DEF record
  <2>7. QED BY <2>1, <2>3, <2>4, <2>5, <2>6, CliShows
<1>2. CASE ResumeTurn(t)
  <2>1. /\ screen[t] = "prompt" /\ ~unsaved[t] /\ kept[t] # NoRecord
        /\ kept[t].base = history[t] /\ ShowPreview(t, kept[t])
    BY <1>2 DEF ResumeTurn, Resumable, AtPrompt, Restores
  <2>2. Live(t) /\ kept[t] \in SavedRecords /\ IsHome(kept[t], at[t])
    BY <1>0, <2>1 DEF CliInv, CliTypes, RecordsAreHome, Live
  <2>3. at[t] \notin shared => kept[t].question \notin executed /\ kept[t].base = snapshots[at[t]]
    BY <2>1, <2>2 DEF CliInv, MemoryFits, NotYetExecuted
  <2>4. QED BY <2>1, <2>2, <2>3, CliShows
<1>3. QED BY <1>1, <1>2

\* A turn is resumed and goes on without a preview.
LEMMA CliGoesOn ==
  ASSUME CliInv, NEW t \in Terminals, ResumeUnprepared(t)
  PROVE  CliInv'
<1> DEFINE q == kept[t].question
<1>0. CliTypes /\ AskedSoFar \subseteq Nat \ {0}
  BY AskedAre DEF CliInv
<1>1. /\ Live(t) /\ ~unsaved[t] /\ kept[t] # NoRecord /\ at[t] \in SessionNames
      /\ q \in AskedSoFar /\ home[q] = at[t] /\ q \in Nat
  <2>1. Live(t) /\ ~unsaved[t] /\ kept[t] # NoRecord
    BY DEF ResumeUnprepared, Resumable, AtPrompt, Live
  <2>2. at[t] \in SessionNames
    BY <2>1 DEF CliInv, ScreensFit
  <2>3. QED BY <1>0, <2>1, <2>2 DEF CliInv, RecordsAreHome, IsHome
<1>2. /\ UNCHANGED <<snapshots, records, at, history, unsaved, kept, asked, home, owed,
                     executed, repeated, shared, AskedSoFar>>
      /\ leftRecord' = leftRecord \cup {at[t]}
      /\ current' = [current EXCEPT ![t] = q] /\ Show(t, "working")
  BY DEF ResumeUnprepared, fileVars, countsVars, AskedSoFar
<1>3. /\ current' \in [Terminals -> Nat] /\ current'[t] = q
      /\ \A u \in Terminals : u # t => current'[u] = current[u]
  BY <1>0, <1>1, <1>2 DEF CliTypes
<1>4. /\ screen' \in [Terminals -> Screens] /\ screen'[t] = "working"
      /\ \A u \in Terminals : u # t => screen'[u] = screen[u]
      /\ \A u \in Terminals : Live(u)' = Live(u)
  <2>1. "working" \in Screens
    BY DEF Screens
  <2>2. QED BY <1>0, <1>1, <1>2, <2>1, ShowGives DEF Live
<1>5. CliTypes'
  BY <1>0, <1>1, <1>2, <1>3, <1>4 DEF CliTypes
<1>6. ScreensFit'
  BY <1>1, <1>2, <1>3, <1>4 DEF CliInv, ScreensFit, Live
<1>7. RecordsAreHome' /\ Alone'
  BY <1>2, <1>4 DEF CliInv, RecordsAreHome, IsHome, Alone
<1>8. MemoryFits'
  BY <1>2, <1>4 DEF CliInv, MemoryFits
<1>9. NotYetExecuted'
  BY <1>1, <1>2, <1>3, <1>4 DEF CliInv, NotYetExecuted
<1>10. OwedAtHome' /\ AnsweredIsSavedOrTold'
  BY <1>2 DEF CliInv, OwedAtHome, AnsweredIsSavedOrTold
<1>11. OpensAgain'
  BY <1>2 DEF CliInv, OpensAgain, Opens, Restores
<1>12. QED BY <1>5, <1>6, <1>7, <1>8, <1>9, <1>10, <1>11 DEF CliInv

\* The answer to a preview takes the record from memory, and from the file or not at all.
LEMMA CliAnswers ==
  ASSUME CliInv, NEW t \in Terminals, NEW yes \in BOOLEAN, AnswerPreview(t, yes)
  PROVE  CliInv'
<1> DEFINE s == at[t]
           q == current[t]
<1>0. CliTypes /\ AskedSoFar \subseteq Nat \ {0} /\ NoRecord \in SavedRecords /\ NoRecord.question = 0
  BY AskedAre, RecordIs DEF CliInv
<1>1. /\ screen[t] = "approval" /\ Live(t) /\ ~unsaved[t] /\ s \in SessionNames
      /\ kept[t] # NoRecord /\ kept[t].question = q
  BY DEF AnswerPreview, CliInv, ScreensFit, Live
<1>2. q \in AskedSoFar /\ home[q] = s
  BY <1>1 DEF CliInv, RecordsAreHome, IsHome
<1>3. s \notin shared => q \notin executed
  BY <1>1 DEF CliInv, NotYetExecuted
<1>4. /\ UNCHANGED <<snapshots, at, history, unsaved, asked, home, owed, shared, AskedSoFar>>
      /\ kept' \in [Terminals -> SavedRecords] /\ kept'[t] = NoRecord
      /\ \A u \in Terminals : u # t => kept'[u] = kept[u]
  BY <1>0 DEF AnswerPreview, AskedSoFar, CliTypes
<1>5. /\ records' \in [SessionNames -> SavedRecords]
      /\ records'[s] = NoRecord \/ (records'[s] = records[s] /\ s \in leftRecord')
      /\ \A r \in SessionNames : r # s => records'[r] = records[r]
  BY <1>0, <1>1 DEF AnswerPreview, CliTypes
<1>6. leftRecord' = leftRecord \ {s} \/ leftRecord' = leftRecord \cup {s}
  BY DEF AnswerPreview
<1>7. /\ screen' \in [Terminals -> Screens] /\ screen'[t] \in {"answering", "prompt"}
      /\ \A u \in Terminals : u # t => screen'[u] = screen[u]
      /\ \A u \in Terminals : Live(u)' = Live(u)
  <2>1. "answering" \in Screens /\ "prompt" \in Screens
    BY DEF Screens
  <2>2. QED BY <1>0, <1>1, <2>1, ShowGives DEF Live, AnswerPreview, Prompt
<1>8. /\ current' \in [Terminals -> Nat]
      /\ screen'[t] = "answering" => current'[t] = q
      /\ \A u \in Terminals : u # t => current'[u] = current[u]
  BY <1>0 DEF AnswerPreview, Prompt, Show, CliTypes
<1>9. \/ executed' = executed
      \/ executed' = executed \cup {q} /\ s \notin shared /\ records'[s] = NoRecord
  BY <1>0, <1>1 DEF AnswerPreview, ExecuteCall, CliTypes
<1>10. repeated' = {}
  BY <1>3 DEF AnswerPreview, ExecuteCall, CliInv, NotYetExecuted
<1>11. CliTypes'
  BY <1>0, <1>1, <1>2, <1>4, <1>5, <1>6, <1>7, <1>8, <1>9 DEF CliTypes
<1>12. ScreensFit'
  <2>1. ASSUME NEW u \in Terminals, u # t, Live(u)
        PROVE  at[u] # at[t] \/ at[u] \in shared
    BY <1>1, <2>1 DEF CliInv, Alone
  <2>2. \A u \in Terminals : u # t /\ Live(u) =>
          (at[u] \in shared \cup leftRecord => at[u] \in shared' \cup leftRecord')
    BY <1>4, <1>6, <2>1
  <2>3. QED BY <1>1, <1>2, <1>4, <1>7, <1>8, <2>2 DEF CliInv, ScreensFit, Live
<1>13. RecordsAreHome'
  BY <1>1, <1>4, <1>5 DEF CliInv, RecordsAreHome, IsHome
<1>14. Alone'
  BY <1>4, <1>7 DEF CliInv, Alone
<1>15. MemoryFits'
  <2>1. ASSUME NEW u \in Terminals, Live(u), at[u] \notin shared, u # t
        PROVE  at[u] # s /\ at[u] \in SessionNames
    BY <1>1, <2>1 DEF CliInv, Alone, ScreensFit
  <2>2. QED BY <1>0, <1>1, <1>4, <1>5, <1>6, <1>7, <2>1 DEF CliInv, MemoryFits
<1>16. NotYetExecuted'
  <2>1. CASE executed' = executed
    BY <1>0, <1>1, <1>4, <1>5, <1>7, <1>8, <1>10, <2>1 DEF CliInv, NotYetExecuted, CliTypes
  <2>2. CASE executed' = executed \cup {q} /\ s \notin shared /\ records'[s] = NoRecord
    <3>1. ASSUME NEW r \in SessionNames \ shared PROVE records'[r].question \notin executed'
      <4>1. CASE records'[r] = NoRecord
        BY <1>0, <1>2, <2>2, <4>1 DEF CliTypes
      <4>2. CASE records'[r] # NoRecord /\ r # s
        BY <1>2, <1>5, <2>2, <3>1, <4>2 DEF CliInv, NotYetExecuted, RecordsAreHome, IsHome
      <4>3. QED BY <2>2, <4>1, <4>2
    <3>2. ASSUME NEW u \in Terminals, Live(u), at[u] \notin shared
          PROVE  /\ kept'[u].question \notin executed'
                 /\ screen'[u] = "working" => current'[u] \notin executed'
      <4>1. CASE u = t
        BY <1>0, <1>2, <1>4, <1>7, <2>2, <4>1 DEF CliTypes
      <4>2. CASE u # t
        <5>1. at[u] # s
          BY <1>1, <3>2, <4>2 DEF CliInv, Alone
        <5>2. kept[u].question # q
          BY <1>0, <1>2, <5>1 DEF CliInv, RecordsAreHome, IsHome
        <5>3. screen[u] = "working" => current[u] # q
          BY <1>2, <5>1 DEF CliInv, ScreensFit
        <5>4. QED BY <1>4, <1>7, <1>8, <2>2, <3>2, <4>2, <5>2, <5>3 DEF CliInv, NotYetExecuted
      <4>3. QED BY <4>1, <4>2
    <3>3. QED BY <1>4, <1>7, <1>10, <3>1, <3>2 DEF NotYetExecuted
  <2>3. QED BY <1>9, <2>1, <2>2
<1>17. OwedAtHome' /\ AnsweredIsSavedOrTold'
  BY <1>4 DEF CliInv, OwedAtHome, AnsweredIsSavedOrTold
<1>18. OpensAgain'
  BY <1>1, <1>4, <1>5, <1>6 DEF CliInv, OpensAgain, Opens, Restores
<1>19. QED BY <1>11, <1>12, <1>13, <1>14, <1>15, <1>16, <1>17, <1>18 DEF CliInv

\* A turn is answered; its session is saved, or the program keeps what is unsaved.
LEMMA CliSaves ==
  ASSUME CliInv, NEW t \in Terminals, AnswerTurn(t)
  PROVE  CliInv'
<1> DEFINE s == at[t]
           q == current[t]
<1>0. CliTypes
  BY DEF CliInv
<1>1. /\ Live(t) /\ ~unsaved[t] /\ s \in SessionNames
      /\ kept[t] = NoRecord \/ s \in shared \cup leftRecord
      /\ q \in AskedSoFar /\ home[q] = s
  BY DEF AnswerTurn, CliInv, ScreensFit, Live
<1>2. /\ UNCHANGED <<records, at, kept, asked, home, executed, repeated, leftRecord, shared,
                     AskedSoFar>>
      /\ history' \in [Terminals -> SUBSET AskedSoFar] /\ history'[t] = history[t] \cup {q}
      /\ \A u \in Terminals : u # t => history'[u] = history[u]
  BY <1>0, <1>1 DEF AnswerTurn, AskedSoFar, CliTypes
<1>3. owed \subseteq owed' /\ owed' \subseteq owed \cup {q} /\ (s \in shared => owed' = owed)
  BY DEF AnswerTurn
<1>4. /\ screen' \in [Terminals -> Screens] /\ screen'[t] = "prompt"
      /\ \A u \in Terminals : u # t => screen'[u] = screen[u]
      /\ \A u \in Terminals : Live(u)' = Live(u)
  <2>1. "prompt" \in Screens
    BY DEF Screens
  <2>2. QED BY <1>0, <1>1, <2>1, ShowGives DEF Live, AnswerTurn, Prompt
<1>5. current' \in [Terminals -> Nat] /\ \A u \in Terminals : u # t => current'[u] = current[u]
  BY <1>0 DEF AnswerTurn, Prompt, CliTypes
<1>6. /\ snapshots' \in [SessionNames -> SUBSET AskedSoFar]
      /\ \A r \in SessionNames : r # s => snapshots'[r] = snapshots[r]
      /\ unsaved' \in [Terminals -> BOOLEAN]
      /\ \A u \in Terminals : u # t => unsaved'[u] = unsaved[u]
      /\ \/ snapshots'[s] = history'[t] /\ ~unsaved'[t]
         \/ snapshots'[s] = snapshots[s] /\ unsaved'[t]
  <2>1. CASE snapshots' = [snapshots EXCEPT ![s] = history'[t]] /\ unsaved' = unsaved
    BY <1>0, <1>1, <1>2, <2>1 DEF CliTypes
  <2>2. CASE unsaved' = [unsaved EXCEPT ![t] = TRUE] /\ snapshots' = snapshots
    BY <1>0, <1>1, <2>2 DEF CliTypes
  <2>3. QED BY <2>1, <2>2 DEF AnswerTurn
<1>7. CliTypes'
  BY <1>0, <1>1, <1>2, <1>3, <1>4, <1>5, <1>6 DEF CliTypes
<1>8. ScreensFit'
  BY <1>1, <1>2, <1>4, <1>5, <1>6 DEF CliInv, ScreensFit, Live
<1>9. RecordsAreHome' /\ Alone'
  BY <1>2, <1>4 DEF CliInv, RecordsAreHome, IsHome, Alone
<1>10. ASSUME NEW u \in Terminals, Live(u), at[u] \notin shared, u # t
       PROVE  at[u] # s /\ at[u] \in SessionNames
  BY <1>1, <1>10 DEF CliInv, Alone, ScreensFit
<1>11. s \notin shared => snapshots[s] = history[t]
  BY <1>1 DEF CliInv, MemoryFits
<1>12. MemoryFits'
  <2>1. ASSUME NEW u \in Terminals, Live(u), at[u] \notin shared
        PROVE  /\ snapshots'[at[u]] \subseteq history'[u]
               /\ ~unsaved'[u] => snapshots'[at[u]] = history'[u]
               /\ kept[u] # NoRecord => kept[u].base = snapshots'[at[u]] \/ at[u] \in leftRecord
               /\ at[u] \notin leftRecord => records[at[u]] \in {NoRecord, kept[u]}
    <3>1. CASE u = t
      <4>1. at[t] \notin leftRecord => records[at[t]] \in {NoRecord, kept[t]}
        BY <1>1, <2>1, <3>1 DEF CliInv, MemoryFits
      <4>2. QED BY <1>1, <1>2, <1>6, <1>11, <2>1, <3>1, <4>1
    <3>2. CASE u # t
      <4>1. /\ snapshots'[at[u]] = snapshots[at[u]] /\ history'[u] = history[u]
            /\ unsaved'[u] = unsaved[u]
        BY <1>2, <1>6, <1>10, <2>1, <3>2
      <4>2. QED BY <2>1, <4>1 DEF CliInv, MemoryFits
    <3>3. QED BY <3>1, <3>2
  <2>2. QED BY <1>2, <1>4, <2>1 DEF MemoryFits
<1>13. NotYetExecuted'
  BY <1>1, <1>2, <1>4, <1>5 DEF CliInv, NotYetExecuted
<1>14. OwedAtHome'
  BY <1>1, <1>2, <1>3 DEF CliInv, OwedAtHome
<1>15. AnsweredIsSavedOrTold'
  <2>1. ASSUME NEW p \in owed', home[p] = s
        PROVE  p \in snapshots'[s] \/ (p \in history'[t] /\ unsaved'[t])
    <3>1. p \in owed \/ p = q
      BY <1>3, <2>1
    <3>2. s \notin shared
      BY <1>1, <1>2, <1>14, <2>1 DEF OwedAtHome
    <3>3. p \in owed => p \in snapshots[s] \/ \E u \in Terminals : at[u] = s /\ p \in history[u] /\ unsaved[u]
      BY <2>1 DEF CliInv, AnsweredIsSavedOrTold
    <3>4. \A u \in Terminals : at[u] = s /\ unsaved[u] => u = t
      BY <1>10, <3>2 DEF CliInv, ScreensFit, Live
    <3>5. QED BY <1>2, <1>6, <1>11, <3>1, <3>2, <3>3, <3>4
  <2>2. ASSUME NEW p \in owed', home[p] # s
        PROVE  \/ p \in snapshots'[home[p]]
               \/ \E u \in Terminals : at[u] = home[p] /\ p \in history'[u] /\ unsaved'[u]
    <3>1. p \in owed /\ home[p] \in SessionNames
      BY <1>1, <1>3, <2>2 DEF CliInv, OwedAtHome
    <3>2. QED BY <1>2, <1>6, <2>2, <3>1 DEF CliInv, AnsweredIsSavedOrTold
  <2>3. QED BY <1>2, <2>1, <2>2 DEF AnsweredIsSavedOrTold
<1>16. OpensAgain'
  <2>1. s \in shared \cup leftRecord \/ records[s] = NoRecord
    BY <1>1 DEF CliInv, MemoryFits
  <2>2. QED BY <1>2, <1>6, <2>1 DEF CliInv, OpensAgain, Opens, Restores
<1>17. QED BY <1>7, <1>8, <1>9, <1>12, <1>13, <1>14, <1>15, <1>16 DEF CliInv

\* A turn ends without an answer, or what is unsaved is saved at last.
LEMMA CliStopsOrRetries ==
  ASSUME CliInv, NEW t \in Terminals, StopTurn(t) \/ Retry(t)
  PROVE  CliInv'
<1> DEFINE s == at[t]
<1>0. /\ CliTypes /\ Live(t) /\ s \in SessionNames
      /\ kept[t] = NoRecord \/ s \in shared \cup leftRecord
  BY DEF StopTurn, Retry, CliInv, ScreensFit, Live
<1>1. /\ UNCHANGED <<records, at, history, kept, asked, home, owed, executed, repeated,
                     leftRecord, shared, AskedSoFar>>
  BY DEF StopTurn, Retry, fileVars, countsVars, watchVars, AskedSoFar
<1>2. /\ screen' \in [Terminals -> Screens] /\ screen'[t] = "prompt"
      /\ \A u \in Terminals : u # t => screen'[u] = screen[u]
      /\ \A u \in Terminals : Live(u)' = Live(u)
  <2>1. CASE StopTurn(t)
    <3>1. "prompt" \in Screens /\ Show(t, "prompt")
      BY <2>1 DEF Screens, StopTurn, Prompt
    <3>2. QED BY <1>0, <3>1, ShowGives DEF Live
  <2>2. CASE Retry(t)
    BY <1>0, <2>2 DEF Retry, Live, CliTypes
  <2>3. QED BY <2>1, <2>2
<1>3. current' \in [Terminals -> Nat] /\ \A u \in Terminals : u # t => current'[u] = current[u]
  BY <1>0 DEF StopTurn, Retry, Prompt, CliTypes
<1>4. /\ snapshots' \in [SessionNames -> SUBSET AskedSoFar]
      /\ \A r \in SessionNames : r # s => snapshots'[r] = snapshots[r]
      /\ unsaved' \in [Terminals -> BOOLEAN]
      /\ \A u \in Terminals : u # t => unsaved'[u] = unsaved[u]
      /\ \/ snapshots'[s] = history[t] /\ ~unsaved'[t]
         \/ snapshots'[s] = snapshots[s] /\ unsaved'[t] = unsaved[t]
  <2>1. CASE snapshots' = [snapshots EXCEPT ![s] = history[t]] /\ unsaved' = [unsaved EXCEPT ![t] = FALSE]
    BY <1>0, <2>1 DEF CliTypes
  <2>2. CASE unsaved' = unsaved /\ snapshots' = snapshots
    BY <1>0, <2>2 DEF CliTypes
  <2>3. QED BY <2>1, <2>2 DEF StopTurn, Retry, fileVars
<1>5. CliTypes'
  BY <1>0, <1>1, <1>2, <1>3, <1>4 DEF CliTypes
<1>6. ScreensFit'
  BY <1>0, <1>1, <1>2, <1>3, <1>4 DEF CliInv, ScreensFit, Live
<1>7. RecordsAreHome' /\ Alone'
  BY <1>1, <1>2 DEF CliInv, RecordsAreHome, IsHome, Alone
<1>8. ASSUME NEW u \in Terminals, Live(u), at[u] \notin shared, u # t
      PROVE  at[u] # s /\ at[u] \in SessionNames
  BY <1>0, <1>8 DEF CliInv, Alone, ScreensFit
<1>9. s \notin shared => snapshots[s] \subseteq history[t] /\ (~unsaved[t] => snapshots[s] = history[t])
  BY <1>0 DEF CliInv, MemoryFits
<1>10. MemoryFits'
  <2>1. ASSUME NEW u \in Terminals, Live(u), at[u] \notin shared
        PROVE  /\ snapshots'[at[u]] \subseteq history[u]
               /\ ~unsaved'[u] => snapshots'[at[u]] = history[u]
               /\ kept[u] # NoRecord => kept[u].base = snapshots'[at[u]] \/ at[u] \in leftRecord
               /\ at[u] \notin leftRecord => records[at[u]] \in {NoRecord, kept[u]}
    <3>1. CASE u = t
      <4>1. at[t] \notin leftRecord => records[at[t]] \in {NoRecord, kept[t]}
        BY <1>0, <2>1, <3>1 DEF CliInv, MemoryFits
      <4>2. QED BY <1>0, <1>4, <1>9, <2>1, <3>1, <4>1
    <3>2. CASE u # t
      <4>1. snapshots'[at[u]] = snapshots[at[u]] /\ unsaved'[u] = unsaved[u]
        BY <1>4, <1>8, <2>1, <3>2
      <4>2. QED BY <2>1, <4>1 DEF CliInv, MemoryFits
    <3>3. QED BY <3>1, <3>2
  <2>2. QED BY <1>1, <1>2, <2>1 DEF MemoryFits
<1>11. NotYetExecuted'
  BY <1>0, <1>1, <1>2, <1>3 DEF CliInv, NotYetExecuted
<1>12. OwedAtHome'
  BY <1>1 DEF CliInv, OwedAtHome
<1>13. AnsweredIsSavedOrTold'
  <2>1. ASSUME NEW p \in owed, home[p] = s
        PROVE  p \in snapshots'[s] \/ (p \in history[t] /\ unsaved'[t])
    <3>1. s \notin shared
      BY <2>1 DEF CliInv, OwedAtHome
    <3>2. p \in snapshots[s] \/ \E u \in Terminals : at[u] = s /\ p \in history[u] /\ unsaved[u]
      BY <2>1 DEF CliInv, AnsweredIsSavedOrTold
    <3>3. \A u \in Terminals : at[u] = s /\ unsaved[u] => u = t
      BY <1>8, <3>1 DEF CliInv, ScreensFit, Live
    <3>4. QED BY <1>4, <1>9, <3>1, <3>2, <3>3
  <2>2. ASSUME NEW p \in owed, home[p] # s
        PROVE  \/ p \in snapshots'[home[p]]
               \/ \E u \in Terminals : at[u] = home[p] /\ p \in history[u] /\ unsaved'[u]
    <3>1. home[p] \in SessionNames
      BY <2>2 DEF CliInv, OwedAtHome
    <3>2. QED BY <1>4, <2>2, <3>1 DEF CliInv, AnsweredIsSavedOrTold
  <2>3. QED BY <1>0, <1>1, <2>1, <2>2 DEF AnsweredIsSavedOrTold
<1>14. OpensAgain'
  <2>1. s \in shared \cup leftRecord \/ records[s] = NoRecord
    BY <1>0 DEF CliInv, MemoryFits
  <2>2. QED BY <1>1, <1>4, <2>1 DEF CliInv, OpensAgain, Opens, Restores
<1>15. QED BY <1>5, <1>6, <1>7, <1>10, <1>11, <1>12, <1>13, <1>14 DEF CliInv

\* main and :switch open a session from its files.
LEMMA CliOpens ==
  ASSUME CliInv, NEW t \in Terminals, NEW s \in SessionNames, Launch(t, s) \/ Switch(t, s)
  PROVE  CliInv'
<1>0. CliTypes /\ ~unsaved[t] /\ Opens(s)
  BY DEF Launch, Switch, AtPrompt, CliInv, ScreensFit
<1>1. /\ UNCHANGED <<snapshots, records, unsaved, current, asked, home, executed, repeated,
                     leftRecord, AskedSoFar>>
      /\ OpenAt(t, s)
  BY DEF Launch, Switch, fileVars, countsVars, AskedSoFar
<1>2. /\ screen' \in [Terminals -> Screens] /\ screen'[t] = "prompt"
      /\ \A u \in Terminals : u # t => screen'[u] = screen[u] /\ Live(u)' = Live(u)
      /\ Live(t)'
  <2>1. CASE Launch(t, s)
    <3>1. "prompt" \in Screens /\ Show(t, "prompt")
      BY <2>1 DEF Screens, Launch
    <3>2. QED BY <1>0, <3>1, ShowGives DEF Live
  <2>2. CASE Switch(t, s)
    BY <1>0, <2>2 DEF Switch, AtPrompt, Live, CliTypes
  <2>3. QED BY <2>1, <2>2
<1>3. /\ at' \in [Terminals -> SessionNames \cup {Nowhere}] /\ at'[t] = s
      /\ history' \in [Terminals -> SUBSET AskedSoFar] /\ history'[t] = snapshots[s]
      /\ kept' \in [Terminals -> SavedRecords] /\ kept'[t] = records[s]
      /\ \A u \in Terminals : u # t =>
           at'[u] = at[u] /\ history'[u] = history[u] /\ kept'[u] = kept[u]
  BY <1>0, <1>1 DEF OpenAt, CliTypes
<1>4. /\ shared \subseteq shared' /\ shared' \subseteq SessionNames
      /\ \A u \in Terminals \ {t} : Live(u) /\ at[u] = s => s \in shared'
      /\ owed' = {q \in owed : home[q] \notin shared'}
  BY <1>0, <1>1 DEF OpenAt, OpenIn, StillOwed, CliTypes
<1>5. CliTypes'
  BY <1>0, <1>1, <1>2, <1>3, <1>4 DEF CliTypes
<1>6. IsHome(records[s], s)
  BY DEF CliInv, RecordsAreHome
<1>7. ScreensFit'
  BY <1>0, <1>1, <1>2, <1>3, <1>4 DEF CliInv, ScreensFit, Live
<1>8. RecordsAreHome'
  BY <1>1, <1>3, <1>6 DEF CliInv, RecordsAreHome, IsHome
<1>9. Alone'
  BY <1>2, <1>3, <1>4 DEF CliInv, Alone
<1>10. MemoryFits'
  <2>1. records[s] # NoRecord => records[s].base = snapshots[s]
    BY <1>0 DEF Opens, Restores
  <2>2. QED BY <1>1, <1>2, <1>3, <1>4, <2>1 DEF CliInv, MemoryFits
<1>11. NotYetExecuted'
  BY <1>1, <1>2, <1>3, <1>4 DEF CliInv, NotYetExecuted
<1>12. OwedAtHome'
  BY <1>1, <1>4 DEF CliInv, OwedAtHome
<1>13. AnsweredIsSavedOrTold'
  BY <1>0, <1>1, <1>3, <1>4 DEF CliInv, AnsweredIsSavedOrTold
<1>14. OpensAgain'
  BY <1>1, <1>4 DEF CliInv, OpensAgain, Opens, Restores
<1>15. QED BY <1>5, <1>7, <1>8, <1>9, <1>10, <1>11, <1>12, <1>13, <1>14 DEF CliInv

\* :delete of another session, whose record may be left.
LEMMA CliDeletes ==
  ASSUME CliInv, NEW t \in Terminals, NEW s \in SessionNames, Delete(t, s)
  PROVE  CliInv'
<1>0. CliTypes /\ Live(t) /\ at[t] # s /\ NoRecord \in SavedRecords /\ NoRecord.question = 0
  BY RecordIs DEF CliInv, Delete, AtPrompt, Live
<1>1. UNCHANGED <<at, screen, history, unsaved, kept, current, asked, home, executed, repeated,
                  AskedSoFar>>
  BY DEF Delete, AskedSoFar
<1>2. /\ snapshots' \in [SessionNames -> SUBSET AskedSoFar] /\ snapshots'[s] = {}
      /\ \A r \in SessionNames : r # s => snapshots'[r] = snapshots[r]
  BY <1>0 DEF Delete, CliTypes
<1>3. /\ records' \in [SessionNames -> SavedRecords]
      /\ records'[s] = NoRecord \/ (records'[s] = records[s] /\ s \in leftRecord')
      /\ \A r \in SessionNames : r # s => records'[r] = records[r]
      /\ leftRecord \ {s} \subseteq leftRecord' /\ leftRecord' \subseteq SessionNames
  BY <1>0 DEF Delete, CliTypes
<1>4. /\ shared \subseteq shared' /\ shared' \subseteq SessionNames
      /\ \A u \in Terminals : Live(u) /\ at[u] = s => s \in shared'
      /\ owed' = {q \in owed : home[q] \notin shared' \cup {s}}
  BY <1>0 DEF Delete, OpenIn, StillOwed, CliTypes
<1>5. CliTypes'
  BY <1>0, <1>1, <1>2, <1>3, <1>4 DEF CliTypes
<1>6. ScreensFit'
  <2>1. \A u \in Terminals : Live(u) =>
          (at[u] \in shared \cup leftRecord => at[u] \in shared' \cup leftRecord')
    BY <1>3, <1>4
  <2>2. QED BY <1>1, <2>1 DEF CliInv, ScreensFit, Live
<1>7. RecordsAreHome'
  BY <1>1, <1>3 DEF CliInv, RecordsAreHome, IsHome
<1>8. Alone'
  BY <1>1, <1>4 DEF CliInv, Alone, Live
<1>9. MemoryFits'
  <2>1. ASSUME NEW u \in Terminals, Live(u), at[u] \notin shared'
        PROVE  at[u] # s /\ at[u] \in SessionNames /\ at[u] \notin shared
    BY <1>4, <2>1 DEF CliInv, ScreensFit
  <2>2. QED BY <1>1, <1>2, <1>3, <2>1 DEF CliInv, MemoryFits, Live
<1>10. NotYetExecuted'
  <2>1. 0 \notin executed
    BY <1>0, AskedAre DEF CliTypes
  <2>2. QED BY <1>0, <1>1, <1>3, <1>4, <2>1 DEF CliInv, NotYetExecuted, Live
<1>11. OwedAtHome'
  BY <1>1, <1>4 DEF CliInv, OwedAtHome
<1>12. AnsweredIsSavedOrTold'
  BY <1>1, <1>2, <1>4 DEF CliInv, AnsweredIsSavedOrTold, OwedAtHome
<1>13. OpensAgain'
  BY <1>2, <1>3, <1>4 DEF CliInv, OpensAgain, Opens, Restores
<1>14. QED BY <1>5, <1>6, <1>7, <1>8, <1>9, <1>10, <1>11, <1>12, <1>13 DEF CliInv

\* A program ends, and with it what it alone has, which its status may say.
LEMMA CliEnds ==
  ASSUME CliInv, NEW t \in Terminals, Exit(t) \/ Interrupt(t)
  PROVE  CliInv'
<1>0. CliTypes /\ Live(t) /\ NoRecord \in SavedRecords
  BY RecordIs DEF CliInv, Exit, Interrupt, Live
<1>1. /\ UNCHANGED <<snapshots, records, asked, home, executed, repeated, leftRecord, shared,
                     AskedSoFar>>
  BY DEF Exit, Interrupt, Leave, fileVars, AskedSoFar
<1>2. /\ screen' \in [Terminals -> Screens] /\ screen'[t] = "closed"
      /\ \A u \in Terminals : u # t => screen'[u] = screen[u] /\ Live(u)' = Live(u)
      /\ ~Live(t)'
  <2>1. "closed" \in Screens /\ Show(t, "closed")
    BY DEF Screens, Exit, Interrupt, Leave
  <2>2. QED BY <1>0, <2>1, ShowGives DEF Live
<1>3. /\ at' \in [Terminals -> SessionNames \cup {Nowhere}] /\ at'[t] = Nowhere
      /\ history' \in [Terminals -> SUBSET AskedSoFar]
      /\ kept' \in [Terminals -> SavedRecords] /\ kept'[t] = NoRecord
      /\ current' \in [Terminals -> Nat]
      /\ unsaved' \in [Terminals -> BOOLEAN] /\ ~unsaved'[t]
      /\ \A u \in Terminals : u # t =>
           /\ at'[u] = at[u] /\ history'[u] = history[u] /\ kept'[u] = kept[u]
           /\ current'[u] = current[u] /\ unsaved'[u] = unsaved[u]
  <2>1. /\ at' = [at EXCEPT ![t] = Nowhere] /\ history' = [history EXCEPT ![t] = {}]
        /\ kept' = [kept EXCEPT ![t] = NoRecord] /\ current' = [current EXCEPT ![t] = 0]
    BY DEF Exit, Interrupt, Leave
  <2>2. unsaved' = [unsaved EXCEPT ![t] = FALSE]
    BY DEF Exit, Interrupt, Leave
  <2>3. unsaved' \in [Terminals -> BOOLEAN] /\ ~unsaved'[t]
    BY <1>0, <2>2 DEF CliTypes
  <2>4. \A u \in Terminals : u # t => unsaved'[u] = unsaved[u]
    BY <1>0, <2>2 DEF CliTypes
  <2>5. QED BY <1>0, <2>1, <2>3, <2>4 DEF CliTypes
<1>4. /\ owed' \subseteq owed
      /\ \A q \in owed' : q \in history[t] /\ unsaved[t] => q \in snapshots[at[t]]
  <2>1. CASE Exit(t)
    <3>1. CASE unsaved[t]
      BY <2>1, <3>1 DEF Exit, ExitStatus, Leave
    <3>2. CASE ~unsaved[t]
      BY <2>1, <3>2 DEF Exit, ExitStatus, Leave
    <3>3. QED BY <3>1, <3>2
  <2>2. CASE Interrupt(t)
    BY <2>2 DEF Interrupt, Leave
  <2>3. QED BY <2>1, <2>2
<1>5. CliTypes'
  BY <1>0, <1>1, <1>2, <1>3, <1>4 DEF CliTypes
<1>6. ScreensFit'
  BY <1>1, <1>2, <1>3 DEF CliInv, ScreensFit, Live
<1>7. RecordsAreHome'
  BY <1>1, <1>3 DEF CliInv, RecordsAreHome, IsHome
<1>8. Alone' /\ MemoryFits'
  BY <1>1, <1>2, <1>3 DEF CliInv, Alone, MemoryFits
<1>9. NotYetExecuted'
  BY <1>1, <1>2, <1>3 DEF CliInv, NotYetExecuted
<1>10. OwedAtHome'
  BY <1>1, <1>4 DEF CliInv, OwedAtHome
<1>11. AnsweredIsSavedOrTold'
  BY <1>1, <1>3, <1>4 DEF CliInv, AnsweredIsSavedOrTold
<1>12. OpensAgain'
  BY <1>1 DEF CliInv, OpensAgain, Opens, Restores
<1>13. QED BY <1>5, <1>6, <1>7, <1>8, <1>9, <1>10, <1>11, <1>12 DEF CliInv

LEMMA CliStarts ==
  ASSUME CliInit
  PROVE  CliInv
<1>1. /\ snapshots = [s \in SessionNames |-> {}] /\ records = [s \in SessionNames |-> NoRecord]
      /\ at = [t \in Terminals |-> Nowhere] /\ screen = [t \in Terminals |-> "closed"]
      /\ history = [t \in Terminals |-> {}] /\ unsaved = [t \in Terminals |-> FALSE]
      /\ kept = [t \in Terminals |-> NoRecord] /\ current = [t \in Terminals |-> 0]
      /\ asked = 0 /\ home = [q \in Questions |-> Nowhere]
      /\ owed = {} /\ executed = {} /\ repeated = {} /\ leftRecord = {} /\ shared = {}
  BY DEF CliInit
<1>2. NoRecord \in SavedRecords
  BY RecordIs
<1>3. CliTypes
  BY <1>1, <1>2, CommandLineAssumption DEF CliTypes, Screens
<1>4. ScreensFit /\ RecordsAreHome /\ Alone /\ MemoryFits
  BY <1>1 DEF ScreensFit, RecordsAreHome, IsHome, Alone, MemoryFits, Live
<1>5. NotYetExecuted /\ OwedAtHome /\ AnsweredIsSavedOrTold /\ OpensAgain
  BY <1>1 DEF NotYetExecuted, OwedAtHome, AnsweredIsSavedOrTold, OpensAgain, Opens,
              Restores
<1>6. QED BY <1>3, <1>4, <1>5 DEF CliInv

\* The strengthening of the three properties of the command line holds in every state.
THEOREM CliInvariant == CliSpec => []CliInv
<1>1. CliInit => CliInv
  BY CliStarts
<1>2. CliInv /\ [CliNext]_terminalVars => CliInv'
  <2>1. SUFFICES ASSUME CliInv, [CliNext]_terminalVars PROVE CliInv'
    OBVIOUS
  <2>2. CASE UNCHANGED terminalVars
    <3>1. UNCHANGED <<snapshots, records, at, screen, history, unsaved, kept, current, asked,
                      home, owed, executed, repeated, leftRecord, shared>>
      BY <2>2 DEF terminalVars, fileVars, countsVars, watchVars
    <3>2. AskedSoFar' = AskedSoFar /\ \A t \in Terminals : Live(t)' = Live(t)
      BY <3>1 DEF AskedSoFar, Live
    <3>3. (CliTypes /\ ScreensFit /\ RecordsAreHome /\ Alone)'
      BY <2>1, <3>1, <3>2 DEF CliInv, CliTypes, ScreensFit, RecordsAreHome, IsHome, Alone
    <3>4. (MemoryFits /\ NotYetExecuted /\ OwedAtHome /\ AnsweredIsSavedOrTold /\ OpensAgain)'
      BY <2>1, <3>1, <3>2 DEF CliInv, MemoryFits, NotYetExecuted, OwedAtHome,
                              AnsweredIsSavedOrTold, OpensAgain, Opens, Restores
    <3>5. QED BY <3>3, <3>4 DEF CliInv
  <2>3. ASSUME NEW t \in Terminals,
               \/ AskQuestion(t) \/ AskForApproval(t) \/ ResumeTurn(t) \/ ResumeUnprepared(t)
               \/ AnswerTurn(t) \/ StopTurn(t) \/ Retry(t) \/ Exit(t) \/ Interrupt(t)
        PROVE  CliInv'
    BY <2>1, <2>3, CliAsks, CliPreviews, CliGoesOn, CliSaves, CliStopsOrRetries, CliEnds
  <2>4. ASSUME NEW t \in Terminals, NEW yes \in BOOLEAN, AnswerPreview(t, yes) PROVE CliInv'
    BY <2>1, <2>4, CliAnswers
  <2>5. ASSUME NEW t \in Terminals, NEW s \in SessionNames,
               Launch(t, s) \/ Switch(t, s) \/ Delete(t, s)
        PROVE  CliInv'
    BY <2>1, <2>5, CliOpens, CliDeletes
  <2>6. QED BY <2>1, <2>2, <2>3, <2>4, <2>5 DEF CliNext
<1>3. QED BY <1>1, <1>2, PTL DEF CliSpec

\* main.py never loses an answered turn of a session that one program at a time has open,
\* unless the program that has it in memory only ends with a status that says so.
THEOREM NothingAnsweredIsLost == CliSpec => []AnsweredIsSavedOrTold
<1>1. CliInv => AnsweredIsSavedOrTold
  BY DEF CliInv
<1>2. QED BY <1>1, CliInvariant, PTL

\* An approval is resumed in the session of its turn, and its call is executed at most once,
\* however often programs are ended, restarted and switched.
THEOREM ApprovalsAreHome == CliSpec => []ApprovalsStayHome
<1>1. CliInv => ApprovalsStayHome
  BY DEF CliInv, NotYetExecuted, RecordsAreHome, IsHome, ApprovalsStayHome, ExecutedOnce,
         ResumesOwnTurns
<1>2. QED BY <1>1, CliInvariant, PTL

\* Whenever a program ends, its session can be opened again, with the exceptions that
\* OpensAgain names: it was open in two programs at once, its record could not be deleted,
\* its turn was resumed and went on without a preview, or a call that a restore refuses
\* follows the one that waits (persistent_session.py: open).
THEOREM SessionsOpenAgain == CliSpec => []OpensAgain
<1>1. CliInv => OpensAgain
  BY DEF CliInv
<1>2. QED BY <1>1, CliInvariant, PTL

(***************************************************************************)
(* Writes to workspace files, for every set of writes, files and contents   *)
(* and any number of changes by other programs.                             *)
(***************************************************************************)

USE DEF Contents, writeVars, vars, Go, Previewed, Ended

LEMMA InitTypes == Init => TypeOK
<1> SUFFICES ASSUME Init PROVE TypeOK OBVIOUS
<1>1. contents \in [Places -> Contents \cup {None}] /\ link \in Places \cup {None}
  BY DEF Init
<1>2. edits \in 0..MaxEdits BY FilesAssumption DEF Init
<1>3. QED BY <1>1, <1>2 DEF Init, TypeOK

LEMMA NextTypes == TypeOK /\ [Next]_vars => TypeOK'
<1> SUFFICES ASSUME TypeOK, [Next]_vars PROVE TypeOK' OBVIOUS
<1> USE FilesAssumption DEF TypeOK
<1>1. ASSUME NEW w \in Writers, Look(w) PROVE TypeOK' BY <1>1 DEF Look
<1>2. ASSUME NEW w \in Writers, Read(w) PROVE TypeOK' BY <1>2 DEF Read
<1>3. ASSUME NEW w \in Writers, Decide(w) \/ Stage(w) \/ Fail(w) PROVE TypeOK'
  BY <1>3 DEF Decide, Stage, Fail
<1>4. ASSUME NEW w \in Writers, NEW from \in Previewed, NEW to \in Previewed,
             CheckPath(w, from, to) \/ CheckFile(w, from, to)
      PROVE  TypeOK'
  BY <1>4 DEF CheckPath, CheckFile
<1>5. ASSUME NEW w \in Writers, Replace(w) PROVE TypeOK' BY <1>5 DEF Replace, Observe
<1>6. ASSUME NEW p \in Places, NEW c \in Foreign \cup {None}, Edit(p, c) PROVE TypeOK'
  BY <1>6 DEF Edit, Observe
<1>7. ASSUME NEW p \in Places \cup {None}, Redirect(p) PROVE TypeOK'
  BY <1>7 DEF Redirect, Observe
<1>8. CASE UNCHANGED vars BY <1>8
<1>9. QED BY <1>1, <1>2, <1>3, <1>4, <1>5, <1>6, <1>7, <1>8 DEF Next, Write, Others

\* Type correctness; a write that goes on has a file, whatever happens to the path.
THEOREM TypeCorrect == Spec => []TypeOK
BY InitTypes, NextTypes, PTL DEF Spec

-------------------------------------------------------------------------------
\* A preview that has not moved is what the path leads to.
PreviewHolds ==
  \A w \in Writers :
    /\ pc[w] \in {"new", "reading"} => expected[w] = None
    /\ pc[w] \in Previewed /\ w \notin moved =>
         link = place[w] /\ contents[place[w]] = expected[w]

\* So is what a write has looked at last, unless it missed a change.
LookHolds ==
  \A w \in Writers : w \notin missed =>
    /\ pc[w] \in {"relocated", "checked"} => link = place[w]
    /\ pc[w] = "checked" => contents[place[w]] = expected[w]

\* The content of a write is found only after it replaced a file, and a write that
\* missed nothing has replaced what it previewed for good.
Replaced ==
  /\ \A p \in Places : contents[p] \in Writers => pc[contents[p]] = "done"
  /\ \A w \in Writers : expected[w] \in Writers => pc[expected[w]] = "done"
  /\ \A w \in Writers :
       /\ pc[w] = "done" => place[w] # None
       /\ pc[w] = "done" /\ w \notin missed /\ expected[w] \in Writers \cup Original =>
            contents[place[w]] # expected[w]

FileInv ==
  TypeOK /\ PreviewHolds /\ LookHolds /\ Replaced /\ ConflictIsReal /\ OnePreviewOneWrite

LEMMA InitFiles == Init => FileInv
<1> SUFFICES ASSUME Init PROVE FileInv OBVIOUS
<1>1. TypeOK BY InitTypes
<1>2. QED
  BY <1>1, FilesAssumption
  DEF Init, FileInv, PreviewHolds, LookHolds, Replaced, ConflictIsReal, OnePreviewOneWrite, TypeOK

\* Writes that only look leave everything but their own stage alone.
LEMMA LookingFiles ==
  ASSUME FileInv, NEW w \in Writers,
         \/ Look(w) \/ Read(w) \/ Decide(w) \/ Stage(w) \/ Fail(w)
         \/ CheckPath(w, "approved", "located") \/ CheckFile(w, "located", "valid")
         \/ CheckPath(w, "staged", "relocated") \/ CheckFile(w, "relocated", "checked")
  PROVE  FileInv'
<1>1. TypeOK' BY NextTypes DEF FileInv, Next, Write
<1> USE DEF FileInv, TypeOK
<1>2. /\ UNCHANGED <<link, contents, missed>> /\ pc[w] # "done"
      /\ \E next : pc' = [pc EXCEPT ![w] = next] /\ next # "done"
  BY DEF Look, Read, Decide, Stage, Fail, CheckPath, CheckFile
<1>3. \A v \in Writers \ {w} :
        /\ pc'[v] = pc[v] /\ place'[v] = place[v] /\ expected'[v] = expected[v]
        /\ v \in moved' <=> v \in moved
  BY DEF Look, Read, Decide, Stage, Fail, CheckPath, CheckFile
<1>4. /\ pc'[w] \in {"new", "reading"} => expected'[w] = None
      /\ pc'[w] \in Previewed /\ w \notin moved' =>
           link' = place'[w] /\ contents'[place'[w]] = expected'[w]
  BY DEF PreviewHolds, Look, Read, Decide, Stage, Fail, CheckPath, CheckFile
<1>5. w \notin missed' =>
        /\ pc'[w] \in {"relocated", "checked"} => link' = place'[w]
        /\ pc'[w] = "checked" => contents'[place'[w]] = expected'[w]
  BY DEF LookHolds, Look, Read, Decide, Stage, Fail, CheckPath, CheckFile
<1>6. pc'[w] = "conflict" => w \in moved'
  BY DEF PreviewHolds, ConflictIsReal, Look, Read, Decide, Stage, Fail, CheckPath, CheckFile
<1>7. expected'[w] \in Writers => pc[expected'[w]] = "done"
  BY DEF Replaced, Look, Read, Decide, Stage, Fail, CheckPath, CheckFile
<1>8. PreviewHolds' BY <1>1, <1>2, <1>3, <1>4 DEF PreviewHolds
<1>9. LookHolds' BY <1>1, <1>2, <1>3, <1>5 DEF LookHolds
<1>10. ConflictIsReal' BY <1>3, <1>6 DEF ConflictIsReal
<1>11. \A v \in Writers : pc[v] = "done" <=> pc'[v] = "done" BY <1>2
<1>12. Replaced'
  <2>1. \A p \in Places : contents'[p] \in Writers => pc'[contents'[p]] = "done"
    BY <1>2, <1>11 DEF Replaced
  <2>2. \A v \in Writers : expected'[v] \in Writers => pc'[expected'[v]] = "done"
    BY <1>3, <1>7, <1>11 DEF Replaced
  <2>3. ASSUME NEW v \in Writers, pc'[v] = "done"
        PROVE  /\ place'[v] # None
               /\ v \notin missed' /\ expected'[v] \in Writers \cup Original =>
                    contents'[place'[v]] # expected'[v]
    <3>1. v # w BY <1>2, <1>11, <2>3
    <3>2. QED BY <1>2, <1>3, <1>11, <2>3, <3>1 DEF Replaced
  <2>4. QED BY <2>1, <2>2, <2>3 DEF Replaced
<1>13. OnePreviewOneWrite'
  <2>1. \A v \in Writers : pc'[v] = "done" => v # w /\ pc[v] = "done" BY <1>2, <1>11
  <2>2. QED BY <1>2, <1>3, <2>1 DEF OnePreviewOneWrite
<1>14. QED BY <1>1, <1>8, <1>9, <1>10, <1>12, <1>13

\* A write that replaces its file.
LEMMA ReplaceFiles == ASSUME FileInv, NEW w \in Writers, Replace(w) PROVE FileInv'
<1>1. TypeOK' BY NextTypes DEF FileInv, Next, Write
<1> USE DEF FileInv, TypeOK
<1>2. /\ pc[w] = "checked" /\ pc' = [pc EXCEPT ![w] = "done"] /\ place[w] \in Places
      /\ contents' = [contents EXCEPT ![place[w]] = w]
      /\ UNCHANGED <<link, place, expected>>
  BY DEF Replace
<1>3. /\ moved \subseteq moved' /\ missed \subseteq missed' /\ (w \in missed' <=> w \in missed)
      /\ \A v \in Writers \ {w} : Changed(v) => v \in moved' /\ (pc[v] = "checked" => v \in missed')
  BY DEF Replace, Observe
<1>4. \A v \in Writers \ {w} : v \notin moved' /\ place[v] # None =>
        contents'[place[v]] = contents[place[v]]
  BY <1>3 DEF Changed
<1>5. \A v \in Writers \ {w} : v \notin missed' /\ pc[v] = "checked" =>
        contents'[place[v]] = contents[place[v]]
  BY <1>3 DEF Changed
<1>6. PreviewHolds' BY <1>2, <1>3, <1>4 DEF PreviewHolds
<1>7. LookHolds' BY <1>2, <1>3, <1>5 DEF LookHolds
<1>8. ConflictIsReal' BY <1>2, <1>3 DEF ConflictIsReal
<1>9. expected[w] # w BY <1>2 DEF Replaced
<1>10. Replaced'
  <2>1. \A p \in Places : contents'[p] \in Writers => pc'[contents'[p]] = "done"
    BY <1>2 DEF Replaced
  <2>2. \A v \in Writers : expected'[v] \in Writers => pc'[expected'[v]] = "done"
    BY <1>2 DEF Replaced
  <2>3. ASSUME NEW v \in Writers, pc'[v] = "done"
        PROVE  /\ place'[v] # None
               /\ v \notin missed' /\ expected'[v] \in Writers \cup Original =>
                    contents'[place'[v]] # expected'[v]
    <3>1. CASE v = w BY <1>2, <1>9, <3>1, FilesAssumption
    <3>2. CASE v # w
      <4>1. pc[v] = "done" /\ place[v] \in Places BY <1>2, <2>3, <3>2 DEF Replaced
      <4>2. expected[v] # w BY <1>2 DEF Replaced
      <4>3. QED BY <1>2, <1>3, <3>2, <4>1, <4>2 DEF Replaced
    <3>3. QED BY <3>1, <3>2
  <2>4. QED BY <2>1, <2>2, <2>3 DEF Replaced
<1>11. OnePreviewOneWrite'
  <2>1. ASSUME NEW v \in Writers \ {w}, pc[v] = "done", place[v] = place[w],
               expected[v] = expected[w], expected[v] \in Writers \cup Original
        PROVE  v \in missed \/ w \in missed
    BY <1>2, <2>1 DEF Replaced, LookHolds
  <2>2. QED BY <1>2, <1>3, <2>1 DEF OnePreviewOneWrite
<1>12. QED BY <1>1, <1>6, <1>7, <1>8, <1>10, <1>11

\* Other programs.
LEMMA OtherFiles == ASSUME FileInv, Others PROVE FileInv'
<1>1. TypeOK' BY NextTypes DEF FileInv, Next
<1> USE DEF FileInv, TypeOK
<1>2. UNCHANGED <<pc, place, expected>> BY DEF Others, Edit, Redirect
<1>3. /\ moved \subseteq moved' /\ missed \subseteq missed'
      /\ \A v \in Writers : link' # link \/ Changed(v) => v \in moved'
      /\ \A v \in Writers : pc[v] \in {"relocated", "checked"} /\ link' # link => v \in missed'
      /\ \A v \in Writers : pc[v] = "checked" /\ Changed(v) => v \in missed'
  BY FilesAssumption DEF Others, Edit, Redirect, Observe
<1>4. \A p \in Places : contents'[p] = contents[p] \/ contents'[p] \in Foreign \cup {None}
  BY DEF Others, Edit, Redirect
<1>5. PreviewHolds' BY <1>2, <1>3 DEF PreviewHolds, Changed
<1>6. LookHolds' BY <1>2, <1>3 DEF LookHolds, Changed
<1>7. Replaced' BY <1>2, <1>3, <1>4, FilesAssumption DEF Replaced
<1>8. ConflictIsReal' BY <1>2, <1>3 DEF ConflictIsReal
<1>9. OnePreviewOneWrite' BY <1>2, <1>3 DEF OnePreviewOneWrite
<1>10. QED BY <1>1, <1>5, <1>6, <1>7, <1>8, <1>9

LEMMA NextFiles == FileInv /\ [Next]_vars => FileInv'
<1> SUFFICES ASSUME FileInv, [Next]_vars PROVE FileInv' OBVIOUS
<1>1. CASE UNCHANGED vars
  <2>1. TypeOK' BY NextTypes DEF FileInv
  <2>2. QED
    BY <1>1, <2>1
    DEF FileInv, PreviewHolds, LookHolds, Replaced, ConflictIsReal, OnePreviewOneWrite
<1>2. QED BY <1>1, LookingFiles, ReplaceFiles, OtherFiles DEF Next, Write

LEMMA FilesHold == Spec => []FileInv
BY InitFiles, NextFiles, PTL DEF Spec

-------------------------------------------------------------------------------
\* A write replaces exactly what was previewed, at the place that was previewed,
\* unless it missed a change after its last look.
THEOREM WritesWhatWasSeen == Spec => ReplacesPreview
<1> DEFINE Seen ==
      \A w \in Writers :
        pc[w] # "done" /\ pc'[w] = "done" /\ w \notin missed =>
          link = place[w] /\ contents[place[w]] = expected[w]
<1>1. ASSUME FileInv, Next, NEW w \in Writers, pc[w] # "done", pc'[w] = "done", w \notin missed
      PROVE  link = place[w] /\ contents[place[w]] = expected[w]
  <2>1. pc[w] = "checked"
    BY <1>1 DEF FileInv, TypeOK, Next, Write, Others, Look, Read, Decide, Stage, Fail,
       CheckPath, CheckFile, Replace, Edit, Redirect
  <2>2. QED BY <1>1, <2>1 DEF FileInv, LookHolds
<1>2. FileInv /\ [Next]_vars => [Seen]_vars BY <1>1
<1>3. QED BY <1>2, FilesHold, PTL DEF Spec, ReplacesPreview

\* Every conflict reported to the model has a cause in the file system.
THEOREM ConflictsAreReal == Spec => []ConflictIsReal
<1>1. FileInv => ConflictIsReal BY DEF FileInv
<1>2. QED BY <1>1, FilesHold, PTL

\* Two approvals of the same preview are not both carried out.
THEOREM OneWritePerPreview == Spec => []OnePreviewOneWrite
<1>1. FileInv => OnePreviewOneWrite BY DEF FileInv
<1>2. QED BY <1>1, FilesHold, PTL

-------------------------------------------------------------------------------
(***************************************************************************)
(* The message history.  Its loops over messages are functions that call    *)
(* themselves; for one sequence, LoopRuns gives such a function from a      *)
(* function of a step, and RunsAgree says that there is only one.  From     *)
(* that: what one message more does to what a loop has found (AppendOne),   *)
(* that an end which starts with a question is found as the whole is        *)
(* (FromQuestion), what trimming leaves (TrimIs) and what the binary search *)
(* finds (FittingIs).  The invariant HistoryInv is stated after them.       *)
(***************************************************************************)

\* Every set of numbers that is not empty has a least one.
LEMMA LeastIsMember ==
  ASSUME NEW S, S \subseteq Nat, S # {}
  PROVE  Least(S) \in S /\ \A k \in S : Least(S) <= k
<1>1. PICK n \in S : \A k \in S : <<k, n>> \notin OpToRel(<, Nat)
  BY NatLessThanWellFounded, WFMin
<1>2. \A k \in S : n <= k
  <2> SUFFICES ASSUME NEW k \in S PROVE n <= k
    OBVIOUS
  <2>1. <<k, n>> \in Nat \X Nat /\ ~(k < n)
    BY <1>1 DEF OpToRel
  <2>2. QED BY <2>1
<1>3. QED BY <1>2 DEF Least

\* Induction over the first numbers, for a set instead of a predicate.
LEMMA CountUp ==
  ASSUME NEW n \in Nat, NEW P, 0 \in P, \A k \in 1..n : k - 1 \in P => k \in P
  PROVE  \A k \in 0..n : k \in P
<1> DEFINE Out == (0..n) \ P
<1>1. SUFFICES ASSUME Out # {} PROVE FALSE
  OBVIOUS
<1> HIDE DEF Out
<1>2. Least(Out) \in Out /\ \A k \in Out : Least(Out) <= k
  BY <1>1, LeastIsMember DEF Out
<1>3. PICK m : m = Least(Out)
  OBVIOUS
<1>4. m \in 1..n /\ m \notin P /\ m - 1 \notin Out
  BY <1>2, <1>3 DEF Out
<1>5. m - 1 \in P
  BY <1>4 DEF Out
<1>6. QED BY <1>4, <1>5

\* What is known before and after each of n steps of a loop.
IsRun(f, n, D, b, step) ==
  f \in [0..n -> D] /\ f[0] = b /\ \A k \in 1..n : f[k] = step[<<k, f[k - 1]>>]

\* A loop has a run.
LEMMA LoopRuns ==
  ASSUME NEW n \in Nat, NEW D, NEW b \in D, NEW step \in [(1..n) \X D -> D]
  PROVE  \E f : IsRun(f, n, D, b, step)
<1> DEFINE Runs(m) == {f \in [0..m -> D] : f[0] = b /\ \A k \in 1..m : f[k] = step[<<k, f[k - 1]>>]}
           P == {m \in 0..n : Runs(m) # {}}
<1>1. Runs(0) # {}
  <2>1. [k \in 0..0 |-> b] \in Runs(0)
    OBVIOUS
  <2>2. QED BY <2>1
<1>2. ASSUME NEW m \in 1..n, Runs(m - 1) # {} PROVE Runs(m) # {}
  <2>1. PICK g : g \in Runs(m - 1)
    BY <1>2
  <2> DEFINE f == [k \in 0..m |-> IF k = m THEN step[<<m, g[m - 1]>>] ELSE g[k]]
  <2>2. /\ m \in 1..n /\ m - 1 \in 0..m /\ g \in [0..(m - 1) -> D] /\ g[0] = b
        /\ \A k \in 1..(m - 1) : g[k] = step[<<k, g[k - 1]>>]
    BY <2>1
  <2> HIDE DEF Runs
  <2>3. f \in [0..m -> D]
    BY <2>2
  <2>4. /\ f[m] = step[<<m, g[m - 1]>>]
        /\ \A k \in 0..(m - 1) : f[k] = g[k]
    BY <2>2
  <2> HIDE DEF f
  <2>5. f[0] = b
    BY <2>2, <2>4
  <2>6. ASSUME NEW k \in 1..m PROVE f[k] = step[<<k, f[k - 1]>>]
    <3>1. CASE k = m
      <4>1. m - 1 \in 0..(m - 1)
        BY <2>2
      <4>2. f[m - 1] = g[m - 1]
        BY <2>4, <4>1
      <4>3. QED BY <2>4, <3>1, <4>2
    <3>2. CASE k # m
      <4>1. k \in 1..(m - 1) /\ k \in 0..(m - 1) /\ k - 1 \in 0..(m - 1)
        BY <3>2, <2>2
      <4>2. QED BY <2>2, <2>4, <4>1
    <3>3. QED BY <3>1, <3>2
  <2>7. f \in Runs(m)
    BY <2>3, <2>5, <2>6 DEF Runs
  <2>8. QED BY <2>7
<1>3. n \in P
  <2>1. 0 \in P /\ \A m \in 1..n : m - 1 \in P => m \in P
    <3> HIDE DEF Runs
    <3>1. QED BY <1>1, <1>2
  <2> HIDE DEF P
  <2>2. QED BY <2>1, CountUp
<1>4. PICK f : f \in Runs(n)
  BY <1>3
<1>5. IsRun(f, n, D, b, step)
  BY <1>4 DEF IsRun
<1>6. QED BY <1>5

\* Functions that start alike and go on alike.
Alike(f, g, n) == f[0] = g[0] /\ \A k \in 1..n : f[k - 1] = g[k - 1] => f[k] = g[k]

\* They are the same.
LEMMA RunsAgree ==
  ASSUME NEW n \in Nat, NEW f, NEW g, Alike(f, g, n)
  PROVE  \A k \in 0..n : f[k] = g[k]
<1> DEFINE P == {k \in 0..n : f[k] = g[k]}
<1>1. 0 \in P /\ \A k \in 1..n : k - 1 \in P => k \in P
  BY DEF Alike
<1>2. \A k \in 0..n : k \in P
  <2> HIDE DEF P
  <2>1. QED BY <1>1, CountUp
<1>3. QED BY <1>2

\* The parts of a message.
LEMMA MessageFacts ==
  ASSUME NEW m \in Messages
  PROVE  /\ m.size \in Nat \ {0} /\ m.calls \in SUBSET CallIds /\ m.kind \in {"human", "ai", "tool"}
         /\ m.turn \in Dialogues
BY MessageHistoryAssumption DEF Messages

\* What the loops may know between two messages.
PendingStates == (SUBSET CallIds) \cup {Broken}
AwaitedStates == [what : {"human", "ai", "results", "nothing"}, ids : SUBSET CallIds]

\* The runs of the loops over a sequence.
SumRun(h, s) ==
  /\ s \in [0..Len(h) -> Nat] /\ s[0] = 0
  /\ \A k \in 1..Len(h) : s[k] = s[k - 1] + h[k].size

PendingRun(h, p) ==
  /\ p \in [0..Len(h) -> PendingStates] /\ p[0] = {}
  /\ \A k \in 1..Len(h) : p[k] = AfterMessage(p[k - 1], h[k])

AwaitedRun(h, a) ==
  /\ a \in [0..Len(h) -> AwaitedStates] /\ a[0] = Expect("human", {})
  /\ \A k \in 1..Len(h) : a[k] = AfterTurnMessage(a[k - 1], h[k])

\* A message leads from what a loop may know to what it may know.
LEMMA StepTypes ==
  ASSUME NEW m \in Messages
  PROVE  /\ \A p \in PendingStates : AfterMessage(p, m) \in PendingStates
         /\ \A a \in AwaitedStates : AfterTurnMessage(a, m) \in AwaitedStates
<1>0. m.calls \in SUBSET CallIds
  BY MessageFacts
<1>1. ASSUME NEW p \in PendingStates PROVE AfterMessage(p, m) \in PendingStates
  <2>1. p \ m.calls \in PendingStates
    <3>1. CASE p = Broken
      <4>1. p \ m.calls = Broken
        BY <1>0, <3>1, MessageHistoryAssumption DEF Broken
      <4>2. QED BY <4>1 DEF PendingStates
    <3>2. CASE p \in SUBSET CallIds
      BY <3>2 DEF PendingStates
    <3>3. QED BY <1>1, <3>1, <3>2 DEF PendingStates
  <2> DEFINE left == p \ m.calls
  <2> HIDE DEF left
  <2>2. AfterMessage(p, m) \in {m.calls, Broken, left, {}}
    BY DEF AfterMessage, left
  <2>3. {} \in SUBSET CallIds
    OBVIOUS
  <2>4. left \in PendingStates
    BY <2>1 DEF left
  <2>5. m.calls \in PendingStates /\ Broken \in PendingStates /\ {} \in PendingStates
    <3>1. SUBSET CallIds \subseteq PendingStates /\ Broken \in PendingStates
      BY DEF PendingStates
    <3>2. QED BY <1>0, <2>3, <3>1
  <2>6. QED BY <2>2, <2>4, <2>5
<1>2. ASSUME NEW a \in AwaitedStates PROVE AfterTurnMessage(a, m) \in AwaitedStates
  BY <1>0 DEF AwaitedStates, AfterTurnMessage, Expect
<1>3. QED BY <1>1, <1>2

\* Tokens adds up the sizes.
LEMMA TokensRuns ==
  ASSUME NEW h \in Seq(Messages)
  PROVE  \E s : SumRun(h, s) /\ Tokens(h) = s[Len(h)]
<1>0. PICK n \in Nat : n = Len(h)
  OBVIOUS
<1> DEFINE After(s, k) == IF k = 0 THEN 0 ELSE s[k - 1] + h[k].size
           step == [p \in (1..n) \X Nat |-> p[2] + h[p[1]].size]
<1>1. \A k \in 1..n : h[k] \in Messages
  BY <1>0
<1>2. step \in [(1..n) \X Nat -> Nat]
  BY <1>1, MessageFacts
<1>3. PICK f \in [0..n -> Nat] : f[0] = 0 /\ \A k \in 1..n : f[k] = step[<<k, f[k - 1]>>]
  <2> HIDE DEF step
  <2>1. 0 \in Nat
    OBVIOUS
  <2>2. \E f : IsRun(f, n, Nat, 0, step)
    BY <1>0, <2>1, <1>2, LoopRuns
  <2>3. QED BY <2>2 DEF IsRun
<1>4. ASSUME NEW k \in 1..n PROVE f[k] = After(f, k)
  <2>1. k - 1 \in 0..n /\ k # 0
    OBVIOUS
  <2>2. <<k, f[k - 1]>> \in (1..n) \X Nat
    BY <1>3, <2>1
  <2>3. QED BY <1>3, <2>1, <2>2
<1>5. f = [k \in 0..n |-> After(f, k)]
  <2> HIDE DEF step
  <2>1. \A k \in 0..n : f[k] = After(f, k)
    <3>1. \A k \in 0..n : k = 0 \/ k \in 1..n
      OBVIOUS
    <3>2. f[0] = After(f, 0)
      BY <1>3
    <3> HIDE DEF After
    <3>3. QED BY <1>4, <3>1, <3>2
  <2>2. f = [k \in 0..n |-> f[k]]
    BY <1>3
  <2> HIDE DEF After
  <2>3. QED BY <2>1, <2>2
<1> DEFINE g == CHOOSE s : s = [k \in 0..n |-> After(s, k)]
<1>6. g = [k \in 0..n |-> After(g, k)]
  BY <1>5
<1>7. Tokens(h) = g[n]
  BY <1>0 DEF Tokens
<1>8. SumRun(h, g)
  <2> HIDE DEF g
  <2>1. g[0] = 0 /\ \A k \in 1..n : g[k] = After(g, k)
    <3>1. \A k \in 0..n : g[k] = After(g, k)
      <4> HIDE DEF After
      <4>1. QED BY <1>6
    <3>2. 0 \in 0..n /\ \A k \in 1..n : k \in 0..n
      BY <1>0
    <3>3. QED BY <3>1, <3>2
  <2>2. \A k \in 0..n : g[k] = f[k]
    <3>1. \A k \in 1..n : g[k - 1] = f[k - 1] => g[k] = f[k]
      BY <1>4, <2>1
    <3>2. g[0] = f[0]
      BY <1>3, <2>1
    <3>3. Alike(g, f, n)
      BY <3>1, <3>2 DEF Alike
    <3>4. QED BY <1>0, <3>3, RunsAgree
  <2>3. g \in [0..n -> Nat]
    <3>1. g = [k \in 0..n |-> g[k]]
      <4> HIDE DEF After
      <4>1. QED BY <1>6
    <3>2. \A k \in 0..n : g[k] \in Nat
      BY <1>3, <2>2
    <3>3. QED BY <3>1, <3>2
  <2>4. \A k \in 1..n : k # 0
    OBVIOUS
  <2>5. QED BY <1>0, <2>1, <2>3, <2>4 DEF SumRun
<1>9. QED BY <1>0, <1>7, <1>8

\* It is the only one.
LEMMA TokensIs ==
  ASSUME NEW h \in Seq(Messages), NEW s, SumRun(h, s)
  PROVE  Tokens(h) = s[Len(h)]
<1>1. PICK r : SumRun(h, r) /\ Tokens(h) = r[Len(h)]
  BY TokensRuns
<1>2. Alike(r, s, Len(h))
  BY <1>1 DEF SumRun, Alike
<1>3. Len(h) \in Nat /\ Len(h) \in 0..Len(h)
  OBVIOUS
<1>4. QED BY <1>1, <1>2, <1>3, RunsAgree

\* Pending goes through the messages one by one.
LEMMA PendingRuns ==
  ASSUME NEW h \in Seq(Messages)
  PROVE  \E s : PendingRun(h, s) /\ Pending(h) = s[Len(h)]
<1>0. PICK n \in Nat : n = Len(h)
  OBVIOUS
<1> DEFINE After(s, k) == IF k = 0 THEN {} ELSE AfterMessage(s[k - 1], h[k])
           step == [p \in (1..n) \X PendingStates |-> AfterMessage(p[2], h[p[1]])]
<1>1. \A k \in 1..n : h[k] \in Messages
  BY <1>0
<1>2. step \in [(1..n) \X PendingStates -> PendingStates]
  BY <1>1, StepTypes
<1>3. PICK f \in [0..n -> PendingStates] : f[0] = {} /\ \A k \in 1..n : f[k] = step[<<k, f[k - 1]>>]
  <2> HIDE DEF step
  <2>1. {} \in PendingStates
    BY DEF PendingStates
  <2>2. \E f : IsRun(f, n, PendingStates, {}, step)
    BY <1>0, <2>1, <1>2, LoopRuns
  <2>3. QED BY <2>2 DEF IsRun
<1>4. ASSUME NEW k \in 1..n PROVE f[k] = After(f, k)
  <2>1. k - 1 \in 0..n /\ k # 0
    OBVIOUS
  <2>2. <<k, f[k - 1]>> \in (1..n) \X PendingStates
    BY <1>3, <2>1
  <2>3. QED BY <1>3, <2>1, <2>2
<1>5. f = [k \in 0..n |-> After(f, k)]
  <2> HIDE DEF step
  <2>1. \A k \in 0..n : f[k] = After(f, k)
    <3>1. \A k \in 0..n : k = 0 \/ k \in 1..n
      OBVIOUS
    <3>2. f[0] = After(f, 0)
      BY <1>3
    <3> HIDE DEF After
    <3>3. QED BY <1>4, <3>1, <3>2
  <2>2. f = [k \in 0..n |-> f[k]]
    BY <1>3
  <2> HIDE DEF After
  <2>3. QED BY <2>1, <2>2
<1> DEFINE g == CHOOSE s : s = [k \in 0..n |-> After(s, k)]
<1>6. g = [k \in 0..n |-> After(g, k)]
  BY <1>5
<1>7. Pending(h) = g[n]
  BY <1>0 DEF Pending
<1>8. PendingRun(h, g)
  <2> HIDE DEF g
  <2>1. g[0] = {} /\ \A k \in 1..n : g[k] = After(g, k)
    <3>1. \A k \in 0..n : g[k] = After(g, k)
      <4> HIDE DEF After
      <4>1. QED BY <1>6
    <3>2. 0 \in 0..n /\ \A k \in 1..n : k \in 0..n
      BY <1>0
    <3>3. QED BY <3>1, <3>2
  <2>2. \A k \in 0..n : g[k] = f[k]
    <3>1. \A k \in 1..n : g[k - 1] = f[k - 1] => g[k] = f[k]
      BY <1>4, <2>1
    <3>2. g[0] = f[0]
      BY <1>3, <2>1
    <3>3. Alike(g, f, n)
      BY <3>1, <3>2 DEF Alike
    <3>4. QED BY <1>0, <3>3, RunsAgree
  <2>3. g \in [0..n -> PendingStates]
    <3>1. g = [k \in 0..n |-> g[k]]
      <4> HIDE DEF After
      <4>1. QED BY <1>6
    <3>2. \A k \in 0..n : g[k] \in PendingStates
      BY <1>3, <2>2
    <3>3. QED BY <3>1, <3>2
  <2>4. \A k \in 1..n : k # 0
    OBVIOUS
  <2>5. QED BY <1>0, <2>1, <2>3, <2>4 DEF PendingRun
<1>9. QED BY <1>0, <1>7, <1>8

\* It is the only one.
LEMMA PendingIs ==
  ASSUME NEW h \in Seq(Messages), NEW s, PendingRun(h, s)
  PROVE  Pending(h) = s[Len(h)]
<1>1. PICK r : PendingRun(h, r) /\ Pending(h) = r[Len(h)]
  BY PendingRuns
<1>2. Alike(r, s, Len(h))
  BY <1>1 DEF PendingRun, Alike
<1>3. Len(h) \in Nat /\ Len(h) \in 0..Len(h)
  OBVIOUS
<1>4. QED BY <1>1, <1>2, <1>3, RunsAgree

\* Awaited goes through the messages one by one.
LEMMA AwaitedRuns ==
  ASSUME NEW h \in Seq(Messages)
  PROVE  \E s : AwaitedRun(h, s) /\ Awaited(h) = s[Len(h)]
<1>0. PICK n \in Nat : n = Len(h)
  OBVIOUS
<1> DEFINE After(s, k) == IF k = 0 THEN Expect("human", {}) ELSE AfterTurnMessage(s[k - 1], h[k])
           step == [p \in (1..n) \X AwaitedStates |-> AfterTurnMessage(p[2], h[p[1]])]
<1>1. \A k \in 1..n : h[k] \in Messages
  BY <1>0
<1>2. step \in [(1..n) \X AwaitedStates -> AwaitedStates]
  BY <1>1, StepTypes
<1>3. PICK f \in [0..n -> AwaitedStates] : f[0] = Expect("human", {}) /\ \A k \in 1..n : f[k] = step[<<k, f[k - 1]>>]
  <2> HIDE DEF step
  <2>1. Expect("human", {}) \in AwaitedStates
    BY DEF AwaitedStates, Expect
  <2>2. \E f : IsRun(f, n, AwaitedStates, Expect("human", {}), step)
    BY <1>0, <2>1, <1>2, LoopRuns
  <2>3. QED BY <2>2 DEF IsRun
<1>4. ASSUME NEW k \in 1..n PROVE f[k] = After(f, k)
  <2>1. k - 1 \in 0..n /\ k # 0
    OBVIOUS
  <2>2. <<k, f[k - 1]>> \in (1..n) \X AwaitedStates
    BY <1>3, <2>1
  <2>3. QED BY <1>3, <2>1, <2>2
<1>5. f = [k \in 0..n |-> After(f, k)]
  <2> HIDE DEF step
  <2>1. \A k \in 0..n : f[k] = After(f, k)
    <3>1. \A k \in 0..n : k = 0 \/ k \in 1..n
      OBVIOUS
    <3>2. f[0] = After(f, 0)
      BY <1>3
    <3> HIDE DEF After
    <3>3. QED BY <1>4, <3>1, <3>2
  <2>2. f = [k \in 0..n |-> f[k]]
    BY <1>3
  <2> HIDE DEF After
  <2>3. QED BY <2>1, <2>2
<1> DEFINE g == CHOOSE s : s = [k \in 0..n |-> After(s, k)]
<1>6. g = [k \in 0..n |-> After(g, k)]
  BY <1>5
<1>7. Awaited(h) = g[n]
  BY <1>0 DEF Awaited
<1>8. AwaitedRun(h, g)
  <2> HIDE DEF g
  <2>1. g[0] = Expect("human", {}) /\ \A k \in 1..n : g[k] = After(g, k)
    <3>1. \A k \in 0..n : g[k] = After(g, k)
      <4> HIDE DEF After
      <4>1. QED BY <1>6
    <3>2. 0 \in 0..n /\ \A k \in 1..n : k \in 0..n
      BY <1>0
    <3>3. QED BY <3>1, <3>2
  <2>2. \A k \in 0..n : g[k] = f[k]
    <3>1. \A k \in 1..n : g[k - 1] = f[k - 1] => g[k] = f[k]
      BY <1>4, <2>1
    <3>2. g[0] = f[0]
      BY <1>3, <2>1
    <3>3. Alike(g, f, n)
      BY <3>1, <3>2 DEF Alike
    <3>4. QED BY <1>0, <3>3, RunsAgree
  <2>3. g \in [0..n -> AwaitedStates]
    <3>1. g = [k \in 0..n |-> g[k]]
      <4> HIDE DEF After
      <4>1. QED BY <1>6
    <3>2. \A k \in 0..n : g[k] \in AwaitedStates
      BY <1>3, <2>2
    <3>3. QED BY <3>1, <3>2
  <2>4. \A k \in 1..n : k # 0
    OBVIOUS
  <2>5. QED BY <1>0, <2>1, <2>3, <2>4 DEF AwaitedRun
<1>9. QED BY <1>0, <1>7, <1>8

\* It is the only one.
LEMMA AwaitedIs ==
  ASSUME NEW h \in Seq(Messages), NEW s, AwaitedRun(h, s)
  PROVE  Awaited(h) = s[Len(h)]
<1>1. PICK r : AwaitedRun(h, r) /\ Awaited(h) = r[Len(h)]
  BY AwaitedRuns
<1>2. Alike(r, s, Len(h))
  BY <1>1 DEF AwaitedRun, Alike
<1>3. Len(h) \in Nat /\ Len(h) \in 0..Len(h)
  OBVIOUS
<1>4. QED BY <1>1, <1>2, <1>3, RunsAgree

\* What the end of a sequence consists of.
LEMMA FromIs ==
  ASSUME NEW h \in Seq(Messages), NEW first \in 1..(Len(h) + 1)
  PROVE  /\ From(h, first) \in Seq(Messages) /\ Len(From(h, first)) = Len(h) - first + 1
         /\ \A i \in 1..(Len(h) - first + 1) : From(h, first)[i] = h[first + i - 1]
<1>1. PICK n \in Nat : n = Len(h)
  OBVIOUS
<1>2. \A i \in first..n : h[i] \in Messages
  BY <1>1
<1>3. first \in Int /\ n \in Int
  BY <1>1
<1>4. /\ SubSeq(h, first, n) \in Seq(Messages)
      /\ Len(SubSeq(h, first, n)) = IF first <= n THEN n - first + 1 ELSE 0
      /\ \A i \in 1..(n - first + 1) : SubSeq(h, first, n)[i] = h[first + i - 1]
  BY <1>2, <1>3, SubSeqProperties
<1>5. QED BY <1>1, <1>4 DEF From

\* One message more.
LEMMA AppendOne ==
  ASSUME NEW h \in Seq(Messages), NEW m \in Messages
  PROVE  /\ Tokens(Append(h, m)) = Tokens(h) + m.size
         /\ Pending(Append(h, m)) = AfterMessage(Pending(h), m)
         /\ Awaited(Append(h, m)) = AfterTurnMessage(Awaited(h), m)
<1>1. PICK n \in Nat : n = Len(h)
  OBVIOUS
<1> DEFINE g == Append(h, m)
<1>2. /\ g \in Seq(Messages) /\ Len(g) = n + 1 /\ g[n + 1] = m
      /\ \A k \in 1..n : g[k] = h[k]
  BY <1>1
<1>3. /\ 0 \in 0..n /\ n \in 0..n /\ n + 1 \in 1..(n + 1) /\ (n + 1) - 1 = n
      /\ \A k \in 1..n : k \in 1..(n + 1) /\ k \in 0..n /\ k - 1 \in 0..n
      /\ \A k \in 0..n : k \in 0..(n + 1)
  BY <1>1
<1> HIDE DEF g
<1>4. Tokens(g) = Tokens(h) + m.size
  <2>1. PICK s : SumRun(g, s) /\ Tokens(g) = s[n + 1]
    BY <1>2, TokensRuns
  <2> DEFINE r == [k \in 0..n |-> s[k]]
  <2>2. SumRun(h, r)
    BY <1>1, <1>2, <1>3, <2>1 DEF SumRun
  <2>3. Tokens(h) = s[n]
    BY <1>1, <1>3, <2>2, TokensIs
  <2>4. QED BY <1>2, <1>3, <2>1, <2>3 DEF SumRun
<1>5. Pending(g) = AfterMessage(Pending(h), m)
  <2>1. PICK s : PendingRun(g, s) /\ Pending(g) = s[n + 1]
    BY <1>2, PendingRuns
  <2> DEFINE r == [k \in 0..n |-> s[k]]
  <2>2. PendingRun(h, r)
    BY <1>1, <1>2, <1>3, <2>1 DEF PendingRun
  <2>3. Pending(h) = s[n]
    BY <1>1, <1>3, <2>2, PendingIs
  <2>4. QED BY <1>2, <1>3, <2>1, <2>3 DEF PendingRun
<1>6. Awaited(g) = AfterTurnMessage(Awaited(h), m)
  <2>1. PICK s : AwaitedRun(g, s) /\ Awaited(g) = s[n + 1]
    BY <1>2, AwaitedRuns
  <2> DEFINE r == [k \in 0..n |-> s[k]]
  <2>2. AwaitedRun(h, r)
    BY <1>1, <1>2, <1>3, <2>1 DEF AwaitedRun
  <2>3. Awaited(h) = s[n]
    BY <1>1, <1>3, <2>2, AwaitedIs
  <2>4. QED BY <1>2, <1>3, <2>1, <2>3 DEF AwaitedRun
<1>7. QED BY <1>4, <1>5, <1>6 DEF g

\* No message at all.
LEMMA OfNothing ==
  Tokens(<<>>) = 0 /\ Pending(<<>>) = {} /\ Awaited(<<>>) = Expect("human", {})
<1>1. <<>> \in Seq(Messages) /\ Len(<<>>) = 0
  OBVIOUS
<1>2. QED BY <1>1, TokensRuns, PendingRuns, AwaitedRuns DEF SumRun, PendingRun, AwaitedRun

\* The end of a sequence, from a place where nothing is pending.
LEMMA EndOf ==
  ASSUME NEW h \in Seq(Messages), NEW first \in 1..(Len(h) + 1)
  PROVE  /\ \A s : SumRun(h, s) => Tokens(From(h, first)) = s[Len(h)] - s[first - 1]
         /\ \A p : PendingRun(h, p) /\ p[first - 1] = {} => Pending(From(h, first)) = p[Len(h)]
         /\ \A a : AwaitedRun(h, a) /\ a[first - 1] = Expect("human", {}) =>
                     Awaited(From(h, first)) = a[Len(h)]
<1>1. PICK n \in Nat : n = Len(h)
  OBVIOUS
<1>2. PICK g \in Seq(Messages) : g = From(h, first)
  BY FromIs
<1>3. PICK l \in Nat : l = n - first + 1 /\ Len(g) = l
  BY <1>1, <1>2, FromIs
<1>b. PICK o \in Nat : o = first - 1 /\ o + l = n
  BY <1>1, <1>3
<1>4. /\ \A k \in 0..l : o + k \in 0..n
      /\ \A k \in 1..l : o + k \in 1..n /\ (o + k) - 1 = o + (k - 1) /\ k - 1 \in 0..l /\ k \in 0..l
      /\ o \in 0..n /\ l \in 0..l /\ 0 \in 0..l /\ o + 0 = o
  BY <1>1, <1>3, <1>b
<1>a. ASSUME NEW k \in 1..l PROVE g[k] = h[o + k]
  <2>1. first + k - 1 = o + k
    BY <1>b
  <2>2. k \in 1..(n - first + 1)
    BY <1>3
  <2>3. g[k] = h[first + k - 1]
    BY <1>1, <1>2, <2>2, FromIs
  <2>4. QED BY <2>1, <2>3
<1>5. ASSUME NEW s, SumRun(h, s) PROVE Tokens(g) = s[n] - s[o]
  <2> DEFINE r == [k \in 0..l |-> s[o + k] - s[o]]
  <2>1. \A k \in 0..l : s[o + k] \in Nat
    BY <1>1, <1>4, <1>5 DEF SumRun
  <2>2. ASSUME NEW k \in 1..l PROVE r[k] = r[k - 1] + g[k].size
    <3>1. s[o + k] = s[o + (k - 1)] + g[k].size
      BY <1>1, <1>4, <1>a, <1>5 DEF SumRun
    <3>2. g[k].size \in Nat
      BY <1>3, MessageFacts
    <3>3. s[o + k] \in Nat /\ s[o + (k - 1)] \in Nat /\ s[o] \in Nat
      BY <1>4, <2>1
    <3>4. r[k] = s[o + k] - s[o] /\ r[k - 1] = s[o + (k - 1)] - s[o]
      BY <1>4
    <3> DEFINE x == s[o + k]
               y == s[o + (k - 1)]
               z == s[o]
               d == g[k].size
    <3>5. x = y + d /\ d \in Nat /\ x \in Nat /\ y \in Nat /\ z \in Nat /\ r[k] = x - z /\ r[k - 1] = y - z
      BY <3>1, <3>2, <3>3, <3>4
    <3> HIDE DEF r, x, y, z
    <3>6. x - z = (y - z) + d
      <4> HIDE DEF d
      <4>1. QED BY <3>5
    <3>7. QED BY <3>5, <3>6
  <2>3. r[0] = 0
    <3>1. r[0] = s[o] - s[o] /\ s[o] \in Nat
      BY <1>4, <2>1
    <3> HIDE DEF r
    <3>2. QED BY <3>1
  <2>4. r \in [0..l -> Int] /\ r[l] = s[n] - s[o]
    <3>1. ASSUME NEW k \in 0..l PROVE s[o + k] - s[o] \in Int
      <4> DEFINE x == s[o + k]
                 y == s[o]
      <4>1. x \in Nat /\ y \in Nat
        BY <1>4, <2>1
      <4> HIDE DEF x, y
      <4>2. x - y \in Int
        BY <4>1
      <4>3. QED BY <4>2 DEF x, y
    <3>2. r[l] = s[o + l] - s[o]
      BY <1>4
    <3>3. QED BY <1>b, <3>1, <3>2
  <2> HIDE DEF r
  <2>5. \A k \in 0..l : r[k] \in Nat
    <3> DEFINE P == {k \in 0..l : r[k] \in Nat}
    <3>1. 0 \in P
      BY <2>3
    <3>2. ASSUME NEW k \in 1..l, k - 1 \in P PROVE k \in P
      <4>1. g[k].size \in Nat
        BY <1>3, MessageFacts
      <4>2. QED BY <2>2, <3>2, <4>1
    <3> HIDE DEF P
    <3>3. \A k \in 0..l : k \in P
      BY <1>3, <3>1, <3>2, CountUp
    <3>4. QED BY <3>3 DEF P
  <2>6. SumRun(g, r)
    BY <1>3, <2>2, <2>3, <2>4, <2>5 DEF SumRun
  <2>7. QED BY <1>3, <2>4, <2>6, TokensIs
<1>6. ASSUME NEW s, PendingRun(h, s), s[o] = {} PROVE Pending(g) = s[n]
  <2> DEFINE r == [k \in 0..l |-> s[o + k]]
  <2>1. r \in [0..l -> PendingStates] /\ r[0] = {} /\ r[l] = s[n]
    <3>1. \A k \in 0..l : s[o + k] \in PendingStates
      BY <1>1, <1>4, <1>6 DEF PendingRun
    <3>2. r[0] = s[o + 0] /\ r[l] = s[o + l]
      BY <1>4
    <3>3. r \in [0..l -> PendingStates]
      BY <3>1
    <3> HIDE DEF r
    <3>4. QED BY <1>b, <1>4, <1>6, <3>2, <3>3
  <2>2. ASSUME NEW k \in 1..l PROVE r[k] = AfterMessage(r[k - 1], g[k])
    <3>1. s[o + k] = AfterMessage(s[o + (k - 1)], g[k])
      BY <1>1, <1>4, <1>a, <1>6 DEF PendingRun
    <3>2. QED BY <1>4, <3>1
  <2>3. PendingRun(g, r)
    BY <1>3, <2>1, <2>2 DEF PendingRun
  <2>4. QED BY <1>3, <2>1, <2>3, PendingIs
<1>7. ASSUME NEW s, AwaitedRun(h, s), s[o] = Expect("human", {}) PROVE Awaited(g) = s[n]
  <2> DEFINE r == [k \in 0..l |-> s[o + k]]
  <2>1. r \in [0..l -> AwaitedStates] /\ r[0] = Expect("human", {}) /\ r[l] = s[n]
    <3>1. \A k \in 0..l : s[o + k] \in AwaitedStates
      BY <1>1, <1>4, <1>7 DEF AwaitedRun
    <3>2. r[0] = s[o + 0] /\ r[l] = s[o + l]
      BY <1>4
    <3>3. r \in [0..l -> AwaitedStates]
      BY <3>1
    <3> HIDE DEF r
    <3>4. QED BY <1>b, <1>4, <1>7, <3>2, <3>3
  <2>2. ASSUME NEW k \in 1..l PROVE r[k] = AfterTurnMessage(r[k - 1], g[k])
    <3>1. s[o + k] = AfterTurnMessage(s[o + (k - 1)], g[k])
      BY <1>1, <1>4, <1>a, <1>7 DEF AwaitedRun
    <3>2. QED BY <1>4, <3>1
  <2>3. AwaitedRun(g, r)
    BY <1>3, <2>1, <2>2 DEF AwaitedRun
  <2>4. QED BY <1>3, <2>1, <2>3, AwaitedIs
<1>8. QED BY <1>b, <1>1, <1>2, <1>5, <1>6, <1>7

\* Tokens are a number.
LEMMA TokensNat == ASSUME NEW h \in Seq(Messages) PROVE Tokens(h) \in Nat
<1>1. PICK s : SumRun(h, s) /\ Tokens(h) = s[Len(h)]
  BY TokensRuns
<1>2. Len(h) \in Nat /\ Len(h) \in 0..Len(h)
  OBVIOUS
<1>3. QED BY <1>1, <1>2 DEF SumRun

\* A shorter end has no more tokens.
LEMMA ShorterEnd ==
  ASSUME NEW h \in Seq(Messages), NEW i \in 1..(Len(h) + 1), NEW j \in i..(Len(h) + 1)
  PROVE  Tokens(From(h, j)) <= Tokens(From(h, i))
<1>0. PICK n \in Nat : n = Len(h)
  OBVIOUS
<1>1. PICK s : SumRun(h, s)
  BY TokensRuns
<1>a. s \in [0..n -> Nat] /\ \A k \in 1..n : s[k] = s[k - 1] + h[k].size
  BY <1>0, <1>1 DEF SumRun
<1> DEFINE P == {k \in 0..n : i - 1 <= k => s[i - 1] <= s[k]}
<1>2. 0 \in P
  BY <1>0, <1>a
<1>3. ASSUME NEW k \in 1..n, k - 1 \in P PROVE k \in P
  <2>0. k \in 0..n /\ k - 1 \in 0..n /\ i - 1 \in 0..n
    BY <1>0
  <2>1. h[k].size \in Nat
    <3>1. h[k] \in Messages
      BY <1>0
    <3>2. QED BY <3>1, MessageFacts
  <2>2. s[k] \in Nat /\ s[k - 1] \in Nat /\ s[i - 1] \in Nat
    BY <1>a, <2>0
  <2>3. s[k - 1] <= s[k]
    <3> DEFINE x == s[k]
               y == s[k - 1]
               z == h[k].size
    <3>1. x = y + z /\ x \in Nat /\ y \in Nat /\ z \in Nat
      BY <1>a, <2>1, <2>2
    <3> HIDE DEF x, y, z, P
    <3>2. y <= x
      BY <3>1
    <3>3. QED BY <3>2 DEF x, y
  <2>4. CASE i - 1 <= k - 1
    BY <1>3, <2>2, <2>3, <2>4
  <2>5. CASE ~(i - 1 <= k - 1)
    <3>1. i - 1 <= k => i - 1 = k
      BY <1>0, <2>5
    <3>2. QED BY <1>0, <2>2, <3>1
  <2>6. QED BY <2>4, <2>5
<1>4. s[i - 1] <= s[j - 1]
  <2>1. j - 1 \in 0..n /\ i - 1 <= j - 1
    BY <1>0
  <2>2. j - 1 \in P
    <3> HIDE DEF P
    <3>1. QED BY <1>0, <1>2, <1>3, <2>1, CountUp
  <2>3. QED BY <2>1, <2>2
<1>5. /\ Tokens(From(h, i)) = s[n] - s[i - 1]
      /\ Tokens(From(h, j)) = s[n] - s[j - 1]
  BY <1>0, <1>1, EndOf
<1>6. s[n] \in Nat /\ s[i - 1] \in Nat /\ s[j - 1] \in Nat
  <2>1. n \in 0..n /\ i - 1 \in 0..n /\ j - 1 \in 0..n
    BY <1>0
  <2>2. QED BY <1>a, <2>1
<1> DEFINE x == s[n]
           y == s[i - 1]
           z == s[j - 1]
<1> HIDE DEF P
<1>7. x \in Nat /\ y \in Nat /\ z \in Nat /\ y <= z /\ Tokens(From(h, i)) = x - y
      /\ Tokens(From(h, j)) = x - z
  BY <1>4, <1>5, <1>6
<1> HIDE DEF x, y, z
<1>8. QED BY <1>7

\* What trimming leaves: the longest end that starts with a question and fits.
LEMMA TrimIs ==
  ASSUME NEW h \in Seq(Messages), NEW length \in Nat
  PROVE  \E first \in 1..(Len(h) + 1) :
           /\ TrimHistory(length, h) = From(h, first)
           /\ first <= Len(h) =>
                IsHuman(h[first]) /\ PromptSize + length + Tokens(From(h, first)) <= MaxContext
           /\ \A i \in 1..(first - 1) : IsHuman(h[i]) =>
                PromptSize + length + Tokens(From(h, i)) > MaxContext
<1>0. PICK n \in Nat : n = Len(h)
  OBVIOUS
<1> DEFINE room == MaxContext - (PromptSize + length)
           fitting == {k \in 1..(n + 1) : From(h, k) = <<>> \/ Tokens(From(h, k)) <= room}
<1>1. \A k \in 1..(n + 1) : /\ Tokens(From(h, k)) \in Nat /\ Len(From(h, k)) = n - k + 1
                            /\ From(h, k) \in Seq(Messages)
  BY <1>0, FromIs, TokensNat
<1>2. n + 1 \in fitting
  <2>1. Len(From(h, n + 1)) = 0 /\ From(h, n + 1) \in Seq(Messages) /\ n + 1 \in 1..(n + 1)
    BY <1>0, <1>1
  <2>2. QED BY <2>1
<1>3. PICK low \in fitting : low = Least(fitting) /\ \A k \in fitting : low <= k
  <2>1. fitting \subseteq Nat
    BY <1>0
  <2> HIDE DEF fitting
  <2>2. QED BY <1>2, <2>1, LeastIsMember
<1> DEFINE humans == {k \in low..(n + 1) : k = n + 1 \/ IsHuman(h[k])}
<1>4. low \in 1..(n + 1)
  BY <1>3
<1>5. PICK f \in humans : f = Least(humans) /\ \A k \in humans : f <= k
  <2>1. humans \subseteq Nat /\ n + 1 \in humans
    BY <1>0, <1>4
  <2> HIDE DEF humans
  <2>2. QED BY <2>1, LeastIsMember
<1>6. TrimHistory(length, h) = From(h, f)
  BY <1>0, <1>3, <1>5 DEF TrimHistory
<1>7. f \in 1..(n + 1) /\ low <= f /\ (f = n + 1 \/ IsHuman(h[f]))
  BY <1>4, <1>5
<1>8. f <= n => IsHuman(h[f]) /\ PromptSize + length + Tokens(From(h, f)) <= MaxContext
  <2> SUFFICES ASSUME f <= n PROVE PromptSize + length + Tokens(From(h, f)) <= MaxContext
    BY <1>0, <1>7
  <2>1. Len(From(h, low)) # 0
    BY <1>0, <1>1, <1>4, <1>7
  <2>2. From(h, low) # <<>>
    BY <2>1
  <2>3. Tokens(From(h, low)) <= room
    BY <1>3, <2>2
  <2>4. Tokens(From(h, f)) <= Tokens(From(h, low))
    <3>1. f \in low..(n + 1)
      BY <1>4, <1>7
    <3>2. QED BY <1>0, <1>4, <3>1, ShorterEnd
  <2>5. Tokens(From(h, f)) \in Nat /\ Tokens(From(h, low)) \in Nat
    BY <1>1, <1>4, <1>7
  <2>6. QED BY <2>3, <2>4, <2>5, MessageHistoryAssumption
<1>9. ASSUME NEW i \in 1..(f - 1), IsHuman(h[i])
      PROVE  PromptSize + length + Tokens(From(h, i)) > MaxContext
  <2>1. i \in 1..(n + 1) /\ ~(f <= i)
    BY <1>0, <1>7
  <2>2. Tokens(From(h, i)) \in Nat
    BY <1>1, <2>1
  <2>3. ~(Tokens(From(h, i)) <= room)
    <3>1. SUFFICES ASSUME i \in fitting PROVE FALSE
      BY <2>1
    <3>2. low <= i
      BY <1>3, <3>1
    <3>3. i \in humans
      BY <1>4, <1>9, <2>1, <3>2
    <3>4. QED BY <1>5, <2>1, <3>3
  <2>4. QED BY <2>2, <2>3, MessageHistoryAssumption
<1>10. QED BY <1>0, <1>6, <1>7, <1>8, <1>9

\* Messages that start with a question fit if and only if their sizes add up.
LEMMA FitIs ==
  ASSUME NEW h \in Seq(Messages), h # <<>>, IsHuman(h[1]), NEW length \in Nat
  PROVE  MessagesFit(length, h) <=> PromptSize + length + Tokens(h) <= MaxContext
<1>1. PICK first \in 1..(Len(h) + 1) :
           /\ TrimHistory(length, h) = From(h, first)
           /\ first <= Len(h) =>
                IsHuman(h[first]) /\ PromptSize + length + Tokens(From(h, first)) <= MaxContext
           /\ \A i \in 1..(first - 1) : IsHuman(h[i]) =>
                PromptSize + length + Tokens(From(h, i)) > MaxContext
  BY TrimIs
<1>2. From(h, 1) = h /\ Len(h) \in Nat \ {0}
  BY SubSeqFull DEF From
<1>3. ASSUME PromptSize + length + Tokens(h) <= MaxContext PROVE MessagesFit(length, h)
  <2>1. first = 1
    <3>1. SUFFICES ASSUME first # 1 PROVE FALSE
      OBVIOUS
    <3>2. 1 \in 1..(first - 1)
      BY <1>2, <3>1
    <3>3. PromptSize + length + Tokens(h) > MaxContext
      BY <1>1, <1>2, <3>2
    <3>4. QED BY <1>3, <3>3, TokensNat, MessageHistoryAssumption
  <2>2. QED BY <1>1, <1>2, <2>1 DEF MessagesFit, ContainsCurrent
<1>4. ASSUME MessagesFit(length, h) PROVE PromptSize + length + Tokens(h) <= MaxContext
  <2>1. From(h, first) = h
    BY <1>1, <1>4 DEF MessagesFit
  <2>2. Len(h) - first + 1 = Len(h)
    BY <2>1, FromIs
  <2>3. first = 1
    BY <1>2, <2>2
  <2>4. QED BY <1>1, <1>2, <2>3
<1>5. QED BY <1>3, <1>4

\* The binary search finds the greatest length that fits.
LEMMA FittingIs ==
  ASSUME NEW h \in Seq(Messages), h # <<>>, IsHuman(h[1]), NEW length \in Nat, MessagesFit(0, h)
  PROVE  /\ FittingSummary(h, length) \in 0..length
         /\ \A n \in 0..length : n <= FittingSummary(h, length) <=>
                                   PromptSize + n + Tokens(h) <= MaxContext
<1> DEFINE limit == MaxContext - (PromptSize + Tokens(h))
           Fit(n) == MessagesFit(n, h)
           Searches == [low : 0..(length + 1), high : (-1)..length, found : 0..length]
           Upper(s) == [low |-> (s.low + s.high) \div 2 + 1, high |-> s.high, found |-> (s.low + s.high) \div 2]
           Lower(s) == [low |-> s.low, high |-> (s.low + s.high) \div 2 - 1, found |-> s.found]
           After(b, s) ==
             IF s.low > s.high THEN s.found
             ELSE IF Fit((s.low + s.high) \div 2) THEN b[Upper(s)] ELSE b[Lower(s)]
           Outcome(s) ==
             IF s.low > s.high \/ limit < s.low THEN s.found
             ELSE IF s.high <= limit THEN s.high ELSE limit
           start == [low |-> 0, high |-> length, found |-> 0]
           best == CHOOSE b : b = [s \in Searches |-> After(b, s)]
<1>1. PICK c \in Nat : c = limit
  <2>1. PromptSize + 0 + Tokens(h) <= MaxContext
    BY FitIs
  <2>2. QED BY <2>1, TokensNat, MessageHistoryAssumption
<1>2. ASSUME NEW n \in Nat PROVE (Fit(n) <=> n <= c) /\ (Fit(n) <=> PromptSize + n + Tokens(h) <= MaxContext)
  <2>1. Fit(n) <=> PromptSize + n + Tokens(h) <= MaxContext
    BY FitIs
  <2>2. Tokens(h) \in Nat
    BY TokensNat
  <2> HIDE DEF Fit
  <2>3. QED BY <1>1, <2>1, <2>2, MessageHistoryAssumption
<1>3. FittingSummary(h, length) = IF Fit(length) THEN length ELSE best[start]
  BY DEF FittingSummary
<1> HIDE DEF Fit
\* A step of the search does not change its outcome and leaves less to search.
<1>4. ASSUME NEW s \in Searches, s.low <= s.high
      PROVE  /\ Upper(s) \in Searches /\ Lower(s) \in Searches
             /\ Upper(s).high + 1 - Upper(s).low <= s.high - s.low
             /\ Lower(s).high + 1 - Lower(s).low <= s.high - s.low
             /\ Outcome(s) = IF Fit((s.low + s.high) \div 2) THEN Outcome(Upper(s)) ELSE Outcome(Lower(s))
  <2>1. PICK low \in 0..(length + 1), high \in (-1)..length, found \in 0..length :
               s = [low |-> low, high |-> high, found |-> found]
    OBVIOUS
  <2>2. PICK middle \in low..high : middle = (low + high) \div 2
    BY <1>4, <2>1
  <2>3. /\ Upper(s) = [low |-> middle + 1, high |-> high, found |-> middle]
        /\ Lower(s) = [low |-> low, high |-> middle - 1, found |-> found]
    BY <2>1, <2>2
  <2>4. (Fit(middle) <=> middle <= c) /\ middle \in Nat /\ low <= high
    BY <1>2, <1>4, <2>1, <2>2
  <2>5. Upper(s) \in Searches /\ Lower(s) \in Searches
    <3>1. middle + 1 \in 0..(length + 1) /\ middle \in 0..length /\ middle - 1 \in (-1)..length
      BY <2>2, <2>4
    <3> HIDE DEF Upper, Lower
    <3>2. QED BY <2>3, <3>1
  <2>6. Outcome(s) = IF Fit(middle) THEN Outcome(Upper(s)) ELSE Outcome(Lower(s))
    <3> HIDE DEF Upper, Lower
    <3>1. QED BY <1>1, <2>1, <2>2, <2>3, <2>4
  <2>7. /\ Upper(s).high + 1 - Upper(s).low <= s.high - s.low
        /\ Lower(s).high + 1 - Lower(s).low <= s.high - s.low
    <3> HIDE DEF Upper, Lower
    <3>1. QED BY <2>1, <2>2, <2>3, <2>4
  <2> HIDE DEF Upper, Lower, Outcome
  <2>8. QED BY <2>1, <2>2, <2>5, <2>6, <2>7
<1> HIDE DEF Upper, Lower
<1>5. \E b : b = [s \in Searches |-> After(b, s)]
  <2> DEFINE b == [s \in Searches |-> Outcome(s)]
  <2>1. ASSUME NEW s \in Searches PROVE Outcome(s) = After(b, s)
    <3>1. CASE s.low > s.high
      BY <3>1
    <3>2. CASE ~(s.low > s.high)
      <4>1. s.low <= s.high
        BY <3>2
      <4> HIDE DEF Outcome
      <4>2. QED BY <1>4, <3>2, <4>1
    <3>3. QED BY <3>1, <3>2
  <2>2. b = [s \in Searches |-> After(b, s)]
    <3> HIDE DEF After, Outcome
    <3>1. QED BY <2>1
  <2>3. QED BY <2>2
<1>6. best = [s \in Searches |-> After(best, s)]
  BY <1>5
<1> HIDE DEF best
<1>7. ASSUME NEW s \in Searches PROVE best[s] = After(best, s)
  <2> HIDE DEF After
  <2>1. QED BY <1>6
<1> DEFINE P == {m \in 0..(length + 1) :
                   \A s \in Searches : s.high + 1 - s.low <= m => best[s] = Outcome(s)}
<1>8. 0 \in P
  <2>1. ASSUME NEW s \in Searches, s.high + 1 - s.low <= 0 PROVE best[s] = Outcome(s)
    <3>1. s.low > s.high
      BY <2>1
    <3>2. QED BY <1>7, <3>1
  <2> HIDE DEF After, Outcome
  <2>2. QED BY <2>1
<1>9. ASSUME NEW m \in 1..(length + 1), m - 1 \in P PROVE m \in P
  <2>1. ASSUME NEW s \in Searches, s.high + 1 - s.low <= m PROVE best[s] = Outcome(s)
    <3>1. CASE s.low > s.high
      BY <1>7, <3>1
    <3>2. CASE ~(s.low > s.high)
      <4>1. s.low <= s.high /\ s.high - s.low <= m - 1
        BY <2>1, <3>2
      <4>2. /\ Upper(s) \in Searches /\ Upper(s).high + 1 - Upper(s).low <= s.high - s.low
            /\ Lower(s) \in Searches /\ Lower(s).high + 1 - Lower(s).low <= s.high - s.low
            /\ Outcome(s) = IF Fit((s.low + s.high) \div 2) THEN Outcome(Upper(s)) ELSE Outcome(Lower(s))
        BY <1>4, <4>1
      <4>3. ASSUME NEW t \in Searches, t.high + 1 - t.low <= s.high - s.low
            PROVE  best[t] = Outcome(t)
        <5>1. t.high + 1 - t.low <= m - 1
          BY <4>1, <4>3
        <5> HIDE DEF Outcome
        <5>2. QED BY <1>9, <5>1
      <4>4. best[Upper(s)] = Outcome(Upper(s)) /\ best[Lower(s)] = Outcome(Lower(s))
        BY <4>2, <4>3
      <4>5. best[s] = IF Fit((s.low + s.high) \div 2) THEN best[Upper(s)] ELSE best[Lower(s)]
        BY <1>7, <3>2
      <4> HIDE DEF After, Outcome, P
      <4>6. QED BY <4>2, <4>4, <4>5
    <3>3. QED BY <3>1, <3>2
  <2> HIDE DEF After, Outcome
  <2>2. QED BY <2>1
<1>10. best[start] = Outcome(start)
  <2>1. length + 1 \in P
    <3>1. length + 1 \in Nat /\ length + 1 \in 0..(length + 1)
      OBVIOUS
    <3> HIDE DEF P
    <3>2. QED BY <1>8, <1>9, <3>1, CountUp
  <2>2. start \in Searches /\ start.high + 1 - start.low <= length + 1
    OBVIOUS
  <2> HIDE DEF After, Outcome, start
  <2>3. QED BY <2>1, <2>2
<1>11. /\ FittingSummary(h, length) \in 0..length
       /\ \A n \in 0..length : n <= FittingSummary(h, length) <=> n <= c
  <2>1. CASE Fit(length)
    BY <1>2, <1>3, <2>1
  <2>2. CASE ~Fit(length)
    <3>1. FittingSummary(h, length) = Outcome(start)
      <4> HIDE DEF Outcome, start
      <4>1. QED BY <1>3, <1>10, <2>2
    <3>2. ~(length <= c)
      BY <1>2, <2>2
    <3>3. Outcome(start) = c
      BY <1>1, <3>2
    <3> HIDE DEF Outcome, start
    <3>4. QED BY <3>1, <3>2, <3>3
  <2>3. QED BY <2>1, <2>2
<1>12. QED
  BY <1>2, <1>11

\* Once something is wrong, it stays so: what is wrong at a message is wrong at the end.
LEMMA WrongStays ==
  ASSUME NEW h \in Seq(Messages), NEW k \in 0..Len(h)
  PROVE  /\ \A p : PendingRun(h, p) /\ p[k] = Broken => p[Len(h)] = Broken
         /\ \A a : AwaitedRun(h, a) /\ a[k] = Expect("nothing", {}) => a[Len(h)] = Expect("nothing", {})
<1>0. PICK n \in Nat : n = Len(h)
  OBVIOUS
<1>a. k \in 0..n /\ n \in 0..n
  BY <1>0
<1>1. ASSUME NEW p, PendingRun(h, p), p[k] = Broken PROVE p[n] = Broken
  <2> DEFINE P == {i \in 0..n : k <= i => p[i] = Broken}
  <2>1. 0 \in P
    BY <1>a, <1>1
  <2>2. ASSUME NEW i \in 1..n, i - 1 \in P PROVE i \in P
    <3>1. h[i].calls \subseteq CallIds
      <4>1. h[i] \in Messages
        BY <1>0
      <4>2. QED BY <4>1, MessageFacts
    <3>2. p[i - 1] = Broken => p[i] = Broken
      <4>1. SUFFICES ASSUME p[i - 1] = Broken PROVE AfterMessage(Broken, h[i]) = Broken
        BY <1>0, <1>1 DEF PendingRun
      <4>2. Broken \ h[i].calls = Broken /\ Broken # {}
        BY <3>1, MessageHistoryAssumption DEF Broken
      <4>3. QED BY <4>2 DEF AfterMessage
    <3>3. CASE k <= i - 1
      BY <2>2, <3>2, <3>3
    <3>4. CASE ~(k <= i - 1)
      <4>1. k <= i => k = i
        BY <1>a, <3>4
      <4>2. QED BY <1>1, <4>1
    <3>5. QED BY <3>3, <3>4
  <2>3. n \in P
    <3> HIDE DEF P
    <3>1. QED BY <1>a, <2>1, <2>2, CountUp
  <2>4. QED BY <1>a, <2>3
<1>2. ASSUME NEW a, AwaitedRun(h, a), a[k] = Expect("nothing", {}) PROVE a[n] = Expect("nothing", {})
  <2> DEFINE P == {i \in 0..n : k <= i => a[i] = Expect("nothing", {})}
  <2>1. 0 \in P
    BY <1>a, <1>2
  <2>2. ASSUME NEW i \in 1..n, i - 1 \in P PROVE i \in P
    <3>2. a[i - 1] = Expect("nothing", {}) => a[i] = Expect("nothing", {})
      <4>1. SUFFICES ASSUME a[i - 1] = Expect("nothing", {})
                     PROVE  AfterTurnMessage(Expect("nothing", {}), h[i]) = Expect("nothing", {})
        BY <1>0, <1>2 DEF AwaitedRun
      <4>2. QED BY DEF AfterTurnMessage, Expect
    <3>3. CASE k <= i - 1
      BY <2>2, <3>2, <3>3
    <3>4. CASE ~(k <= i - 1)
      <4>1. k <= i => k = i
        BY <1>a, <3>4
      <4>2. QED BY <1>2, <4>1
    <3>5. QED BY <3>3, <3>4
  <2>3. n \in P
    <3> HIDE DEF P
    <3>1. QED BY <1>a, <2>1, <2>2, CountUp
  <2>4. QED BY <1>a, <2>3
<1>3. QED BY <1>0, <1>1, <1>2

\* A question awaits nothing but itself.
LEMMA QuestionsAreReset ==
  ASSUME NEW h \in Seq(Messages), NEW k \in 1..Len(h), IsHuman(h[k])
  PROVE  /\ \A p : PendingRun(h, p) /\ p[Len(h)] # Broken => p[k - 1] = {}
         /\ \A a : AwaitedRun(h, a) /\ a[Len(h)] # Expect("nothing", {}) =>
                     a[k - 1] = Expect("human", {})
<1>0. PICK n \in Nat : n = Len(h)
  OBVIOUS
<1>a. k \in 1..n /\ k \in 0..n /\ k - 1 \in 0..n
  BY <1>0
<1>1. ASSUME NEW p, PendingRun(h, p), p[n] # Broken PROVE p[k - 1] = {}
  <2>1. p[k] # Broken
    BY <1>0, <1>a, <1>1, WrongStays
  <2>2. p[k] = AfterMessage(p[k - 1], h[k])
    BY <1>0, <1>1 DEF PendingRun
  <2>3. QED BY <2>1, <2>2 DEF AfterMessage, IsHuman
<1>2. ASSUME NEW a, AwaitedRun(h, a), a[n] # Expect("nothing", {})
      PROVE  a[k - 1] = Expect("human", {})
  <2>1. a[k] # Expect("nothing", {})
    BY <1>0, <1>a, <1>2, WrongStays
  <2>2. a[k] = AfterTurnMessage(a[k - 1], h[k])
    BY <1>0, <1>2 DEF AwaitedRun
  <2>3. a[k - 1].what = "human"
    BY <2>1, <2>2 DEF AfterTurnMessage, IsHuman
  <2> DEFINE P == {i \in 0..n : a[i].what = "human" => a[i] = Expect("human", {})}
  <2>4. 0 \in P
    BY <1>0, <1>2 DEF AwaitedRun
  <2>5. ASSUME NEW i \in 1..n, i - 1 \in P PROVE i \in P
    <3>1. a[i] = AfterTurnMessage(a[i - 1], h[i])
      BY <1>0, <1>2 DEF AwaitedRun
    <3>2. a[i] \in {Expect("ai", {}), Expect("human", {}), Expect("results", h[i].calls),
                   Expect("results", a[i - 1].ids \ h[i].calls), Expect("nothing", {})}
      <4> DEFINE b == a[i - 1]
                 m == h[i]
                 Asked == b.what = "human" /\ IsHuman(m)
                 Answered == b.what = "ai" /\ m.kind = "ai"
                 Returned == b.what = "results" /\ m.kind = "tool" /\ m.calls \subseteq b.ids
                 left == b.ids \ m.calls
      <4> HIDE DEF b, m
      <4>1. a[i] = AfterTurnMessage(b, m)
        BY <3>1 DEF b, m
      <4>2. CASE Asked
        BY <4>1, <4>2 DEF AfterTurnMessage
      <4>3. CASE Answered
        BY <4>1, <4>3 DEF AfterTurnMessage, m
      <4>4. CASE Returned
        BY <4>1, <4>4 DEF AfterTurnMessage, b, m
      <4>5. CASE ~Asked /\ ~Answered /\ ~Returned
        BY <4>1, <4>5 DEF AfterTurnMessage
      <4> HIDE DEF Asked, Answered, Returned
      <4>6. QED BY <4>2, <4>3, <4>4, <4>5, Zenon
    <3>3. \A ids : /\ Expect("ai", {}).what # "human" /\ Expect("results", ids).what # "human"
                  /\ Expect("nothing", {}).what # "human"
      BY DEF Expect
    <3>4. a[i].what = "human" => a[i] = Expect("human", {})
      BY <3>2, <3>3
    <3>5. QED BY <3>4
  <2>6. k - 1 \in P
    <3> HIDE DEF P
    <3>1. QED BY <1>a, <2>4, <2>5, CountUp
  <2>7. QED BY <2>3, <2>6
<1>3. QED BY <1>0, <1>1, <1>2

\* The messages from a question on are in order if all of them are.
LEMMA FromQuestion ==
  ASSUME NEW h \in Seq(Messages), NEW k \in 1..Len(h), IsHuman(h[k]),
         Pending(h) = {}, Awaited(h) # Expect("nothing", {})
  PROVE  Pending(From(h, k)) = {} /\ Awaited(From(h, k)) = Awaited(h)
<1>1. PICK p : PendingRun(h, p) /\ Pending(h) = p[Len(h)]
  BY PendingRuns
<1>2. PICK a : AwaitedRun(h, a) /\ Awaited(h) = a[Len(h)]
  BY AwaitedRuns
<1>3. Broken # {} /\ k \in 1..(Len(h) + 1)
  BY DEF Broken
<1>4. p[k - 1] = {} /\ a[k - 1] = Expect("human", {})
  BY <1>1, <1>2, <1>3, QuestionsAreReset
<1>5. QED BY <1>1, <1>2, <1>3, <1>4, EndOf

\* The end of a sequence that gets one message more.
LEMMA FromAppend ==
  ASSUME NEW h \in Seq(Messages), NEW m \in Messages, NEW first \in 1..(Len(h) + 1)
  PROVE  From(Append(h, m), first) = Append(From(h, first), m)
<1>1. PICK n \in Nat : n = Len(h)
  OBVIOUS
<1>2. PICK g \in Seq(Messages) : g = Append(h, m) /\ Len(g) = n + 1 /\ g[n + 1] = m
                                 /\ \A i \in 1..n : g[i] = h[i]
  <2>1. /\ Append(h, m) \in Seq(Messages) /\ Len(Append(h, m)) = n + 1 /\ Append(h, m)[n + 1] = m
        /\ \A i \in 1..n : Append(h, m)[i] = h[i]
    BY <1>1, AppendProperties
  <2>2. QED BY <2>1
<1>3. PICK s \in Seq(Messages) : s = From(h, first) /\ Len(s) = n - first + 1
                                 /\ \A i \in 1..(n - first + 1) : s[i] = h[first + i - 1]
  BY <1>1, FromIs
<1>4. PICK t \in Seq(Messages) : t = From(g, first) /\ Len(t) = n + 1 - first + 1
                                 /\ \A i \in 1..(n + 1 - first + 1) : t[i] = g[first + i - 1]
  <2>1. first \in 1..(Len(g) + 1)
    BY <1>1, <1>2
  <2>2. /\ From(g, first) \in Seq(Messages) /\ Len(From(g, first)) = Len(g) - first + 1
        /\ \A i \in 1..(Len(g) - first + 1) : From(g, first)[i] = g[first + i - 1]
    BY <2>1, FromIs
  <2>3. Len(g) - first + 1 = n + 1 - first + 1
    BY <1>2
  <2>4. QED BY <2>2, <2>3
<1>5. PICK l \in Nat : l = n - first + 1
  <2>1. n - first + 1 \in Nat
    BY <1>1
  <2>2. QED BY <2>1
<1>6. Append(s, m) \in Seq(Messages) /\ Len(Append(s, m)) = l + 1 /\ Append(s, m)[l + 1] = m
      /\ \A i \in 1..l : Append(s, m)[i] = s[i]
  <2>1. Len(s) = l
    BY <1>3, <1>5
  <2>2. QED BY <1>3, <2>1, AppendProperties
<1>7. ASSUME NEW i \in 1..(l + 1) PROVE t[i] = Append(s, m)[i]
  <2>1. CASE i = l + 1
    <3>1. first + i - 1 = n + 1 /\ i \in 1..(n + 1 - first + 1)
      BY <1>1, <1>5, <2>1
    <3>2. QED BY <1>2, <1>4, <1>6, <2>1, <3>1
  <2>2. CASE i \in 1..l
    <3>1. first + i - 1 \in 1..n /\ i \in 1..(n + 1 - first + 1) /\ i \in 1..(n - first + 1)
      BY <1>1, <1>5, <2>2
    <3>2. t[i] = g[first + i - 1] /\ s[i] = h[first + i - 1]
      BY <1>3, <1>4, <3>1
    <3>3. g[first + i - 1] = h[first + i - 1]
      <4>1. \A j \in 1..n : g[j] = h[j]
        BY <1>2
      <4>2. QED BY <3>1, <4>1
    <3>4. Append(s, m)[i] = s[i]
      BY <1>6, <2>2
    <3>5. QED BY <3>2, <3>3, <3>4
  <2>3. i = l + 1 \/ i \in 1..l
    OBVIOUS
  <2>4. QED BY <2>1, <2>2, <2>3
<1>8. Len(t) = Len(Append(s, m))
  BY <1>1, <1>4, <1>5, <1>6
<1>9. t = Append(s, m)
  <2>1. Len(t) = l + 1
    BY <1>6, <1>8
  <2>2. QED BY <1>6, <1>7, <1>8, <2>1, SeqEqual
<1>10. QED BY <1>2, <1>3, <1>4, <1>9

\* A question alone.
LEMMA OneQuestion ==
  ASSUME NEW m \in Messages, IsHuman(m)
  PROVE  <<m>> \in Seq(Messages) /\ <<m>> # <<>> /\ IsHuman(<<m>>[1])
OBVIOUS

\* Complete groups are not touched.
LEMMA CompleteIsKept ==
  ASSUME NEW h \in Seq(Messages), h # <<>>, Pending(h) = {}, NEW question
  PROVE  RemoveIncompleteToolGroups(h, question) = h
<1> DEFINE complete == {k \in 1..Len(h) : /\ k = 1 \/ IsHuman(h[k])
                                         /\ HasCompleteToolGroups(From(h, k))}
<1>1. Len(h) \in Nat \ {0} /\ From(h, 1) = h
  BY SubSeqFull DEF From
<1>2. 1 \in complete
  BY <1>1 DEF HasCompleteToolGroups
<1>3. complete \subseteq Nat
  BY <1>1
<1>4. RemoveIncompleteToolGroups(h, question) = IF complete = {} THEN <<question>> ELSE From(h, Least(complete))
  BY DEF RemoveIncompleteToolGroups
<1>5. \A k \in complete : 1 <= k
  BY <1>1
<1> HIDE DEF complete
<1>6. Least(complete) = 1
  <2>1. Least(complete) \in complete /\ Least(complete) <= 1
    BY <1>2, <1>3, LeastIsMember
  <2>2. Least(complete) \in Nat /\ 1 <= Least(complete)
    BY <1>3, <1>5, <2>1
  <2>3. QED BY <2>1, <2>2
<1>7. QED BY <1>1, <1>2, <1>4, <1>6

\* What the invariants do not say of a turn that runs: the loops have read its
\* messages, and its turns are accounted for.
TurnStands ==
  running =>
    /\ dialogue \in Dialogues
    /\ groups = 0 => open = {}
    /\ Pending(working) = open
    /\ Awaited(working) = IF open = {} THEN Expect("ai", {}) ELSE Expect("results", open)
    /\ committed \cup {dialogue} = TurnsOf(working) \cup draft.covers \cup unsaid \cup draftUnsaid

HistoryInv == HistoryTypeOK /\ Restorable /\ UsesItsContext /\ NothingUnsaid /\ TurnStands

\* The turns of messages.
LEMMA TurnsOfMessages ==
  ASSUME NEW h \in Seq(Messages)
  PROVE  /\ TurnsOf(h) \subseteq Dialogues
         /\ \A m \in Messages : TurnsOf(Append(h, m)) = TurnsOf(h) \cup {m.turn}
         /\ \A first \in 1..(Len(h) + 1) : TurnsOf(From(h, first)) \subseteq TurnsOf(h)
<1>1. PICK n \in Nat : n = Len(h)
  OBVIOUS
<1>2. DOMAIN h = 1..n /\ \A i \in 1..n : h[i] \in Messages
  BY <1>1
<1>3. TurnsOf(h) = {h[i].turn : i \in 1..n}
  BY <1>2 DEF TurnsOf
<1>4. TurnsOf(h) \subseteq Dialogues
  BY <1>2, <1>3 DEF Messages
<1>5. ASSUME NEW m \in Messages PROVE TurnsOf(Append(h, m)) = TurnsOf(h) \cup {m.turn}
  <2>1. PICK g \in Seq(Messages) : g = Append(h, m) /\ Len(g) = n + 1 /\ g[n + 1] = m
                                   /\ \A i \in 1..n : g[i] = h[i]
    <3>1. /\ Append(h, m) \in Seq(Messages) /\ Len(Append(h, m)) = n + 1 /\ Append(h, m)[n + 1] = m
          /\ \A i \in 1..n : Append(h, m)[i] = h[i]
      BY <1>1, AppendProperties
    <3>2. QED BY <3>1
  <2>2. DOMAIN g = 1..(n + 1)
    BY <2>1
  <2>3. TurnsOf(g) = {g[i].turn : i \in 1..(n + 1)}
    BY <2>2 DEF TurnsOf
  <2>4. n + 1 \in 1..(n + 1) /\ \A i \in 1..(n + 1) : i = n + 1 \/ i \in 1..n
    OBVIOUS
  <2>5. \A i \in 1..n : i \in 1..(n + 1)
    OBVIOUS
  <2>6. TurnsOf(g) \subseteq TurnsOf(h) \cup {m.turn}
    BY <1>3, <2>1, <2>3, <2>4
  <2>7. TurnsOf(h) \cup {m.turn} \subseteq TurnsOf(g)
    BY <1>3, <2>1, <2>3, <2>4, <2>5
  <2>8. QED BY <2>1, <2>6, <2>7
<1>6. ASSUME NEW first \in 1..(Len(h) + 1) PROVE TurnsOf(From(h, first)) \subseteq TurnsOf(h)
  <2>1. PICK s \in Seq(Messages) : s = From(h, first) /\ Len(s) = n - first + 1
                                   /\ \A i \in 1..(n - first + 1) : s[i] = h[first + i - 1]
    BY <1>1, FromIs
  <2>2. DOMAIN s = 1..(n - first + 1)
    BY <2>1
  <2>3. ASSUME NEW i \in DOMAIN s PROVE s[i].turn \in TurnsOf(h)
    <3>1. s[i] = h[first + i - 1]
      BY <2>1, <2>2, <2>3
    <3>2. first + i - 1 \in 1..n
      BY <1>1, <2>2, <2>3
    <3>3. QED BY <1>3, <3>1, <3>2
  <2>4. QED BY <2>1, <2>3 DEF TurnsOf
<1>7. QED BY <1>4, <1>5, <1>6

\* The parts of the summaries.
LEMMA MemoryFacts ==
  ASSUME HistoryTypeOK
  PROVE  /\ memory.length \in Nat /\ draft.length \in Nat /\ memory.length <= MaxSummary
         /\ draft.length <= MaxSummary /\ memory.covers \subseteq Dialogues
         /\ draft.covers \subseteq Dialogues
BY MessageHistoryAssumption DEF HistoryTypeOK, Memories

\* A conversation starts empty.
LEMMA HistoryStarts == HistoryInit => HistoryInv
<1> SUFFICES ASSUME HistoryInit PROVE HistoryInv
  OBVIOUS
<1> USE DEF HistoryInit, NoMemory
<1>1. HistoryTypeOK
  <2>1. NoMemory \in Memories /\ 0 \in 0..NoMemory.length
    BY MessageHistoryAssumption DEF Memories
  <2>2. <<>> \in Seq(Messages)
    OBVIOUS
  <2>3. 0 \in 0..MaxGroups /\ 0 \in 0..MaxDialogues
    BY MessageHistoryAssumption
  <2>4. QED BY <2>1, <2>2, <2>3 DEF HistoryTypeOK
<1>2. Restorable
  BY OfNothing, MessageHistoryAssumption DEF Restorable, HasCompleteToolGroups, HasOnlyCommittedTurns
<1>3. UsesItsContext /\ TurnStands
  BY DEF UsesItsContext, RequestFits, SummaryIsLongest, KeepsWhatFits, TurnStands
<1>4. NothingUnsaid
  <2>1. TurnsOf(<<>>) = {}
    BY DEF TurnsOf
  <2>2. QED BY <2>1 DEF NothingUnsaid
<1>5. QED BY <1>1, <1>2, <1>3, <1>4 DEF HistoryInv

\* A response, and what the loops make of it.
LEMMA ResponseSteps ==
  ASSUME NEW t \in Dialogues, NEW size \in TextSizes \cup ToolSizes, NEW ids \in SUBSET CallIds
  PROVE  /\ Response(t, size, ids) \in Messages /\ Response(t, size, ids).turn = t
         /\ AfterMessage({}, Response(t, size, ids)) = ids
         /\ AfterTurnMessage(Expect("ai", {}), Response(t, size, ids)) =
              IF ids = {} THEN Expect("human", {}) ELSE Expect("results", ids)
<1>1. Response(t, size, ids) \in Messages /\ Response(t, size, ids).turn = t
  BY DEF Response, Messages
<1>2. AfterMessage({}, Response(t, size, ids)) = ids
  BY DEF Response, AfterMessage
<1>3. AfterTurnMessage(Expect("ai", {}), Response(t, size, ids)) =
        IF ids = {} THEN Expect("human", {}) ELSE Expect("results", ids)
  BY DEF Response, AfterTurnMessage, Expect, IsHuman
<1>4. QED BY <1>1, <1>2, <1>3

\* A result of a call that misses one.
LEMMA ResultSteps ==
  ASSUME NEW t \in Dialogues, NEW size \in TextSizes \cup ToolSizes, NEW id \in CallIds,
         NEW ids \in SUBSET CallIds, id \in ids, NEW rest, rest = ids \ {id}
  PROVE  /\ Result(t, size, id) \in Messages /\ Result(t, size, id).turn = t
         /\ AfterMessage(ids, Result(t, size, id)) = rest
         /\ AfterTurnMessage(Expect("results", ids), Result(t, size, id)) =
              IF rest = {} THEN Expect("ai", {}) ELSE Expect("results", rest)
<1>1. Result(t, size, id) \in Messages /\ Result(t, size, id).turn = t
  BY DEF Result, Messages
<1>2. AfterMessage(ids, Result(t, size, id)) = rest
  BY DEF Result, AfterMessage
<1>3. rest = {} <=> ids = {id}
  OBVIOUS
<1>4. AfterTurnMessage(Expect("results", ids), Result(t, size, id)) =
        IF ids = {id} THEN Expect("ai", {}) ELSE Expect("results", rest)
  BY DEF Result, AfterTurnMessage, Expect, IsHuman
<1>5. QED BY <1>1, <1>2, <1>3, <1>4

\* A question, and what the loops make of it between turns.
LEMMA QuestionSteps ==
  ASSUME NEW t \in Dialogues, NEW size \in TextSizes
  PROVE  /\ Human(t, size) \in Messages /\ Human(t, size).turn = t /\ IsHuman(Human(t, size))
         /\ AfterMessage({}, Human(t, size)) = {}
         /\ AfterTurnMessage(Expect("human", {}), Human(t, size)) = Expect("ai", {})
<1>1. Human(t, size) \in Messages /\ Human(t, size).turn = t /\ IsHuman(Human(t, size))
  BY DEF Human, Messages, IsHuman
<1>2. AfterMessage({}, Human(t, size)) = {}
  BY DEF Human, AfterMessage
<1>3. AfterTurnMessage(Expect("human", {}), Human(t, size)) = Expect("ai", {})
  BY DEF Human, AfterTurnMessage, Expect, IsHuman
<1>4. QED BY <1>1, <1>2, <1>3

\* Where the question of a turn is kept, and what is kept beside it.
LEMMA AskKeeps ==
  ASSUME HistoryInv, NEW size \in TextSizes, Ask(size),
         NEW question, question = Human(dialogue + 1, size),
         NEW inPrompt, inPrompt = FittingSummary(<<question>>, memory.length),
         NEW left, left = RemoveIncompleteToolGroups(
                            TrimHistory(inPrompt, Append(messages, question)), question)
  PROVE  /\ question \in Messages /\ left \in Seq(Messages) /\ left # <<>> /\ IsHuman(left[1])
         /\ Last(left) = question /\ MessagesFit(0, left)
         /\ Pending(left) = {} /\ Awaited(left) = Expect("ai", {})
         /\ \E first \in 1..(Len(messages) + 1) :
              /\ left = Append(From(messages, first), question)
              /\ first = Len(messages) + 2 - Len(left)
              /\ first <= Len(messages) => IsHuman(messages[first])
              /\ \A i \in 1..(first - 1) : IsHuman(messages[i]) =>
                   PromptSize + inPrompt + Tokens(Append(From(messages, i), question)) > MaxContext
<1> DEFINE all == Append(messages, question)
           trimmed == TrimHistory(inPrompt, all)
<1>1. messages \in Seq(Messages) /\ memory.length \in Nat /\ dialogue + 1 \in Dialogues
  <2>1. dialogue \in 0..MaxDialogues /\ dialogue < MaxDialogues
    BY DEF HistoryInv, HistoryTypeOK, Ask
  <2>2. QED BY <2>1, MemoryFacts, MessageHistoryAssumption DEF HistoryInv, HistoryTypeOK, Dialogues
<1>2. question \in Messages /\ IsHuman(question) /\ AfterMessage({}, question) = {}
      /\ AfterTurnMessage(Expect("human", {}), question) = Expect("ai", {})
  BY <1>1, QuestionSteps
<1>3. inPrompt \in Nat
  <2>1. MessagesFit(0, <<question>>)
    BY DEF Ask
  <2>2. FittingSummary(<<question>>, memory.length) \in 0..memory.length
    BY <1>1, <1>2, <2>1, OneQuestion, FittingIs
  <2>3. QED BY <1>1, <2>2
<1>4. ContainsCurrent(trimmed, question) /\ left = RemoveIncompleteToolGroups(trimmed, question)
  BY DEF Ask
<1>5. PICK n \in Nat : n = Len(messages)
  BY <1>1
<1>6. /\ all \in Seq(Messages) /\ Len(all) = n + 1 /\ all[n + 1] = question
      /\ \A i \in 1..n : all[i] = messages[i]
  BY <1>1, <1>2, <1>5, AppendProperties
<1>7. Pending(all) = {} /\ Awaited(all) = Expect("ai", {})
  BY <1>1, <1>2, AppendOne DEF HistoryInv, Restorable, HasCompleteToolGroups, HasOnlyCommittedTurns
<1> HIDE DEF all
<1>8. PICK first \in 1..(n + 2) :
        /\ trimmed = From(all, first)
        /\ first <= n + 1 =>
             IsHuman(all[first]) /\ PromptSize + inPrompt + Tokens(From(all, first)) <= MaxContext
        /\ \A i \in 1..(first - 1) : IsHuman(all[i]) =>
             PromptSize + inPrompt + Tokens(From(all, i)) > MaxContext
  <2>1. Len(all) + 1 = n + 2
    BY <1>6
  <2>2. QED BY <1>3, <1>6, <2>1, TrimIs
<1> HIDE DEF trimmed
<1>9. trimmed \in Seq(Messages) /\ Len(trimmed) = n + 1 - first + 1
      /\ \A i \in 1..(n + 1 - first + 1) : trimmed[i] = all[first + i - 1]
  <2>1. first \in 1..(Len(all) + 1)
    BY <1>6
  <2>2. /\ From(all, first) \in Seq(Messages) /\ Len(From(all, first)) = Len(all) - first + 1
        /\ \A i \in 1..(Len(all) - first + 1) : From(all, first)[i] = all[first + i - 1]
    BY <1>6, <2>1, FromIs
  <2>3. trimmed = From(all, first)
    BY <1>8
  <2>4. Len(all) - first + 1 = n + 1 - first + 1
    BY <1>6
  <2>5. QED BY <2>2, <2>3, <2>4
<1>10. trimmed # <<>> /\ Last(trimmed) = question
  BY <1>4 DEF ContainsCurrent
<1>11. first <= n + 1
  <2>1. Len(trimmed) # 0
    BY <1>9, <1>10
  <2>2. QED BY <1>9, <2>1
<1>12. IsHuman(all[first]) /\ PromptSize + inPrompt + Tokens(trimmed) <= MaxContext
  BY <1>8, <1>11
<1>13. Pending(trimmed) = {} /\ Awaited(trimmed) = Expect("ai", {})
  <2>1. first \in 1..Len(all)
    BY <1>6, <1>11
  <2>2. Expect("ai", {}) # Expect("nothing", {})
    BY DEF Expect
  <2>3. QED BY <1>6, <1>7, <1>8, <1>12, <2>1, <2>2, FromQuestion
<1>14. left = trimmed
  BY <1>4, <1>9, <1>10, <1>13, CompleteIsKept
<1>15. IsHuman(left[1])
  <2>1. 1 \in 1..(n + 1 - first + 1) /\ first + 1 - 1 = first
    BY <1>11
  <2>2. trimmed[1] = all[first]
    BY <1>9, <2>1
  <2>3. QED BY <1>12, <1>14, <2>2
<1>16. MessagesFit(0, left)
  <2>1. PICK x \in Nat : x = Tokens(trimmed)
    BY <1>9, TokensNat
  <2>2. PromptSize + inPrompt + x <= MaxContext
    BY <1>12, <2>1
  <2>3. PromptSize + 0 + x <= MaxContext
    BY <1>3, <2>2, MessageHistoryAssumption
  <2>4. QED BY <1>9, <1>10, <1>14, <1>15, <2>1, <2>3, FitIs
<1>17. /\ first \in 1..(n + 1) /\ left = Append(From(messages, first), question)
       /\ first = n + 2 - Len(left)
  <2>1. first \in 1..(n + 1)
    BY <1>11
  <2>2. From(all, first) = Append(From(messages, first), question)
    BY <1>1, <1>2, <1>5, <2>1, FromAppend DEF all
  <2>3. first = n + 2 - Len(trimmed)
    BY <1>9
  <2>4. QED BY <1>8, <1>14, <2>1, <2>2, <2>3
<1>18. first <= n => IsHuman(messages[first])
  <2>1. first <= n => all[first] = messages[first]
    BY <1>6
  <2>2. QED BY <1>12, <2>1
<1>19. ASSUME NEW i \in 1..(first - 1), IsHuman(messages[i])
       PROVE PromptSize + inPrompt + Tokens(Append(From(messages, i), question)) > MaxContext
  <2>1. i \in 1..n /\ i \in 1..(n + 1)
    BY <1>11
  <2>2. all[i] = messages[i]
    BY <1>6, <2>1
  <2>3. From(all, i) = Append(From(messages, i), question)
    BY <1>1, <1>2, <1>5, <2>1, FromAppend DEF all
  <2>4. PromptSize + inPrompt + Tokens(From(all, i)) > MaxContext
    BY <1>8, <1>19, <2>2
  <2>5. QED BY <2>3, <2>4
<1>20. QED BY <1>2, <1>5, <1>9, <1>10, <1>13, <1>14, <1>15, <1>16, <1>17, <1>18, <1>19

\* The start of a turn.
LEMMA AskPreserves ==
  ASSUME HistoryInv, NEW size \in TextSizes, Ask(size)
  PROVE  HistoryInv'
<1>1. PICK question : question = Human(dialogue + 1, size)
  OBVIOUS
<1>2. PICK inPrompt : inPrompt = FittingSummary(<<question>>, memory.length)
  OBVIOUS
<1>3. PICK left : left = RemoveIncompleteToolGroups(
                           TrimHistory(inPrompt, Append(messages, question)), question)
  OBVIOUS
<1>4. PICK removed : removed = RemovedTurns(left)
  OBVIOUS
<1>5. /\ \/ draft' = memory /\ draftUnsaid' = removed
         \/ /\ removed # {} /\ draftUnsaid' = {}
            /\ \E length \in 1..MaxSummary :
                 draft' = [covers |-> memory.covers \cup removed, length |-> length]
      /\ working' = left /\ fitted' = FittingSummary(left, draft'.length)
      /\ running' = TRUE /\ dialogue' = dialogue + 1 /\ open' = {} /\ groups' = 0
      /\ dialogue < MaxDialogues
  BY <1>1, <1>2, <1>3, <1>4 DEF Ask
<1>6. /\ messages' = messages /\ memory' = memory /\ embedded' = embedded
      /\ committed' = committed /\ unsaid' = unsaid
  BY DEF Ask, committedVars
<1>7. /\ question \in Messages /\ left \in Seq(Messages) /\ left # <<>> /\ IsHuman(left[1])
      /\ Last(left) = question /\ MessagesFit(0, left)
      /\ Pending(left) = {} /\ Awaited(left) = Expect("ai", {})
      /\ \E first \in 1..(Len(messages) + 1) :
           /\ left = Append(From(messages, first), question)
           /\ first = Len(messages) + 2 - Len(left)
           /\ first <= Len(messages) => IsHuman(messages[first])
           /\ \A i \in 1..(first - 1) : IsHuman(messages[i]) =>
                PromptSize + inPrompt + Tokens(Append(From(messages, i), question)) > MaxContext
  BY <1>1, <1>2, <1>3, AskKeeps
<1>8. PICK first \in 1..(Len(messages) + 1) :
        /\ left = Append(From(messages, first), question)
        /\ first = Len(messages) + 2 - Len(left)
        /\ first <= Len(messages) => IsHuman(messages[first])
        /\ \A i \in 1..(first - 1) : IsHuman(messages[i]) =>
             PromptSize + inPrompt + Tokens(Append(From(messages, i), question)) > MaxContext
  BY <1>7
<1>9. HistoryTypeOK /\ messages \in Seq(Messages) /\ dialogue \in 0..MaxDialogues
  BY DEF HistoryInv, HistoryTypeOK
<1>10. dialogue + 1 \in Dialogues /\ dialogue + 1 \in 0..MaxDialogues /\ question.turn = dialogue + 1
  <2>1. dialogue + 1 \in Dialogues /\ dialogue + 1 \in 0..MaxDialogues
    BY <1>5, <1>9, MessageHistoryAssumption DEF Dialogues
  <2>2. QED BY <1>1, <2>1, QuestionSteps
<1>11. removed = TurnsOf(messages) \ TurnsOf(left) /\ removed \subseteq Dialogues
  <2>1. removed = TurnsOf(messages) \ TurnsOf(left)
    BY <1>4 DEF RemovedTurns
  <2>2. QED BY <1>9, <2>1, TurnsOfMessages
<1>12. draft' \in Memories
  <2>1. memory \in Memories /\ memory.covers \in SUBSET Dialogues
    BY <1>9 DEF HistoryTypeOK, Memories
  <2>2. ASSUME NEW length \in 1..MaxSummary
        PROVE [covers |-> memory.covers \cup removed, length |-> length] \in Memories
    BY <1>11, <2>1, MessageHistoryAssumption DEF Memories
  <2>3. QED BY <1>5, <2>1, <2>2
<1>13. draft'.length \in Nat
  BY <1>12, MessageHistoryAssumption DEF Memories
<1>14. /\ fitted' \in 0..draft'.length
       /\ \A n \in 0..draft'.length : n <= fitted' <=> PromptSize + n + Tokens(left) <= MaxContext
  BY <1>5, <1>7, <1>13, FittingIs
<1>15. HistoryTypeOK'
  <2>1. messages' \in Seq(Messages) /\ working' \in Seq(Messages) /\ memory' \in Memories
        /\ embedded' \in 0..memory'.length
    BY <1>5, <1>6, <1>7 DEF HistoryInv, HistoryTypeOK
  <2>2. open' \subseteq CallIds /\ groups' \in 0..MaxGroups /\ dialogue' \in 0..MaxDialogues
        /\ running' \in BOOLEAN
    BY <1>5, <1>10, MessageHistoryAssumption
  <2>3. committed' \subseteq Dialogues /\ unsaid' \subseteq Dialogues /\ draftUnsaid' \subseteq Dialogues
    BY <1>5, <1>6, <1>11 DEF HistoryInv, HistoryTypeOK
  <2>4. QED BY <1>12, <1>14, <2>1, <2>2, <2>3 DEF HistoryTypeOK
<1>16. Restorable'
  BY <1>6 DEF HistoryInv, Restorable
<1>17. NothingUnsaid'
  BY <1>6 DEF HistoryInv, NothingUnsaid
<1>18. RequestFits' /\ SummaryIsLongest'
  <2>1. fitted' <= fitted'
    BY <1>13, <1>14
  <2>2. PromptSize + fitted' + Tokens(left) <= MaxContext
    BY <1>14, <2>1
  <2>3. QED BY <1>5, <1>14, <2>2 DEF RequestFits, SummaryIsLongest
<1>19. KeepsWhatFits'
  <2>1. Last(working') = question /\ Len(messages') + 2 - Len(working') = first
    BY <1>5, <1>6, <1>7, <1>8
  <2>2. FittingSummary(<<question>>, memory'.length) = inPrompt
    BY <1>2, <1>6
  <2>3. /\ working' = Append(From(messages', first), question)
        /\ first <= Len(messages') => IsHuman(messages'[first])
        /\ \A i \in 1..(first - 1) : IsHuman(messages'[i]) =>
             PromptSize + inPrompt + Tokens(Append(From(messages', i), question)) > MaxContext
    BY <1>5, <1>6, <1>8
  <2>4. QED BY <2>1, <2>2, <2>3 DEF KeepsWhatFits
<1>20. TurnStands'
  <2>1. TurnsOf(left) = TurnsOf(From(messages, first)) \cup {dialogue + 1}
        /\ TurnsOf(From(messages, first)) \subseteq TurnsOf(messages)
    <3>1. From(messages, first) \in Seq(Messages)
      BY <1>9, FromIs
    <3>2. TurnsOf(Append(From(messages, first), question)) =
            TurnsOf(From(messages, first)) \cup {question.turn}
      BY <1>7, <3>1, TurnsOfMessages
    <3>3. TurnsOf(From(messages, first)) \subseteq TurnsOf(messages)
      BY <1>9, TurnsOfMessages
    <3>4. QED BY <1>8, <1>10, <3>2, <3>3
  <2>2. committed = TurnsOf(messages) \cup memory.covers \cup unsaid
    BY DEF HistoryInv, NothingUnsaid
  <2>3. draft'.covers \cup draftUnsaid' = memory.covers \cup removed
    BY <1>5
  <2>4. committed \cup {dialogue + 1} = TurnsOf(left) \cup draft'.covers \cup unsaid \cup draftUnsaid'
    <3>1. TurnsOf(messages) \cup {dialogue + 1} = TurnsOf(left) \cup removed
      BY <1>11, <2>1
    <3>2. committed \cup {dialogue + 1} = TurnsOf(left) \cup removed \cup memory.covers \cup unsaid
      BY <2>2, <3>1
    <3>3. QED BY <2>3, <3>2
  <2>5. QED BY <1>5, <1>6, <1>7, <1>10, <2>4 DEF TurnStands
<1>21. QED BY <1>15, <1>16, <1>17, <1>18, <1>19, <1>20 DEF HistoryInv, UsesItsContext

\* What a turn appends to.
LEMMA OfRunning ==
  ASSUME HistoryInv, running, NEW m \in Messages, m.turn = dialogue
  PROVE  /\ Append(working, m) \in Seq(Messages) /\ dialogue \in Dialogues
         /\ Pending(Append(working, m)) = AfterMessage(open, m)
         /\ Awaited(Append(working, m)) =
              AfterTurnMessage(IF open = {} THEN Expect("ai", {}) ELSE Expect("results", open), m)
         /\ committed \cup {dialogue} =
              TurnsOf(Append(working, m)) \cup draft.covers \cup unsaid \cup draftUnsaid
<1>1. working \in Seq(Messages)
  BY DEF HistoryInv, HistoryTypeOK
<1>2. /\ dialogue \in Dialogues /\ Pending(working) = open
      /\ Awaited(working) = IF open = {} THEN Expect("ai", {}) ELSE Expect("results", open)
      /\ committed \cup {dialogue} = TurnsOf(working) \cup draft.covers \cup unsaid \cup draftUnsaid
  BY DEF HistoryInv, TurnStands
<1>3. TurnsOf(Append(working, m)) = TurnsOf(working) \cup {dialogue}
  BY <1>1, TurnsOfMessages
<1>4. /\ Pending(Append(working, m)) = AfterMessage(Pending(working), m)
      /\ Awaited(Append(working, m)) = AfterTurnMessage(Awaited(working), m)
  BY <1>1, AppendOne
<1>5. Append(working, m) \in Seq(Messages)
  BY <1>1, AppendProperties
<1>6. committed \cup {dialogue} =
        TurnsOf(Append(working, m)) \cup draft.covers \cup unsaid \cup draftUnsaid
  BY <1>2, <1>3
<1>7. QED BY <1>2, <1>4, <1>5, <1>6

\* A response with calls.
LEMMA CallToolsPreserves ==
  ASSUME HistoryInv, NEW size \in ToolSizes, NEW ids \in SUBSET CallIds, CallTools(size, ids)
  PROVE  HistoryInv'
<1>1. /\ running /\ open = {} /\ groups < MaxGroups /\ ids # {} /\ open' = ids /\ groups' = groups + 1
      /\ working' = Append(working, Response(dialogue, size, ids))
      /\ messages' = messages /\ memory' = memory /\ embedded' = embedded /\ committed' = committed
      /\ unsaid' = unsaid /\ draft' = draft /\ fitted' = fitted /\ draftUnsaid' = draftUnsaid
      /\ dialogue' = dialogue /\ running' = running
  BY DEF CallTools, committedVars
<1>2. dialogue \in Dialogues /\ groups \in 0..MaxGroups
  BY <1>1 DEF HistoryInv, TurnStands, HistoryTypeOK
<1>3. PICK m \in Messages :
        /\ m = Response(dialogue, size, ids) /\ m.turn = dialogue /\ AfterMessage({}, m) = ids
        /\ AfterTurnMessage(Expect("ai", {}), m) = Expect("results", ids)
  BY <1>1, <1>2, ResponseSteps
<1>4. /\ working' \in Seq(Messages) /\ Pending(working') = ids /\ Awaited(working') = Expect("results", ids)
      /\ committed \cup {dialogue} = TurnsOf(working') \cup draft.covers \cup unsaid \cup draftUnsaid
  BY <1>1, <1>3, OfRunning
<1>5. groups' \in 0..MaxGroups /\ groups' # 0
  BY <1>1, <1>2, MessageHistoryAssumption
<1>6. HistoryTypeOK'
  BY <1>1, <1>4, <1>5 DEF HistoryInv, HistoryTypeOK
<1>7. Restorable' /\ NothingUnsaid'
  BY <1>1 DEF HistoryInv, Restorable, NothingUnsaid
<1>8. UsesItsContext'
  BY <1>5 DEF UsesItsContext, RequestFits, SummaryIsLongest, KeepsWhatFits
<1>9. TurnStands'
  BY <1>1, <1>2, <1>4, <1>5 DEF TurnStands
<1>10. QED BY <1>6, <1>7, <1>8, <1>9 DEF HistoryInv

\* A result.
LEMMA AppendResultPreserves ==
  ASSUME HistoryInv, NEW size \in ToolSizes, NEW id \in CallIds, AppendResult(size, id)
  PROVE  HistoryInv'
<1>1. /\ running /\ id \in open /\ open' = open \ {id} /\ groups' = groups
      /\ working' = Append(working, Result(dialogue, size, id))
      /\ messages' = messages /\ memory' = memory /\ embedded' = embedded /\ committed' = committed
      /\ unsaid' = unsaid /\ draft' = draft /\ fitted' = fitted /\ draftUnsaid' = draftUnsaid
      /\ dialogue' = dialogue /\ running' = running
  BY DEF AppendResult, committedVars
<1>2. dialogue \in Dialogues /\ open \in SUBSET CallIds /\ groups # 0
  BY <1>1 DEF HistoryInv, TurnStands, HistoryTypeOK
<1>3. PICK m \in Messages :
        /\ m = Result(dialogue, size, id) /\ m.turn = dialogue /\ AfterMessage(open, m) = open'
        /\ AfterTurnMessage(Expect("results", open), m) =
             IF open' = {} THEN Expect("ai", {}) ELSE Expect("results", open')
  <2>1. size \in TextSizes \cup ToolSizes
    OBVIOUS
  <2>2. /\ Result(dialogue, size, id) \in Messages /\ Result(dialogue, size, id).turn = dialogue
        /\ AfterMessage(open, Result(dialogue, size, id)) = open'
        /\ AfterTurnMessage(Expect("results", open), Result(dialogue, size, id)) =
             IF open' = {} THEN Expect("ai", {}) ELSE Expect("results", open')
    BY <1>1, <1>2, <2>1, ResultSteps
  <2>3. QED BY <1>1, <2>2
<1>4. /\ working' \in Seq(Messages) /\ Pending(working') = open'
      /\ Awaited(working') = IF open' = {} THEN Expect("ai", {}) ELSE Expect("results", open')
      /\ committed \cup {dialogue} = TurnsOf(working') \cup draft.covers \cup unsaid \cup draftUnsaid
  <2>1. open # {}
    BY <1>1
  <2>2. QED BY <1>1, <1>3, <2>1, OfRunning
<1>5. open' \subseteq CallIds
  BY <1>1, <1>2
<1>6. HistoryTypeOK'
  BY <1>1, <1>4, <1>5 DEF HistoryInv, HistoryTypeOK
<1>7. Restorable' /\ NothingUnsaid'
  BY <1>1 DEF HistoryInv, Restorable, NothingUnsaid
<1>8. UsesItsContext'
  BY <1>1, <1>2 DEF UsesItsContext, RequestFits, SummaryIsLongest, KeepsWhatFits
<1>9. TurnStands'
  BY <1>1, <1>2, <1>4 DEF TurnStands
<1>10. QED BY <1>6, <1>7, <1>8, <1>9 DEF HistoryInv

\* The answer.
LEMMA AnswerPreserves ==
  ASSUME HistoryInv, NEW size \in TextSizes, Answer(size)
  PROVE  HistoryInv'
<1>1. /\ running /\ open = {} /\ messages' = Append(working, Response(dialogue, size, {}))
      /\ memory' = draft /\ embedded' = fitted /\ committed' = committed \cup {dialogue}
      /\ unsaid' = unsaid \cup draftUnsaid /\ running' = FALSE
      /\ working' = working /\ draft' = draft /\ fitted' = fitted /\ open' = open
      /\ groups' = groups /\ draftUnsaid' = draftUnsaid /\ dialogue' = dialogue
  BY DEF Answer, turnStateVars
<1>2. dialogue \in Dialogues
  BY <1>1 DEF HistoryInv, TurnStands
<1>3. PICK m \in Messages :
        /\ m = Response(dialogue, size, {}) /\ m.turn = dialogue /\ AfterMessage({}, m) = {}
        /\ AfterTurnMessage(Expect("ai", {}), m) = Expect("human", {})
  BY <1>1, <1>2, ResponseSteps
<1>4. /\ messages' \in Seq(Messages) /\ Pending(messages') = {} /\ Awaited(messages') = Expect("human", {})
      /\ committed' = TurnsOf(messages') \cup draft.covers \cup unsaid \cup draftUnsaid
  BY <1>1, <1>3, OfRunning
<1>5. committed' \subseteq Dialogues /\ unsaid' \subseteq Dialogues
  BY <1>1, <1>2 DEF HistoryInv, HistoryTypeOK
<1>6. HistoryTypeOK'
  BY <1>1, <1>4, <1>5 DEF HistoryInv, HistoryTypeOK
<1>7. Restorable'
  <2>1. memory'.length <= MaxSummary
    BY <1>1, MemoryFacts DEF HistoryInv
  <2>2. embedded' <= memory'.length
    BY <1>1, MemoryFacts DEF HistoryInv, HistoryTypeOK
  <2>3. QED BY <1>4, <2>1, <2>2 DEF Restorable, HasCompleteToolGroups, HasOnlyCommittedTurns
<1>8. NothingUnsaid'
  BY <1>1, <1>4 DEF NothingUnsaid
<1>9. UsesItsContext' /\ TurnStands'
  BY <1>1 DEF UsesItsContext, RequestFits, SummaryIsLongest, KeepsWhatFits, TurnStands
<1>10. QED BY <1>6, <1>7, <1>8, <1>9 DEF HistoryInv

\* An end without an answer, or no step.
LEMMA GiveUpPreserves ==
  ASSUME HistoryInv, running' = FALSE \/ running' = running,
         UNCHANGED <<committedVars, turnStateVars, dialogue>>
  PROVE  HistoryInv'
<1>1. /\ messages' = messages /\ memory' = memory /\ embedded' = embedded /\ committed' = committed
      /\ unsaid' = unsaid /\ draft' = draft /\ fitted' = fitted /\ draftUnsaid' = draftUnsaid
      /\ dialogue' = dialogue /\ working' = working /\ open' = open /\ groups' = groups
  BY DEF committedVars, turnStateVars
<1>2. HistoryTypeOK'
  BY <1>1 DEF HistoryInv, HistoryTypeOK
<1>3. Restorable' /\ NothingUnsaid'
  BY <1>1 DEF HistoryInv, Restorable, NothingUnsaid
<1>4. UsesItsContext'
  BY <1>1 DEF HistoryInv, UsesItsContext, RequestFits, SummaryIsLongest, KeepsWhatFits
<1>5. TurnStands'
  BY <1>1 DEF HistoryInv, TurnStands
<1>6. QED BY <1>2, <1>3, <1>4, <1>5 DEF HistoryInv

\* Every step of the specification.
LEMMA HistoryStep == HistoryInv /\ [HistoryNext]_historyVars => HistoryInv'
<1> SUFFICES ASSUME HistoryInv, [HistoryNext]_historyVars PROVE HistoryInv'
  OBVIOUS
<1>1. ASSUME NEW size \in TextSizes, Ask(size) PROVE HistoryInv'
  BY <1>1, AskPreserves
<1>2. ASSUME NEW size \in TextSizes, Answer(size) PROVE HistoryInv'
  BY <1>2, AnswerPreserves
<1>3. ASSUME NEW size \in ToolSizes, NEW ids \in SUBSET CallIds, CallTools(size, ids) PROVE HistoryInv'
  BY <1>3, CallToolsPreserves
<1>4. ASSUME NEW size \in ToolSizes, NEW id \in CallIds, AppendResult(size, id) PROVE HistoryInv'
  BY <1>4, AppendResultPreserves
<1>5. CASE GiveUp
  BY <1>5, GiveUpPreserves DEF GiveUp
<1>6. CASE UNCHANGED historyVars
  BY <1>6, GiveUpPreserves DEF historyVars
<1>7. QED BY <1>1, <1>2, <1>3, <1>4, <1>5, <1>6 DEF HistoryNext

\* The invariant of the message history.
THEOREM HistoryInvariant == HistorySpec => []HistoryInv
<1>1. HistoryInit => HistoryInv
  BY HistoryStarts
<1>2. HistoryInv /\ [HistoryNext]_historyVars => HistoryInv'
  BY HistoryStep
<1>3. QED BY <1>1, <1>2, PTL DEF HistorySpec

\* For every number of turns and groups, every context and summary length and
\* every size of a message: what is committed can be opened again
\* (restore_snapshot's checks pass), whatever was trimmed before.
THEOREM CommittedIsRestorable == HistorySpec => []Restorable
<1>1. HistoryInv => Restorable
  BY DEF HistoryInv
<1>2. QED BY <1>1, HistoryInvariant, PTL

\* The request that opens a turn fits; the binary search of _with_fitting_summary
\* finds the longest summary that fits; the turn starts from as many whole turns
\* as fit.
THEOREM ContextIsUsed == HistorySpec => []UsesItsContext
<1>1. HistoryInv => UsesItsContext
  BY DEF HistoryInv
<1>2. QED BY <1>1, HistoryInvariant, PTL

\* No committed turn leaves the messages unless the summary model was told of it
\* or failed when it was asked to.
THEOREM NoTurnIsDropped == HistorySpec => []NothingUnsaid
<1>1. HistoryInv => NothingUnsaid
  BY DEF HistoryInv
<1>2. QED BY <1>1, HistoryInvariant, PTL

-------------------------------------------------------------------------------
(***************************************************************************)
(* The parts together.  MCParts runs one of the parts and lets the others   *)
(* stand still, so that it implements the specification of each of them,    *)
(* and what is proved of a part holds of it.                                *)
(***************************************************************************)

\* A step of one part is a step of its specification and a stutter of the others.
LEMMA OnePartMoves ==
  ASSUME [PartsNext]_partVars
  PROVE  /\ [Next]_vars /\ [LogNext]_logVars /\ [HistoryNext]_historyVars
         /\ [IndexNext]_knowledgeVars /\ [CliNext]_terminalVars
<1>1. CASE UNCHANGED partVars
  BY <1>1 DEF partVars
<1>2. CASE part = "files" /\ Next /\ UNCHANGED <<logVars, historyVars, knowledgeVars, terminalVars>>
  BY <1>2
<1>3. CASE part = "log" /\ LogNext /\ UNCHANGED <<vars, historyVars, knowledgeVars, terminalVars>>
  BY <1>3
<1>4. CASE part = "history" /\ HistoryNext /\ UNCHANGED <<vars, logVars, knowledgeVars, terminalVars>>
  BY <1>4
<1>5. CASE part = "index" /\ IndexNext /\ UNCHANGED <<vars, logVars, historyVars, terminalVars>>
  BY <1>5
<1>6. CASE part = "cli" /\ CliNext /\ UNCHANGED <<vars, logVars, historyVars, knowledgeVars>>
  BY <1>6
<1>7. QED BY <1>1, <1>2, <1>3, <1>4, <1>5, <1>6 DEF PartsNext

\* MCParts implements the workspace writes, the audit log, the message history, the index
\* and the command line, each with its own variables.
THEOREM PartsAreImplemented ==
  PartsSpec => Spec /\ LogSpec /\ HistorySpec /\ IndexSpec /\ CliSpec
<1>1. PartsInit => Init /\ LogInit /\ HistoryInit /\ IndexInit /\ CliInit
  BY DEF PartsInit
<1>2. QED BY <1>1, OnePartMoves, PTL DEF PartsSpec, Spec, LogSpec, HistorySpec, IndexSpec, CliSpec

\* The types of the log, the index and the command line are part of what was proved of them.
LEMMA TypesFollow ==
  /\ LogInv => LogTypeOK
  /\ HistoryInv => HistoryTypeOK
  /\ IndexInv => IndexTypeOK
  /\ CliInv => CliTypeOK
<1>1. LogInv => LogTypeOK
  BY DEF LogInv, LogTypes, LogTypeOK, Directories, Calls, Positionings
<1>2. HistoryInv => HistoryTypeOK
  BY DEF HistoryInv
<1>3. IndexInv => IndexTypeOK
  BY DEF IndexInv, IndexTypes, IndexFiles, LockHeld, IndexTypeOK
<1>4. ASSUME CliInv PROVE CliTypeOK
  <2>1. /\ CliTypes /\ ScreensFit /\ RecordsAreHome
        /\ AskedSoFar \subseteq Questions /\ NoRecord.question = 0
    BY <1>4, AskedAre, RecordIs DEF CliInv
  <2>2. snapshots \in [SessionNames -> SUBSET Questions]
    BY <2>1 DEF CliTypes
  <2>3. \A s \in SessionNames : records[s].question \in Questions \cup {0}
    BY <2>1 DEF RecordsAreHome, IsHome
  <2>4. \A t \in Terminals : Live(t) => at[t] \in SessionNames
    BY <2>1 DEF ScreensFit
  <2>5. \A t \in Terminals :
          screen[t] = "approval" => kept[t].question = current[t] /\ current[t] \in Questions
    BY <2>1 DEF ScreensFit, RecordsAreHome, IsHome
  <2>6. QED BY <2>2, <2>3, <2>4, <2>5 DEF CliTypeOK
<1>5. QED BY <1>1, <1>2, <1>3, <1>4

\* The variables of every part keep their types in the composition of the run.
THEOREM PartsKeepTypes == PartsSpec => []PartsTypeOK
<1>1. TypeOK /\ LogInv /\ HistoryInv /\ IndexInv /\ CliInv => PartsTypeOK
  BY TypesFollow DEF PartsTypeOK
<1>2. QED BY <1>1, PartsAreImplemented, TypeCorrect, LogInvariant, HistoryInvariant,
             IndexInvariant, CliInvariant, PTL

\* Every safety property of the run of MCParts is one of its parts and holds of all of them.
THEOREM PartsAreSafe ==
  PartsSpec =>
    /\ [](OnePreviewOneWrite /\ ReportedSurvives /\ RotationIsSound /\ DeletedIsGone)
    /\ [](Restorable /\ UsesItsContext /\ NothingUnsaid)
    /\ [](IndexSurvives /\ DeletedChunksGo)
    /\ [](AnsweredIsSavedOrTold /\ ApprovalsStayHome /\ OpensAgain)
    /\ ReplacesPreview
<1>1. PartsSpec => [](OnePreviewOneWrite /\ ReportedSurvives /\ RotationIsSound /\ DeletedIsGone)
  BY PartsAreImplemented, OneWritePerPreview, ReportsSurvive, RotationStaysSound,
     DeletedStaysGone, PTL
<1>2. PartsSpec => [](Restorable /\ UsesItsContext /\ NothingUnsaid)
  BY PartsAreImplemented, CommittedIsRestorable, ContextIsUsed, NoTurnIsDropped, PTL
<1>3. PartsSpec => [](IndexSurvives /\ DeletedChunksGo)
  BY PartsAreImplemented, IndexIsLoadable, DeletedChunksLeave, PTL
<1>4. PartsSpec => [](AnsweredIsSavedOrTold /\ ApprovalsStayHome /\ OpensAgain)
  BY PartsAreImplemented, NothingAnsweredIsLost, ApprovalsAreHome, SessionsOpenAgain, PTL
<1>5. PartsSpec => ReplacesPreview
  BY PartsAreImplemented, WritesWhatWasSeen, PTL
<1>6. QED BY <1>1, <1>2, <1>3, <1>4, <1>5, PTL
===============================================================================
