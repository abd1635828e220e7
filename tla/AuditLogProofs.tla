----------------------------- MODULE AuditLogProofs -----------------------------
(***************************************************************************)
(* Theorems about AuditLog: what was reported survives, rotation costs the  *)
(* oldest records only and keeps the others in their order, and what was    *)
(* deleted is gone.                                                         *)
(*                                                                         *)
(* A power failure may leave any directory since the last sync, so that     *)
(* every directory that may be on disk has to be in order, not only the one *)
(* in memory, and whatever two of them do not agree on has to be known to   *)
(* be at risk.  The depth of rotation is followed by positions in the order *)
(* of writing: a record in the file of a slot lies behind all that has been *)
(* written since its file was moved there.                                  *)
(***************************************************************************)
EXTENDS AuditLog, SequenceTheorems, TLAPS

USE DEF lockVars, deletionVars

Directories == [Slots -> Files \cup {NoFile}]
Calls       == Records \cup DeletionCalls
Stages      == {"none", "prune", "open", "rotate", "rotated", "reopen", "write", "sync",
                "delete", "deleted"}

Positionings == {"new", "waiting", "over"} \cup Holding

LogTypes ==
  /\ names \in disk /\ disk \subseteq Directories /\ lines \in [Files -> Seq(Records)]
  /\ undone \subseteq Files
  /\ calls \subseteq Calls /\ call \in Calls \cup {NoCall}
  /\ stage \in Stages /\ slot \in Slots /\ unsynced \in BOOLEAN
  /\ lock \in Nat /\ lockOf \in [Actors -> Nat] /\ position \in [Actors -> Positionings]
  /\ sent \in [Turns -> 0..MaxRecords]
  /\ written \in Seq(Records) /\ cutShort \in BOOLEAN

\* What the step that a call is at says of the directory.
StageFits ==
  /\ stage = "none" <=> call = NoCall
  /\ stage \in {"delete", "deleted"} <=> call \in DeletionCalls
  /\ stage \in {"open", "rotate", "rotated", "reopen"} => ~unsynced
  /\ stage = "rotate" => IF slot = RotationCount
                         THEN Present(0) /\ Len(lines[names[0]]) >= Capacity
                         ELSE ~Present(slot + 1)
  /\ stage \in {"rotated", "reopen"} => ~Present(0)
  /\ stage \in {"write", "sync"} => Present(0)
  /\ stage = "sync" => unsynced /\ call \in InFile(names[0])
  /\ stage = "delete" => \A s \in Slots : s < slot => ~Present(s)
  /\ stage = "deleted" => \A s \in Slots : ~Present(s)

\* A file has one name; the records of older files were written before.
Injective(d) == \A s, t \in Slots : d[s] # NoFile /\ d[s] = d[t] => s = t

Ordered(d) ==
  \A s, t \in Slots : s < t /\ d[s] # NoFile /\ d[t] # NoFile =>
    \A i, j \in DOMAIN written :
      written[i] \in InFile(d[s]) /\ written[j] \in InFile(d[t]) => j < i

\* How many records the current file of a directory has.
Current(d) == IF d[0] = NoFile THEN 0 ELSE Len(lines[d[0]])

\* Every record of a file has at least so many after it.
Behind(f, depth) ==
  \A i \in DOMAIN written : written[i] \in InFile(f) => Len(written) - i >= depth

Rotations == Slots \ {0}

\* The current file is full of records that are younger than those of the others.
BehindCurrent(d) == \A s \in Rotations : d[s] # NoFile => Behind(d[s], Current(d))

\* If rotations are whole, a slot is as deep as the files that were full since then.
Depth(s) == Capacity * s
Deep(d)  == \A s \in Rotations : d[s] # NoFile => Behind(d[s], Depth(s - 1) + Current(d))
Deeper   ==
  \A s \in Rotations : Present(s) => Behind(names[s], Depth(IF s <= slot THEN s ELSE s - 1))

DirectoriesSound == \A d \in disk : Injective(d) /\ Ordered(d) /\ BehindCurrent(d)

\* Files move up only: none is in memory in a lower slot than on disk.
Latest ==
  \A d \in disk, s, t \in Slots : names[s] # NoFile /\ d[t] = names[s] => t <= s

\* Unless a call is about to sync, what is on some of the possible disks only is undone.
Loose == (unsynced /\ call # NoCall) \/ stage \in {"rotate", "rotated"}

DifferencesKnown ==
  ~Loose => \A d, e \in disk : FilesOf(d) \ FilesOf(e) \subseteq undone

DepthKept ==
  ~cutShort => CASE stage = "rotate"  -> Deeper
                 [] stage = "rotated" -> Deep(names)
                 [] OTHER             -> \A d \in disk : Deep(d)

Outstanding == (calls \cup {call}) \cap Records
Unwritten   == (IF stage = "sync" THEN calls ELSE calls \cup {call}) \cap Records

\* Of each turn at most one record waits, the last one, and its turn waits for it or was
\* cancelled; a deletion waits for its call.
OutstandingFits ==
  /\ call \notin calls
  /\ \A r \in Outstanding : r[2] = sent[r[1]]
  /\ \A r \in Outstanding : r \in stray \/ position[r[1]] = "inside"
  /\ \A c \in (calls \cup {call}) \cap DeletionCalls : position[c[1]] = "deleting"

\* A lock object has one holder.
LocksExclude ==
  \A a, b \in Actors :
    position[a] \in Holding /\ position[b] \in Holding /\ lockOf[a] = lockOf[b] => a = b

\* What is in the files was written, and was handed over before.
WrittenFits ==
  /\ \A f \in Files : \A r \in InFile(f) : \E i \in DOMAIN written : written[i] = r
  /\ \A i \in DOMAIN written : written[i] \in HandedOver
  /\ \A r \in Unwritten, i \in DOMAIN written : written[i][1] = r[1] => written[i][2] < r[2]

\* A deleted record comes back on no disk, unless its thread was left behind or its
\* turn ran beside the deletion.
DeletedStays ==
  /\ deleted \subseteq HandedOver
  /\ \A r \in deleted \ (stray \cup beside) : r \notin Outstanding /\ \A d \in disk : r \notin Kept(d)

\* The inductive invariant of the log.
LogInv ==
  /\ LogTypes /\ StageFits /\ DirectoriesSound /\ Latest /\ DifferencesKnown /\ DepthKept
  /\ OutstandingFits /\ LocksExclude /\ WrittenFits /\ DeletedStays
  /\ ReportedSurvives /\ RotationKeepsDepth /\ TurnInOrder

-------------------------------------------------------------------------------
LEMMA Numbers ==
  /\ RotationCount \in Nat \ {0} /\ Capacity \in Nat \ {0} /\ NoFile = 0 /\ NoFile \notin Files
  /\ 0 \in Slots /\ RotationCount \in Slots /\ Slots \subseteq Nat
  /\ \A s \in Slots : s <= RotationCount
  /\ \A s \in Slots : s < RotationCount => s + 1 \in Rotations
  /\ \A s \in Rotations : s \in Slots /\ s - 1 \in Slots /\ s \in Nat \ {0}
BY AuditLogAssumption DEF NoFile, Files, Slots, Rotations

LEMMA CallsAre ==
  /\ \A c \in DeletionCalls : /\ c \notin Records /\ c # NoCall
                             /\ c[1] \in Deletions /\ c[1] \in Actors /\ c = <<c[1], 0>>
  /\ NoCall \notin Calls /\ NoCall \notin Records
  /\ \A r \in Records : /\ r[1] \in Turns /\ r[1] \in Actors /\ r[2] \in 1..MaxRecords
                       /\ r = <<r[1], r[2]>>
  /\ \A t \in Turns, d \in Deletions : t # d
BY AuditLogAssumption DEF Records, Turns, Deletions, Actors, DeletionCalls, NoCall, Calls

LEMMA DepthIs ==
  /\ Depth(0) = 0 /\ Depth(RotationCount) = Capacity * RotationCount
  /\ \A s \in Nat : Depth(s) \in Nat /\ Depth(s) + Capacity = Depth(s + 1)
BY AuditLogAssumption DEF Depth

LEMMA DirectoryIs ==
  ASSUME NEW d \in Directories, NEW s \in Slots, d[s] # NoFile
  PROVE  d[s] \in Files /\ d[s] \in FilesOf(d)
BY DEF Directories, FilesOf

\* A directory that is in order, for itself.
Sound(d) == Injective(d) /\ Ordered(d) /\ BehindCurrent(d)

LEMMA CurrentIs ==
  ASSUME LogTypes, NEW d \in Directories
  PROVE  Current(d) \in Nat
BY Numbers, LenProperties DEF LogTypes, Directories, Current

LEMMA Positions ==
  ASSUME LogTypes
  PROVE  Len(written) \in Nat /\ \A i \in DOMAIN written : i \in Nat /\ Len(written) - i \in Nat
<1>1. Len(written) \in Nat /\ DOMAIN written = 1..Len(written)
  BY LenProperties DEF LogTypes
<1>2. QED BY <1>1

\* A file that lies deep lies less deep; none lies less deep than 0.
LEMMA LessDeep ==
  ASSUME LogTypes, NEW f, NEW m \in Nat, NEW n \in Nat, m <= n, Behind(f, n) \/ m = 0
  PROVE  Behind(f, m)
<1>1. ASSUME NEW i \in DOMAIN written, written[i] \in InFile(f)
      PROVE  Len(written) - i >= m
  <2> DEFINE after == Len(written) - i
  <2>1. after \in Nat
    BY Positions
  <2>2. after >= n \/ m = 0
    BY <1>1 DEF Behind
  <2> HIDE DEF after
  <2>3. after >= m
    BY <2>1, <2>2
  <2>4. QED BY <2>3 DEF after
<1>2. QED BY <1>1 DEF Behind

\* A directory without some of the files of another one.
LEMMA LosingKeeps ==
  ASSUME LogTypes, NEW d \in Directories, NEW e \in Directories, Sound(d),
         \A s \in Slots : e[s] \in {d[s], NoFile}
  PROVE  /\ Sound(e) /\ FilesOf(e) \subseteq FilesOf(d)
         /\ Deep(d) => Deep(e)
<1>1. Current(e) \in Nat /\ Current(d) \in Nat /\ Current(e) <= Current(d)
  <2>1. Current(e) \in {Current(d), 0}
    BY Numbers DEF Current
  <2>2. QED BY <2>1, CurrentIs
<1>2. Injective(e) /\ Ordered(e)
  BY DEF Sound, Injective, Ordered
<1>3. \A s \in Rotations : e[s] # NoFile => d[s] = e[s]
  BY Numbers
<1>4. BehindCurrent(e)
  BY <1>1, <1>3, LessDeep DEF Sound, BehindCurrent
<1>5. ASSUME Deep(d) PROVE Deep(e)
  <2>1. \A s \in Rotations : Depth(s - 1) \in Nat
    BY Numbers, DepthIs
  <2>2. \A s \in Rotations :
          /\ Depth(s - 1) + Current(e) \in Nat /\ Depth(s - 1) + Current(d) \in Nat
          /\ Depth(s - 1) + Current(e) <= Depth(s - 1) + Current(d)
    BY <1>1, <2>1
  <2>3. QED BY <1>3, <1>5, <2>2, LessDeep DEF Deep
<1>6. FilesOf(e) \subseteq FilesOf(d)
  BY DEF FilesOf
<1>7. QED BY <1>2, <1>4, <1>5, <1>6 DEF Sound

\* A file moves up into a slot that is free.
LEMMA MovingKeeps ==
  ASSUME LogTypes, NEW d \in Directories, Sound(d), NEW s \in Slots, s < RotationCount,
         d[s] # NoFile, d[s + 1] = NoFile, NEW e \in Directories,
         \A t \in Slots : e[t] = IF t = s THEN NoFile ELSE IF t = s + 1 THEN d[s] ELSE d[t]
  PROVE  Sound(e) /\ FilesOf(e) = FilesOf(d)
<1>1. s + 1 \in Slots /\ s + 1 # s /\ s \in Nat
  BY Numbers
<1>2. \A t \in Slots : e[t] = IF t = s THEN NoFile ELSE IF t = s + 1 THEN d[s] ELSE d[t]
  OBVIOUS
<1>3. FilesOf(e) = FilesOf(d)
  <2>1. ASSUME NEW f \in FilesOf(d) PROVE f \in FilesOf(e)
    <3>1. PICK t \in Slots : f = d[t] /\ f # NoFile
      BY DEF FilesOf
    <3>2. CASE t = s
      BY <1>1, <1>2, <3>1, <3>2 DEF FilesOf
    <3>3. CASE t # s
      BY <1>1, <1>2, <3>1, <3>3 DEF FilesOf
    <3>4. QED BY <3>2, <3>3
  <2>2. FilesOf(e) \subseteq FilesOf(d)
    BY <1>1, <1>2 DEF FilesOf
  <2>3. QED BY <2>1, <2>2
<1>4. Injective(e)
  BY <1>1, <1>2 DEF Sound, Injective
<1>5. Ordered(e)
  <2>1. ASSUME NEW t \in Slots, NEW u \in Slots, t < u, e[t] # NoFile, e[u] # NoFile
        PROVE  \E v, w \in Slots : v < w /\ d[v] = e[t] /\ d[w] = e[u]
    <3> DEFINE From(x) == IF x = s + 1 THEN s ELSE x
    <3>1. \A x \in Slots : e[x] # NoFile => From(x) \in Slots /\ d[From(x)] = e[x]
      BY <1>1, <1>2
    <3>2. From(t) < From(u)
      <4>1. t # s /\ u # s
        BY <1>2, <2>1
      <4>2. t \in Nat /\ u \in Nat
        BY Numbers
      <4>3. QED BY <1>1, <2>1, <4>1, <4>2
    <3> HIDE DEF From
    <3>3. QED BY <2>1, <3>1, <3>2
  <2>2. ASSUME NEW t \in Slots, NEW u \in Slots, t < u, e[t] # NoFile, e[u] # NoFile,
               NEW i \in DOMAIN written, NEW j \in DOMAIN written,
               written[i] \in InFile(e[t]), written[j] \in InFile(e[u])
        PROVE  j < i
    <3>1. PICK v \in Slots, w \in Slots : v < w /\ d[v] = e[t] /\ d[w] = e[u]
      BY <2>1, <2>2
    <3>2. QED BY <2>2, <3>1 DEF Sound, Ordered
  <2>3. QED BY <2>2 DEF Ordered
<1>6. BehindCurrent(e)
  <2>2. CASE s = 0
    <3>1. Current(e) = 0
      BY <1>1, <1>2, <2>2 DEF Current
    <3>2. QED BY <3>1, LessDeep DEF BehindCurrent
  <2>1. CASE s # 0
    <3>1. Current(e) = Current(d)
      <4>1. 0 \in Slots /\ 0 # s /\ 0 # s + 1
        BY <1>1, <2>1, Numbers
      <4>2. e[0] = d[0]
        BY <1>2, <4>1
      <4>3. QED BY <4>2 DEF Current
    <3>2. ASSUME NEW t \in Rotations, e[t] # NoFile
          PROVE  \E u \in Rotations : e[t] = d[u] /\ d[u] # NoFile
      <4>1. CASE t = s + 1
        BY <1>2, <2>1, <3>2, <4>1, Numbers DEF Rotations
      <4>2. CASE t # s + 1
        BY <1>2, <3>2, <4>2, Numbers
      <4>3. QED BY <4>1, <4>2
    <3>3. QED BY <3>1, <3>2 DEF Sound, BehindCurrent
  <2>3. QED BY <2>1, <2>2
<1>7. QED BY <1>2, <1>3, <1>4, <1>5, <1>6 DEF Sound

\* A directory whose files are as they were.
LEMMA SameFiles ==
  ASSUME NEW d, UNCHANGED written,
         0 \in Slots, Rotations \subseteq Slots,
         \A s \in Slots : d[s] # NoFile =>
           InFile(d[s])' = InFile(d[s]) /\ lines'[d[s]] = lines[d[s]]
  PROVE  (Sound(d) => Sound(d)') /\ (Deep(d) => Deep(d)')
<1>1. Current(d)' = Current(d)
  BY DEF Current
<1>2. \A n : \A s \in Slots : d[s] # NoFile /\ Behind(d[s], n) => Behind(d[s], n)'
  BY DEF Behind
<1>3. ASSUME Sound(d) PROVE Sound(d)'
  <2>1. Injective(d)' /\ Ordered(d)'
    BY <1>3 DEF Sound, Injective, Ordered
  <2>2. BehindCurrent(d)'
    BY <1>1, <1>2, <1>3 DEF Sound, BehindCurrent
  <2>3. QED BY <2>1, <2>2 DEF Sound
<1>4. ASSUME Deep(d) PROVE Deep(d)'
  BY <1>1, <1>2, <1>4 DEF Deep, Depth
<1>5. QED BY <1>3, <1>4

LEMMA KeepingKeeps ==
  ASSUME NEW d, UNCHANGED <<lines, written>>
  PROVE  (Sound(d) => Sound(d)') /\ (Deep(d) => Deep(d)')
BY SameFiles, Numbers DEF InFile

\* A new file is empty, and no directory had it.
LEMMA CreateGives ==
  ASSUME LogTypes, Create
  PROVE  \E fresh \in Files :
         /\ \A d \in disk, s \in Slots : d[s] # fresh
         /\ names' \in Directories /\ names'[0] = fresh /\ disk' = disk \cup {names'}
         /\ \A s \in Rotations : names'[s] = names[s]
         /\ lines' \in [Files -> Seq(Records)] /\ lines'[fresh] = <<>> /\ InFile(fresh)' = {}
         /\ \A f \in Files : f # fresh => lines'[f] = lines[f] /\ InFile(f)' = InFile(f)
         /\ FilesOf(names') \subseteq FilesOf(names) \cup {fresh}
         /\ expired' = expired \ {fresh} /\ undone' = undone
<1>1. PICK fresh \in Files : fresh = Fresh /\ IsFresh(fresh)
  <2>1. \E f \in Files : IsFresh(f)
    BY DEF Create
  <2>2. QED BY <2>1 DEF Fresh
<1>2. \A d \in disk, s \in Slots : d[s] # fresh
  BY <1>1, Numbers DEF IsFresh, FilesOf
<1>3. /\ names' = [names EXCEPT ![0] = fresh] /\ disk' = disk \cup {names'}
      /\ lines' = [lines EXCEPT ![fresh] = <<>>]
      /\ expired' = expired \ {fresh} /\ undone' = undone
  BY <1>1 DEF Create, Change
<1>4. /\ names' \in Directories /\ names'[0] = fresh
      /\ \A s \in Slots : s # 0 => names'[s] = names[s]
  BY <1>3, Numbers DEF LogTypes, Directories
<1>5. /\ lines' \in [Files -> Seq(Records)] /\ lines'[fresh] = <<>>
      /\ \A f \in Files : f # fresh => lines'[f] = lines[f]
  BY <1>3 DEF LogTypes
<1>6. InFile(fresh)' = {} /\ \A f \in Files : f # fresh => InFile(f)' = InFile(f)
  BY <1>5 DEF InFile
<1>7. FilesOf(names') \subseteq FilesOf(names) \cup {fresh}
  BY <1>4, Numbers DEF FilesOf
<1>8. QED BY <1>2, <1>3, <1>4, <1>5, <1>6, <1>7 DEF Rotations

LEMMA CreatingKeeps ==
  ASSUME LogTypes, Create, UNCHANGED written, ~Present(0), DirectoriesSound, NEW e, e = names'
  PROVE  /\ Sound(e)' /\ (Deep(names) => Deep(e)')
         /\ \A d \in disk : Sound(d)' /\ (Deep(d) => Deep(d)')
<1>0. PICK fresh \in Files :
         /\ \A d \in disk, s \in Slots : d[s] # fresh
         /\ e[0] = fresh /\ \A s \in Rotations : e[s] = names[s]
         /\ lines'[fresh] = <<>> /\ InFile(fresh)' = {}
         /\ \A f \in Files : f # fresh => lines'[f] = lines[f] /\ InFile(f)' = InFile(f)
  BY CreateGives
<1>1. \A d \in disk : Sound(d)' /\ (Deep(d) => Deep(d)')
  <2>1. ASSUME NEW d \in disk PROVE Sound(d)' /\ (Deep(d) => Deep(d)')
    <3>1. \A s \in Slots : d[s] # NoFile => InFile(d[s])' = InFile(d[s]) /\ lines'[d[s]] = lines[d[s]]
      BY <1>0, DirectoryIs DEF LogTypes
    <3>2. Sound(d)
      BY DEF DirectoriesSound, Sound
    <3>3. QED BY <3>1, <3>2, SameFiles, Numbers
  <2>2. QED BY <2>1
<1>2. PICK d \in disk : d = names
  BY DEF LogTypes
<1>3. \A s \in Slots : s = 0 \/ s \in Rotations
  BY DEF Rotations
<1>4. \A s \in Rotations : e[s] = d[s] /\ e[s] # fresh
  BY <1>0, <1>2, Numbers
<1>5. d[0] = NoFile /\ Current(e)' = 0 /\ Current(d)' = 0
  BY <1>0, <1>2, Numbers DEF Present, Current
<1>6. Sound(e)'
  <2>1. Injective(e)'
    BY <1>0, <1>1, <1>3, <1>4 DEF Sound, Injective
  <2>2. Ordered(e)'
    <3>1. SUFFICES ASSUME NEW s \in Slots, NEW t \in Slots, s < t, e[s] # NoFile, e[t] # NoFile,
                          NEW i \in DOMAIN written', NEW j \in DOMAIN written',
                          written'[i] \in InFile(e[s])', written'[j] \in InFile(e[t])'
                   PROVE  j < i
      BY DEF Ordered
    <3>2. s \in Rotations
      BY <1>0, <1>3, <3>1
    <3>3. t \in Rotations
      BY <1>3, <3>1, <3>2, Numbers
    <3>4. Ordered(d)'
      BY <1>1 DEF Sound
    <3>5. QED BY <1>4, <3>1, <3>2, <3>3, <3>4 DEF Ordered
  <2>3. BehindCurrent(e)'
    BY <1>1, <1>4, <1>5 DEF Sound, BehindCurrent
  <2>4. QED BY <2>1, <2>2, <2>3 DEF Sound
<1>7. Deep(d)' => Deep(e)'
  BY <1>4, <1>5 DEF Deep
<1>8. QED BY <1>1, <1>2, <1>6, <1>7

\* The record of a call goes to the end of the current file and of all that was written.
LEMMA AppendGives ==
  ASSUME LogTypes, Present(0), call \in Records, NEW current, current = names[0],
         lines' = [lines EXCEPT ![current] = Append(@, call)], written' = Append(written, call)
  PROVE  /\ lines' \in [Files -> Seq(Records)] /\ written' \in Seq(Records)
         /\ current \in Files
         /\ Len(written') = Len(written) + 1 /\ DOMAIN written' = DOMAIN written \cup {Len(written')}
         /\ Len(written') \notin DOMAIN written /\ written'[Len(written')] = call
         /\ \A i \in DOMAIN written : written'[i] = written[i]
         /\ Len(lines'[current]) = Len(lines[current]) + 1
         /\ InFile(current)' = InFile(current) \cup {call}
         /\ \A f \in Files : f # current => lines'[f] = lines[f] /\ InFile(f)' = InFile(f)
<1>1. \A s \in Seq(Records) :
        LET t == Append(s, call)
        IN  /\ t \in Seq(Records) /\ Len(t) = Len(s) + 1 /\ DOMAIN t = DOMAIN s \cup {Len(t)}
            /\ Len(t) \notin DOMAIN s /\ t[Len(t)] = call /\ \A i \in DOMAIN s : t[i] = s[i]
  <2>1. ASSUME NEW s \in Seq(Records), NEW t, t = Append(s, call)
        PROVE  /\ t \in Seq(Records) /\ Len(t) = Len(s) + 1 /\ DOMAIN t = DOMAIN s \cup {Len(t)}
               /\ Len(t) \notin DOMAIN s /\ t[Len(t)] = call /\ \A i \in DOMAIN s : t[i] = s[i]
    <3>1. /\ t \in Seq(Records) /\ Len(t) = Len(s) + 1 /\ t[Len(t)] = call
          /\ \A i \in 1..Len(s) : t[i] = s[i]
      BY <2>1, AppendProperties
    <3>2. DOMAIN s = 1..Len(s) /\ DOMAIN t = 1..Len(t) /\ Len(s) \in Nat
      BY <3>1, LenProperties
    <3>3. QED BY <3>1, <3>2
  <2>2. QED BY <2>1
<1>2. current \in Files /\ lines[current] \in Seq(Records)
  BY Numbers, DirectoryIs DEF LogTypes, Present
<1>3. /\ lines'[current] = Append(lines[current], call)
      /\ \A f \in Files : f # current => lines'[f] = lines[f]
  BY <1>2 DEF LogTypes
<1>4. lines' \in [Files -> Seq(Records)]
  BY <1>1, <1>2 DEF LogTypes
<1>5. Len(lines'[current]) = Len(lines[current]) + 1
  BY <1>1, <1>2, <1>3
<1>6. InFile(current)' = InFile(current) \cup {call}
  <2> DEFINE old == lines[current]
             new == lines'[current]
  <2>1. /\ DOMAIN new = DOMAIN old \cup {Len(new)} /\ new[Len(new)] = call
        /\ \A i \in DOMAIN old : new[i] = old[i]
    BY <1>1, <1>2, <1>3
  <2> HIDE DEF old, new
  <2>2. {new[i] : i \in DOMAIN new} = {old[i] : i \in DOMAIN old} \cup {call}
    BY <2>1
  <2>3. QED BY <2>2 DEF InFile, old, new
<1>7. \A f \in Files : f # current => InFile(f)' = InFile(f)
  BY <1>3 DEF InFile
<1>8. /\ written' \in Seq(Records) /\ Len(written') = Len(written) + 1
      /\ DOMAIN written' = DOMAIN written \cup {Len(written')}
      /\ Len(written') \notin DOMAIN written /\ written'[Len(written')] = call
      /\ \A i \in DOMAIN written : written'[i] = written[i]
  BY <1>1 DEF LogTypes
<1>9. QED BY <1>2, <1>3, <1>4, <1>5, <1>6, <1>7, <1>8

\* A new record at the end of the current file is after all others, on every disk.
LEMMA AppendingKeeps ==
  ASSUME LogTypes, Present(0), call \in Records, NEW current, current = names[0],
         lines' = [lines EXCEPT ![current] = Append(@, call)], written' = Append(written, call),
         Latest, \A i \in DOMAIN written : written[i] # call,
         \A f \in Files : call \notin InFile(f),
         NEW d \in disk, Sound(d)
  PROVE  Sound(d)' /\ (Deep(d) => Deep(d)')
<1>0. /\ d \in Directories /\ current \in Files
      /\ Len(written') = Len(written) + 1 /\ DOMAIN written' = DOMAIN written \cup {Len(written')}
      /\ Len(written') \notin DOMAIN written /\ written'[Len(written')] = call
      /\ \A i \in DOMAIN written : written'[i] = written[i]
      /\ lines'[current] \in Seq(Records) /\ Len(lines'[current]) = Len(lines[current]) + 1
      /\ InFile(current)' = InFile(current) \cup {call}
      /\ \A f \in Files : f # current => lines'[f] = lines[f] /\ InFile(f)' = InFile(f)
  BY AppendGives DEF LogTypes
<1>1. \A t \in Slots : d[t] = current => t = 0
  BY Numbers DEF Latest, Present
<1>2. /\ Len(written) \in Nat /\ Len(written') \in Nat
      /\ \A i \in DOMAIN written : i \in Nat /\ i < Len(written') /\ Len(written) - i \in Nat
                                   /\ Len(written') - i = (Len(written) - i) + 1
  BY <1>0, Positions
<1>3. ASSUME NEW f \in Files, NEW i \in DOMAIN written', written'[i] \in InFile(f)'
      PROVE  (i \in DOMAIN written /\ written[i] \in InFile(f)) \/ (i = Len(written') /\ f = current)
  BY <1>0, <1>3
<1>4. Current(d) \in Nat /\ Current(d)' \in Nat /\ Current(d)' <= Current(d) + 1
  <2>1. Current(d) \in Nat
    BY <1>0, CurrentIs
  <2>2. Current(d)' = Current(d) \/ Current(d)' = Current(d) + 1
    <3>1. CASE d[0] = current
      BY <1>0, <3>1, Numbers DEF Current
    <3>2. CASE d[0] # current
      <4>1. d[0] = NoFile \/ lines'[d[0]] = lines[d[0]]
        BY <1>0, <3>2, Numbers, DirectoryIs
      <4>2. QED BY <4>1 DEF Current
    <3>3. QED BY <3>1, <3>2
  <2>3. QED BY <2>1, <2>2
<1>5. Injective(d)'
  BY DEF Sound, Injective
<1>6. Ordered(d)'
  <2>1. SUFFICES ASSUME NEW s \in Slots, NEW t \in Slots, s < t, d[s] # NoFile, d[t] # NoFile,
                        NEW i \in DOMAIN written', NEW j \in DOMAIN written',
                        written'[i] \in InFile(d[s])', written'[j] \in InFile(d[t])'
                 PROVE  j < i
    BY DEF Ordered
  <2>2. d[s] \in Files /\ d[t] \in Files /\ d[t] # current
    BY <1>0, <1>1, <2>1, DirectoryIs, Numbers
  <2>3. j \in DOMAIN written /\ written[j] \in InFile(d[t])
    BY <1>3, <2>1, <2>2
  <2>4. i = Len(written') \/ (i \in DOMAIN written /\ written[i] \in InFile(d[s]))
    BY <1>3, <2>1, <2>2
  <2>5. QED BY <1>2, <2>1, <2>3, <2>4 DEF Sound, Ordered
<1>7. ASSUME NEW s \in Rotations, d[s] # NoFile, NEW n \in Nat, NEW m \in Nat, m <= n + 1,
             Behind(d[s], n)
      PROVE  Behind(d[s], m)'
  <2>1. SUFFICES ASSUME NEW i \in DOMAIN written', written'[i] \in InFile(d[s])'
                 PROVE  Len(written') - i >= m
    BY DEF Behind
  <2>2. d[s] \in Files /\ d[s] # current
    BY <1>0, <1>1, <1>7, DirectoryIs, Numbers
  <2>3. i \in DOMAIN written /\ written[i] \in InFile(d[s])
    BY <1>3, <2>1, <2>2
  <2>4. Len(written) - i >= n
    BY <1>7, <2>3 DEF Behind
  <2>5. QED BY <1>2, <1>7, <2>3, <2>4
<1>8. BehindCurrent(d)'
  BY <1>4, <1>7 DEF Sound, BehindCurrent
<1>9. ASSUME Deep(d) PROVE Deep(d)'
  <2>1. ASSUME NEW s \in Rotations, d[s] # NoFile
        PROVE  Behind(d[s], Depth(s - 1) + Current(d))'
    <3>1. Depth(s - 1) \in Nat
      BY Numbers, DepthIs
    <3>2. Behind(d[s], Depth(s - 1) + Current(d))
      BY <1>9, <2>1 DEF Deep
    <3>3. PICK n \in Nat, m \in Nat :
            n = Depth(s - 1) + Current(d) /\ m = Depth(s - 1) + Current(d)' /\ m <= n + 1
      BY <1>4, <3>1
    <3>4. Behind(d[s], m)'
      BY <1>7, <2>1, <3>2, <3>3
    <3>5. QED BY <3>3, <3>4 DEF Behind, Depth
  <2>2. QED BY <2>1 DEF Deep, Depth
<1>10. QED BY <1>5, <1>6, <1>8, <1>9 DEF Sound

-------------------------------------------------------------------------------
\* What the steps do to the directories.
Keeps   == UNCHANGED <<lines, written>>
Moves   ==
  /\ stage = "rotate" /\ Keeps /\ UNCHANGED dropped
  /\ \E s \in Slots : /\ s < RotationCount /\ Present(s) /\ ~Present(s + 1)
                      /\ Change([names EXCEPT ![s + 1] = names[s], ![s] = NoFile])
Loses   ==
  /\ Keeps /\ names' \in Directories /\ names' \in disk' /\ disk' \subseteq disk \cup {names'}
  /\ dropped \subseteq dropped'
  /\ \A s \in Slots : names'[s] = names[s]
                      \/ (names'[s] = NoFile /\ InFile(names[s]) \subseteq dropped')
Creates == Create /\ ~Present(0) /\ UNCHANGED <<written, dropped>>
Appends ==
  /\ stage = "write" /\ UNCHANGED <<names, disk, dropped>>
  /\ lines' = [lines EXCEPT ![names[0]] = Append(@, call)] /\ written' = Append(written, call)
Returns == Keeps /\ UNCHANGED dropped /\ names' \in disk /\ disk' = {names'}

LEMMA Effects ==
  ASSUME LogTypes, StageFits, [LogNext]_logVars
  PROVE  Moves \/ Loses \/ Creates \/ Appends \/ Returns
<1>0. names \in Directories /\ names \in disk
  BY DEF LogTypes
<1>1. ASSUME Keeps, UNCHANGED <<names, dropped>>, disk' = disk \/ disk' = {names}
      PROVE  Loses
  BY <1>0, <1>1 DEF Loses
<1>2. ASSUME Keeps, NEW s \in Slots, RemoveFile(s)
      PROVE  Loses
  <2>1. /\ names' = [names EXCEPT ![s] = NoFile] /\ disk' = disk \cup {names'}
        /\ dropped' = dropped \cup InFile(names[s])
    BY <1>2 DEF RemoveFile, Change
  <2>2. names' \in Directories /\ \A t \in Slots : names'[t] = IF t = s THEN NoFile ELSE names[t]
    BY <1>0, <2>1 DEF Directories
  <2>3. QED BY <1>2, <2>1, <2>2 DEF Loses
<1>3. CASE UNCHANGED logVars
  BY <1>1, <1>3 DEF logVars, directoryVars, observerVars, lossVars, Keeps
<1>4. ASSUME NEW c \in Records \cup DeletionCalls, TakeLock(c) PROVE Loses
  BY <1>1, <1>4 DEF TakeLock, directoryVars, observerVars, lossVars, Keeps
<1>5. CASE Prune
  <2>1. PICK s \in Slots : RemoveFile(s)
    BY <1>5 DEF Prune
  <2>2. QED BY <1>2, <1>5, <2>1 DEF Prune, Keeps
<1>6. CASE Pruned \/ Rotated \/ SyncNewFile \/ Deleted
  <2>1. Keeps /\ UNCHANGED <<names, dropped>> /\ (disk' = disk \/ disk' = {names})
    BY <1>6 DEF Pruned, Rotated, SyncNewFile, Deleted, SyncDirectory, observerVars, lossVars, Keeps
  <2>2. QED BY <1>1, <2>1
<1>7. CASE Open
  <2>1. CASE Present(0)
    BY <1>1, <1>7, <2>1 DEF Open, directoryVars, observerVars, lossVars, Keeps
  <2>2. CASE ~Present(0)
    BY <1>7, <2>2 DEF Open, Creates, observerVars, lossVars
  <2>3. QED BY <2>1, <2>2
<1>8. CASE Rotate
  <2>1. Keeps /\ slot \in Slots
    BY <1>8 DEF Rotate, Keeps, LogTypes
  <2>2. CASE ~Present(slot)
    BY <1>1, <1>8, <2>1, <2>2 DEF Rotate, lossVars
  <2>3. CASE Present(slot) /\ slot = RotationCount
    BY <1>2, <1>8, <2>1, <2>3 DEF Rotate
  <2>4. CASE Present(slot) /\ slot # RotationCount
    <3>1. slot < RotationCount /\ ~Present(slot + 1)
      BY <1>8, <2>1, <2>4, Numbers DEF Rotate, StageFits
    <3>2. stage = "rotate" /\ Change([names EXCEPT ![slot + 1] = names[slot], ![slot] = NoFile]) /\ UNCHANGED dropped
      BY <1>8, <2>4 DEF Rotate, lossVars
    <3>3. QED BY <2>1, <2>4, <3>1, <3>2 DEF Moves
  <2>5. QED BY <2>2, <2>3, <2>4
<1>9. CASE Reopen
  BY <1>9 DEF Reopen, Creates, observerVars, lossVars, StageFits
<1>10. CASE AppendLine
  BY <1>10 DEF AppendLine, Appends, lossVars
<1>11. CASE DeleteFile
  <2>1. Keeps /\ slot \in Slots
    BY <1>11 DEF DeleteFile, Keeps, LogTypes
  <2>2. QED BY <1>1, <1>2, <1>11, <2>1 DEF DeleteFile
<1>12. CASE FailCall \/ Crash
  BY <1>1, <1>12 DEF FailCall, Crash, Stop, lossVars, Keeps
<1>13. CASE Service
  BY <1>1, <1>13 DEF Service, AskForLock, TakeSessionLock, Emit, EndTurn, CancelTurn, DeleteSnapshot, Discard, directoryVars,
                     observerVars, lossVars, Keeps
<1>14. CASE PruneElsewhere
  <2>1. PICK pruned \in SUBSET Slots :
          /\ names' = [s \in Slots |-> IF s \in pruned THEN NoFile ELSE names[s]]
          /\ dropped' = dropped \cup UNION {InFile(names[s]) : s \in pruned}
    BY <1>14 DEF PruneElsewhere
  <2>2. names' \in Directories
    BY <1>0, <2>1 DEF Directories
  <2>3. Keeps /\ names' \in disk' /\ disk' \subseteq disk \cup {names'}
    BY <1>14 DEF PruneElsewhere, Keeps
  <2>4. QED BY <2>1, <2>2, <2>3 DEF Loses
<1>15. CASE PowerFailure
  BY <1>15 DEF PowerFailure, Stop, Returns, Keeps, lossVars
<1>16. CASE Month
  BY <1>1, <1>16 DEF Month, observerVars, lossVars, Keeps
<1>17. QED
  BY <1>3, <1>4, <1>5, <1>6, <1>7, <1>8, <1>9, <1>10, <1>11, <1>12, <1>13, <1>14, <1>15, <1>16
     DEF LogNext, Step

\* What every disk that is possible has in common, step by step.
LEMMA DirectoriesStay ==
  ASSUME LogInv, Moves \/ Loses \/ Creates \/ Appends \/ Returns
  PROVE  /\ names' \in disk' /\ disk' \subseteq Directories
         /\ lines' \in [Files -> Seq(Records)] /\ written' \in Seq(Records)
         /\ DirectoriesSound' /\ Latest'
<1>0. /\ LogTypes /\ names \in disk /\ disk \subseteq Directories
      /\ lines \in [Files -> Seq(Records)] /\ written \in Seq(Records)
      /\ \A d \in disk : Sound(d) /\ Latest
  BY DEF LogInv, LogTypes, DirectoriesSound, Sound
<1>1. ASSUME \A d \in disk' : Sound(d)' PROVE DirectoriesSound'
  BY <1>1 DEF DirectoriesSound, Sound
<1>2. ASSUME Keeps PROVE \A d : Sound(d) => Sound(d)'
  BY <1>2, KeepingKeeps DEF Keeps
<1>3. CASE Moves
  <2>1. PICK s \in Slots :
          /\ s < RotationCount /\ names[s] # NoFile /\ names[s + 1] = NoFile
          /\ names' = [names EXCEPT ![s + 1] = names[s], ![s] = NoFile]
          /\ disk' = disk \cup {names'}
    BY <1>3 DEF Moves, Change, Present
  <2>2. PICK e : e = names'
    OBVIOUS
  <2>3. /\ e \in Directories /\ Sound(e)
        /\ \A t \in Slots : e[t] = IF t = s THEN NoFile ELSE IF t = s + 1 THEN names[s] ELSE names[t]
    <3>1. names \in Directories /\ Sound(names) /\ s + 1 \in Slots /\ s + 1 # s
      BY <1>0, <2>1, Numbers
    <3>2. /\ e \in Directories
          /\ \A t \in Slots : e[t] = IF t = s THEN NoFile ELSE IF t = s + 1 THEN names[s] ELSE names[t]
      BY <2>1, <2>2, <3>1 DEF Directories
    <3>3. QED BY <1>0, <2>1, <3>1, <3>2, MovingKeeps
  <2>4. DirectoriesSound'
    BY <1>0, <1>1, <1>2, <1>3, <2>1, <2>2, <2>3 DEF Moves
  <2>5. Latest'
    <3>1. SUFFICES ASSUME NEW d \in disk', NEW t \in Slots, NEW u \in Slots, e[t] # NoFile, d[u] = e[t]
                   PROVE  u <= t
      BY <2>2 DEF Latest, Present
    <3>2. CASE d = e
      BY <2>3, <3>1, <3>2, Numbers DEF Sound, Injective
    <3>3. CASE d # e
      <4>1. d \in disk
        BY <2>1, <2>2, <3>1, <3>3
      <4>2. CASE t = s + 1
        <5>1. u <= s
          BY <1>0, <2>1, <2>3, <3>1, <4>1, <4>2, Numbers DEF Latest, Present
        <5>2. QED BY <4>2, <5>1, Numbers
      <4>3. CASE t # s + 1
        BY <1>0, <2>3, <3>1, <4>1, <4>3 DEF Latest, Present
      <4>4. QED BY <4>2, <4>3
    <3>4. QED BY <3>2, <3>3
  <2>6. QED BY <1>0, <1>3, <2>1, <2>2, <2>3, <2>4, <2>5 DEF Moves, Keeps
<1>4. CASE Loses
  <2>1. PICK e \in Directories : e = names'
    BY <1>4 DEF Loses
  <2>2. \A s \in Slots : e[s] \in {names[s], NoFile}
    BY <1>4, <2>1 DEF Loses
  <2>3. Sound(e)
    BY <1>0, <2>2, LosingKeeps
  <2>4. DirectoriesSound'
    BY <1>0, <1>1, <1>2, <1>4, <2>1, <2>3 DEF Loses
  <2>5. Latest'
    <3>1. SUFFICES ASSUME NEW d \in disk', NEW t \in Slots, NEW u \in Slots, e[t] # NoFile, d[u] = e[t]
                   PROVE  u <= t
      BY <2>1 DEF Latest, Present
    <3>2. CASE d = e
      BY <2>3, <3>1, <3>2, Numbers DEF Sound, Injective
    <3>3. CASE d # e
      BY <1>0, <1>4, <2>1, <2>2, <3>1, <3>3 DEF Loses, Latest, Present
    <3>4. QED BY <3>2, <3>3
  <2>6. QED BY <1>0, <1>4, <2>4, <2>5 DEF Loses, Keeps
<1>5. CASE Creates
  <2>1. PICK fresh \in Files :
          /\ \A d \in disk, s \in Slots : d[s] # fresh
          /\ names' \in Directories /\ names'[0] = fresh /\ disk' = disk \cup {names'}
          /\ \A s \in Rotations : names'[s] = names[s]
          /\ lines' \in [Files -> Seq(Records)]
    BY <1>0, <1>5, CreateGives DEF Creates
  <2>2. PICK e \in Directories : e = names'
    BY <2>1
  <2>3. Sound(e)' /\ \A d \in disk : Sound(d)'
    BY <1>0, <1>5, <2>2, CreatingKeeps DEF Creates, LogInv
  <2>4. DirectoriesSound'
    BY <1>1, <2>1, <2>2, <2>3
  <2>5. Latest'
    <3>1. SUFFICES ASSUME NEW d \in disk', NEW t \in Slots, NEW u \in Slots, e[t] # NoFile, d[u] = e[t]
                   PROVE  u <= t
      BY <2>2 DEF Latest, Present
    <3>2. CASE d = e
      <4>1. Injective(e)
        BY <2>3 DEF Sound, Injective
      <4>2. QED BY <3>1, <3>2, <4>1, Numbers DEF Injective
    <3>3. CASE d # e
      <4>1. t # 0 /\ d \in disk
        BY <2>1, <2>2, <3>1, <3>3
      <4>2. names[t] = e[t]
        BY <2>1, <2>2, <4>1 DEF Rotations
      <4>3. QED BY <1>0, <3>1, <4>1, <4>2 DEF Latest, Present
    <3>4. QED BY <3>2, <3>3
  <2>6. QED BY <1>0, <1>5, <2>1, <2>4, <2>5 DEF Creates
<1>6. CASE Appends
  <2>1. PICK current : current = names[0]
    OBVIOUS
  <2>2. /\ Present(0) /\ call \in Records /\ call \in Unwritten
        /\ lines' = [lines EXCEPT ![current] = Append(@, call)] /\ written' = Append(written, call)
        /\ names' = names /\ disk' = disk
    BY <1>0, <1>6, <2>1, CallsAre DEF Appends, LogInv, StageFits, LogTypes, Unwritten, Calls
  <2>3. \A i \in DOMAIN written : written[i] # call
    <3>1. ASSUME NEW i \in DOMAIN written, written[i] = call PROVE FALSE
      <4>1. call[2] < call[2] /\ call[2] \in Nat
        BY <2>2, <3>1, CallsAre DEF LogInv, WrittenFits
      <4>2. QED BY <4>1
    <3>2. QED BY <3>1
  <2>4. \A f \in Files : call \notin InFile(f)
    BY <2>3 DEF LogInv, WrittenFits
  <2>5. \A d \in disk : Sound(d)'
    BY <1>0, <2>1, <2>2, <2>3, <2>4, AppendingKeeps
  <2>6. lines' \in [Files -> Seq(Records)] /\ written' \in Seq(Records)
    BY <1>0, <2>1, <2>2, AppendGives
  <2>7. DirectoriesSound'
    BY <1>1, <2>2, <2>5
  <2>8. Latest'
    BY <1>0, <2>2 DEF Latest, Present
  <2>9. QED BY <1>0, <2>2, <2>6, <2>7, <2>8
<1>7. CASE Returns
  <2>1. DirectoriesSound'
    BY <1>0, <1>1, <1>2, <1>7 DEF Returns
  <2>2. Latest'
    <3>1. PICK e \in disk : e = names'
      BY <1>7 DEF Returns
    <3>2. Injective(e) /\ disk' = {e}
      BY <1>0, <1>7, <3>1 DEF Returns, Sound
    <3>3. QED BY <3>1, <3>2, Numbers DEF Latest, Injective, Present
  <2>3. QED BY <1>0, <1>7, <2>1, <2>2 DEF Returns, Keeps
<1>8. QED BY <1>3, <1>4, <1>5, <1>6, <1>7

-------------------------------------------------------------------------------
\* What a step leaves undone are files.
LEMMA UndoneAre ==
  ASSUME LogTypes, [LogNext]_logVars
  PROVE  undone' \subseteq Files
<1>1. undone' = undone \/ undone' = {} \/ LeaveUndone
  BY DEF LogNext, Step, Service, TakeLock, Prune, Pruned, Open, Create, Rotate, Rotated, Reopen,
         AppendLine, SyncNewFile, DeleteFile, Deleted, FailCall, AskForLock, TakeSessionLock,
         Emit, EndTurn, CancelTurn, DeleteSnapshot, Discard, PruneElsewhere, Crash, PowerFailure, Month, SyncDirectory,
         logVars, directoryVars
<1>2. QED BY <1>1 DEF LeaveUndone, LogTypes

\* The part of the types that is not about directories.
CallTypes ==
  /\ calls \subseteq Calls /\ call \in Calls \cup {NoCall}
  /\ stage \in Stages /\ slot \in Slots /\ unsynced \in BOOLEAN
  /\ cutShort \in BOOLEAN

LEMMA NoCallFits ==
  ASSUME call' = NoCall, stage' = "none"
  PROVE  StageFits'
BY CallsAre DEF StageFits

LEMMA StagesStay ==
  ASSUME LogInv, [LogNext]_logVars, names' \in Directories
  PROVE  CallTypes' /\ StageFits'
<1>0. CallTypes /\ StageFits /\ LogTypes /\ names \in Directories
  BY DEF CallTypes, LogInv, LogTypes
<1>1. CASE UNCHANGED logVars
  <2>1. UNCHANGED <<names, lines, calls, call, stage, slot, unsynced, cutShort>>
    BY <1>1 DEF logVars, directoryVars, callVars, serviceVars, observerVars
  <2>2. UNCHANGED <<Present(0), Present(slot + 1), InFile(names[0])>>
    BY <2>1 DEF Present, InFile
  <2>3. QED BY <1>0, <2>1, <2>2 DEF CallTypes, StageFits, Present
<1>2. ASSUME NEW c \in Records \cup DeletionCalls, TakeLock(c) PROVE CallTypes' /\ StageFits'
  <2>1. /\ call' = c /\ calls' \subseteq calls /\ slot' = 0 /\ unsynced' = FALSE
        /\ cutShort' = cutShort
        /\ stage' = IF c \in DeletionCalls THEN "delete" ELSE IF c[1] \in checked THEN "open" ELSE "prune"
    BY <1>2 DEF TakeLock, To, serviceVars, observerVars
  <2>2. CallTypes'
    BY <1>0, <1>2, <2>1, Numbers DEF CallTypes, Calls, Stages
  <2>3. StageFits'
    BY <1>2, <2>1, CallsAre, Numbers DEF StageFits, Calls
  <2>4. QED BY <2>2, <2>3
<1>3. CASE Prune
  <2>1. /\ UNCHANGED <<calls, call, stage, slot, cutShort>>
        /\ stage = "prune" /\ unsynced' = TRUE
    BY <1>3 DEF Prune, serviceVars
  <2>2. QED BY <1>0, <2>1 DEF CallTypes, StageFits
<1>4. CASE Pruned
  <2>1. /\ UNCHANGED <<calls, call, slot, cutShort>>
        /\ stage = "prune" /\ stage' = "open" /\ unsynced' = FALSE
    BY <1>4 DEF Pruned, To, serviceVars, observerVars
  <2>2. QED BY <1>0, <2>1 DEF CallTypes, StageFits, Stages
<1>5. CASE Open
  <2>1. /\ UNCHANGED <<calls, call, cutShort>>
        /\ stage = "open" /\ stage' \in {"write", "rotate"} /\ unsynced \in BOOLEAN /\ ~unsynced
    BY <1>0, <1>5 DEF Open, To, serviceVars, observerVars, StageFits, CallTypes
  <2>2. CASE ~Present(0)
    <3>1. stage' = "write" /\ slot' = slot /\ unsynced' = TRUE /\ Create
      BY <1>5, <2>2 DEF Open, To
    <3>2. Present(0)'
      BY <1>0, <3>1, CreateGives, Numbers DEF Present
    <3>3. QED BY <1>0, <2>1, <3>1, <3>2 DEF CallTypes, StageFits, Stages
  <2>3. CASE Present(0)
    <3>1. /\ UNCHANGED <<names, lines, unsynced>>
          /\ \/ stage' = "write" /\ slot' = slot
             \/ /\ stage' = "rotate" /\ slot' = RotationCount
                /\ ~(Len(lines[names[0]]) + 1 <= Capacity)
      BY <1>5, <2>3 DEF Open, To, directoryVars
    <3>2. Len(lines[names[0]]) \in Nat
      BY <1>0, <2>3, Numbers, DirectoryIs, LenProperties DEF LogTypes, Present
    <3>3. ~(Len(lines[names[0]]) + 1 <= Capacity) => Len(lines[names[0]]) >= Capacity
      BY <3>2, Numbers
    <3>4. Present(0)'
      BY <2>3, <3>1 DEF Present
    <3>5. QED BY <1>0, <2>1, <3>1, <3>3, <3>4, Numbers DEF CallTypes, StageFits, Stages
  <2>4. QED BY <2>2, <2>3
<1>6. CASE Rotate
  <2>1. /\ UNCHANGED <<calls, call, unsynced, cutShort>>
        /\ stage = "rotate"
        /\ IF slot > 0 THEN slot' = slot - 1 /\ stage' = stage ELSE stage' = "rotated" /\ slot' = slot
    BY <1>6 DEF Rotate, To, serviceVars
  <2>2. slot \in Slots /\ slot \in Nat /\ slot <= RotationCount /\ (slot > 0 => slot - 1 \in Slots)
    BY <1>0, Numbers DEF CallTypes, Rotations
  <2>3. names'[slot] = NoFile
    <3>1. CASE ~Present(slot)
      BY <1>6, <3>1 DEF Rotate, Present
    <3>2. CASE Present(slot) /\ slot = RotationCount
      BY <1>0, <1>6, <2>2, <3>2 DEF Rotate, RemoveFile, Change, Directories
    <3>3. CASE Present(slot) /\ slot # RotationCount
      <4>1. names' = [names EXCEPT ![slot + 1] = names[slot], ![slot] = NoFile]
        BY <1>6, <3>3 DEF Rotate, Change
      <4>2. QED BY <1>0, <2>2, <4>1 DEF Directories
    <3>4. QED BY <3>1, <3>2, <3>3
  <2>4. CASE slot > 0
    <3>1. slot' = slot - 1 /\ slot' + 1 = slot /\ slot' # RotationCount /\ stage' = "rotate"
      BY <2>1, <2>2, <2>4, Numbers
    <3>2. CallTypes'
      BY <1>0, <2>1, <2>2, <2>4, <3>1 DEF CallTypes
    <3>3. QED BY <1>0, <2>1, <2>3, <3>1, <3>2 DEF StageFits, Present
  <2>5. CASE ~(slot > 0)
    <3>1. slot' = 0 /\ stage' = "rotated" /\ names'[0] = NoFile
      BY <2>1, <2>2, <2>3, <2>5
    <3>2. CallTypes'
      BY <1>0, <2>1, <3>1, Numbers DEF CallTypes, Stages
    <3>3. QED BY <1>0, <2>1, <3>1, <3>2 DEF StageFits, Present
  <2>6. QED BY <2>4, <2>5
<1>7. CASE Rotated
  <2>1. /\ UNCHANGED <<names, calls, call, slot, unsynced, cutShort>>
        /\ stage = "rotated" /\ stage' = "reopen"
    BY <1>7 DEF Rotated, SyncDirectory, To, serviceVars, observerVars
  <2>2. QED BY <1>0, <2>1 DEF CallTypes, StageFits, Stages, Present
<1>8. CASE Reopen
  <2>1. /\ UNCHANGED <<calls, call, slot, cutShort>>
        /\ stage = "reopen" /\ stage' = "write" /\ unsynced' = TRUE /\ Create
    BY <1>8 DEF Reopen, To, serviceVars, observerVars
  <2>2. Present(0)'
    BY <1>0, <2>1, CreateGives, Numbers DEF Present
  <2>3. QED BY <1>0, <2>1, <2>2 DEF CallTypes, StageFits, Stages
<1>9. CASE AppendLine
  <2>1. /\ UNCHANGED <<names, calls, slot, unsynced, cutShort>>
        /\ stage = "write" /\ Present(0) /\ call \in Records
        /\ IF unsynced THEN stage' = "sync" /\ call' = call ELSE stage' = "none" /\ call' = NoCall
    BY <1>0, <1>9 DEF AppendLine, Report, Return, To, serviceVars, StageFits, CallTypes, Calls
  <2>2. CallTypes'
    BY <1>0, <2>1 DEF CallTypes, Stages
  <2>3. CASE ~unsynced
    BY <2>1, <2>2, <2>3, NoCallFits
  <2>4. CASE unsynced
    <3>1. PICK current : current = names[0]
      OBVIOUS
    <3>2. /\ lines' = [lines EXCEPT ![current] = Append(@, call)] /\ written' = Append(written, call)
          /\ names' = names /\ call' = call /\ unsynced' = unsynced /\ stage' = "sync"
      BY <1>9, <2>1, <2>4, <3>1 DEF AppendLine
    <3>3. call \in InFile(current)'
      BY <1>0, <2>1, <3>1, <3>2, AppendGives
    <3>4. (call \in InFile(names[0]))'
      BY <3>1, <3>2, <3>3 DEF InFile
    <3>5. QED BY <1>0, <2>1, <2>2, <2>4, <3>2, <3>4 DEF StageFits, Present
  <2>5. QED BY <2>3, <2>4
<1>10. CASE SyncNewFile \/ Deleted \/ FailCall \/ Crash \/ PowerFailure
  <2>1. call' = NoCall /\ stage' = "none" /\ UNCHANGED <<slot, unsynced>>
    BY <1>10 DEF SyncNewFile, Report, Deleted, FailCall, Crash, PowerFailure, Stop, Return, To
  <2>2. /\ calls' \subseteq calls
        /\ (cutShort' = cutShort \/ LeaveUndone)
    BY <1>10 DEF SyncNewFile, Deleted, FailCall, Crash, PowerFailure, Stop, serviceVars
  <2>3. cutShort' \in BOOLEAN
    BY <1>0, <2>2 DEF CallTypes, LeaveUndone
  <2>4. CallTypes'
    BY <1>0, <2>1, <2>2, <2>3 DEF CallTypes, Stages
  <2>5. QED BY <2>1, <2>4, NoCallFits
<1>11. CASE DeleteFile
  <2>1. /\ UNCHANGED <<calls, call, cutShort>>
        /\ stage = "delete" /\ unsynced' \in {unsynced, TRUE} /\ slot \in Slots
        /\ IF slot < RotationCount THEN slot' = slot + 1 /\ stage' = stage
                                   ELSE stage' = "deleted" /\ slot' = slot
    BY <1>0, <1>11 DEF DeleteFile, To, serviceVars, CallTypes
  <2>2. names'[slot] = NoFile /\ \A s \in Slots : names'[s] \in {names[s], NoFile}
    BY <1>0, <1>11, <2>1 DEF DeleteFile, RemoveFile, Change, Directories, Present
  <2>3. \A s \in Slots : s <= slot => names'[s] = NoFile
    <3>1. ASSUME NEW s \in Slots, s <= slot PROVE names'[s] = NoFile
      <4>1. s = slot \/ s < slot
        BY <2>1, <3>1, Numbers
      <4>2. QED BY <1>0, <2>1, <2>2, <4>1 DEF StageFits, Present
    <3>2. QED BY <3>1
  <2>4. CASE slot < RotationCount
    <3>1. slot' \in Slots /\ \A s \in Slots : s < slot' => s <= slot
      BY <2>1, <2>4, Numbers DEF Rotations
    <3>2. QED BY <1>0, <2>1, <2>3, <2>4, <3>1 DEF CallTypes, StageFits, Present
  <2>5. CASE ~(slot < RotationCount)
    <3>1. \A s \in Slots : s <= slot
      BY <2>1, <2>5, Numbers
    <3>2. QED BY <1>0, <2>1, <2>3, <2>5, <3>1 DEF CallTypes, StageFits, Present, Stages
  <2>6. QED BY <2>4, <2>5
<1>12. CASE Service
  <2>1. UNCHANGED <<names, lines, call, stage, slot, unsynced, cutShort>>
    BY <1>12 DEF Service, AskForLock, TakeSessionLock, Emit, EndTurn, CancelTurn, DeleteSnapshot, Discard, directoryVars, callVars,
                 observerVars
  <2>2. StageFits'
    <3>1. UNCHANGED <<Present(0), Present(slot + 1), InFile(names[0])>>
      BY <2>1 DEF Present, InFile
    <3>2. QED BY <1>0, <2>1, <3>1 DEF StageFits, Present
  <2>3. CallTypes'
    <3>1. CASE \E t \in Turns : Emit(t)
      <4>1. PICK t \in Turns : sent[t] < MaxRecords /\ calls' = calls \cup {<<t, sent[t] + 1>>}
        BY <3>1 DEF Emit
      <4>2. sent[t] \in 0..MaxRecords
        BY <1>0 DEF LogTypes
      <4>3. <<t, sent[t] + 1>> \in Calls
        BY <4>1, <4>2, AuditLogAssumption DEF Calls, Records
      <4>4. QED BY <1>0, <2>1, <4>1, <4>3 DEF CallTypes
    <3>2. CASE ~(\E t \in Turns : Emit(t))
      <4>1. calls' \subseteq calls \cup DeletionCalls
        BY <1>12, <3>2 DEF Service, AskForLock, TakeSessionLock, EndTurn, CancelTurn, DeleteSnapshot,
                           Discard, DeletionCalls
      <4>2. QED BY <1>0, <2>1, <4>1 DEF CallTypes, Calls
    <3>3. QED BY <3>1, <3>2
  <2>4. QED BY <2>2, <2>3
<1>13. CASE PruneElsewhere \/ Month
  <2>1. /\ UNCHANGED <<calls, call, stage, slot, unsynced>>
        /\ call = NoCall /\ (cutShort' = cutShort \/ LeaveUndone)
    BY <1>13 DEF PruneElsewhere, Month, callVars, serviceVars, observerVars
  <2>2. call' = NoCall /\ stage' = "none" /\ cutShort' \in BOOLEAN
    BY <1>0, <2>1 DEF StageFits, CallTypes, LeaveUndone
  <2>3. QED BY <1>0, <2>1, <2>2, NoCallFits DEF CallTypes
<1>14. QED
  BY <1>1, <1>2, <1>3, <1>4, <1>5, <1>6, <1>7, <1>8, <1>9, <1>10, <1>11, <1>12, <1>13
     DEF LogNext, Step

\* Who holds which lock object.
ServiceTypes ==
  /\ lock \in Nat /\ lockOf \in [Actors -> Nat] /\ position \in [Actors -> Positionings]
  /\ sent \in [Turns -> 0..MaxRecords]

LEMMA LocksStay ==
  ASSUME LogInv, [LogNext]_logVars
  PROVE  ServiceTypes' /\ LocksExclude'
<1>0. /\ ServiceTypes /\ LocksExclude /\ StageFits /\ OutstandingFits /\ LogTypes
      /\ Holding = {"inside", "deleting", "deleted"}
      /\ Positionings = {"new", "waiting", "over", "inside", "deleting", "deleted"}
      /\ Turns \subseteq Actors /\ Deletions \subseteq Actors
  BY DEF LogInv, LogTypes, ServiceTypes, Holding, Positionings, Actors
<1>1. ASSUME UNCHANGED <<lock, lockOf, position>>, sent' \in [Turns -> 0..MaxRecords]
      PROVE  ServiceTypes' /\ LocksExclude'
  BY <1>0, <1>1 DEF ServiceTypes, LocksExclude
\* A step of one actor that does not come to hold a lock.
<1>2. ASSUME NEW a \in Actors, NEW next \in Positionings, position' = [position EXCEPT ![a] = next],
             next \in Holding => position[a] \in Holding,
             lock' \in Nat, UNCHANGED <<lockOf, sent>>
      PROVE  ServiceTypes' /\ LocksExclude'
  BY <1>0, <1>2 DEF ServiceTypes, LocksExclude
<1>3. CASE UNCHANGED serviceVars
  BY <1>0, <1>1, <1>3 DEF serviceVars, ServiceTypes
<1>4. ASSUME NEW a \in Actors, AskForLock(a) PROVE ServiceTypes' /\ LocksExclude'
  <2>1. PICK next \in {"inside", "waiting"} :
          /\ position[a] = "new" /\ UNCHANGED <<lock, sent>>
          /\ lockOf' = [lockOf EXCEPT ![a] = lock] /\ position' = [position EXCEPT ![a] = next]
          /\ next = "inside" => Holders(lock) = {}
    BY <1>4 DEF AskForLock, IsNext
  <2>2. ServiceTypes'
    BY <1>0, <2>1 DEF ServiceTypes
  <2>3. LocksExclude'
    BY <1>0, <2>1 DEF ServiceTypes, LocksExclude, Holders
  <2>4. QED BY <2>2, <2>3
<1>5. ASSUME NEW a \in Actors, TakeSessionLock(a) PROVE ServiceTypes' /\ LocksExclude'
  <2>1. /\ Holders(lockOf[a]) = {} /\ UNCHANGED <<lock, lockOf, sent>>
        /\ position' = [position EXCEPT ![a] = "inside"]
    BY <1>5 DEF TakeSessionLock
  <2>2. QED BY <1>0, <2>1 DEF ServiceTypes, LocksExclude, Holders
<1>6. ASSUME NEW t \in Turns, Emit(t) PROVE ServiceTypes' /\ LocksExclude'
  <2>1. /\ UNCHANGED <<lock, lockOf, position>> /\ sent[t] < MaxRecords
        /\ sent' = [sent EXCEPT ![t] = @ + 1]
    BY <1>6 DEF Emit
  <2>2. sent' \in [Turns -> 0..MaxRecords]
    BY <1>0, <2>1, AuditLogAssumption DEF ServiceTypes
  <2>3. QED BY <1>1, <2>1, <2>2
<1>7. ASSUME NEW t \in Turns, EndTurn(t) \/ CancelTurn(t) PROVE ServiceTypes' /\ LocksExclude'
  <2>1. position' = [position EXCEPT ![t] = "over"] /\ UNCHANGED <<lock, lockOf, sent>>
    BY <1>7 DEF EndTurn, CancelTurn
  <2>2. QED BY <1>0, <1>2, <2>1 DEF ServiceTypes
<1>8. ASSUME NEW d \in Deletions, DeleteSnapshot(d) \/ Discard(d) PROVE ServiceTypes' /\ LocksExclude'
  <2>1. PICK next \in {"deleting", "over"} :
          /\ position' = [position EXCEPT ![d] = next] /\ UNCHANGED <<lockOf, sent>>
          /\ next = "deleting" => position[d] = "inside"
          /\ lock' = lock \/ lock' = lock + 1
    BY <1>8 DEF DeleteSnapshot, Discard
  <2>2. d \in Actors /\ lock' \in Nat
    BY <1>0, <2>1 DEF ServiceTypes
  <2>3. next \in Positionings /\ (next \in Holding => position[d] \in Holding)
    BY <1>0, <2>1
  <2>4. QED BY <1>2, <2>1, <2>2, <2>3
<1>9. CASE Deleted
  <2>1. /\ stage = "deleted" /\ position' = [position EXCEPT ![call[1]] = "deleted"]
        /\ UNCHANGED <<lock, lockOf, sent>>
    BY <1>9 DEF Deleted
  <2>2. call[1] \in Actors /\ position[call[1]] = "deleting"
    BY <1>0, <2>1, CallsAre DEF StageFits, OutstandingFits
  <2>3. QED BY <1>0, <1>2, <2>1, <2>2 DEF ServiceTypes
<1>10. CASE FailCall
  <2>1. /\ call # NoCall /\ UNCHANGED <<lock, lockOf, sent>>
        /\ position' = position \/ position' = [position EXCEPT ![call[1]] = "over"]
    BY <1>10 DEF FailCall
  <2>2. call[1] \in Actors
    BY <1>0, <2>1, CallsAre DEF LogTypes, Calls
  <2>3. QED BY <1>0, <1>1, <1>2, <2>1, <2>2 DEF ServiceTypes
<1>11. CASE Crash \/ PowerFailure
  <2>1. /\ position' = [a \in Actors |-> IF position[a] = "new" THEN "new" ELSE "over"]
        /\ UNCHANGED <<lock, lockOf, sent>>
    BY <1>11 DEF Crash, PowerFailure, Stop
  <2>2. QED BY <1>0, <2>1 DEF ServiceTypes, LocksExclude
<1>12. ASSUME NEW c \in Records \cup DeletionCalls, TakeLock(c) PROVE UNCHANGED serviceVars
  BY <1>12 DEF TakeLock
<1>13. ASSUME \/ Prune \/ Pruned \/ Open \/ Rotate \/ Rotated \/ Reopen \/ AppendLine \/ SyncNewFile
              \/ DeleteFile \/ PruneElsewhere \/ Month
       PROVE  UNCHANGED serviceVars
  BY <1>13 DEF Prune, Pruned, Open, Rotate, Rotated, Reopen, AppendLine, SyncNewFile, DeleteFile,
               PruneElsewhere, Month
<1>14. QED
  BY <1>3, <1>4, <1>5, <1>6, <1>7, <1>8, <1>9, <1>10, <1>11, <1>12, <1>13
     DEF LogNext, Step, Service, logVars

LEMMA TypesStay ==
  ASSUME LogInv, [LogNext]_logVars
  PROVE  LogTypes' /\ StageFits' /\ DirectoriesSound' /\ Latest'
<1>1. Moves \/ Loses \/ Creates \/ Appends \/ Returns
  BY Effects DEF LogInv
<1>2. /\ names' \in disk' /\ disk' \subseteq Directories
      /\ lines' \in [Files -> Seq(Records)] /\ written' \in Seq(Records)
      /\ DirectoriesSound' /\ Latest'
  BY <1>1, DirectoriesStay
<1>3. CallTypes' /\ StageFits'
  BY <1>2, StagesStay
<1>4. undone' \subseteq Files
  BY UndoneAre DEF LogInv
<1>5. QED BY <1>2, <1>3, <1>4, LocksStay DEF LogTypes, CallTypes, ServiceTypes

-------------------------------------------------------------------------------
\* What two directories of a possible disk do not agree on stays known.
LEMMA DifferencesStay ==
  ASSUME LogInv, [LogNext]_logVars
  PROVE  DifferencesKnown'
<1>0. LogTypes /\ StageFits /\ DifferencesKnown /\ LogTypes'
  BY TypesStay DEF LogInv
<1>1. ASSUME disk' = {names'} PROVE DifferencesKnown'
  BY <1>1 DEF DifferencesKnown
<1>2. ASSUME LeaveUndone PROVE DifferencesKnown'
  <2>1. SUFFICES ASSUME NEW d \in disk', NEW e \in disk', NEW f \in FilesOf(d) \ FilesOf(e)
                 PROVE  f \in undone'
    BY DEF DifferencesKnown
  <2>2. f \in Files
    BY <1>0, <2>1, DirectoryIs DEF LogTypes, FilesOf
  <2>3. QED BY <1>2, <2>1, <2>2 DEF LeaveUndone
<1>3. ASSUME disk' = disk, undone' = undone, ~Loose' => ~Loose PROVE DifferencesKnown'
  BY <1>0, <1>3 DEF DifferencesKnown
<1>4. ASSUME Loose' PROVE DifferencesKnown'
  BY <1>4 DEF DifferencesKnown
<1>5. CASE UNCHANGED logVars
  BY <1>3, <1>5 DEF logVars, directoryVars, callVars, Loose
<1>6. ASSUME NEW c \in Records \cup DeletionCalls, TakeLock(c) PROVE DifferencesKnown'
  <2>1. disk' = disk /\ undone' = undone /\ call = NoCall
    BY <1>6 DEF TakeLock, directoryVars
  <2>2. ~Loose
    BY <1>0, <2>1 DEF StageFits, Loose
  <2>3. QED BY <1>3, <2>1, <2>2
<1>7. CASE Prune
  BY <1>0, <1>4, <1>7 DEF Prune, StageFits, Loose
<1>8. CASE Pruned
  <2>1. CASE unsynced
    BY <1>1, <1>8, <2>1 DEF Pruned, SyncDirectory
  <2>2. CASE ~unsynced
    BY <1>3, <1>8, <2>2 DEF Pruned, Loose
  <2>3. QED BY <2>1, <2>2
<1>9. CASE Open
  <2>1. call' = call /\ stage = "open" /\ call # NoCall /\ ~unsynced
    BY <1>0, <1>9 DEF Open, StageFits
  <2>2. CASE ~Present(0)
    BY <1>4, <1>9, <2>1, <2>2 DEF Open, Loose
  <2>3. CASE Present(0)
    <3>1. disk' = disk /\ undone' = undone /\ unsynced' = unsynced /\ stage' \in {"write", "rotate"}
      BY <1>9, <2>3 DEF Open, To, directoryVars
    <3>2. ~Loose
      BY <2>1 DEF Loose
    <3>3. QED BY <1>3, <3>1, <3>2
  <2>4. QED BY <2>2, <2>3
<1>10. CASE Rotate
  BY <1>4, <1>10 DEF Rotate, To, Loose
<1>11. CASE Reopen
  BY <1>0, <1>4, <1>11 DEF Reopen, StageFits, Loose
<1>12. CASE Rotated \/ SyncNewFile
  BY <1>1, <1>12 DEF Rotated, SyncNewFile, SyncDirectory
<1>13. CASE AppendLine
  <2>1. disk' = disk /\ undone' = undone /\ stage = "write"
    BY <1>13 DEF AppendLine
  <2>2. CASE unsynced
    BY <1>0, <1>4, <1>13, <2>1, <2>2 DEF AppendLine, StageFits, Loose
  <2>3. CASE ~unsynced
    BY <1>3, <2>1, <2>3 DEF Loose
  <2>4. QED BY <2>2, <2>3
<1>14. CASE DeleteFile
  <2>1. stage = "delete" /\ call' = call /\ undone' = undone /\ call # NoCall
    BY <1>0, <1>14 DEF DeleteFile, StageFits
  <2>2. CASE Present(slot)
    BY <1>4, <1>14, <2>1, <2>2 DEF DeleteFile, Loose
  <2>3. CASE ~Present(slot)
    BY <1>3, <1>14, <2>1, <2>3 DEF DeleteFile, Loose
  <2>4. QED BY <2>2, <2>3
<1>15. CASE Deleted
  <2>1. CASE unsynced
    BY <1>1, <1>15, <2>1 DEF Deleted, SyncDirectory
  <2>2. CASE ~unsynced
    BY <1>3, <1>15, <2>2 DEF Deleted, Loose
  <2>3. QED BY <2>1, <2>2
<1>16. CASE FailCall \/ Crash \/ PowerFailure
  BY <1>2, <1>16 DEF FailCall, Crash, PowerFailure
<1>17. CASE Service \/ Month
  <2>1. disk' = disk /\ undone' = undone /\ UNCHANGED <<call, stage, unsynced>>
    BY <1>17 DEF Service, AskForLock, TakeSessionLock, Emit, EndTurn, CancelTurn, DeleteSnapshot, Discard, Month, directoryVars,
                 callVars
  <2>2. QED BY <1>3, <2>1 DEF Loose
<1>18. CASE PruneElsewhere
  BY <1>1, <1>2, <1>18 DEF PruneElsewhere
<1>19. QED
  BY <1>5, <1>6, <1>7, <1>8, <1>9, <1>10, <1>11, <1>12, <1>13, <1>14, <1>15, <1>16, <1>17, <1>18
     DEF LogNext, Step

-------------------------------------------------------------------------------
LEMMA NamesKept ==
  ASSUME LogInv
  PROVE  /\ names \in disk /\ disk \subseteq Directories /\ \A d \in disk : Sound(d)
         /\ \A f \in Files : f \in DOMAIN lines /\ lines[f] \in Seq(Records)
BY DEF LogInv, LogTypes, DirectoriesSound, Sound

\* The record that is written is new.
LEMMA WritesNew ==
  ASSUME LogInv, stage = "write"
  PROVE  /\ Present(0) /\ call \in Records /\ call \in Unwritten /\ names[0] \in Files
         /\ \A i \in DOMAIN written : written[i] # call
         /\ \A f \in Files : call \notin InFile(f)
<1>1. Present(0) /\ call \in Records /\ call \in Unwritten
  BY CallsAre DEF LogInv, StageFits, LogTypes, Unwritten, Calls
<1>2. ASSUME NEW i \in DOMAIN written, written[i] = call PROVE FALSE
  <2>1. call[2] < call[2] /\ call[2] \in Nat
    BY <1>1, <1>2, CallsAre DEF LogInv, WrittenFits
  <2>2. QED BY <2>1
<1>3. \A f \in Files : call \notin InFile(f)
  BY <1>2 DEF LogInv, WrittenFits
<1>4. names[0] \in Files
  BY <1>1, Numbers, DirectoryIs, NamesKept DEF Present
<1>5. QED BY <1>1, <1>2, <1>3, <1>4

LEMMA AppendingGives ==
  ASSUME LogInv, Appends, NEW current, current = names[0]
  PROVE  /\ current \in Files /\ call \in Records
         /\ written' \in Seq(Records) /\ Len(written') = Len(written) + 1
         /\ DOMAIN written' = DOMAIN written \cup {Len(written')}
         /\ Len(written') \notin DOMAIN written /\ written'[Len(written')] = call
         /\ \A i \in DOMAIN written : written'[i] = written[i]
         /\ InFile(current)' = InFile(current) \cup {call}
         /\ \A f \in Files : f # current => InFile(f)' = InFile(f)
         /\ names' = names /\ disk' = disk
<1>1. /\ Present(0) /\ call \in Records /\ names' = names /\ disk' = disk
      /\ lines' = [lines EXCEPT ![current] = Append(@, call)] /\ written' = Append(written, call)
  BY WritesNew DEF Appends
<1>2. QED BY <1>1, AppendGives DEF LogInv

\* Unless a file is moved, all directories stay as deep as they were.
LEMMA DeepStays ==
  ASSUME LogInv, Loses \/ Creates \/ Appends \/ Returns, \A d \in disk : Deep(d)
  PROVE  \A d \in disk' : Deep(d)'
<1>0. LogTypes /\ Latest /\ names \in disk /\ \A d \in disk : d \in Directories /\ Sound(d)
  BY NamesKept DEF LogInv
<1>1. ASSUME Keeps PROVE \A d : Deep(d) => Deep(d)'
  BY <1>1, KeepingKeeps DEF Keeps
<1>2. CASE Loses
  <2>1. PICK e \in Directories : e = names'
    BY <1>2 DEF Loses
  <2>2. \A s \in Slots : e[s] \in {names[s], NoFile}
    BY <1>2, <2>1 DEF Loses
  <2>3. Deep(e)
    BY <1>0, <2>2, LosingKeeps
  <2>4. QED BY <1>1, <1>2, <2>1, <2>3 DEF Loses
<1>3. CASE Creates
  <2>1. PICK e : e = names'
    OBVIOUS
  <2>2. disk' = disk \cup {e}
    BY <1>3, <2>1 DEF Creates, Create, Change
  <2>3. Deep(e)' /\ \A d \in disk : Deep(d)'
    BY <1>0, <1>3, <2>1, CreatingKeeps DEF Creates, LogInv
  <2>4. QED BY <2>2, <2>3
<1>4. CASE Appends
  <2>1. PICK current : current = names[0]
    OBVIOUS
  <2>2. /\ lines' = [lines EXCEPT ![current] = Append(@, call)] /\ written' = Append(written, call)
        /\ disk' = disk /\ stage = "write"
    BY <1>4, <2>1 DEF Appends
  <2>3. /\ Present(0) /\ call \in Records /\ \A i \in DOMAIN written : written[i] # call
        /\ \A f \in Files : call \notin InFile(f)
    BY <2>2, WritesNew
  <2>4. \A d \in disk : Deep(d)'
    BY <1>0, <2>1, <2>2, <2>3, AppendingKeeps
  <2>5. QED BY <2>2, <2>4
<1>5. CASE Returns
  BY <1>1, <1>5 DEF Returns
<1>6. QED BY <1>2, <1>3, <1>4, <1>5

\* A rotation goes on undisturbed, or is cut short.
LEMMA RotationSteps ==
  ASSUME LogInv, [LogNext]_logVars, ~cutShort'
  PROVE  /\ ~cutShort
         /\ \/ Rotate
            \/ Rotated
            \/ Open /\ Present(0) /\ stage' = "rotate"
            \/ UNCHANGED <<stage, slot, names, disk, lines, written>>
            \/ stage \notin {"rotate", "rotated"} /\ stage' \notin {"rotate", "rotated"}
<1>0. StageFits
  BY DEF LogInv
<1>1. ~cutShort
  BY DEF LogNext, Step, Service, TakeLock, Prune, Pruned, Open, Create, Rotate, Rotated, Reopen,
         AppendLine, SyncNewFile, DeleteFile, Deleted, FailCall, AskForLock, TakeSessionLock,
         Emit, EndTurn, CancelTurn, DeleteSnapshot, Discard, PruneElsewhere, Crash, PowerFailure, Stop, Month, LeaveUndone,
         logVars, observerVars
<1>2. ASSUME LeaveUndone PROVE stage \notin {"rotate", "rotated"}
  BY <1>2 DEF LeaveUndone
<1>3. ASSUME NEW c \in Records \cup DeletionCalls, TakeLock(c)
      PROVE  stage \notin {"rotate", "rotated"} /\ stage' \notin {"rotate", "rotated"}
  BY <1>0, <1>3 DEF TakeLock, To, StageFits
<1>4. CASE Open
  BY <1>1, <1>4 DEF Open, To
<1>5. CASE FailCall \/ Crash \/ PowerFailure
  BY <1>1, <1>2, <1>5 DEF FailCall, Crash, PowerFailure, Stop, Return, To
<1>6. CASE Prune \/ Pruned \/ Reopen \/ AppendLine \/ SyncNewFile \/ DeleteFile \/ Deleted
  BY <1>1, <1>6 DEF Prune, Pruned, Reopen, AppendLine, SyncNewFile, DeleteFile, Deleted, Report, Return, To
<1>7. CASE Service \/ UNCHANGED logVars
  BY <1>1, <1>7 DEF Service, AskForLock, TakeSessionLock, Emit, EndTurn, CancelTurn, DeleteSnapshot, Discard, logVars, directoryVars,
              callVars, observerVars
<1>8. CASE PruneElsewhere \/ Month
  BY <1>0, <1>1, <1>8 DEF PruneElsewhere, Month, StageFits, callVars
<1>9. QED
  BY <1>1, <1>3, <1>4, <1>5, <1>6, <1>7, <1>8 DEF LogNext, Step

\* What one step of the rotation does to the slots.
LEMMA RotateGives ==
  ASSUME LogTypes, StageFits, Rotate
  PROVE  /\ names' \in Directories /\ names'[slot] = NoFile /\ Keeps
         /\ \A s \in Slots : s # slot /\ names'[s] # NoFile =>
              names'[s] = IF s = slot + 1 THEN names[slot] ELSE names[s]
         /\ IF slot > 0 THEN slot' = slot - 1 /\ stage' = "rotate" ELSE stage' = "rotated"
<1>0. names \in Directories /\ slot \in Slots /\ slot \in Nat /\ slot <= RotationCount /\ stage = "rotate"
  BY Numbers DEF LogTypes, Rotate
<1>1. Keeps /\ IF slot > 0 THEN slot' = slot - 1 /\ stage' = "rotate" ELSE stage' = "rotated"
  BY DEF Rotate, To, Keeps
<1>2. CASE slot = RotationCount
  <2>1. \A s \in Slots : s # slot + 1
    BY <1>0, <1>2, Numbers
  <2>2. names' = [names EXCEPT ![slot] = NoFile]
    BY <1>0, <1>2 DEF Rotate, RemoveFile, Change, Present, Directories
  <2>3. QED BY <1>0, <1>1, <2>1, <2>2 DEF Directories
<1>3. CASE slot # RotationCount
  <2>1. slot + 1 \in Slots /\ slot + 1 # slot /\ names[slot + 1] = NoFile
    BY <1>0, <1>3, Numbers DEF StageFits, Present
  <2>2. CASE ~Present(slot)
    BY <1>0, <1>1, <2>1, <2>2 DEF Rotate, Present
  <2>3. CASE Present(slot)
    <3>1. names' = [names EXCEPT ![slot + 1] = names[slot], ![slot] = NoFile]
      BY <1>3, <2>3 DEF Rotate, Change
    <3>2. QED BY <1>0, <1>1, <2>1, <3>1 DEF Directories
  <2>4. QED BY <2>2, <2>3
<1>4. QED BY <1>2, <1>3

LEMMA DepthStays ==
  ASSUME LogInv, [LogNext]_logVars
  PROVE  DepthKept'
<1>0. LogTypes /\ StageFits /\ StageFits' /\ LogTypes' /\ DepthKept
  BY TypesStay DEF LogInv
<1>1. SUFFICES ASSUME ~cutShort' PROVE DepthKept'
  BY DEF DepthKept
<1>2. ~cutShort /\ names \in disk
  BY <1>1, RotationSteps, NamesKept
<1>3. CASE Rotate
  <2>1. /\ names' \in Directories /\ names'[slot] = NoFile /\ Keeps
        /\ \A s \in Slots : s # slot /\ names'[s] # NoFile =>
             names'[s] = IF s = slot + 1 THEN names[slot] ELSE names[s]
        /\ IF slot > 0 THEN slot' = slot - 1 /\ stage' = "rotate" ELSE stage' = "rotated"
    BY <1>0, <1>3, RotateGives
  <2>2. slot \in Slots /\ slot \in Nat /\ Deeper
    BY <1>0, <1>2, <1>3, Numbers DEF LogTypes, DepthKept, Rotate
  <2>3. \A f, n : Behind(f, n) => Behind(f, n)'
    BY <2>1 DEF Behind, Keeps, InFile
  <2>4. PICK e \in Directories : e = names'
    BY <2>1
  <2>5. ASSUME NEW s \in Rotations, e[s] # NoFile, s > slot, s - 1 > 0
        PROVE  Behind(e[s], Depth(s - 1))
    <3>1. s \in Slots /\ s \in Nat /\ s # slot
      BY <2>2, <2>5, Numbers
    <3>2. CASE s = slot + 1
      <4>1. e[s] = names[slot] /\ slot \in Rotations /\ slot = s - 1
        BY <2>1, <2>2, <2>4, <2>5, <3>1, <3>2 DEF Rotations
      <4>2. slot <= slot
        BY <2>2
      <4>3. QED BY <2>2, <2>5, <4>1, <4>2 DEF Deeper, Present
    <3>3. CASE s # slot + 1
      <4>1. e[s] = names[s]
        BY <2>1, <2>4, <2>5, <3>1, <3>3
      <4>2. ~(s <= slot)
        BY <2>2, <2>5, <3>1
      <4>3. QED BY <2>2, <2>5, <4>1, <4>2 DEF Deeper, Present
    <3>4. QED BY <3>2, <3>3
  <2>6. ASSUME NEW s \in Rotations, e[s] # NoFile, s > slot
        PROVE  Behind(e[s], Depth(s - 1))
    <3>1. CASE s - 1 > 0
      BY <2>5, <2>6, <3>1
    <3>2. CASE ~(s - 1 > 0)
      <4>1. Depth(s - 1) = 0
        BY <3>2, Numbers, DepthIs
      <4>2. QED BY <1>0, <4>1, LessDeep
    <3>3. QED BY <3>1, <3>2
  <2>7. CASE slot > 0
    <3>1. SUFFICES ASSUME NEW s \in Rotations, e[s] # NoFile, NEW n,
                          n = Depth(IF s <= slot - 1 THEN s ELSE s - 1)
                   PROVE  Behind(e[s], n)
      <4>1. PICK k : k = slot' /\ k = slot - 1 /\ stage' = "rotate"
        BY <2>1, <2>7
      <4>2. \A s \in Rotations : e[s] # NoFile => Behind(e[s], Depth(IF s <= k THEN s ELSE s - 1))'
        BY <2>3, <3>1, <4>1 DEF Depth
      <4>3. Deeper'
        BY <2>4, <4>1, <4>2 DEF Deeper, Present, Behind, InFile, Depth
      <4>4. QED BY <4>1, <4>3 DEF DepthKept
    <3>2. CASE s > slot
      <4>1. ~(s <= slot - 1)
        BY <2>2, <3>2, Numbers
      <4>2. QED BY <2>6, <3>1, <3>2, <4>1
    <3>3. CASE ~(s > slot)
      <4>1. s # slot /\ s \in Slots /\ s <= slot /\ s <= slot - 1 /\ s # slot + 1
        BY <2>1, <2>2, <2>4, <3>1, <3>3, Numbers
      <4>2. e[s] = names[s]
        BY <2>1, <2>4, <3>1, <4>1
      <4>3. QED BY <2>2, <3>1, <4>1, <4>2 DEF Deeper, Present
    <3>4. QED BY <3>2, <3>3
  <2>8. CASE ~(slot > 0)
    <3>1. slot = 0 /\ stage' = "rotated"
      BY <2>1, <2>2, <2>8
    <3>2. e[0] = NoFile
      BY <2>1, <2>4, <3>1
    <3>3. \A s \in Rotations : e[s] # NoFile => Behind(e[s], Depth(s - 1))
      BY <2>6, <3>1, Numbers
    <3>4. Deep(e)'
      <4>1. Current(e)' = 0
        BY <3>2 DEF Current
      <4>2. ASSUME NEW s \in Rotations PROVE Depth(s - 1) + 0 = Depth(s - 1)
        BY Numbers, DepthIs
      <4>3. ASSUME NEW s \in Rotations, e[s] # NoFile PROVE Behind(e[s], Depth(s - 1) + Current(e))'
        <5>1. Behind(e[s], Depth(s - 1))'
          BY <2>3, <3>3, <4>3 DEF Depth
        <5>2. QED BY <4>1, <4>2, <5>1 DEF Behind, Depth
      <4>4. QED BY <4>3 DEF Deep, Depth
    <3>5. Deep(names)'
      BY <2>4, <3>4 DEF Deep, Current, Behind, InFile, Depth
    <3>6. QED BY <3>1, <3>5 DEF DepthKept
  <2>9. QED BY <2>7, <2>8
<1>4. CASE Rotated
  <2>1. Deep(names) /\ Keeps /\ disk' = {names} /\ stage' = "reopen"
    BY <1>0, <1>2, <1>4 DEF DepthKept, Rotated, SyncDirectory, To, Keeps, observerVars
  <2>2. PICK d : d = names
    OBVIOUS
  <2>3. Deep(d)'
    BY <2>1, <2>2, KeepingKeeps DEF Keeps
  <2>4. QED BY <2>1, <2>2, <2>3 DEF DepthKept
<1>5. CASE Open /\ Present(0) /\ stage' = "rotate"
  <2>1. /\ stage = "open" /\ UNCHANGED <<names, lines, written>> /\ slot' = RotationCount
    BY <1>5 DEF Open, To, directoryVars, observerVars
  <2>2. Deep(names)
    BY <1>0, <1>2, <2>1 DEF DepthKept
  <2>3. Current(names) \in Nat /\ Current(names) >= Capacity
    <3>1. Current(names) \in Nat
      BY <1>0, <1>2, CurrentIs DEF LogTypes
    <3>2. Present(0)' /\ Len(lines'[names'[0]]) >= Capacity
      BY <1>0, <1>5, <2>1 DEF StageFits
    <3>3. QED BY <2>1, <3>1, <3>2 DEF Current, Present
  <2>4. ASSUME NEW s \in Rotations, Present(s) PROVE Behind(names[s], Depth(s))
    <3>1. Depth(s) \in Nat /\ Depth(s - 1) \in Nat /\ Depth(s - 1) + Capacity = Depth(s)
      BY Numbers, DepthIs
    <3>2. Depth(s - 1) + Current(names) \in Nat /\ Depth(s) <= Depth(s - 1) + Current(names)
      BY <2>3, <3>1, Numbers
    <3>3. Behind(names[s], Depth(s - 1) + Current(names))
      BY <2>2, <2>4 DEF Deep, Present
    <3>4. QED BY <1>0, <3>1, <3>2, <3>3, LessDeep
  <2>5. Deeper'
    <3>1. \A s \in Rotations : s <= slot'
      BY <2>1, Numbers
    <3>2. \A s \in Rotations : Present(s) => Behind(names[s], Depth(s))'
      BY <2>1, <2>4 DEF Behind, InFile, Depth
    <3>3. QED BY <2>1, <3>1, <3>2 DEF Deeper, Present, Behind, InFile, Depth
  <2>6. QED BY <1>5, <2>5 DEF DepthKept
<1>6. CASE UNCHANGED <<stage, slot, names, disk, lines, written>>
  <2>1. \A d : Deep(d) => Deep(d)'
    BY <1>6, KeepingKeeps
  <2>2. (Deeper => Deeper') /\ (Deep(names) => Deep(names)')
    BY <1>6 DEF Deeper, Deep, Present, Behind, Current, InFile, Depth
  <2>3. QED BY <1>0, <1>2, <1>6, <2>1, <2>2 DEF DepthKept
<1>7. CASE stage \notin {"rotate", "rotated"} /\ stage' \notin {"rotate", "rotated"}
  <2>1. Loses \/ Creates \/ Appends \/ Returns
    BY <1>0, <1>7, Effects DEF Moves
  <2>2. \A d \in disk' : Deep(d)'
    BY <1>0, <1>2, <1>7, <2>1, DeepStays DEF DepthKept
  <2>3. QED BY <1>7, <2>2 DEF DepthKept
<1>8. QED BY <1>1, <1>3, <1>4, <1>5, <1>6, <1>7, RotationSteps

-------------------------------------------------------------------------------
\* How far behind a record has to be before rotation may cost it.
Far == IF cutShort THEN Capacity ELSE Capacity * RotationCount

LEMMA FarShrinks ==
  ASSUME LogInv, [LogNext]_logVars
  PROVE  Far \in Nat /\ Far' \in Nat /\ Far' <= Far
<1>1. Depth(RotationCount) = Capacity * RotationCount
  BY DepthIs
<1>2. Capacity * RotationCount \in Nat /\ Capacity <= Capacity * RotationCount
  <2>1. RotationCount - 1 \in Nat /\ (RotationCount - 1) + 1 = RotationCount
    BY Numbers
  <2>2. Depth(RotationCount - 1) \in Nat /\ Depth(RotationCount - 1) + Capacity = Depth(RotationCount)
    BY <2>1, DepthIs
  <2>3. QED BY <1>1, <2>2, Numbers
<1>3. cutShort => cutShort'
  BY RotationSteps
<1>4. cutShort \in BOOLEAN /\ cutShort' \in BOOLEAN
  BY TypesStay DEF LogInv, LogTypes
<1>5. QED BY <1>2, <1>3, <1>4, Numbers DEF Far

\* What was written stays written, and no closer to the end.
LEMMA WrittenGrows ==
  ASSUME LogInv, [LogNext]_logVars
  PROVE  \A i \in DOMAIN written :
           /\ i \in DOMAIN written' /\ written'[i] = written[i]
           /\ Len(written) - i \in Nat /\ Len(written') - i >= Len(written) - i
<1>1. CASE Appends
  <2>1. PICK current : current = names[0]
    OBVIOUS
  <2>2. /\ Len(written') = Len(written) + 1 /\ DOMAIN written' = DOMAIN written \cup {Len(written')}
        /\ \A i \in DOMAIN written : written'[i] = written[i]
    BY <1>1, <2>1, AppendingGives
  <2>3. Len(written) \in Nat /\ \A i \in DOMAIN written : i \in Nat /\ Len(written) - i \in Nat
    BY Positions DEF LogInv
  <2>4. QED BY <2>2, <2>3
<1>2. CASE written' = written
  <2>1. \A i \in DOMAIN written : Len(written) - i \in Nat
    BY Positions DEF LogInv
  <2>2. QED BY <1>2, <2>1
<1>3. QED
  BY <1>1, <1>2, Effects DEF LogInv, Moves, Loses, Creates, Returns, Keeps

LEMMA DepthCosts ==
  ASSUME LogInv, [LogNext]_logVars
  PROVE  RotationKeepsDepth'
<1>0. ASSUME NEW r, NEW i \in DOMAIN written, written[i] = r, Len(written) - i >= Far
      PROVE  /\ i \in DOMAIN written' /\ written'[i] = r
             /\ Len(written') - i >= IF cutShort' THEN Capacity ELSE Capacity * RotationCount
  <2>1. Far \in Nat /\ Far' \in Nat /\ Far' <= Far
    BY FarShrinks
  <2> DEFINE before == Len(written) - i
             after  == Len(written') - i
  <2>2. i \in DOMAIN written' /\ written'[i] = r /\ before \in Nat /\ after >= before /\ before >= Far
    BY <1>0, WrittenGrows
  <2>3. after \in Int
    <3>1. Len(written') \in Nat /\ i \in Nat
      BY TypesStay, Positions, LenProperties DEF LogTypes, LogInv
    <3>2. QED BY <3>1
  <2> HIDE DEF before, after
  <2>4. after >= Far'
    BY <2>1, <2>2, <2>3
  <2>5. QED BY <2>2, <2>4 DEF after, Far
<1>1. SUFFICES ASSUME NEW r \in rotatedOut'
               PROVE  \E i \in DOMAIN written : written[i] = r /\ Len(written) - i >= Far
  BY <1>0 DEF RotationKeepsDepth
<1>2. CASE r \in rotatedOut
  BY <1>2 DEF LogInv, RotationKeepsDepth, Far
<1>3. CASE r \notin rotatedOut
  <2>1. Rotate /\ slot = RotationCount /\ Present(slot) /\ r \in InFile(names[slot])
    <3>1. Rotate
      BY <1>1, <1>3 DEF LogNext, Step, Service, TakeLock, Prune, Pruned, Open, Rotated, Reopen,
         AppendLine, SyncNewFile, DeleteFile, Deleted, FailCall, AskForLock, TakeSessionLock,
         Emit, EndTurn, CancelTurn, DeleteSnapshot, Discard, PruneElsewhere, Crash, PowerFailure, Stop, Month,
         logVars, observerVars, lossVars
    <3>2. QED BY <1>1, <1>3, <3>1 DEF Rotate, lossVars
  <2>2. names \in disk /\ Sound(names) /\ RotationCount \in Rotations /\ names[slot] \in Files
    BY <2>1, NamesKept, Numbers, DirectoryIs DEF Rotations, Present
  <2>3. Behind(names[slot], Far)
    <3>1. CASE cutShort
      <4>1. Present(0) /\ Len(lines[names[0]]) >= Capacity
        BY <2>1 DEF LogInv, StageFits, Rotate
      <4>2. Current(names) >= Capacity /\ Behind(names[slot], Current(names))
        BY <2>1, <2>2, <4>1 DEF Current, Sound, BehindCurrent, Present
      <4>3. Current(names) \in Nat
        BY <2>2, NamesKept, CurrentIs DEF LogInv
      <4>4. QED BY <3>1, <4>2, <4>3, LessDeep, Numbers DEF Far, LogInv
    <3>2. CASE ~cutShort
      <4>1. Deeper
        BY <2>1, <3>2 DEF LogInv, DepthKept, Rotate
      <4>2. Behind(names[RotationCount], Depth(RotationCount))
        BY <2>1, <2>2, <4>1, Numbers DEF Deeper
      <4>3. QED BY <2>1, <3>2, <4>2, DepthIs DEF Far
    <3>3. QED BY <3>1, <3>2
  <2>4. PICK i \in DOMAIN written : written[i] = r
    BY <2>1, <2>2 DEF LogInv, WrittenFits
  <2>5. Len(written) - i >= Far
    BY <2>1, <2>3, <2>4 DEF Behind
  <2>6. QED BY <2>4, <2>5
<1>4. QED BY <1>2, <1>3

-------------------------------------------------------------------------------
\* The calls that wait, and what they are to write.

LEMMA OutstandingAre ==
  /\ \A r : r \in Outstanding <=> r \in Records /\ (r \in calls \/ r = call)
  /\ \A r : r \in Unwritten <=> r \in Records /\ (r \in calls \/ (r = call /\ stage # "sync"))
BY DEF Outstanding, Unwritten

LEMMA HandedOverIs ==
  ASSUME NEW r \in Records
  PROVE  r \in HandedOver <=> r[2] <= sent[r[1]]
BY DEF HandedOver

LEMMA HandedOverGrows ==
  ASSUME LogInv, [LogNext]_logVars
  PROVE  HandedOver \subseteq HandedOver'
<1>1. CASE sent' = sent
  BY <1>1 DEF HandedOver
<1>2. ASSUME NEW t \in Turns, Emit(t) PROVE HandedOver \subseteq HandedOver'
  <2>1. sent \in [Turns -> Nat] /\ sent' = [sent EXCEPT ![t] = @ + 1]
    BY <1>2, AuditLogAssumption DEF LogInv, LogTypes, Emit
  <2>2. \A r \in Records : r[1] \in Turns /\ r[2] \in Nat
    BY CallsAre, AuditLogAssumption
  <2>3. QED BY <2>1, <2>2 DEF HandedOver
<1>3. sent' = sent \/ \E t \in Turns : Emit(t)
  BY DEF LogNext, Step, Service, TakeLock, Prune, Pruned, Open, Rotate, Rotated, Reopen,
         AppendLine, SyncNewFile, DeleteFile, Deleted, FailCall, AskForLock, TakeSessionLock,
         EndTurn, CancelTurn, DeleteSnapshot, Discard, PruneElsewhere, Crash, PowerFailure, Stop,
         Month, logVars, serviceVars
<1>4. QED BY <1>1, <1>2, <1>3

\* A record that waits was handed over.
LEMMA OutstandingHandedOver ==
  ASSUME LogInv
  PROVE  Outstanding \subseteq HandedOver
<1>1. \A r \in Outstanding : r \in Records /\ r[2] = sent[r[1]] /\ r[2] \in Nat
  BY OutstandingAre, CallsAre, AuditLogAssumption DEF LogInv, OutstandingFits
<1>2. QED BY <1>1 DEF HandedOver

\* Only Emit adds a record to those that wait.
LEMMA OutstandingSteps ==
  ASSUME LogInv, [LogNext]_logVars
  PROVE  \/ \E t \in Turns : Emit(t)
         \/ /\ Outstanding' \subseteq Outstanding
            /\ Appends \/ (Unwritten' \subseteq Unwritten /\ ~(stage' = "sync" /\ stage # "sync"))
<1>0. StageFits
  BY DEF LogInv
<1>1. ASSUME \A r \in Records : /\ r \in calls' \/ r = call' => r \in calls \/ r = call
                                /\ r \in calls' => r \in calls
                                /\ r = call' => r \in calls \/ (r = call /\ (stage = "sync" => stage' = "sync")),
             ~(stage' = "sync" /\ stage # "sync")
      PROVE  /\ Outstanding' \subseteq Outstanding /\ Unwritten' \subseteq Unwritten
             /\ ~(stage' = "sync" /\ stage # "sync")
  BY <1>1 DEF Outstanding, Unwritten
<1>2. \A r \in Records : r # NoCall /\ r \notin DeletionCalls
  BY CallsAre
<1>3. CASE UNCHANGED logVars
  BY <1>1, <1>3 DEF logVars, callVars
<1>4. ASSUME NEW c \in Records \cup DeletionCalls, TakeLock(c)
      PROVE  /\ Outstanding' \subseteq Outstanding /\ Unwritten' \subseteq Unwritten
             /\ ~(stage' = "sync" /\ stage # "sync")
  BY <1>1, <1>4 DEF TakeLock, To
<1>5. CASE Prune \/ Pruned \/ Open \/ Rotate \/ Rotated \/ Reopen \/ DeleteFile
  <2>1. UNCHANGED <<calls, call>> /\ stage # "sync" /\ stage' # "sync"
    BY <1>5 DEF Prune, Pruned, Open, Rotate, Rotated, Reopen, DeleteFile, To
  <2>2. QED BY <1>1, <2>1
<1>6. CASE SyncNewFile \/ Deleted \/ FailCall \/ Crash \/ PowerFailure
  <2>1. call' = NoCall /\ calls' \subseteq calls /\ stage' = "none"
    BY <1>6 DEF SyncNewFile, Report, Deleted, FailCall, Crash, PowerFailure, Stop, Return, To
  <2>2. QED BY <1>1, <1>2, <2>1
<1>7. CASE AppendLine
  <2>1. calls' = calls /\ (call' = call \/ call' = NoCall)
    BY <1>7 DEF AppendLine, Report, Return
  <2>2. Outstanding' \subseteq Outstanding
    BY <1>2, <2>1 DEF Outstanding
  <2>3. Appends
    BY <1>7 DEF AppendLine, Appends, lossVars
  <2>4. QED BY <2>2, <2>3
<1>8. CASE Service /\ ~(\E t \in Turns : Emit(t))
  <2>1. UNCHANGED <<call, stage>> /\ calls' \subseteq calls \cup DeletionCalls
    BY <1>8 DEF Service, AskForLock, TakeSessionLock, EndTurn, CancelTurn, DeleteSnapshot, Discard,
                callVars, DeletionCalls
  <2>2. QED BY <1>1, <1>2, <2>1
<1>9. CASE PruneElsewhere \/ Month
  BY <1>1, <1>9 DEF PruneElsewhere, Month, callVars
<1>10. QED
  BY <1>3, <1>4, <1>5, <1>6, <1>7, <1>8, <1>9 DEF LogNext, Step

\* The record of an Emit is the first of its number.
LEMMA EmitGives ==
  ASSUME LogInv, NEW t \in Turns, Emit(t)
  PROVE  \E new \in Records :
           /\ new[1] = t /\ new[2] = sent[t] + 1 /\ sent' = [sent EXCEPT ![t] = new[2]]
           /\ position[t] = "inside" /\ new \notin HandedOver
           /\ calls' = calls \cup {new} /\ UNCHANGED <<call, stage, position, stray, beside, written>>
           /\ \A r \in HandedOver : r[1] = t => r[2] < new[2]
           /\ \A r \in Outstanding : r[1] # t
<1>1. /\ position[t] = "inside" /\ AwaitedRecord(t) = {} /\ sent[t] < MaxRecords
      /\ sent' = [sent EXCEPT ![t] = @ + 1] /\ calls' = calls \cup {<<t, sent[t] + 1>>}
      /\ UNCHANGED <<call, stage, position, stray, beside, written>>
  BY DEF Emit, callVars, observerVars
<1>2. sent[t] \in Nat /\ sent[t] + 1 \in 1..MaxRecords
  BY <1>1, AuditLogAssumption DEF LogInv, LogTypes
<1>3. PICK new \in Records : new = <<t, sent[t] + 1>>
  BY <1>2 DEF Records
<1>4. new[1] = t /\ new[2] = sent[t] + 1
  BY <1>3
<1>5. \A r \in HandedOver : r[1] = t => r[2] < new[2]
  BY <1>2, <1>4, CallsAre DEF HandedOver
<1>6. new \notin HandedOver
  BY <1>2, <1>4 DEF HandedOver
<1>7. ASSUME NEW r \in Outstanding, r[1] = t PROVE FALSE
  <2>1. r \in Records /\ r[2] = sent[t] /\ (r \in calls \/ r = call)
    BY <1>7, OutstandingAre DEF LogInv, OutstandingFits
  <2>2. r = <<t, sent[t]>>
    BY <1>7, <2>1, CallsAre
  <2>3. QED BY <1>1, <2>1, <2>2 DEF AwaitedRecord
<1>8. QED BY <1>1, <1>3, <1>4, <1>5, <1>6, <1>7

\* What is in the files was written.
LEMMA FilesStay ==
  ASSUME LogInv, Moves \/ Loses \/ Creates \/ Appends \/ Returns
  PROVE  \A f \in Files : \A r \in InFile(f)' : \/ r \in InFile(f)
                                                \/ Appends /\ f = names[0] /\ r = call
<1>1. CASE Keeps
  BY <1>1 DEF Keeps, InFile
<1>2. CASE Creates
  <2>1. PICK fresh \in Files :
          InFile(fresh)' = {} /\ \A f \in Files : f # fresh => InFile(f)' = InFile(f)
    BY <1>2, CreateGives DEF Creates, LogInv
  <2>2. QED BY <2>1
<1>3. CASE Appends
  <2>1. PICK current : current = names[0]
    OBVIOUS
  <2>2. /\ InFile(current)' = InFile(current) \cup {call}
        /\ \A f \in Files : f # current => InFile(f)' = InFile(f)
    BY <1>3, <2>1, AppendingGives
  <2>3. ASSUME NEW f \in Files, NEW r \in InFile(f)'
        PROVE  r \in InFile(f) \/ (f = names[0] /\ r = call)
    <3>1. CASE f = current
      <4>1. InFile(f)' = InFile(current)'
        BY <3>1 DEF InFile
      <4>2. QED BY <2>1, <2>2, <2>3, <3>1, <4>1
    <3>2. CASE f # current
      BY <2>2, <2>3, <3>2
    <3>3. QED BY <3>1, <3>2
  <2>4. QED BY <1>3, <2>3
<1>4. QED BY <1>1, <1>2, <1>3 DEF Moves, Loses, Returns

LEMMA WrittenStays ==
  ASSUME LogInv, [LogNext]_logVars
  PROVE  WrittenFits' /\ TurnInOrder'
<1>0. /\ Moves \/ Loses \/ Creates \/ Appends \/ Returns
      /\ WrittenFits /\ TurnInOrder /\ OutstandingFits
  BY Effects DEF LogInv
<1>1. \A f \in Files : \A r \in InFile(f)' : \E i \in DOMAIN written' : written'[i] = r
  <2>1. ASSUME NEW f \in Files, NEW r \in InFile(f)' PROVE \E i \in DOMAIN written' : written'[i] = r
    <3>1. CASE r \in InFile(f)
      BY <1>0, <3>1, WrittenGrows DEF WrittenFits
    <3>2. CASE Appends /\ r = call
      BY <3>2, AppendingGives
    <3>3. QED BY <1>0, <2>1, <3>1, <3>2, FilesStay
  <2>2. QED BY <2>1
<1>2. CASE Appends
  <2>1. PICK last : last = Len(written')
    OBVIOUS
  <2>2. /\ DOMAIN written' = DOMAIN written \cup {last} /\ last \notin DOMAIN written
        /\ written'[last] = call /\ \A i \in DOMAIN written : written'[i] = written[i]
        /\ last = Len(written) + 1
    BY <1>2, <2>1, AppendingGives
  <2>3. /\ stage = "write" /\ call \in Records /\ call \in Unwritten
        /\ call \in Outstanding /\ call \in HandedOver
    BY <1>2, WritesNew, OutstandingAre, OutstandingHandedOver DEF Appends
  <2>4. HandedOver \subseteq HandedOver' /\ Outstanding' \subseteq Outstanding
    <3>1. ASSUME NEW t \in Turns, Emit(t) PROVE FALSE
      <4>1. written' = written
        BY <3>1, EmitGives
      <4>2. QED BY <2>2, <4>1
    <3>2. QED BY <3>1, HandedOverGrows, OutstandingSteps
  <2>5. \A i \in DOMAIN written' : written'[i] \in HandedOver'
    BY <1>0, <2>2, <2>3, <2>4 DEF WrittenFits
  <2>6. TurnInOrder'
    <3>1. SUFFICES ASSUME NEW i \in DOMAIN written', NEW j \in DOMAIN written', i < j,
                          written'[i][1] = written'[j][1]
                   PROVE  written'[i][2] < written'[j][2]
      BY DEF TurnInOrder
    <3>2. \A k \in DOMAIN written : k < last /\ k \in Nat
      <4>1. DOMAIN written = 1..Len(written) /\ Len(written) \in Nat
        BY LenProperties DEF LogInv, LogTypes
      <4>2. QED BY <2>2, <4>1
    <3>3. i \in DOMAIN written
      <4>1. last \in Nat
        BY <2>2, Positions DEF LogInv
      <4>2. QED BY <2>2, <3>1, <3>2, <4>1
    <3>4. CASE j = last
      BY <1>0, <2>2, <2>3, <3>1, <3>3, <3>4 DEF WrittenFits
    <3>5. CASE j # last
      BY <1>0, <2>2, <3>1, <3>3, <3>5 DEF TurnInOrder
    <3>6. QED BY <3>4, <3>5
  <2>7. ASSUME NEW r \in Unwritten', NEW i \in DOMAIN written', written'[i][1] = r[1]
        PROVE  written'[i][2] < r[2]
    <3>1. r \in Records /\ (r \in calls' \/ (r = call' /\ stage' # "sync"))
      BY <2>7 DEF Unwritten
    <3>2. /\ calls' = calls
          /\ stage' = "sync" \/ call' = NoCall
      <4>1. AppendLine
        BY <1>2, <2>2, <2>4, <2>3, Numbers DEF LogNext, Step, Service, TakeLock, Prune, Pruned, Open, Rotate,
           Rotated, Reopen, SyncNewFile, DeleteFile, Deleted, FailCall, AskForLock, TakeSessionLock,
           Emit, EndTurn, CancelTurn, DeleteSnapshot, Discard, PruneElsewhere, Crash, PowerFailure, Stop, Month,
           logVars, observerVars
      <4>2. QED BY <4>1 DEF AppendLine, Report, Return, To
    <3>3. r \in calls /\ r # call /\ r \in Outstanding
      BY <1>0, <3>1, <3>2, CallsAre, OutstandingAre DEF OutstandingFits, Calls
    <3>4. r[1] # call[1]
      BY <1>0, <2>3, <3>3, CallsAre, OutstandingAre DEF OutstandingFits
    <3>5. r \in Unwritten
      BY <3>1, <3>3, OutstandingAre
    <3>6. i \in DOMAIN written /\ written'[i] = written[i]
      BY <2>2, <2>7, <3>4
    <3>7. QED BY <1>0, <2>7, <3>5, <3>6 DEF WrittenFits
  <2>8. QED BY <1>1, <2>5, <2>6, <2>7 DEF WrittenFits
<1>3. CASE ~Appends
  <2>1. written' = written
    BY <1>0, <1>3 DEF Moves, Loses, Creates, Returns, Keeps
  <2>2. TurnInOrder'
    BY <1>0, <2>1 DEF TurnInOrder
  <2>3. \A i \in DOMAIN written' : written'[i] \in HandedOver'
    BY <1>0, <2>1, HandedOverGrows DEF WrittenFits
  <2>4. ASSUME NEW r \in Unwritten', NEW i \in DOMAIN written, written[i][1] = r[1]
        PROVE  written[i][2] < r[2]
    <3>1. CASE r \in Unwritten
      BY <1>0, <2>4, <3>1 DEF WrittenFits
    <3>2. CASE r \notin Unwritten
      <4>1. PICK t \in Turns : Emit(t)
        BY <1>3, <2>4, <3>2, OutstandingSteps
      <4>2. r \in Records /\ (r \in calls' \/ (r = call' /\ stage' # "sync"))
        BY <2>4 DEF Unwritten
      <4>3. \A q \in HandedOver : q[1] = r[1] => q[2] < r[2]
        BY <3>2, <4>1, <4>2, EmitGives, OutstandingAre
      <4>4. QED BY <1>0, <2>4, <4>3 DEF WrittenFits
    <3>3. QED BY <3>1, <3>2
  <2>5. QED BY <1>1, <2>1, <2>2, <2>3, <2>4 DEF WrittenFits
<1>4. QED BY <1>2, <1>3

-------------------------------------------------------------------------------
LEMMA OutstandingStays ==
  ASSUME LogInv, [LogNext]_logVars
  PROVE  OutstandingFits'
<1>0. /\ OutstandingFits /\ StageFits /\ LogTypes
      /\ position \in [Actors -> Positionings] /\ Turns \subseteq Actors /\ Deletions \subseteq Actors
  BY DEF LogInv, LogTypes, Actors
\* Fewer calls wait, and each of them is still waited for, or astray.
<1>1. ASSUME calls' \subseteq calls, calls' \cup {call'} \subseteq calls \cup {call, NoCall},
             call' \notin calls', sent' = sent, stray \subseteq stray',
             \A r \in Outstanding' :
               position[r[1]] = "inside" => r \in stray' \/ position'[r[1]] = "inside",
             \A c \in (calls' \cup {call'}) \cap DeletionCalls :
               position[c[1]] = "deleting" => position'[c[1]] = "deleting"
      PROVE  OutstandingFits'
  <2>1. Outstanding' \subseteq Outstanding
    BY <1>1, CallsAre DEF Outstanding
  <2>2. (calls' \cup {call'}) \cap DeletionCalls \subseteq (calls \cup {call}) \cap DeletionCalls
    BY <1>1, CallsAre
  <2>3. QED BY <1>0, <1>1, <2>1, <2>2 DEF OutstandingFits
\* A step of an actor that neither waits for a record nor for the deletion of the files.
<1>2. ASSUME UNCHANGED <<calls, call, sent, stray>>, NEW a \in Actors, NEW next,
             position' = [position EXCEPT ![a] = next], position[a] # "deleting",
             \A r \in Outstanding : r[1] = a => r \in stray \/ next = "inside"
      PROVE  OutstandingFits'
  <2>1. \A b \in Actors : b # a => position'[b] = position[b]
    BY <1>0, <1>2
  <2>2. position'[a] = next
    BY <1>0, <1>2
  <2>3. \A r \in Outstanding : r[1] \in Actors
    BY OutstandingAre, CallsAre
  <2>4. Outstanding' = Outstanding
    BY <1>2 DEF Outstanding
  <2>5. \A r \in Outstanding' :
          position[r[1]] = "inside" => r \in stray' \/ position'[r[1]] = "inside"
    BY <1>2, <2>1, <2>2, <2>3, <2>4
  <2>6. \A c \in (calls' \cup {call'}) \cap DeletionCalls :
          position[c[1]] = "deleting" => position'[c[1]] = "deleting"
    BY <1>2, <2>1, CallsAre
  <2>7. call' \notin calls'
    BY <1>0, <1>2 DEF OutstandingFits
  <2>8. QED BY <1>1, <1>2, <2>5, <2>6, <2>7
<1>3. ASSUME UNCHANGED <<position, sent, stray>>, calls' \subseteq calls,
             calls' \cup {call'} \subseteq calls \cup {call, NoCall}, call' \notin calls'
      PROVE  OutstandingFits'
  BY <1>1, <1>3
<1>4. NoCall \notin calls /\ call \notin calls
  BY <1>0, CallsAre DEF LogTypes, OutstandingFits
<1>5. CASE UNCHANGED logVars
  BY <1>3, <1>4, <1>5 DEF logVars, callVars, serviceVars, observerVars
<1>6. ASSUME NEW c \in Records \cup DeletionCalls, TakeLock(c) PROVE OutstandingFits'
  BY <1>3, <1>6 DEF TakeLock, serviceVars, observerVars
<1>7. CASE Prune \/ Pruned \/ Open \/ Rotate \/ Rotated \/ Reopen \/ DeleteFile
  <2>1. UNCHANGED <<calls, call, position, sent, stray>>
    BY <1>7 DEF Prune, Pruned, Open, Rotate, Rotated, Reopen, DeleteFile, serviceVars, observerVars
  <2>2. QED BY <1>3, <1>4, <2>1
<1>8. CASE AppendLine \/ SyncNewFile
  <2>1. UNCHANGED <<calls, position, sent, stray>> /\ (call' = call \/ call' = NoCall)
    BY <1>8 DEF AppendLine, SyncNewFile, Report, Return, serviceVars
  <2>2. QED BY <1>3, <1>4, <2>1
\* The call that ends is the only one of its turn or deletion.
<1>9. ASSUME call # NoCall, UNCHANGED <<calls, sent, stray>>, call' = NoCall, NEW next,
             position' = [position EXCEPT ![call[1]] = next]
      PROVE  OutstandingFits'
  <2>1. call[1] \in Actors
    BY <1>0, <1>9, CallsAre DEF LogTypes, Calls
  <2>2. \A b \in Actors : b # call[1] => position'[b] = position[b]
    BY <1>0, <1>9, <2>1
  <2>3. ASSUME NEW c \in calls PROVE c[1] \in Actors /\ c[1] # call[1]
    <3>1. c \in Calls /\ call \in Calls /\ c # call
      BY <1>0, <1>4, <1>9, <2>3 DEF LogTypes
    <3>2. CASE c \in Records /\ call \in Records
      <4>1. c[2] = sent[c[1]] /\ call[2] = sent[call[1]]
        BY <1>0, <2>3, <3>2, OutstandingAre DEF OutstandingFits
      <4>2. QED BY <3>1, <3>2, <4>1, CallsAre
    <3>3. CASE c \in DeletionCalls \/ call \in DeletionCalls
      BY <3>1, <3>3, CallsAre DEF Calls
    <3>4. QED BY <3>1, <3>2, <3>3 DEF Calls
  <2>4. \A r \in Outstanding' : r \in calls
    BY <1>9, CallsAre DEF Outstanding
  <2>5. \A c \in (calls' \cup {call'}) \cap DeletionCalls : c \in calls
    BY <1>9, CallsAre
  <2>6. QED BY <1>1, <1>4, <1>9, <2>2, <2>3, <2>4, <2>5
<1>10. CASE Deleted
  <2>1. /\ UNCHANGED <<calls, sent, stray>> /\ call' = NoCall /\ call # NoCall
        /\ position' = [position EXCEPT ![call[1]] = "deleted"]
    BY <1>0, <1>10 DEF Deleted, Return, StageFits
  <2>2. QED BY <1>9, <2>1
<1>11. CASE FailCall
  <2>1. /\ UNCHANGED <<calls, sent, stray>> /\ call' = NoCall /\ call # NoCall
        /\ position' = position \/ position' = [position EXCEPT ![call[1]] = "over"]
    BY <1>11 DEF FailCall, Return
  <2>2. QED BY <1>3, <1>4, <1>9, <2>1
<1>12. ASSUME NEW a \in Actors, AskForLock(a) \/ TakeSessionLock(a) PROVE OutstandingFits'
  <2>1. PICK next :
          /\ UNCHANGED <<calls, call, sent, stray>> /\ position[a] \in {"new", "waiting"}
          /\ position' = [position EXCEPT ![a] = next]
    BY <1>12 DEF AskForLock, TakeSessionLock, IsNext, callVars, observerVars
  <2>2. \A r \in Outstanding : r[1] = a => r \in stray
    BY <1>0, <2>1 DEF OutstandingFits
  <2>3. QED BY <1>2, <2>1, <2>2
<1>13. ASSUME NEW t \in Turns, Emit(t) PROVE OutstandingFits'
  <2>1. PICK new \in Records :
          /\ new[1] = t /\ new[2] = sent[t] + 1 /\ sent' = [sent EXCEPT ![t] = new[2]]
          /\ position[t] = "inside" /\ new \notin HandedOver
          /\ calls' = calls \cup {new} /\ UNCHANGED <<call, position, stray>>
          /\ \A r \in Outstanding : r[1] # t
    BY <1>13, EmitGives
  <2>2. \A r \in Outstanding' : r \in Outstanding \/ r = new
    BY <2>1 DEF Outstanding
  <2>3. call # new
    BY <2>1, OutstandingAre
  <2>4. sent'[t] = new[2] /\ \A u \in Turns : u # t => sent'[u] = sent[u]
    BY <1>0, <2>1 DEF LogTypes
  <2>5. \A r \in Outstanding : r[1] \in Turns
    BY OutstandingAre, CallsAre
  <2>6. \A r \in Outstanding' : r[2] = sent'[r[1]]
    BY <1>0, <2>1, <2>2, <2>4, <2>5 DEF OutstandingFits
  <2>7. \A r \in Outstanding' : r \in stray' \/ position'[r[1]] = "inside"
    BY <1>0, <2>1, <2>2 DEF OutstandingFits
  <2>8. \A c \in (calls' \cup {call'}) \cap DeletionCalls : position'[c[1]] = "deleting"
    BY <1>0, <2>1, CallsAre DEF OutstandingFits
  <2>9. QED BY <1>4, <2>1, <2>3, <2>6, <2>7, <2>8 DEF OutstandingFits
<1>14. ASSUME NEW t \in Turns, EndTurn(t) PROVE OutstandingFits'
  <2>1. /\ UNCHANGED <<calls, call, sent, stray>> /\ position[t] # "deleting"
        /\ position' = [position EXCEPT ![t] = "over"] /\ AwaitedRecord(t) = {}
    BY <1>14 DEF EndTurn, callVars, observerVars
  <2>2. ASSUME NEW r \in Outstanding, r[1] = t PROVE FALSE
    <3>1. r \in Records /\ r[2] = sent[t] /\ (r \in calls \/ r = call)
      BY <1>0, <2>2, OutstandingAre DEF OutstandingFits
    <3>2. r = <<t, sent[t]>>
      BY <2>2, <3>1, CallsAre
    <3>3. QED BY <2>1, <3>1, <3>2 DEF AwaitedRecord
  <2>3. QED BY <1>0, <1>2, <2>1, <2>2
<1>15. ASSUME NEW t \in Turns, CancelTurn(t) PROVE OutstandingFits'
  <2>1. /\ UNCHANGED <<calls, call, sent>> /\ position[t] = "inside"
        /\ position' = [position EXCEPT ![t] = "over"] /\ stray' = stray \cup AwaitedRecord(t)
    BY <1>15 DEF CancelTurn, callVars
  <2>2. ASSUME NEW r \in Outstanding, r[1] = t PROVE r \in stray'
    <3>1. r \in Records /\ r[2] = sent[t] /\ (r \in calls \/ r = call)
      BY <1>0, <2>2, OutstandingAre DEF OutstandingFits
    <3>2. r = <<t, sent[t]>>
      BY <2>2, <3>1, CallsAre
    <3>3. QED BY <2>1, <3>1, <3>2 DEF AwaitedRecord
  <2>3. Outstanding' = Outstanding /\ \A b \in Actors : b # t => position'[b] = position[b]
    BY <1>0, <2>1 DEF Outstanding
  <2>4. \A r \in Outstanding : r[1] \in Actors
    BY OutstandingAre, CallsAre
  <2>5. \A r \in Outstanding' :
          position[r[1]] = "inside" => r \in stray' \/ position'[r[1]] = "inside"
    BY <2>2, <2>3, <2>4
  <2>6. \A c \in (calls' \cup {call'}) \cap DeletionCalls : position'[c[1]] = position[c[1]]
    BY <2>3, CallsAre
  <2>7. QED BY <1>1, <1>4, <2>1, <2>5, <2>6
<1>16. ASSUME NEW d \in Deletions, DeleteSnapshot(d) PROVE OutstandingFits'
  <2>1. /\ UNCHANGED <<call, sent, stray>> /\ position[d] = "inside"
        /\ \/ /\ position' = [position EXCEPT ![d] = "deleting"]
              /\ calls' = calls \cup {<<d, 0>>}
           \/ position' = [position EXCEPT ![d] = "over"] /\ calls' = calls
    BY <1>16 DEF DeleteSnapshot, callVars, observerVars
  <2>2. <<d, 0>> \in DeletionCalls /\ <<d, 0>>[1] = d
    BY DEF DeletionCalls
  <2>3. <<d, 0>> # call
    <3>1. call \in DeletionCalls => position[call[1]] = "deleting"
      BY <1>0 DEF OutstandingFits
    <3>2. QED BY <2>1, <2>2, <3>1
  <2>4. /\ \A b \in Actors : b # d => position'[b] = position[b]
        /\ calls' # calls => position'[d] = "deleting"
    BY <1>0, <2>1
  <2>5. Outstanding' = Outstanding
    BY <2>1, <2>2, CallsAre DEF Outstanding
  <2>6. \A r \in Outstanding : r[1] \in Actors /\ r[1] # d
    BY OutstandingAre, CallsAre
  <2>7. /\ \A r \in Outstanding' : r[2] = sent'[r[1]]
        /\ \A r \in Outstanding' : r \in stray' \/ position'[r[1]] = "inside"
    BY <1>0, <2>1, <2>4, <2>5, <2>6 DEF OutstandingFits
  <2>8. ASSUME NEW c \in (calls' \cup {call'}) \cap DeletionCalls
        PROVE  position'[c[1]] = "deleting"
    <3>1. CASE c \in calls \cup {call}
      <4>1. position[c[1]] = "deleting" /\ c[1] \in Actors
        BY <1>0, <2>8, <3>1, CallsAre DEF OutstandingFits
      <4>2. QED BY <2>1, <2>4, <4>1
    <3>2. CASE c \notin calls \cup {call}
      <4>1. c = <<d, 0>> /\ calls' # calls
        BY <2>1, <2>8, <3>2
      <4>2. QED BY <2>2, <2>4, <4>1
    <3>3. QED BY <3>1, <3>2
  <2>9. call' \notin calls'
    BY <1>4, <2>1, <2>3
  <2>10. QED BY <2>7, <2>8, <2>9 DEF OutstandingFits
<1>17. ASSUME NEW d \in Deletions, Discard(d) PROVE OutstandingFits'
  <2>1. /\ UNCHANGED <<calls, call, sent, stray>> /\ position[d] = "deleted"
        /\ position' = [position EXCEPT ![d] = "over"]
    BY <1>17 DEF Discard, callVars, observerVars
  <2>2. \A r \in Outstanding : r[1] # d
    BY OutstandingAre, CallsAre
  <2>3. QED BY <1>0, <1>2, <2>1, <2>2
<1>18. CASE PruneElsewhere \/ Month
  <2>1. UNCHANGED <<calls, call, position, sent, stray>>
    BY <1>18 DEF PruneElsewhere, Month, callVars, serviceVars, observerVars
  <2>2. QED BY <1>3, <1>4, <2>1
<1>19. CASE Crash \/ PowerFailure
  <2>1. calls' = {} /\ call' = NoCall /\ UNCHANGED <<sent, stray>>
    BY <1>19 DEF Crash, PowerFailure, Stop, Return
  <2>2. Outstanding' = {} /\ (calls' \cup {call'}) \cap DeletionCalls = {}
    BY <2>1, CallsAre DEF Outstanding
  <2>3. QED BY <2>1, <2>2 DEF OutstandingFits
<1>20. QED
  BY <1>5, <1>6, <1>7, <1>8, <1>10, <1>11, <1>12, <1>13, <1>14, <1>15, <1>16, <1>17, <1>18, <1>19
     DEF LogNext, Step, Service

-------------------------------------------------------------------------------
\* A step brings no record to a disk but the one that is written.
LEMMA KeptComes ==
  ASSUME LogInv, [LogNext]_logVars, NEW d \in disk', NEW r, (r \in Kept(d))', ~(Appends /\ r = call)
  PROVE  \E e \in disk : r \in Kept(e)
<1>0. /\ Moves \/ Loses \/ Creates \/ Appends \/ Returns
      /\ names \in disk /\ \A e \in disk : e \in Directories /\ Sound(e)
      /\ d \in Directories
  BY Effects, NamesKept, TypesStay DEF LogInv, LogTypes
<1>1. PICK f \in FilesOf(d) : r \in InFile(f)'
  BY DEF Kept, InFile
<1>2. f \in Files
  BY <1>0, <1>1, DirectoryIs DEF FilesOf
<1>3. r \in InFile(f)
  BY <1>0, <1>1, <1>2, FilesStay
<1>4. CASE d \in disk
  BY <1>1, <1>3, <1>4 DEF Kept
<1>5. CASE d \notin disk
  <2>1. d = names' /\ (Moves \/ Loses \/ Creates)
    BY <1>0, <1>5 DEF Moves, Loses, Creates, Create, Change, Appends, Returns
  <2>2. f \in FilesOf(names)
    <3>1. CASE Moves
      <4>1. PICK s \in Slots :
              /\ s < RotationCount /\ names[s] # NoFile
              /\ d = [names EXCEPT ![s + 1] = names[s], ![s] = NoFile]
        BY <2>1, <3>1 DEF Moves, Change, Present
      <4>2. FilesOf(d) \subseteq FilesOf(names)
        BY <1>0, <4>1, Numbers DEF FilesOf, Directories
      <4>3. QED BY <1>1, <4>2
    <3>2. CASE Loses
      BY <1>1, <2>1, <3>2 DEF Loses, FilesOf
    <3>3. CASE Creates
      <4>1. PICK fresh : /\ InFile(fresh)' = {} /\ FilesOf(names') \subseteq FilesOf(names) \cup {fresh}
        BY <3>3, CreateGives DEF Creates, LogInv
      <4>2. f # fresh
        BY <1>1, <4>1 DEF InFile
      <4>3. QED BY <1>1, <2>1, <4>1, <4>2
    <3>4. QED BY <2>1, <3>1, <3>2, <3>3
  <2>3. QED BY <1>0, <1>3, <2>2 DEF Kept
<1>6. QED BY <1>4, <1>5

LEMMA DeletedStep ==
  ASSUME LogInv, [LogNext]_logVars
  PROVE  DeletedStays'
<1>0. /\ LogTypes /\ StageFits /\ DifferencesKnown /\ OutstandingFits /\ DeletedStays
      /\ names \in disk /\ HandedOver \subseteq HandedOver'
  BY NamesKept, HandedOverGrows DEF LogInv
<1>1. stray \subseteq stray' /\ beside \subseteq beside'
  BY DEF LogNext, Step, Service, TakeLock, Prune, Pruned, Open, Rotate, Rotated, Reopen, AppendLine,
         SyncNewFile, DeleteFile, Deleted, FailCall, AskForLock, TakeSessionLock, Emit, EndTurn, CancelTurn,
         DeleteSnapshot, Discard, PruneElsewhere, Crash, PowerFailure, Stop, Month, logVars, observerVars
<1>2. ASSUME NEW r \in deleted \ (stray' \cup beside')
      PROVE  r \in HandedOver' /\ r \notin Outstanding' /\ \A d \in disk' : ~(r \in Kept(d))'
  <2>1. r \in HandedOver /\ r \notin Outstanding /\ \A d \in disk : r \notin Kept(d)
    BY <1>0, <1>1, <1>2 DEF DeletedStays
  <2>2. r \notin Outstanding'
    <3>1. SUFFICES ASSUME NEW t \in Turns, Emit(t) PROVE r \notin Outstanding'
      BY <2>1, OutstandingSteps
    <3>2. PICK new \in Records :
            new \notin HandedOver /\ calls' = calls \cup {new} /\ call' = call
      BY <3>1, EmitGives
    <3>3. QED BY <2>1, <3>2, OutstandingAre DEF Outstanding
  <2>3. ASSUME NEW d \in disk', (r \in Kept(d))' PROVE FALSE
    <3>1. ~(Appends /\ r = call)
      BY <2>1, WritesNew, OutstandingAre DEF Appends
    <3>2. QED BY <2>1, <2>3, <3>1, KeptComes
  <2>4. QED BY <1>0, <2>1, <2>2, <2>3
<1>3. CASE deleted' = deleted
  BY <1>0, <1>2, <1>3 DEF DeletedStays
<1>4. CASE Deleted
  <2>1. /\ stage = "deleted" /\ call \in DeletionCalls /\ call' = NoCall /\ names' = names
        /\ UNCHANGED <<lines, calls, sent, stray>>
        /\ deleted' = deleted \cup (HandedOver \ UNION {InFile(f) : f \in undone'})
        /\ beside' = beside \cup
             UNION {AwaitedRecord(t) :
                      t \in {u \in Turns : position[u] = "inside" /\ lockOf[u] # lockOf[call[1]]}}
        /\ IF unsynced THEN disk' = {names} ELSE disk' = disk /\ undone' = undone
    BY <1>0, <1>4 DEF Deleted, SyncDirectory, StageFits, Return
  <2>2. Outstanding \subseteq stray \cup beside' /\ Outstanding' \subseteq Outstanding
    <3>1. position[call[1]] = "deleting" /\ call[1] \in Deletions /\ call[1] \in Actors
      BY <1>0, <2>1, CallsAre DEF OutstandingFits
    <3>2. ASSUME NEW r \in Outstanding, r \notin stray PROVE r \in beside'
      <4>1. /\ r \in Records /\ r[1] \in Turns /\ r[1] \in Actors /\ r[1] # call[1]
            /\ r[2] = sent[r[1]] /\ position[r[1]] = "inside" /\ r \in calls \cup {call}
        BY <1>0, <3>1, <3>2, CallsAre, OutstandingAre DEF OutstandingFits
      <4>2. lockOf[r[1]] # lockOf[call[1]]
        BY <3>1, <4>1 DEF LogInv, LocksExclude, Holding
      <4>3. r \in AwaitedRecord(r[1])
        BY <4>1, CallsAre DEF AwaitedRecord
      <4>4. QED BY <2>1, <4>1, <4>2, <4>3
    <3>3. QED BY <2>1, <3>2, CallsAre DEF Outstanding
  <2>3. FilesOf(names) = {}
    BY <1>0, <2>1 DEF StageFits, Present, FilesOf
  <2>4. ASSUME NEW r \in deleted' \ deleted, NEW d \in disk', NEW f \in FilesOf(d)
        PROVE  r \notin InFile(f)
    <3>1. CASE unsynced
      BY <2>1, <2>3, <2>4, <3>1
    <3>2. CASE ~unsynced
      <4>1. f \in undone'
        BY <1>0, <2>1, <2>3, <2>4, <3>2 DEF DifferencesKnown, Loose
      <4>2. QED BY <2>1, <2>4, <4>1
    <3>3. QED BY <3>1, <3>2
  <2>5. \A r \in deleted' \ deleted : \A d \in disk' : ~(r \in Kept(d))'
    BY <2>1, <2>4 DEF Kept, InFile
  <2>6. deleted' \subseteq HandedOver'
    BY <1>0, <2>1 DEF DeletedStays
  <2>7. QED BY <1>2, <2>1, <2>2, <2>5, <2>6 DEF DeletedStays
<1>5. deleted' = deleted \/ Deleted
  BY DEF LogNext, Step, Service, TakeLock, Prune, Pruned, Open, Rotate, Rotated, Reopen, AppendLine,
         SyncNewFile, DeleteFile, FailCall, AskForLock, TakeSessionLock, Emit, EndTurn, CancelTurn,
         DeleteSnapshot, Discard, PruneElsewhere, Crash, PowerFailure, Stop, Month, logVars, observerVars
<1>6. QED BY <1>3, <1>4, <1>5

-------------------------------------------------------------------------------
\* What is on all possible disks stays there, or is removed on purpose.
LEMMA KeptStays ==
  ASSUME LogInv, [LogNext]_logVars, NEW r, \A d \in disk : r \in Kept(d), NEW d \in disk'
  PROVE  (r \in Kept(d))' \/ r \in dropped'
<1>0. /\ Moves \/ Loses \/ Creates \/ Appends \/ Returns
      /\ names \in disk /\ disk \subseteq Directories
  BY Effects, NamesKept DEF LogInv
<1>1. ASSUME NEW f \in Files, \E e \in disk : f \in FilesOf(e), r \in InFile(f)
      PROVE  r \in InFile(f)'
  <2>1. CASE Keeps
    BY <1>1, <2>1 DEF Keeps, InFile
  <2>2. CASE Creates
    <3>1. PICK fresh \in Files :
            /\ \A e \in disk, s \in Slots : e[s] # fresh
            /\ \A g \in Files : g # fresh => InFile(g)' = InFile(g)
      BY <2>2, CreateGives DEF Creates, LogInv
    <3>2. f # fresh
      BY <1>1, <3>1 DEF FilesOf
    <3>3. QED BY <1>1, <3>1, <3>2
  <2>3. CASE Appends
    <3>1. PICK current : current = names[0]
      OBVIOUS
    <3>2. /\ InFile(current)' = InFile(current) \cup {call}
          /\ \A g \in Files : g # current => InFile(g)' = InFile(g)
      BY <2>3, <3>1, AppendingGives
    <3>3. CASE f = current
      <4>1. InFile(f)' = InFile(current)'
        BY <3>3 DEF InFile
      <4>2. QED BY <1>1, <3>2, <3>3, <4>1
    <3>4. CASE f # current
      BY <1>1, <3>2, <3>4
    <3>5. QED BY <3>3, <3>4
  <2>4. QED BY <1>0, <2>1, <2>2, <2>3 DEF Moves, Loses, Returns
<1>2. ASSUME NEW e \in disk, NEW f \in FilesOf(e), r \in InFile(f), f \in FilesOf(d)
      PROVE  (r \in Kept(d))'
  <2>1. f \in Files
    BY <1>0, <1>2, DirectoryIs DEF FilesOf
  <2>2. r \in InFile(f)'
    BY <1>1, <1>2, <2>1
  <2>3. QED BY <1>2, <2>2 DEF Kept, InFile
<1>3. CASE d \in disk
  <2>1. PICK f \in FilesOf(d) : r \in InFile(f)
    BY <1>3 DEF Kept
  <2>2. QED BY <1>2, <1>3, <2>1
<1>4. CASE d \notin disk
  <2>1. d = names' /\ (Moves \/ Loses \/ Creates)
    BY <1>0, <1>4 DEF Moves, Loses, Creates, Create, Change, Appends, Returns
  <2>2. PICK f \in FilesOf(names) : r \in InFile(f)
    BY <1>0 DEF Kept
  <2>3. PICK t \in Slots : f = names[t] /\ f # NoFile
    BY <2>2 DEF FilesOf
  <2>4. f \in FilesOf(d) \/ r \in dropped'
    <3>1. CASE Moves
      <4>1. PICK s \in Slots :
              /\ s < RotationCount /\ names[s] # NoFile /\ names[s + 1] = NoFile
              /\ d = [names EXCEPT ![s + 1] = names[s], ![s] = NoFile]
        BY <2>1, <3>1 DEF Moves, Change, Present
      <4>2. s + 1 \in Slots /\ s + 1 # s /\ t # s + 1
        BY <2>3, <4>1, Numbers
      <4>3. d[s + 1] = names[s] /\ (t # s => d[t] = names[t])
        BY <1>0, <4>1, <4>2 DEF Directories
      <4>4. QED BY <2>3, <4>2, <4>3 DEF FilesOf
    <3>2. CASE Loses
      BY <2>1, <2>2, <2>3, <3>2 DEF Loses, FilesOf
    <3>3. CASE Creates
      <4>1. t # 0 /\ \A s \in Rotations : names'[s] = names[s]
        BY <2>3, <3>3, CreateGives DEF Creates, Present, LogInv
      <4>2. QED BY <2>1, <2>3, <4>1 DEF FilesOf, Rotations
    <3>4. QED BY <2>1, <3>1, <3>2, <3>3
  <2>5. QED BY <1>0, <1>2, <2>2, <2>4
<1>5. QED BY <1>3, <1>4

LEMMA ReportedStays ==
  ASSUME LogInv, [LogNext]_logVars
  PROVE  ReportedSurvives'
<1>0. /\ Moves \/ Loses \/ Creates \/ Appends \/ Returns
      /\ LogTypes /\ StageFits /\ DifferencesKnown /\ ReportedSurvives
      /\ names \in disk /\ disk \subseteq Directories
  BY Effects, NamesKept DEF LogInv
<1>1. dropped \subseteq dropped' /\ atRisk \subseteq atRisk'
  <2>1. dropped \subseteq dropped'
    BY <1>0 DEF Moves, Loses, Creates, Appends, Returns
  <2>2. atRisk \subseteq atRisk'
    BY DEF LogNext, Step, Service, TakeLock, Prune, Pruned, Open, Rotate, Rotated, Reopen, AppendLine,
         SyncNewFile, DeleteFile, Deleted, FailCall, AskForLock, TakeSessionLock, Emit, EndTurn, CancelTurn, Report,
         DeleteSnapshot, Discard, PruneElsewhere, Crash, PowerFailure, Stop, Month, logVars, observerVars,
         reportVars
  <2>3. QED BY <2>1, <2>2
<1>2. ASSUME NEW r \in reported, NEW d \in disk'
      PROVE  (r \in Kept(d))' \/ r \in dropped' \/ r \in atRisk'
  <2>1. CASE r \in dropped \/ r \in atRisk
    BY <1>1, <2>1
  <2>2. CASE r \notin dropped /\ r \notin atRisk
    <3>1. \A e \in disk : r \in Kept(e)
      BY <1>0, <1>2, <2>2 DEF ReportedSurvives
    <3>2. QED BY <1>2, <3>1, KeptStays
  <2>3. QED BY <2>1, <2>2
<1>3. CASE reported' = reported
  BY <1>2, <1>3 DEF ReportedSurvives
<1>4. CASE SyncNewFile
  <2>1. /\ stage = "sync" /\ names' = names /\ disk' = {names} /\ UNCHANGED lines
        /\ reported' = reported \cup {call}
    BY <1>4 DEF SyncNewFile, SyncDirectory, Report
  <2>2. Present(0) /\ call \in InFile(names[0])
    BY <1>0, <2>1 DEF StageFits
  <2>3. names[0] \in FilesOf(names)
    BY <1>0, <2>2, Numbers, DirectoryIs DEF Present
  <2>4. PICK d, c : d = names /\ c = call
    OBVIOUS
  <2>5. (c \in Kept(d))'
    BY <2>1, <2>2, <2>3, <2>4 DEF Kept, InFile
  <2>6. QED BY <1>2, <2>1, <2>4, <2>5 DEF ReportedSurvives
<1>5. CASE AppendLine /\ ~unsynced
  <2>1. /\ stage = "write" /\ UNCHANGED <<names, disk, undone>> /\ Appends
        /\ reported' = reported \cup {call}
        /\ names[0] \in undone' => call \in atRisk'
    BY <1>5 DEF AppendLine, Appends, Report, lossVars
  <2>2. PICK current, c : current = names[0] /\ c = call
    OBVIOUS
  <2>3. c \in InFile(current)' /\ current \in FilesOf(names)
    <3>1. Present(0)
      BY <1>0, <2>1 DEF StageFits
    <3>2. QED BY <1>0, <2>1, <2>2, <3>1, AppendingGives, Numbers, DirectoryIs DEF Present
  <2>4. ASSUME NEW d \in disk', current \notin undone PROVE (c \in Kept(d))'
    <3>1. current \in FilesOf(d)
      BY <1>0, <1>5, <2>1, <2>3, <2>4 DEF DifferencesKnown, Loose
    <3>2. QED BY <2>3, <3>1 DEF Kept, InFile
  <2>5. QED BY <1>2, <2>1, <2>2, <2>4 DEF ReportedSurvives
<1>6. reported' = reported \/ SyncNewFile \/ (AppendLine /\ ~unsynced)
  BY DEF LogNext, Step, Service, TakeLock, Prune, Pruned, Open, Rotate, Rotated, Reopen, AppendLine,
         DeleteFile, Deleted, FailCall, AskForLock, TakeSessionLock, Emit, EndTurn, CancelTurn,
         DeleteSnapshot, Discard, PruneElsewhere, Crash, PowerFailure, Stop, Month, logVars, observerVars,
         reportVars
<1>7. QED BY <1>3, <1>4, <1>5, <1>6

-------------------------------------------------------------------------------
LEMMA LogStarts ==
  ASSUME LogInit
  PROVE  LogInv
<1>1. /\ names = [s \in Slots |-> NoFile] /\ lines = [f \in Files |-> <<>>] /\ disk = {names}
      /\ calls = {} /\ call = NoCall /\ stage = "none" /\ slot = 0 /\ unsynced = FALSE
      /\ lock = 0 /\ lockOf = [a \in Actors |-> 0] /\ position = [a \in Actors |-> "new"]
      /\ sent = [t \in Turns |-> 0] /\ cutShort = FALSE /\ undone = {}
      /\ reported = {} /\ rotatedOut = {} /\ written = <<>> /\ deleted = {}
  BY DEF LogInit
<1>2. /\ DOMAIN written = {} /\ \A s \in Slots : names[s] = NoFile
      /\ \A f \in Files : InFile(f) = {}
  BY <1>1 DEF InFile
<1>3. LogTypes
  <2>1. <<>> \in Seq(Records)
    OBVIOUS
  <2>2. names \in Directories /\ lines \in [Files -> Seq(Records)]
    BY <1>1, <2>1 DEF Directories
  <2>3. /\ lock \in Nat /\ lockOf \in [Actors -> Nat] /\ position \in [Actors -> Positionings]
        /\ sent \in [Turns -> 0..MaxRecords]
    BY <1>1, AuditLogAssumption DEF Positionings
  <2>4. slot \in Slots /\ stage \in Stages
    BY <1>1, Numbers DEF Stages
  <2>5. written \in Seq(Records)
    BY <1>1, <2>1
  <2>6. QED BY <1>1, <2>2, <2>3, <2>4, <2>5 DEF LogTypes
<1>4. StageFits
  BY <1>1, CallsAre DEF StageFits
<1>5. DirectoriesSound /\ Latest /\ DifferencesKnown /\ \A d \in disk : Deep(d)
  <2>1. \A s \in Rotations : s \in Slots
    BY Numbers
  <2>2. QED BY <1>1, <1>2, <2>1
            DEF DirectoriesSound, Injective, Ordered, BehindCurrent, Latest, Present, DifferencesKnown,
                Deep
<1>6. DepthKept
  BY <1>1, <1>5 DEF DepthKept
<1>7. Outstanding = {} /\ Unwritten = {}
  BY <1>1, CallsAre DEF Outstanding, Unwritten, Calls
<1>8. OutstandingFits /\ LocksExclude /\ WrittenFits /\ DeletedStays
  <2>1. LocksExclude
    BY <1>1 DEF LocksExclude, Holding
  <2>2. QED BY <1>1, <1>2, <1>7, <2>1, CallsAre DEF OutstandingFits, WrittenFits, DeletedStays
<1>9. ReportedSurvives /\ RotationKeepsDepth /\ TurnInOrder
  BY <1>1, <1>2 DEF ReportedSurvives, RotationKeepsDepth, TurnInOrder
<1>10. QED BY <1>3, <1>4, <1>5, <1>6, <1>8, <1>9 DEF LogInv

\* The inductive invariant of audit_log.py: the directories a power failure may leave,
\* the step of the call that has the lock, and what its caller was told, fit together.
THEOREM LogInvariant == LogSpec => []LogInv
<1>1. LogInit => LogInv
  BY LogStarts
<1>2. LogInv /\ [LogNext]_logVars => LogInv'
  BY TypesStay, DifferencesStay, DepthStays, DepthCosts, WrittenStays, OutstandingStays, LocksStay,
     DeletedStep, ReportedStays DEF LogInv
<1>3. QED BY <1>1, <1>2, PTL DEF LogSpec

\* A record whose call returned from record() is on every disk that a power failure may
\* leave, unless rotation, retention or a deletion removed it, or the directory of its
\* file was never synced because an earlier call ended early.
THEOREM ReportsSurvive == LogSpec => []ReportedSurvives
<1>1. LogInv => ReportedSurvives
  BY DEF LogInv
<1>2. QED BY <1>1, LogInvariant, PTL

\* _rotate_files costs no record before as many have followed as the rotated files hold,
\* and leaves the log in the order of writing wherever it stops.
THEOREM RotationStaysSound == LogSpec => []RotationIsSound
<1>1. LogInv => RotationIsSound
  BY DEF LogInv, RotationIsSound, DirectoriesSound, Ordered, FilesInOrder
<1>2. QED BY <1>1, LogInvariant, PTL

\* After delete_session_logs has returned, no record of before is in the log or comes
\* back with a power failure, except that of a thread that a cancelled response left
\* behind, or that of a turn under another lock object than the deletion's.
THEOREM DeletedStaysGone == LogSpec => []DeletedIsGone
<1>1. LogInv => DeletedIsGone
  BY DEF LogInv, LogTypes, DeletedStays, DeletedIsGone
<1>2. QED BY <1>1, LogInvariant, PTL
===============================================================================
