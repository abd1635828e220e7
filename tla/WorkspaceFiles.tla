---------------------------- MODULE WorkspaceFiles ----------------------------
(***************************************************************************)
(* tools.py: approved writes to one path of a workspace.  A write previews  *)
(* what it would change, waits for a person, and replaces the file if it    *)
(* still is what was previewed.  Agents of several sessions and programs    *)
(* that know nothing of the agent work in the same directory.               *)
(*                                                                         *)
(* A write is one PreparedToolAction.  Every action is one look at the file *)
(* system or one change of it.  Contents are names: what a write writes is  *)
(* named after the write.  Other programs replace whole files.              *)
(***************************************************************************)
EXTENDS Naturals

CONSTANTS
  Writers,      \* the writes
  Places,       \* the files to which the path may lead
  Original,     \* what a file may contain at first
  Foreign,      \* what other programs write
  MaxEdits,     \* bound on what other programs do
  None          \* no file, or a path that leads nowhere allowed

Contents == Writers \cup Original \cup Foreign

ASSUME FilesAssumption ==
  /\ None \notin Contents \cup Places /\ MaxEdits \in Nat
  /\ Writers \cap (Original \cup Foreign) = {} /\ Original \cap Foreign = {}

VARIABLES
  link,         \* the file to which the path leads
  contents,     \* the content of each file
  pc,           \* where a write stands
  place,        \* file_path: the file it previewed
  expected,     \* expected_sha256, None if there was no file
  edits,        \* bound: what other programs did
  moved,        \* observer: writes whose file changed since their preview
  missed        \* observer: writes whose file changed since they last looked

writeVars == <<place, expected>>
vars == <<link, contents, pc, writeVars, edits, moved, missed>>

Go(w, stage) == pc' = [pc EXCEPT ![w] = stage]

\* Stages after the preview: the two validations look at the path ("located",
\* "relocated") and at the file ("valid", "checked").
Previewed == {"previewed", "approved", "located", "valid", "staged", "relocated", "checked"}
Ended     == {"done", "denied", "conflict", "failed"}

\* What the observers see of a change of the path or of a file.
Changed(w) == place[w] # None /\ contents'[place[w]] # contents[place[w]]

Observe(by) ==
  /\ moved' = moved \cup {w \in Writers \ {by} : link' # link \/ Changed(w)}
  /\ missed' = missed \cup
       {w \in Writers \ {by} :
          \/ pc[w] \in {"relocated", "checked"} /\ link' # link
          \/ pc[w] = "checked" /\ Changed(w)}

-------------------------------------------------------------------------------
\* prepare_write_file: where the path leads and whether a file is there, and the
\* content of the file, if it can still be read.

\* Mutant: the resolved path is not kept.
LookOnly(w) ==
  /\ pc[w] = "new" /\ link # None
  /\ Go(w, IF contents[link] = None THEN "previewed" ELSE "reading")
  /\ moved' = moved \ {w}
  /\ UNCHANGED <<link, contents, writeVars, edits, missed>>

Look(w) ==
  /\ pc[w] = "new" /\ link # None
  /\ place' = [place EXCEPT ![w] = link]
  /\ Go(w, IF contents[link] = None THEN "previewed" ELSE "reading")
  /\ moved' = moved \ {w}
  /\ UNCHANGED <<link, contents, expected, edits, missed>>

\* Mutant: the hash is that of the new content.
ReadNew(w) ==
  /\ pc[w] = "reading" /\ contents[place[w]] # None
  /\ expected' = [expected EXCEPT ![w] = w]
  /\ Go(w, "previewed")
  /\ moved' = IF link = place[w] THEN moved \ {w} ELSE moved \cup {w}
  /\ UNCHANGED <<link, contents, place, edits, missed>>

Read(w) ==
  /\ pc[w] = "reading" /\ contents[place[w]] # None
  /\ expected' = [expected EXCEPT ![w] = contents[place[w]]]
  /\ Go(w, "previewed")
  /\ moved' = IF link = place[w] THEN moved \ {w} ELSE moved \cup {w}
  /\ UNCHANGED <<link, contents, place, edits, missed>>

Decide(w) ==
  /\ pc[w] = "previewed"
  /\ Go(w, "approved") \/ Go(w, "denied")
  /\ UNCHANGED <<link, contents, writeVars, edits, moved, missed>>

-------------------------------------------------------------------------------
\* PreparedToolAction.execute: validate_snapshot, the temporary file,
\* validate_snapshot again, os.replace.

CheckPath(w, from, to) ==
  /\ pc[w] = from
  /\ Go(w, IF link = place[w] THEN to ELSE "conflict")
  /\ UNCHANGED <<link, contents, writeVars, edits, moved, missed>>

\* Mutant: only whether the file exists is compared.
CheckExistence(w, from, to) ==
  /\ pc[w] = from
  /\ Go(w, IF (contents[place[w]] = None) = (expected[w] = None) THEN to ELSE "conflict")
  /\ UNCHANGED <<link, contents, writeVars, edits, moved, missed>>

CheckFile(w, from, to) ==
  /\ pc[w] = from
  /\ Go(w, IF contents[place[w]] = expected[w] THEN to ELSE "conflict")
  /\ UNCHANGED <<link, contents, writeVars, edits, moved, missed>>

\* Mutant: the temporary file is not followed by a second validation.
StageAndTrust(w) ==
  /\ pc[w] = "valid" /\ Go(w, "checked")
  /\ UNCHANGED <<link, contents, writeVars, edits, moved, missed>>

Stage(w) ==
  /\ pc[w] = "valid" /\ Go(w, "staged")
  /\ UNCHANGED <<link, contents, writeVars, edits, moved, missed>>

Replace(w) ==
  /\ pc[w] = "checked" /\ Go(w, "done")
  /\ contents' = [contents EXCEPT ![place[w]] = w]
  /\ UNCHANGED <<link, writeVars, edits>>
  /\ Observe(w)

\* An error of the file system, a path that may not be written, or the end of
\* the process.
Fail(w) ==
  /\ pc[w] \in Previewed \cup {"new", "reading"} /\ Go(w, "failed")
  /\ UNCHANGED <<link, contents, writeVars, edits, moved, missed>>

-------------------------------------------------------------------------------
\* Other programs: a file is written, created or removed, or the path is
\* redirected.

Edit(p, c) ==
  /\ edits < MaxEdits /\ c # contents[p]
  /\ contents' = [contents EXCEPT ![p] = c] /\ edits' = edits + 1
  /\ UNCHANGED <<link, pc, writeVars>>
  /\ Observe(None)

Redirect(p) ==
  /\ edits < MaxEdits /\ p # link
  /\ link' = p /\ edits' = edits + 1
  /\ UNCHANGED <<contents, pc, writeVars>>
  /\ Observe(None)

-------------------------------------------------------------------------------
Init ==
  /\ link \in Places /\ contents \in [Places -> Original \cup {None}]
  /\ pc = [w \in Writers |-> "new"]
  /\ place = [w \in Writers |-> None] /\ expected = [w \in Writers |-> None]
  /\ edits = 0 /\ moved = {} /\ missed = {}

Write(w) ==
  \/ Look(w) \/ Read(w) \/ Decide(w) \/ Stage(w) \/ Replace(w) \/ Fail(w)
  \/ CheckPath(w, "approved", "located") \/ CheckFile(w, "located", "valid")
  \/ CheckPath(w, "staged", "relocated") \/ CheckFile(w, "relocated", "checked")

Others ==
  \/ \E p \in Places, c \in Foreign \cup {None} : Edit(p, c)
  \/ \E p \in Places \cup {None} : Redirect(p)

Next == (\E w \in Writers : Write(w)) \/ Others

Spec == Init /\ [][Next]_vars
-------------------------------------------------------------------------------
\* A write past its first look has a file.
TypeOK ==
  /\ link \in Places \cup {None}
  /\ contents \in [Places -> Contents \cup {None}]
  /\ pc \in [Writers -> Previewed \cup Ended \cup {"new", "reading"}]
  /\ place \in [Writers -> Places \cup {None}]
  /\ \A w \in Writers : pc[w] \in Previewed \cup {"reading"} => place[w] # None
  /\ expected \in [Writers -> Contents \cup {None}]
  /\ edits \in 0..MaxEdits /\ moved \subseteq Writers /\ missed \subseteq Writers

\* What a write replaces is what the person saw in the preview, at the place the
\* path leads to; only a change after the last look can be lost.
ReplacesPreview ==
  [][\A w \in Writers :
       pc[w] # "done" /\ pc'[w] = "done" /\ w \notin missed =>
         link = place[w] /\ contents[place[w]] = expected[w]]_vars

\* A conflict is only reported of a file that did change after its preview.
ConflictIsReal == \A w \in Writers : pc[w] = "conflict" => w \in moved

\* Of two writes that were approved over the same content one is refused, unless
\* the other one came after its last look: no approved write undoes another.
\* (Other programs can remove a file again, or write what they wrote before.)
OnePreviewOneWrite ==
  \A v, w \in Writers :
    /\ v # w /\ pc[v] = "done" /\ pc[w] = "done"
    /\ place[v] = place[w] /\ expected[v] = expected[w]
    /\ expected[v] \in Writers \cup Original
    => v \in missed \/ w \in missed
===============================================================================
