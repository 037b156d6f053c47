----------------------------- MODULE MemoryFiles -----------------------------
(***************************************************************************)
(* The memory browser (memory-browser-panel.tsx) over the memory directory *)
(* (api/memory) and the working memory of an agent (agents/[id]/memory).   *)
(*                                                                         *)
(* A text remembers the file it was taken from, which is what tells a save *)
(* into the right file from one into another.  A request is under way      *)
(* between the panel, the server's checks and its write; the working       *)
(* memory is a list of the entries put there.                              *)
(***************************************************************************)
EXTENDS Naturals, Sequences, FiniteSets, SequencesExt

CONSTANTS
  Paths,        \* files of the memory directory
  MaxMemOps,    \* bound: what the user does and the agents write
  MaxMemWire,   \* bound: requests under way at once
  MaxEntries    \* bound: entries written to the working memory

ASSUME MemoryFilesAssumption ==
  MaxMemOps \in Nat /\ MaxMemWire \in Nat /\ MaxEntries \in Nat

VARIABLES
  disk,       \* file -> text, for the files that exist
  browser,    \* the panel: file shown, its text, and the edit in progress
  memWire,    \* requests under way, each with the stage it reached
  memOps,     \* operations so far
  crossed,    \* a file was opened while another was being edited or saved
  working,    \* entries of the agent's working memory
  hasColumn,  \* the agents table has the column for it
  putWire,    \* writes to it whose body is still being read
  kept        \* entries acknowledged since it was last replaced or cleared

memVars == <<disk, browser, memWire, memOps, crossed, working, hasColumn, putWire, kept>>
filePart == <<disk, browser, memWire, memOps, crossed>>
workingPart == <<working, hasColumn, putWire, kept>>

NoFile == "none"
TextOf(p, n) == [of |-> p, n |-> n]
EmptyText == TextOf(NoFile, 0)
ExistingFiles == DOMAIN disk
MemWritten(p, t) == [q \in ExistingFiles \cup {p} |-> IF q = p THEN t ELSE disk[q]]
Removed(p) == [q \in ExistingFiles \ {p} |-> disk[q]]

Send(r) ==
  /\ Cardinality(memWire) < MaxMemWire /\ memOps < MaxMemOps
  /\ memOps' = memOps + 1
  /\ memWire' = memWire \cup {[r EXCEPT !.n = memOps]}
Moves(r, s) == memWire' = (memWire \ {r}) \cup {s}
MemRequest(kind, p, t) == [kind |-> kind, path |-> p, text |-> t, stage |-> "sent", n |-> 0]

-----------------------------------------------------------------------------
\* To open p is to turn away from a file whose edit or save is not finished.
Opens(r) == r.kind \in {"load", "create"}
LeavesAnother(p) ==
  \/ browser.editing /\ p # browser.edited.of
  \/ \E r \in memWire : r.kind = "save" /\ r.path # p

\* loadFileContent from the tree or a search result: the file shown changes
\* only when its text is there.
ShownAtOnce(p) == p
ShownMeanwhile(p) == browser.shown
LoadFileContent(p) ==
  /\ Send(MemRequest("load", p, EmptyText))
  /\ browser' = [browser EXCEPT !.shown = ShownMeanwhile(p)]
  /\ crossed' = (crossed \/ LeavesAnother(p))
  /\ UNCHANGED <<disk, workingPart>>

\* The server reads the file, or answers 404; the answer, whenever it comes,
\* replaces what is shown and leaves an edit in progress alone.
ReadContent(r) ==
  /\ r.kind = "load" /\ r.stage = "sent"
  /\ Moves(r, IF r.path \in ExistingFiles
              THEN [r EXCEPT !.stage = "ok", !.text = disk[r.path]]
              ELSE [r EXCEPT !.stage = "failed"])
  /\ UNCHANGED <<disk, browser, memOps, crossed, workingPart>>
ContentArrives(r) ==
  /\ r.kind = "load" /\ r.stage \in {"ok", "failed"}
  /\ memWire' = memWire \ {r}
  /\ IF r.stage = "ok"
     THEN browser' = [browser EXCEPT !.shown = r.path, !.text = r.text]
     ELSE UNCHANGED browser
  /\ UNCHANGED <<disk, memOps, crossed, workingPart>>

StartEditing ==
  /\ browser.shown # NoFile /\ ~browser.editing
  /\ browser' = [browser EXCEPT !.editing = TRUE, !.edited = browser.text]
  /\ crossed' = (crossed \/ \E r \in memWire : Opens(r) /\ r.path # browser.shown)
  /\ UNCHANGED <<disk, memWire, memOps, workingPart>>
CancelEditing ==
  /\ browser.editing
  /\ browser' = [browser EXCEPT !.editing = FALSE, !.edited = EmptyText]
  /\ UNCHANGED <<disk, memWire, memOps, crossed, workingPart>>
CloseFile ==
  /\ browser.shown # NoFile
  /\ browser' = [shown |-> NoFile, text |-> EmptyText, editing |-> FALSE,
                 edited |-> EmptyText, saving |-> browser.saving]
  /\ UNCHANGED <<disk, memWire, memOps, crossed, workingPart>>

\* saveFile puts the edited text into the file shown at that moment.
SaveFile ==
  /\ browser.shown # NoFile /\ browser.editing /\ ~browser.saving
  /\ Send(MemRequest("save", browser.shown, TextOf(browser.edited.of, memOps + 1)))
  /\ browser' = [browser EXCEPT !.saving = TRUE]
  /\ UNCHANGED <<disk, crossed, workingPart>>
WriteSaved(r) ==
  /\ r.kind = "save" /\ r.stage = "sent"
  /\ disk' = MemWritten(r.path, r.text)
  /\ Moves(r, [r EXCEPT !.stage = "ok"])
  /\ UNCHANGED <<browser, memOps, crossed, workingPart>>
SaveRefused(r) ==
  /\ r.kind = "save" /\ r.stage = "sent"
  /\ Moves(r, [r EXCEPT !.stage = "failed"])
  /\ UNCHANGED <<disk, browser, memOps, crossed, workingPart>>
\* Its answer is taken for the file shown by then, and ends the edit there.
SaveAnswers(r) ==
  /\ r.kind = "save" /\ r.stage \in {"ok", "failed"}
  /\ memWire' = memWire \ {r}
  /\ browser' = IF r.stage = "ok"
                THEN [browser EXCEPT !.text = r.text, !.editing = FALSE,
                                     !.edited = EmptyText, !.saving = FALSE]
                ELSE [browser EXCEPT !.saving = FALSE]
  /\ UNCHANGED <<disk, memOps, crossed, workingPart>>

\* createNewFile: the server looks whether the file is there and then writes
\* it; between the two another request may have made it.  The panel opens it.
CreateNewFile(p) ==
  /\ Send(MemRequest("create", p, TextOf(p, memOps + 1)))
  /\ crossed' = (crossed \/ LeavesAnother(p))
  /\ UNCHANGED <<disk, browser, workingPart>>
CreateChecks(r) ==
  /\ r.kind = "create" /\ r.stage = "sent"
  /\ IF r.path \in ExistingFiles THEN memWire' = memWire \ {r}
     ELSE Moves(r, [r EXCEPT !.stage = "checked"])
  /\ UNCHANGED <<disk, browser, memOps, crossed, workingPart>>
CreateWrites(r) ==
  /\ r.kind = "create" /\ r.stage = "checked"
  /\ disk' = MemWritten(r.path, r.text)
  /\ Moves(r, [r EXCEPT !.kind = "load", !.stage = "sent"])
  /\ UNCHANGED <<browser, memOps, crossed, workingPart>>

\* deleteFile, for the file shown when the dialog is confirmed.
DeleteFile ==
  /\ browser.shown # NoFile /\ ~browser.editing
  /\ Send(MemRequest("delete", browser.shown, EmptyText))
  /\ UNCHANGED <<disk, browser, crossed, workingPart>>
Unlink(r) ==
  /\ r.kind = "delete" /\ r.stage = "sent"
  /\ IF r.path \in ExistingFiles
     THEN disk' = Removed(r.path) /\ Moves(r, [r EXCEPT !.stage = "ok"])
     ELSE memWire' = memWire \ {r} /\ UNCHANGED disk
  /\ UNCHANGED <<browser, memOps, crossed, workingPart>>
DeleteAnswers(r) ==
  /\ r.kind = "delete" /\ r.stage = "ok"
  /\ memWire' = memWire \ {r}
  /\ browser' = [browser EXCEPT !.shown = NoFile, !.text = EmptyText]
  /\ UNCHANGED <<disk, memOps, crossed, workingPart>>

-----------------------------------------------------------------------------
\* PUT agents/[id]/memory: the body is read first, and from then on the
\* handler does not wait, so what it appends to is what it replaces.
PutArrives(append) ==
  /\ Cardinality(putWire) < MaxMemWire
  /\ LET n == Len(working) + Cardinality(putWire) + 1 IN
     /\ n <= MaxEntries
     /\ putWire' = putWire \cup {[append |-> append, entry |-> <<n, append>>, seen |-> working]}
  /\ UNCHANGED <<filePart, working, hasColumn, kept>>
SeenAtArrival(r) == r.seen
AppendedTo(r) == working
PutRuns(r) ==
  /\ putWire' = putWire \ {r}
  /\ hasColumn' = TRUE
  /\ working' = IF r.append THEN Append(AppendedTo(r), r.entry) ELSE <<r.entry>>
  /\ kept' = IF r.append THEN kept \cup {r.entry} ELSE {r.entry}
  /\ UNCHANGED filePart
GetMemory ==
  /\ ~hasColumn /\ hasColumn' = TRUE
  /\ UNCHANGED <<filePart, working, putWire, kept>>
\* DELETE does not add the column: it fails until somebody read or wrote.
ClearMemory ==
  /\ hasColumn
  /\ working' = <<>> /\ kept' = {}
  /\ UNCHANGED <<filePart, hasColumn, putWire>>

MemInit ==
  /\ disk = [p \in Paths |-> TextOf(p, 0)]
  /\ browser = [shown |-> NoFile, text |-> EmptyText, editing |-> FALSE,
                edited |-> EmptyText, saving |-> FALSE]
  /\ memWire = {} /\ memOps = 0 /\ crossed = FALSE
  /\ working = <<>> /\ hasColumn = FALSE /\ putWire = {} /\ kept = {}

MemNext ==
  \/ \E p \in Paths : LoadFileContent(p) \/ CreateNewFile(p)
  \/ StartEditing \/ CancelEditing \/ CloseFile \/ SaveFile \/ DeleteFile
  \/ \E r \in memWire :
       \/ ReadContent(r) \/ ContentArrives(r) \/ WriteSaved(r) \/ SaveRefused(r)
       \/ SaveAnswers(r) \/ CreateChecks(r) \/ CreateWrites(r)
       \/ Unlink(r) \/ DeleteAnswers(r)
  \/ \E append \in BOOLEAN : PutArrives(append)
  \/ \E r \in putWire : PutRuns(r)
  \/ GetMemory \/ ClearMemory

MemSpec == MemInit /\ [][MemNext]_memVars

-----------------------------------------------------------------------------
\* Who finishes with a file before opening another, the edit closed and the
\* save answered, finds in every file a text that was begun in it, and under
\* the name of a file a text of that file: however many loads, creations and
\* deletions are under way, and in whatever order they are answered.  (Not so
\* without that: a save answered after its edit was cancelled and another file
\* opened puts its text under the name of the other.)
TextsStayInTheirFile ==
  ~crossed =>
    /\ \A p \in ExistingFiles : disk[p].of = p
    /\ browser.shown # NoFile => browser.text.of = browser.shown

\* What agents append to a working memory is there until somebody replaces or
\* clears it, also when several appends are under way.
AppendsKept == kept \subseteq ToSet(working)

\* Texts and notes end up where they were written, through late answers and
\* overlapping appends, for a user who turns from one file to the next only
\* when the first is done.
MemorySafe == TextsStayInTheirFile /\ AppendsKept
=============================================================================
