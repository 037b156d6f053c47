----------------------------- MODULE StoreProofs -----------------------------
(***************************************************************************)
(* Proofs about what the server keeps, in files, in tables and in memory:  *)
(* the memory directory and the agents' working memory (MemorySafe), the   *)
(* files that handlers rewrite without a lock (FilesSafe), the accounts    *)
(* with their sessions and requests (AccountsSafe), the schema that        *)
(* processes migrate side by side (DatabaseSafe), the scheduler's tasks    *)
(* and backups (SchedulerSafe), and the windows of the rate limiter        *)
(* (RateLimitSafe).                                                        *)
(*                                                                         *)
(* The components share no variable; each section has its own inductive    *)
(* invariant, one lemma per action that can disturb it, and the theorem.   *)
(***************************************************************************)
EXTENDS Integers, MemoryFiles, SharedFiles, Accounts, Database, Scheduler,
        RateLimiter, FiniteSetTheorems, TLAPS

(***************************************************************************)
(* The memory browser and the working memory.                              *)
(*                                                                         *)
(* TextsStayInTheirFile speaks of the disk and of the panel; what makes it *)
(* inductive is what every request under way carries: a text on its way to *)
(* a file, or from it, was begun in that file, and what opens a file is not *)
(* under way beside an edit or a save of another, unless the user crossed. *)
(***************************************************************************)
MemPaths == Paths \cup {NoFile}
Texts == [of : MemPaths, n : Nat]
MemRequests == [kind : {"load", "save", "create", "delete"}, path : MemPaths, text : Texts,
                stage : {"sent", "ok", "failed", "checked"}, n : Nat]
MemEntries == Nat \X BOOLEAN
Puts == [append : BOOLEAN, entry : MemEntries, seen : Seq(MemEntries)]

\* A request carries a text of the file it is about, unless it carries none.
InItsFile(r) ==
  \/ r.kind = "delete" \/ (r.kind = "load" /\ r.stage # "ok")
  \/ r.text.of = r.path

MemTypes ==
  /\ disk = [p \in ExistingFiles |-> disk[p]]
  /\ \A p \in ExistingFiles : disk[p] \in Texts
  /\ browser \in [shown : MemPaths, text : Texts, editing : BOOLEAN, edited : Texts, saving : BOOLEAN]
  /\ memWire \subseteq MemRequests
  /\ memOps \in Nat /\ crossed \in BOOLEAN

\* Beyond TextsStayInTheirFile: the text being edited was begun in the file
\* shown, and the requests under way carry texts of their own files; while a
\* file is edited or saved, no other is being opened or shown.
OneFileAtATime(b, W) ==
  /\ b.editing /\ b.shown # NoFile => b.edited.of = b.shown
  /\ b.editing => \A r \in W : Opens(r) => r.path = b.edited.of
  /\ \A s \in W : s.kind = "save" =>
       /\ b.shown \in {NoFile, s.path}
       /\ \A r \in W : Opens(r) => r.path = s.path
EditAndWireInFile ==
  ~crossed => OneFileAtATime(browser, memWire) /\ \A r \in memWire : InItsFile(r)

WorkingTypes ==
  /\ working \in Seq(MemEntries)
  /\ putWire \subseteq Puts /\ IsFiniteSet(putWire)

FilesInv == MemTypes /\ EditAndWireInFile /\ TextsStayInTheirFile
WorkingInv == WorkingTypes /\ AppendsKept
MemInv == FilesInv /\ WorkingInv

\* MemRequest: a new request is one of the requests the server knows, also
\* after its number is set.
LEMMA NewRequest ==
  ASSUME NEW kind \in {"load", "save", "create", "delete"}, NEW p \in MemPaths, NEW t \in Texts,
         NEW m \in Nat
  PROVE  LET q == [MemRequest(kind, p, t) EXCEPT !.n = m]
         IN  q \in MemRequests /\ q.kind = kind /\ q.path = p /\ q.text = t /\ q.stage = "sent"
BY DEF MemRequest, MemRequests

\* TextOf and EmptyText are texts.
LEMMA TextTypes ==
  /\ \A p \in MemPaths, m \in Nat : TextOf(p, m) \in Texts /\ TextOf(p, m).of = p
  /\ EmptyText \in Texts
BY DEF TextOf, EmptyText, Texts, MemPaths

\* api/memory: writing a file with a text of it keeps every file a text.
LEMMA MemWrittenFacts ==
  ASSUME NEW p \in MemPaths, NEW t \in Texts, disk' = MemWritten(p, t),
         \A q \in ExistingFiles : disk[q] \in Texts
  PROVE  /\ disk' = [q \in ExistingFiles' |-> disk'[q]]
         /\ \A q \in ExistingFiles' : disk'[q] \in Texts
         /\ (\A q \in ExistingFiles : disk[q].of = q) /\ t.of = p
              => \A q \in ExistingFiles' : disk'[q].of = q
BY DEF MemWritten, ExistingFiles

\* A step of one request: the others stay, and the new stage is one of the
\* request's own file.
LEMMA MovesWire ==
  ASSUME NEW r \in memWire, NEW s \in MemRequests, Moves(r, s), memWire \subseteq MemRequests
  PROVE  /\ memWire' \subseteq MemRequests
         /\ (\A q \in memWire : InItsFile(q)) /\ InItsFile(s) => \A q \in memWire' : InItsFile(q)
         /\ /\ OneFileAtATime(browser, memWire) /\ s.path = r.path
            /\ s.kind = "save" => r.kind = "save"
            /\ Opens(s) => Opens(r)
            => OneFileAtATime(browser, memWire')
BY DEF Moves, OneFileAtATime

\* Fewer requests under way.
LEMMA FewerWire ==
  ASSUME NEW r
  PROVE  OneFileAtATime(browser, memWire) => OneFileAtATime(browser, memWire \ {r})
BY DEF OneFileAtATime

\* A request sent: the others stay.
LEMMA SendWire ==
  ASSUME NEW kind \in {"load", "save", "create", "delete"}, NEW p \in MemPaths, NEW t \in Texts,
         Send(MemRequest(kind, p, t)), MemTypes
  PROVE  /\ memOps' \in Nat
         /\ memWire' \subseteq MemRequests
         /\ (\A q \in memWire : InItsFile(q)) /\ (kind \in {"load", "delete"} \/ t.of = p)
              => \A q \in memWire' : InItsFile(q)
         /\ \A b : /\ OneFileAtATime(b, memWire)
                   /\ kind \in {"load", "create"} =>
                        /\ b.editing => p = b.edited.of
                        /\ \A s \in memWire : s.kind = "save" => p = s.path
                   /\ kind = "save" => b.editing /\ b.edited.of = p /\ b.shown = p
                   => OneFileAtATime(b, memWire')
<1> DEFINE q == [MemRequest(kind, p, t) EXCEPT !.n = memOps]
<1>1. /\ q \in MemRequests /\ q.kind = kind /\ q.path = p /\ q.text = t /\ q.stage = "sent"
  BY NewRequest DEF MemTypes
<1>2. memWire' = memWire \cup {q} /\ memOps' = memOps + 1
  BY DEF Send
<1> HIDE DEF q
<1>4. ASSUME NEW b, OneFileAtATime(b, memWire),
             kind \in {"load", "create"} =>
               /\ b.editing => p = b.edited.of
               /\ \A s \in memWire : s.kind = "save" => p = s.path,
             kind = "save" => b.editing /\ b.edited.of = p /\ b.shown = p
      PROVE  OneFileAtATime(b, memWire')
  <2>1. Opens(q) => kind \in {"load", "create"} BY <1>1 DEF Opens
  <2>2. q.kind = "save" => kind = "save" /\ ~Opens(q) BY <1>1 DEF Opens
  <2>3. b.editing => \A r \in memWire' : Opens(r) => r.path = b.edited.of
    BY <1>1, <1>2, <1>4, <2>1 DEF OneFileAtATime
  <2>4. \A s \in memWire' : s.kind = "save" => b.shown \in {NoFile, s.path}
    BY <1>1, <1>2, <1>4, <2>2 DEF OneFileAtATime
  <2>5. ASSUME NEW s \in memWire', s.kind = "save", NEW r \in memWire', Opens(r)
        PROVE  r.path = s.path
    BY <1>1, <1>2, <1>4, <2>1, <2>2, <2>5 DEF OneFileAtATime
  <2> QED BY <1>4, <2>3, <2>4, <2>5 DEF OneFileAtATime
<1>5. memOps' \in Nat /\ memWire' \subseteq MemRequests
  BY <1>1, <1>2 DEF MemTypes
<1>6. (\A r \in memWire : InItsFile(r)) /\ (kind \in {"load", "delete"} \/ t.of = p)
        => \A r \in memWire' : InItsFile(r)
  BY <1>1, <1>2 DEF InItsFile
<1>3. QED
  BY <1>4, <1>5, <1>6

\* The requests of the panel: opening, saving, making and deleting a file.
LEMMA SendsKeep ==
  ASSUME FilesInv,
         (\E p \in Paths : LoadFileContent(p) \/ CreateNewFile(p)) \/ SaveFile \/ DeleteFile
  PROVE  FilesInv'
<1> USE DEF FilesInv
<1>1. CASE \E p \in Paths : LoadFileContent(p)
  <2>1. PICK p \in Paths : LoadFileContent(p) BY <1>1
  <2>2. browser' = browser /\ disk' = disk /\ crossed' = (crossed \/ LeavesAnother(p))
    BY <2>1 DEF LoadFileContent, ShownMeanwhile, MemTypes
  <2>3. Send(MemRequest("load", p, EmptyText)) BY <2>1 DEF LoadFileContent
  <2>4. /\ memOps' \in Nat /\ memWire' \subseteq MemRequests
        /\ (\A q \in memWire : InItsFile(q)) => \A q \in memWire' : InItsFile(q)
    BY <2>3, SendWire, TextTypes DEF MemPaths
  <2>6. ~LeavesAnother(p) /\ OneFileAtATime(browser, memWire) => OneFileAtATime(browser, memWire')
    BY <2>3, SendWire, TextTypes DEF MemPaths, LeavesAnother
  <2>5. QED BY <2>2, <2>4, <2>6 DEF MemTypes, EditAndWireInFile, TextsStayInTheirFile, ExistingFiles
<1>2. CASE \E p \in Paths : CreateNewFile(p)
  <2>1. PICK p \in Paths : CreateNewFile(p) BY <1>2
  <2>2. browser' = browser /\ disk' = disk /\ crossed' = (crossed \/ LeavesAnother(p))
    BY <2>1 DEF CreateNewFile
  <2>3. Send(MemRequest("create", p, TextOf(p, memOps + 1))) BY <2>1 DEF CreateNewFile
  <2>a. p \in MemPaths /\ memOps + 1 \in Nat BY DEF MemPaths, MemTypes
  <2>b. TextOf(p, memOps + 1) \in Texts /\ TextOf(p, memOps + 1).of = p BY <2>a, TextTypes
  <2>4. /\ memOps' \in Nat /\ memWire' \subseteq MemRequests
        /\ (\A q \in memWire : InItsFile(q)) => \A q \in memWire' : InItsFile(q)
    BY <2>3, <2>a, <2>b, SendWire
  <2>6. ~LeavesAnother(p) /\ OneFileAtATime(browser, memWire) => OneFileAtATime(browser, memWire')
    BY <2>3, <2>a, <2>b, SendWire DEF LeavesAnother
  <2>5. QED BY <2>2, <2>4, <2>6 DEF MemTypes, EditAndWireInFile, TextsStayInTheirFile, ExistingFiles
<1>3. CASE SaveFile
  <2> DEFINE t == TextOf(browser.edited.of, memOps + 1)
  <2>2. disk' = disk /\ crossed' = crossed BY <1>3 DEF SaveFile
  <2>3. Send(MemRequest("save", browser.shown, t)) BY <1>3 DEF SaveFile
  <2>a. browser.shown \in MemPaths /\ browser.edited.of \in MemPaths /\ memOps + 1 \in Nat
    BY DEF MemTypes, Texts
  <2>b. t \in Texts /\ t.of = browser.edited.of BY <2>a, TextTypes
  <2> HIDE DEF t
  <2>4. /\ memOps' \in Nat /\ memWire' \subseteq MemRequests
        /\ (\A q \in memWire : InItsFile(q)) /\ t.of = browser.shown
             => \A q \in memWire' : InItsFile(q)
    BY <2>3, <2>a, <2>b, SendWire
  <2>c. browser.shown # NoFile /\ browser.editing BY <1>3 DEF SaveFile
  <2>d. /\ browser' \in [shown : MemPaths, text : Texts, editing : BOOLEAN, edited : Texts, saving : BOOLEAN]
        /\ browser'.shown = browser.shown /\ browser'.text = browser.text
        /\ browser'.edited = browser.edited /\ browser'.editing = browser.editing
    BY <1>3 DEF SaveFile, MemTypes
  <2>e. browser.edited.of = browser.shown /\ OneFileAtATime(browser, memWire)
          => OneFileAtATime(browser, memWire')
    BY <2>3, <2>a, <2>b, <2>c, SendWire
  <2>f. ~crossed => browser.edited.of = browser.shown /\ OneFileAtATime(browser, memWire)
    BY <2>c DEF EditAndWireInFile, OneFileAtATime
  <2>g. OneFileAtATime(browser, memWire') => OneFileAtATime(browser, memWire)'
    BY <2>d DEF OneFileAtATime
  <2>5. QED BY <2>2, <2>4, <2>b, <2>d, <2>e, <2>f, <2>g DEF MemTypes, EditAndWireInFile, TextsStayInTheirFile, ExistingFiles
<1>4. CASE DeleteFile
  <2>2. browser' = browser /\ disk' = disk /\ crossed' = crossed BY <1>4 DEF DeleteFile
  <2>3. Send(MemRequest("delete", browser.shown, EmptyText)) BY <1>4 DEF DeleteFile
  <2>4. /\ memOps' \in Nat /\ memWire' \subseteq MemRequests
        /\ (\A q \in memWire : InItsFile(q)) => \A q \in memWire' : InItsFile(q)
    BY <2>3, SendWire, TextTypes DEF MemTypes
  <2>6. OneFileAtATime(browser, memWire) => OneFileAtATime(browser, memWire')
    BY <2>3, SendWire, TextTypes DEF MemTypes
  <2>5. QED BY <2>2, <2>4, <2>6 DEF MemTypes, EditAndWireInFile, TextsStayInTheirFile, ExistingFiles
<1>5. QED BY <1>1, <1>2, <1>3, <1>4

\* What the user does in the panel without asking the server.
LEMMA PanelKeeps ==
  ASSUME FilesInv, StartEditing \/ CancelEditing \/ CloseFile
  PROVE  FilesInv'
<1> USE DEF FilesInv
<1>1. disk' = disk /\ memWire' = memWire /\ memOps' = memOps
  BY DEF StartEditing, CancelEditing, CloseFile
<1> DEFINE Panel == [shown : MemPaths, text : Texts, editing : BOOLEAN, edited : Texts, saving : BOOLEAN]
<1>a. browser \in Panel BY DEF MemTypes
<1>b. CASE StartEditing
  <2>1. browser' = [browser EXCEPT !.editing = TRUE, !.edited = browser.text] BY <1>b DEF StartEditing
  <2>2. browser' \in Panel BY <2>1, <1>a
  <2>3. /\ browser'.shown = browser.shown /\ browser'.text = browser.text
        /\ browser'.edited = browser.text
    BY <2>1, <1>a
  <2>5. crossed' \in BOOLEAN /\ (~crossed' => ~crossed /\ \A r \in memWire : Opens(r) => r.path = browser.shown)
    BY <1>b DEF StartEditing
  <2>6. browser.shown # NoFile BY <1>b DEF StartEditing
  <2>7. ~crossed => browser.text.of = browser.shown BY <2>6 DEF TextsStayInTheirFile
  <2>8. ~crossed' => OneFileAtATime(browser, memWire)'
    BY <1>1, <2>3, <2>5, <2>7 DEF EditAndWireInFile, OneFileAtATime
  <2>4. QED BY <1>1, <2>2, <2>3, <2>5, <2>8 DEF MemTypes, EditAndWireInFile, TextsStayInTheirFile, ExistingFiles
<1>c. CASE CancelEditing
  <2>1. browser' = [browser EXCEPT !.editing = FALSE, !.edited = EmptyText] BY <1>c DEF CancelEditing
  <2>2. browser' \in Panel BY <2>1, <1>a, TextTypes
  <2>3. /\ browser'.shown = browser.shown /\ browser'.text = browser.text /\ browser'.editing = FALSE
    BY <2>1, <1>a
  <2>5. crossed' = crossed BY <1>c DEF CancelEditing
  <2>6. OneFileAtATime(browser, memWire) => OneFileAtATime(browser, memWire)'
    BY <1>1, <2>3 DEF OneFileAtATime
  <2>4. QED BY <1>1, <2>2, <2>3, <2>5, <2>6 DEF MemTypes, EditAndWireInFile, TextsStayInTheirFile, ExistingFiles
<1>d. CASE CloseFile
  <2>1. browser' = [shown |-> NoFile, text |-> EmptyText, editing |-> FALSE,
                    edited |-> EmptyText, saving |-> browser.saving]
    BY <1>d DEF CloseFile
  <2>2. browser' \in Panel BY <2>1, <1>a, TextTypes DEF MemPaths
  <2>3. browser'.shown = NoFile /\ browser'.editing = FALSE BY <2>1
  <2>5. crossed' = crossed BY <1>d DEF CloseFile
  <2>6. OneFileAtATime(browser, memWire) => OneFileAtATime(browser, memWire)'
    BY <1>1, <2>3 DEF OneFileAtATime
  <2>4. QED BY <1>1, <2>2, <2>3, <2>5, <2>6 DEF MemTypes, EditAndWireInFile, TextsStayInTheirFile, ExistingFiles
<1>e. QED BY <1>b, <1>c, <1>d

\* The server reads, checks, writes or removes: the panel does not move, and
\* a text read from a file or written to one is a text of that file.
LEMMA ServerKeeps ==
  ASSUME FilesInv, NEW r \in memWire,
         \/ ReadContent(r) \/ WriteSaved(r) \/ SaveRefused(r)
         \/ CreateChecks(r) \/ CreateWrites(r) \/ Unlink(r)
  PROVE  FilesInv'
<1> USE DEF FilesInv
<1>1. browser' = browser /\ crossed' = crossed /\ memOps' = memOps
  BY DEF ReadContent, WriteSaved, SaveRefused, CreateChecks, CreateWrites, Unlink
<1>2. r \in MemRequests /\ r.path \in MemPaths /\ r.text \in Texts BY DEF MemTypes, MemRequests
<1> DEFINE DiskFine == /\ disk' = [q \in ExistingFiles' |-> disk'[q]]
                       /\ \A q \in ExistingFiles' : disk'[q] \in Texts
                       /\ ~crossed => \A q \in ExistingFiles' : disk'[q].of = q
           WireFine == /\ memWire' \subseteq MemRequests
                       /\ ~crossed => OneFileAtATime(browser, memWire') /\ \A q \in memWire' : InItsFile(q)
<1>3. SUFFICES DiskFine /\ WireFine
  BY <1>1 DEF MemTypes, EditAndWireInFile, TextsStayInTheirFile
<1>4. ~crossed => InItsFile(r) BY DEF EditAndWireInFile
<1>5. disk' = disk => DiskFine BY DEF MemTypes, TextsStayInTheirFile, ExistingFiles
<1>6. memWire' = memWire \ {r} => WireFine BY FewerWire DEF MemTypes, EditAndWireInFile
<1>7. ASSUME NEW s \in MemRequests, Moves(r, s), ~crossed => InItsFile(s),
             s.path = r.path, s.kind = "save" => r.kind = "save", Opens(s) => Opens(r)
      PROVE  WireFine
  BY <1>7, MovesWire DEF MemTypes, EditAndWireInFile
<1>8. ASSUME disk' = MemWritten(r.path, r.text), ~crossed => r.text.of = r.path PROVE DiskFine
  BY <1>8, <1>2, MemWrittenFacts DEF MemTypes, TextsStayInTheirFile
<1> HIDE DEF DiskFine, WireFine
<1>9. CASE ReadContent(r)
  <2>1. disk' = disk BY <1>9 DEF ReadContent
  <2>2. CASE r.path \in ExistingFiles
    <3> DEFINE s == [r EXCEPT !.stage = "ok", !.text = disk[r.path]]
    <3>1. Moves(r, s) BY <1>9, <2>2 DEF ReadContent
    <3>2. disk[r.path] \in Texts BY <2>2 DEF MemTypes
    <3>3. s \in MemRequests /\ s.path = r.path /\ s.kind = r.kind /\ s.text = disk[r.path] BY <1>2, <3>2 DEF MemRequests
    <3>4. ~crossed => InItsFile(s) BY <2>2, <3>3 DEF InItsFile, TextsStayInTheirFile
    <3> HIDE DEF s
    <3>5. QED BY <1>5, <1>7, <2>1, <3>1, <3>3, <3>4 DEF Opens
  <2>3. CASE r.path \notin ExistingFiles
    <3> DEFINE s == [r EXCEPT !.stage = "failed"]
    <3>1. Moves(r, s) BY <1>9, <2>3 DEF ReadContent
    <3>2. s \in MemRequests /\ s.kind = r.kind /\ s.path = r.path /\ s.stage = "failed" BY <1>2 DEF MemRequests
    <3>3. r.kind = "load" BY <1>9 DEF ReadContent
    <3>4. InItsFile(s) BY <3>2, <3>3 DEF InItsFile
    <3> HIDE DEF s
    <3>5. QED BY <1>5, <1>7, <2>1, <3>1, <3>2, <3>4 DEF Opens
  <2>4. QED BY <2>2, <2>3
<1>10. CASE WriteSaved(r)
  <2> DEFINE s == [r EXCEPT !.stage = "ok"]
  <2>1. /\ Moves(r, s) /\ r.kind = "save" /\ disk' = MemWritten(r.path, r.text)
    BY <1>10 DEF WriteSaved
  <2>2. s \in MemRequests /\ s.kind = r.kind /\ s.path = r.path /\ s.text = r.text BY <1>2 DEF MemRequests
  <2>3. ~crossed => r.text.of = r.path BY <1>4, <2>1 DEF InItsFile
  <2>4. ~crossed => InItsFile(s) BY <2>2, <2>3 DEF InItsFile
  <2> HIDE DEF s
  <2>5. QED BY <1>7, <1>8, <2>1, <2>2, <2>3, <2>4 DEF Opens
<1>11. CASE SaveRefused(r)
  <2> DEFINE s == [r EXCEPT !.stage = "failed"]
  <2>1. /\ Moves(r, s) /\ r.kind = "save" /\ disk' = disk BY <1>11 DEF SaveRefused
  <2>2. s \in MemRequests /\ s.kind = r.kind /\ s.path = r.path /\ s.text = r.text BY <1>2 DEF MemRequests
  <2>3. ~crossed => InItsFile(s) BY <1>4, <2>1, <2>2 DEF InItsFile
  <2> HIDE DEF s
  <2>4. QED BY <1>5, <1>7, <2>1, <2>2, <2>3 DEF Opens
<1>12. CASE CreateChecks(r)
  <2> DEFINE s == [r EXCEPT !.stage = "checked"]
  <2>1. /\ memWire' = memWire \ {r} \/ Moves(r, s)
        /\ r.kind = "create" /\ disk' = disk
    BY <1>12 DEF CreateChecks
  <2>2. s \in MemRequests /\ s.kind = r.kind /\ s.path = r.path /\ s.text = r.text BY <1>2 DEF MemRequests
  <2>3. ~crossed => InItsFile(s) BY <1>4, <2>1, <2>2 DEF InItsFile
  <2> HIDE DEF s
  <2>4. QED BY <1>5, <1>6, <1>7, <2>1, <2>2, <2>3 DEF Opens
<1>13. CASE CreateWrites(r)
  <2> DEFINE s == [r EXCEPT !.kind = "load", !.stage = "sent"]
  <2>1. /\ Moves(r, s) /\ r.kind = "create" /\ disk' = MemWritten(r.path, r.text)
    BY <1>13 DEF CreateWrites
  <2>2. s \in MemRequests /\ s.kind = "load" /\ s.path = r.path /\ s.text = r.text BY <1>2 DEF MemRequests
  <2>3. ~crossed => r.text.of = r.path BY <1>4, <2>1 DEF InItsFile
  <2>4. ~crossed => InItsFile(s) BY <2>2, <2>3 DEF InItsFile
  <2> HIDE DEF s
  <2>5. QED BY <1>7, <1>8, <2>1, <2>2, <2>3, <2>4 DEF Opens
<1>14. CASE Unlink(r)
  <2> DEFINE s == [r EXCEPT !.stage = "ok"]
  <2>1. s \in MemRequests /\ s.kind = "delete" /\ s.path = r.path BY <1>2, <1>14 DEF MemRequests, Unlink
  <2>2. InItsFile(s) BY <2>1 DEF InItsFile
  <2>3. CASE r.path \in ExistingFiles
    <3>1. disk' = Removed(r.path) /\ Moves(r, s) BY <1>14, <2>3 DEF Unlink
    <3>2. DiskFine BY <3>1 DEF DiskFine, Removed, ExistingFiles, MemTypes, TextsStayInTheirFile
    <3> HIDE DEF s
    <3>3. QED BY <1>7, <2>1, <2>2, <3>1, <3>2 DEF Opens
  <2>4. CASE r.path \notin ExistingFiles
    <3>1. disk' = disk /\ memWire' = memWire \ {r} BY <1>14, <2>4 DEF Unlink
    <3>2. QED BY <1>5, <1>6, <3>1
  <2>5. QED BY <2>3, <2>4
<1>15. QED BY <1>9, <1>10, <1>11, <1>12, <1>13, <1>14

\* The panel gets an answer: what it shows under a file's name is a text of
\* that file, since no other file is being opened beside an edit or a save.
LEMMA AnswersKeep ==
  ASSUME FilesInv, NEW r \in memWire, ContentArrives(r) \/ SaveAnswers(r) \/ DeleteAnswers(r)
  PROVE  FilesInv'
<1> USE DEF FilesInv
<1> DEFINE Panel == [shown : MemPaths, text : Texts, editing : BOOLEAN, edited : Texts, saving : BOOLEAN]
<1>1. memWire' = memWire \ {r} /\ memOps' = memOps /\ disk' = disk /\ crossed' = crossed
  BY DEF ContentArrives, SaveAnswers, DeleteAnswers
<1>2. browser \in Panel BY DEF MemTypes
<1>3. r \in MemRequests /\ r.path \in MemPaths /\ r.text \in Texts BY DEF MemTypes, MemRequests
<1>4. SUFFICES /\ browser' \in Panel
               /\ ~crossed => /\ OneFileAtATime(browser', memWire)
                              /\ browser'.shown # NoFile => browser'.text.of = browser'.shown
  <2>1. OneFileAtATime(browser', memWire) => OneFileAtATime(browser', memWire')
    BY <1>1 DEF OneFileAtATime
  <2> QED BY <1>1, <2>1 DEF MemTypes, EditAndWireInFile, TextsStayInTheirFile, ExistingFiles
<1>5. CASE ContentArrives(r)
  <2>1. CASE r.stage = "ok"
    <3>1. /\ browser' = [browser EXCEPT !.shown = r.path, !.text = r.text]
          /\ r.kind = "load"
      BY <1>5, <2>1 DEF ContentArrives
    <3>2. browser' \in Panel BY <3>1, <1>2, <1>3
    <3>3. /\ browser'.shown = r.path /\ browser'.text = r.text
          /\ browser'.editing = browser.editing /\ browser'.edited = browser.edited
      BY <3>1, <1>2
    <3>4. ~crossed => r.text.of = r.path BY <2>1, <3>1 DEF EditAndWireInFile, InItsFile
    <3>6. ~crossed => OneFileAtATime(browser', memWire)
      BY <3>1, <3>3 DEF EditAndWireInFile, OneFileAtATime, Opens
    <3>5. QED BY <3>2, <3>3, <3>4, <3>6
  <2>2. CASE r.stage # "ok"
    <3>1. browser' = browser BY <1>5, <2>2 DEF ContentArrives
    <3>2. QED BY <1>2, <3>1 DEF EditAndWireInFile, TextsStayInTheirFile
  <2>3. QED BY <2>1, <2>2
<1>6. CASE SaveAnswers(r)
  <2>1. CASE r.stage = "ok"
    <3>1. /\ browser' = [browser EXCEPT !.text = r.text, !.editing = FALSE,
                                        !.edited = EmptyText, !.saving = FALSE]
          /\ r.kind = "save"
      BY <1>6, <2>1 DEF SaveAnswers
    <3>2. browser' \in Panel BY <3>1, <1>2, <1>3, TextTypes
    <3>3. /\ browser'.shown = browser.shown /\ browser'.text = r.text /\ browser'.editing = FALSE
      BY <3>1, <1>2
    <3>4. ~crossed => r.text.of = r.path BY <2>1, <3>1 DEF EditAndWireInFile, InItsFile
    <3>6. ~crossed => browser.shown \in {NoFile, r.path} /\ OneFileAtATime(browser', memWire)
      BY <3>1, <3>3 DEF EditAndWireInFile, OneFileAtATime
    <3>5. QED BY <3>2, <3>3, <3>4, <3>6
  <2>2. CASE r.stage # "ok"
    <3>1. browser' = [browser EXCEPT !.saving = FALSE]
      BY <1>6, <2>2 DEF SaveAnswers, MemTypes
    <3>2. browser' \in Panel BY <3>1, <1>2
    <3>3. /\ browser'.shown = browser.shown /\ browser'.text = browser.text
          /\ browser'.editing = browser.editing /\ browser'.edited = browser.edited
      BY <3>1, <1>2
    <3>4. QED BY <3>2, <3>3 DEF EditAndWireInFile, OneFileAtATime, TextsStayInTheirFile
  <2>3. QED BY <2>1, <2>2
<1>7. CASE DeleteAnswers(r)
  <2>1. browser' = [browser EXCEPT !.shown = NoFile, !.text = EmptyText]
    BY <1>7 DEF DeleteAnswers
  <2>2. browser' \in Panel BY <2>1, <1>2, TextTypes DEF MemPaths
  <2>3. browser'.shown = NoFile /\ browser'.editing = browser.editing /\ browser'.edited = browser.edited
    BY <2>1, <1>2
  <2>4. QED BY <2>2, <2>3 DEF EditAndWireInFile, OneFileAtATime
<1>8. QED BY <1>5, <1>6, <1>7

\* PUT and DELETE agents/[id]/memory: what is appended stays.
LEMMA WorkingKeeps ==
  ASSUME WorkingInv,
         \/ \E append \in BOOLEAN : PutArrives(append)
         \/ \E r \in putWire : PutRuns(r)
         \/ GetMemory \/ ClearMemory
  PROVE  WorkingInv'
<1> USE DEF WorkingInv
<1>1. CASE \E append \in BOOLEAN : PutArrives(append)
  <2>1. PICK append \in BOOLEAN : PutArrives(append) BY <1>1
  <2> DEFINE n == Len(working) + Cardinality(putWire) + 1
             r == [append |-> append, entry |-> <<n, append>>, seen |-> working]
  <2>2. n <= MaxEntries /\ putWire' = putWire \cup {r} /\ working' = working /\ kept' = kept
    BY <2>1 DEF PutArrives
  <2>3. n \in Nat BY FS_CardinalityType DEF WorkingTypes
  <2>4. r \in Puts BY <2>3 DEF Puts, MemEntries, WorkingTypes
  <2> HIDE DEF n, r
  <2>5. IsFiniteSet(putWire') BY <2>2, FS_AddElement DEF WorkingTypes
  <2>6. QED BY <2>2, <2>4, <2>5 DEF WorkingTypes, AppendsKept
<1>2. CASE \E r \in putWire : PutRuns(r)
  <2>1. PICK r \in putWire : PutRuns(r) BY <1>2
  <2>2. r \in Puts /\ r.entry \in MemEntries BY DEF WorkingTypes, Puts
  <2>3. putWire' \subseteq Puts /\ IsFiniteSet(putWire')
    BY <2>1, FS_RemoveElement DEF PutRuns, WorkingTypes
  <2>4. CASE r.append
    <3>1. working' = Append(working, r.entry) /\ kept' = kept \cup {r.entry}
      BY <2>1, <2>4 DEF PutRuns, AppendedTo
    <3>2. working' \in Seq(MemEntries) BY <3>1, <2>2 DEF WorkingTypes
    <3>3. \A e \in ToSet(working) : e \in ToSet(working')
      BY <3>1, <2>2 DEF ToSet, WorkingTypes
    <3>4. r.entry \in ToSet(working') 
      BY <3>1, <2>2 DEF ToSet, WorkingTypes
    <3>5. QED BY <2>3, <3>1, <3>2, <3>3, <3>4 DEF WorkingTypes, AppendsKept
  <2>5. CASE ~r.append
    <3>1. working' = <<r.entry>> /\ kept' = {r.entry} BY <2>1, <2>5 DEF PutRuns
    <3>2. working' \in Seq(MemEntries) BY <3>1, <2>2
    <3>3. r.entry \in ToSet(working') BY <3>1 DEF ToSet
    <3>4. QED BY <2>3, <3>1, <3>2, <3>3 DEF WorkingTypes, AppendsKept
  <2>6. QED BY <2>4, <2>5
<1>3. CASE GetMemory
  BY <1>3 DEF GetMemory, WorkingTypes, AppendsKept
<1>4. CASE ClearMemory
  BY <1>4 DEF ClearMemory, WorkingTypes, AppendsKept
<1>5. QED BY <1>1, <1>2, <1>3, <1>4

\* The panel and the directory start with every file holding its own text.
LEMMA MemInitInv == MemInit => MemInv
<1> SUFFICES ASSUME MemInit PROVE MemInv OBVIOUS
<1>1. \A p \in Paths : TextOf(p, 0) \in Texts /\ TextOf(p, 0).of = p BY TextTypes DEF MemPaths
<1>2. disk = [p \in Paths |-> TextOf(p, 0)] BY DEF MemInit
<1>3. ExistingFiles = Paths BY <1>2 DEF ExistingFiles
<1>4. MemTypes
  <2>1. browser \in [shown : MemPaths, text : Texts, editing : BOOLEAN, edited : Texts, saving : BOOLEAN]
    BY TextTypes DEF MemInit, MemPaths
  <2>2. \A p \in ExistingFiles : disk[p] \in Texts BY <1>1, <1>2, <1>3
  <2>3. disk = [p \in ExistingFiles |-> disk[p]] BY <1>2, <1>3
  <2>4. QED BY <2>1, <2>2, <2>3 DEF MemTypes, MemInit
<1>5. EditAndWireInFile BY DEF EditAndWireInFile, OneFileAtATime, MemInit
<1>6. TextsStayInTheirFile BY <1>1, <1>2, <1>3 DEF TextsStayInTheirFile, MemInit
<1>7. WorkingInv BY FS_EmptySet DEF WorkingInv, WorkingTypes, AppendsKept, MemInit
<1>8. QED BY <1>4, <1>5, <1>6, <1>7 DEF MemInv, FilesInv

\* Every step of the memory browser and of the working memory keeps MemInv.
LEMMA MemNextInv == MemInv /\ [MemNext]_memVars => MemInv'
<1> SUFFICES ASSUME MemInv, [MemNext]_memVars PROVE MemInv' OBVIOUS
<1> USE DEF MemInv
<1>1. UNCHANGED filePart => FilesInv'
  BY DEF filePart, FilesInv, MemTypes, EditAndWireInFile, TextsStayInTheirFile, ExistingFiles
<1>2. UNCHANGED workingPart => WorkingInv'
  BY DEF workingPart, WorkingInv, WorkingTypes, AppendsKept
<1>3. CASE (\E p \in Paths : LoadFileContent(p) \/ CreateNewFile(p)) \/ SaveFile \/ DeleteFile
  <2>1. UNCHANGED workingPart BY <1>3 DEF LoadFileContent, CreateNewFile, SaveFile, DeleteFile
  <2>2. QED BY <1>2, <1>3, <2>1, SendsKeep
<1>4. CASE StartEditing \/ CancelEditing \/ CloseFile
  <2>1. UNCHANGED workingPart BY <1>4 DEF StartEditing, CancelEditing, CloseFile
  <2>2. QED BY <1>2, <1>4, <2>1, PanelKeeps
<1>5. ASSUME NEW r \in memWire,
             \/ ReadContent(r) \/ WriteSaved(r) \/ SaveRefused(r)
             \/ CreateChecks(r) \/ CreateWrites(r) \/ Unlink(r)
      PROVE  MemInv'
  <2>1. UNCHANGED workingPart
    BY <1>5 DEF ReadContent, WriteSaved, SaveRefused, CreateChecks, CreateWrites, Unlink
  <2>2. QED BY <1>2, <1>5, <2>1, ServerKeeps
<1>6. ASSUME NEW r \in memWire, ContentArrives(r) \/ SaveAnswers(r) \/ DeleteAnswers(r)
      PROVE  MemInv'
  <2>1. UNCHANGED workingPart BY <1>6 DEF ContentArrives, SaveAnswers, DeleteAnswers
  <2>2. QED BY <1>2, <1>6, <2>1, AnswersKeep
<1>7. CASE \/ \E append \in BOOLEAN : PutArrives(append)
           \/ \E r \in putWire : PutRuns(r)
           \/ GetMemory \/ ClearMemory
  <2>1. UNCHANGED filePart BY <1>7 DEF PutArrives, PutRuns, GetMemory, ClearMemory
  <2>2. QED BY <1>1, <1>7, <2>1, WorkingKeeps
<1>8. CASE UNCHANGED memVars
  BY <1>1, <1>2, <1>8 DEF memVars, filePart, workingPart
<1>9. QED BY <1>3, <1>4, <1>5, <1>6, <1>7, <1>8 DEF MemNext

\* The strengthened invariant of the memory browser and the working memory.
THEOREM MemInvHolds == MemSpec => []MemInv
BY MemInitInv, MemNextInv, PTL DEF MemSpec

\* api/memory and agents/[id]/memory: for any files, any number of requests
\* under way and any order of their answers, texts stay in their file unless
\* the user let them cross, and what agents append is kept.
THEOREM MemoryCorrect == MemSpec => []MemorySafe
<1>1. MemInv => MemorySafe BY DEF MemInv, FilesInv, WorkingInv, MemorySafe
<1>2. QED BY <1>1, MemInvHolds, PTL

(***************************************************************************)
(* The files that handlers rewrite without a lock.                         *)
(*                                                                         *)
(* FilesSafe compares a file with its history only while nobody is at work *)
(* on it.  In between, on a file where calls did not overlap, there is at  *)
(* most one call, and its copy is what the call would make of the file's   *)
(* history; the file is damaged only between truncating and filling it in  *)
(* place, and .env never, because its copy waits in the temporary file.    *)
(***************************************************************************)
Works(h, f) == work[h] # None /\ work[h].file = f

Operations == {"add", "toggle", "remove", "post", "clean", "put"}
FileKeys == {"job1", "job2", "old", "new", "KEY", "PATH", "port", "list", "password", "auth", "gateway"}
CallsWith(copy) == [kind : {"call"}, file : Files, at : {"changed", "writing", "written"},
                    op : Operations, entry : FileKeys, copy : {copy},
                    into : Files \cup {"tmp"}, spoilt : BOOLEAN]

\* openclaw.json with the leaves, and the password, that no update dropped.
WholeConfig(e, gone) ==
  /\ {"password", "list", "port"} \ gone \subseteq DOMAIN e
  /\ "password" \in gone \/ e["password"] = "on"

StoredTypes ==
  /\ content = [f \in Files |-> content[f]] /\ expected = [f \in Files |-> expected[f]]
  /\ DOMAIN content = Files /\ DOMAIN expected = Files
  /\ torn \subseteq Files /\ mixed \subseteq Files
  /\ tmp.kind \in {"none", "torn", "full"}

WorkShape == work = [h \in Handlers |-> work[h]]

WorkTypes ==
  /\ \A h \in Handlers : work[h] = None \/ work[h] \in CallsWith(work[h].copy)
  /\ \A h \in Handlers : work[h] # None =>
       /\ work[h].into \in {Target(work[h].file), "env"}
       /\ work[h].at = "written" => work[h].file = "env"

FileTypes == StoredTypes /\ WorkShape /\ WorkTypes

ConfigWhole ==
  /\ WholeConfig(content["gateway"], cutLeaves)
  /\ \A h \in Handlers : Works(h, "gateway") => WholeConfig(work[h].copy, cutLeaves)

\* The call at work on a file has a copy made of the file's history.
CopyIsNext(h, f) ==
  /\ work[h].copy = Result(f, work[h].op, work[h].entry, expected[f])
  /\ ~work[h].spoilt /\ work[h].into = Target(f)
  /\ work[h].at = "written" => tmp = [kind |-> "full", copy |-> work[h].copy]

Calm(f) ==
  /\ content[f] = expected[f]
  /\ \A g, h \in Handlers : Works(g, f) /\ Works(h, f) => g = h
  /\ \A h \in Handlers : Works(h, f) => CopyIsNext(h, f)
  /\ f \in torn => f # "env" /\ \E h \in Handlers : Works(h, f) /\ work[h].at = "writing"

FileInv == FileTypes /\ ConfigWhole /\ \A f \in Files \ mixed : Calm(f)

\* A step that leaves a file, its history, the calls at work on it and, for
\* .env, the temporary file alone keeps the file calm.
LEMMA CalmFrame ==
  ASSUME NEW f \in Files, Calm(f),
         content'[f] = content[f], expected'[f] = expected[f], f \in torn' => f \in torn,
         f = "env" => tmp' = tmp,
         \A h \in Handlers : Works(h, f)' <=> Works(h, f),
         \A h \in Handlers : Works(h, f) => work'[h] = work[h],
         \A h \in Handlers : Works(h, f) /\ work[h].at = "written" => f = "env"
  PROVE  Calm(f)'
<1>1. \A h \in Handlers : Works(h, f)' => CopyIsNext(h, f)'
  BY DEF Calm, CopyIsNext
<1>2. f \in torn' => f # "env" /\ \E h \in Handlers : Works(h, f)' /\ work'[h].at = "writing"
  BY DEF Calm
<1>3. QED BY <1>1, <1>2 DEF Calm

\* The requests of the four handlers.
LEMMA RequestTypes ==
  ASSUME NEW f \in Files, NEW r \in Requests(f)
  PROVE  r[1] \in Operations /\ r[2] \in FileKeys /\ (f = "gateway" => r[1] = "put")
<1>1. CASE f = "cron" BY <1>1 DEF Requests, Operations, FileKeys
<1>2. CASE f = "tokens" BY <1>2 DEF Requests, Operations, FileKeys
<1>3. CASE f = "env" BY <1>3 DEF Requests, Operations, FileKeys
<1>4. CASE f = "gateway" BY <1>4 DEF Requests, Operations, FileKeys
<1>5. QED BY <1>1, <1>2, <1>3, <1>4 DEF Files

\* What is whole stays so when more counts as dropped.
LEMMA WholeWithLess ==
  ASSUME NEW e, NEW gone, NEW more, WholeConfig(e, gone), gone \subseteq more
  PROVE  WholeConfig(e, more)
BY DEF WholeConfig

\* "CRITICAL: Preserves gateway.auth.password": a change of another leaf, or of
\* a path above.
LEMMA ConfigStaysWhole ==
  ASSUME NEW e, NEW gone, WholeConfig(e, gone), NEW x \in FileKeys, x # "password"
  PROVE  WholeConfig(Result("gateway", "put", x, e), gone \cup LeavesBelow(x))
<1>1. Result("gateway", "put", x, e) = SetNestedValue(e, x) BY DEF Result
<1>2. CASE LeavesBelow(x) = {}
  BY <1>1, <1>2 DEF SetNestedValue, Upsert, WholeConfig
<1>3. CASE LeavesBelow(x) # {}
  <2>1. SetNestedValue(e, x) = Dropped(e, LeavesBelow(x)) BY <1>3 DEF SetNestedValue
  <2>2. QED BY <1>1, <2>1 DEF Dropped, WholeConfig
<1>4. QED BY <1>2, <1>3

\* A handler reads a file nobody is at work on, or the file counts as mixed.
LEMMA ReadKeeps ==
  ASSUME FileInv, NEW h \in Handlers, NEW f \in Files, NEW r \in Requests(f),
         ReadAndChange(h, f, r[1], r[2])
  PROVE  FileInv'
<1> USE DEF FileInv
<1> DEFINE op == r[1]
           x == r[2]
           copy == Result(f, op, x, ReadsAs(f))
           w == [kind |-> "call", file |-> f, at |-> "changed", op |-> op, entry |-> x,
                 copy |-> copy, into |-> Target(f), spoilt |-> FALSE]
<1>1. op \in Operations /\ x \in FileKeys /\ (f = "gateway" => op = "put") BY RequestTypes
<1>2. /\ work' = [work EXCEPT ![h] = w] /\ work[h] = None /\ ~Protected(f, x)
      /\ f \in torn => Recovers(f, op)
      /\ mixed' = IF Busy(f) THEN mixed \cup {f} ELSE mixed
      /\ cutLeaves' = IF f = "gateway" THEN cutLeaves \cup LeavesBelow(x) ELSE cutLeaves
      /\ content' = content /\ torn' = torn /\ tmp' = tmp /\ expected' = expected
  BY DEF ReadAndChange
<1> HIDE DEF op, x, copy
<1>3. Target(f) \in Files \cup {"tmp"} BY DEF Target, Files
<1>4. /\ w \in CallsWith(w.copy) /\ w.file = f /\ w.at = "changed" /\ w.op = op /\ w.entry = x
      /\ w.copy = copy /\ w.into = Target(f) /\ w.spoilt = FALSE /\ w # None
  BY <1>1, <1>3 DEF CallsWith, None
<1> HIDE DEF w
<1>5. work'[h] = w /\ \A g \in Handlers \ {h} : work'[g] = work[g] BY <1>2 DEF FileTypes, StoredTypes, WorkShape, WorkTypes
<1>6. FileTypes'
  <2>1. \A g \in Handlers : work'[g] = None \/ work'[g] \in CallsWith(work'[g].copy)
    BY <1>4, <1>5 DEF FileTypes, StoredTypes, WorkShape, WorkTypes
  <2>2. \A g \in Handlers : work'[g] # None => /\ work'[g].into \in {Target(work'[g].file), "env"}
                                               /\ work'[g].at = "written" => work'[g].file = "env"
    BY <1>4, <1>5 DEF FileTypes, StoredTypes, WorkShape, WorkTypes
  <2>3. work' = [g \in Handlers |-> work'[g]] BY <1>2 DEF FileTypes, StoredTypes, WorkShape, WorkTypes
  <2>4. torn' \subseteq Files /\ mixed' \subseteq Files BY <1>2 DEF FileTypes, StoredTypes, WorkShape, WorkTypes
  <2>5. WorkShape' /\ WorkTypes' BY <2>1, <2>2, <2>3 DEF WorkShape, WorkTypes
  <2>6. /\ content' = [g \in Files |-> content'[g]] /\ expected' = [g \in Files |-> expected'[g]]
        /\ DOMAIN content' = Files /\ DOMAIN expected' = Files
    BY <1>2 DEF FileTypes, StoredTypes, WorkShape, WorkTypes
  <2>7. StoredTypes' BY <1>2, <2>4, <2>6 DEF FileTypes, StoredTypes
  <2>8. QED BY <2>5, <2>7 DEF FileTypes
<1>7. ConfigWhole'
  <2>1. f = "gateway" => WholeConfig(copy, cutLeaves')
    <3> SUFFICES ASSUME f = "gateway" PROVE WholeConfig(copy, cutLeaves') OBVIOUS
    <3>1. op = "put" /\ x # "password" BY <1>1, <1>2 DEF Protected
    <3>2. f \notin torn BY <1>2, <3>1 DEF Recovers
    <3>3. copy = Result("gateway", "put", x, content["gateway"]) BY <3>1, <3>2 DEF copy, ReadsAs
    <3>4. WholeConfig(copy, cutLeaves \cup LeavesBelow(x))
      BY <1>1, <3>1, <3>3, ConfigStaysWhole DEF ConfigWhole
    <3>5. QED BY <1>2, <3>4
  <2>2. cutLeaves \subseteq cutLeaves' BY <1>2
  <2>3. \A e : WholeConfig(e, cutLeaves) => WholeConfig(e, cutLeaves') BY <2>2, WholeWithLess
  <2>4. QED BY <1>2, <1>4, <1>5, <2>1, <2>3 DEF ConfigWhole, Works
<1>8. ASSUME NEW f0 \in Files \ mixed' PROVE Calm(f0)'
  <2>1. f0 \in Files \ mixed /\ Calm(f0) BY <1>2, <1>8
  <2>2. CASE f0 # f
    <3>1. \A g \in Handlers : Works(g, f0)' <=> Works(g, f0) BY <1>2, <1>4, <1>5, <2>2 DEF Works
    <3>2. \A g \in Handlers : Works(g, f0) => work'[g] = work[g] BY <1>2, <1>5 DEF Works
    <3>3. \A g \in Handlers : Works(g, f0) /\ work[g].at = "written" => f0 = "env"
      BY DEF FileTypes, StoredTypes, WorkShape, WorkTypes, Works
    <3>4. QED BY <1>2, <2>1, <3>1, <3>2, <3>3, CalmFrame
  <2>3. CASE f0 = f
    <3>1. ~Busy(f) BY <1>2, <1>8, <2>3
    <3>2. \A g \in Handlers : ~Works(g, f) BY <3>1 DEF Busy, Works
    <3>3. f \notin torn /\ content[f] = expected[f] BY <2>1, <2>3, <3>2 DEF Calm
    <3>4. copy = Result(f, op, x, expected[f]) BY <3>3 DEF copy, ReadsAs
    <3>5. \A g \in Handlers : Works(g, f)' => g = h BY <1>5, <3>2 DEF Works
    <3>6. CopyIsNext(h, f)' BY <1>2, <1>4, <1>5, <3>4 DEF CopyIsNext
    <3>7. QED BY <1>2, <2>3, <3>3, <3>5, <3>6 DEF Calm
  <2>4. QED BY <2>2, <2>3
<1>9. QED BY <1>6, <1>7, <1>8

\* A step of one call h that changes no other call, or only how the others
\* write the same file: the types of the calls.
LEMMA CallTypes ==
  ASSUME FileTypes, NEW h \in Handlers, NEW stage \in {"writing", "written"},
         work[h] # None, stage = "written" => work[h].file = "env", work' = [work EXCEPT ![h].at = stage]
  PROVE  /\ WorkShape' /\ WorkTypes'
         /\ \A g \in Handlers \ {h} : work'[g] = work[g]
         /\ work'[h] # None /\ work'[h].at = stage
         /\ work'[h].file = work[h].file /\ work'[h].copy = work[h].copy /\ work'[h].op = work[h].op
         /\ work'[h].entry = work[h].entry /\ work'[h].into = work[h].into
         /\ work'[h].spoilt = work[h].spoilt
<1> DEFINE w == [work[h] EXCEPT !.at = stage]
<1>1. work[h] \in CallsWith(work[h].copy) BY DEF FileTypes, WorkTypes
<1>2. /\ w \in CallsWith(w.copy) /\ w # None /\ w.at = stage
      /\ w.file = work[h].file /\ w.copy = work[h].copy /\ w.op = work[h].op
      /\ w.entry = work[h].entry /\ w.into = work[h].into /\ w.spoilt = work[h].spoilt
  BY <1>1 DEF CallsWith, None
<1>3. work' = [work EXCEPT ![h] = w] OBVIOUS
<1> HIDE DEF w
<1>4. work'[h] = w /\ \A g \in Handlers \ {h} : work'[g] = work[g]
  BY <1>3 DEF FileTypes, WorkShape
<1>5. WorkShape' BY <1>3 DEF FileTypes, WorkShape
<1>6. WorkTypes'
  <2>1. \A g \in Handlers : work'[g] = None \/ work'[g] \in CallsWith(work'[g].copy)
    BY <1>2, <1>4 DEF FileTypes, WorkTypes
  <2>2. \A g \in Handlers : work'[g] # None =>
          /\ work'[g].into \in {Target(work'[g].file), "env"}
          /\ work'[g].at = "written" => work'[g].file = "env"
    BY <1>2, <1>4 DEF FileTypes, WorkTypes
  <2>3. QED BY <2>1, <2>2 DEF WorkTypes
<1>7. QED BY <1>2, <1>4, <1>5, <1>6

\* A step on one file leaves the others calm.
LEMMA OthersCalm ==
  ASSUME FileInv, NEW F \in Files, NEW f \in Files \ mixed, f # F,
         content'[f] = content[f], expected'[f] = expected[f], f \in torn' => f \in torn,
         F = "env" \/ tmp' = tmp,
         \A g \in Handlers : work[g] # None /\ work[g].file # F => work'[g] = work[g],
         \A g \in Handlers : work'[g] # None => work[g] # None /\ work'[g].file = work[g].file
  PROVE  Calm(f)'
<1>1. Calm(f) BY DEF FileInv
<1>2. \A g \in Handlers : Works(g, f)' <=> Works(g, f) BY DEF Works
<1>3. \A g \in Handlers : Works(g, f) => work'[g] = work[g] BY DEF Works
<1>4. \A g \in Handlers : Works(g, f) /\ work[g].at = "written" => f = "env"
  BY DEF FileInv, FileTypes, WorkTypes, Works
<1>5. QED BY <1>1, <1>2, <1>3, <1>4, CalmFrame

\* Target: only .env has a temporary file.
LEMMA TargetFacts ==
  ASSUME NEW f \in Files
  PROVE  /\ Target(f) = "tmp" => f = "env"
         /\ Target(f) = f => f # "env"
         /\ Target("env") = "tmp"
BY DEF Target, Files

\* writeFile empties its file: in place, or the temporary one.
LEMMA TruncateKeeps ==
  ASSUME FileInv, NEW h \in Handlers, Truncate(h)
  PROVE  FileInv'
<1>0. PICK F \in Files : F = work[h].file
  BY DEF Truncate, FileInv, FileTypes, WorkTypes, CallsWith
<1>1. /\ work[h] # None /\ work[h].at = "changed" /\ work' = [work EXCEPT ![h].at = "writing"]
      /\ content' = content /\ expected' = expected /\ mixed' = mixed /\ cutLeaves' = cutLeaves
  BY DEF Truncate, Step
<1>2. /\ Target(F) = "tmp" => tmp' = [kind |-> "torn"] /\ torn' = torn
      /\ Target(F) # "tmp" => torn' = torn \cup {F} /\ tmp' = tmp
  BY <1>0 DEF Truncate
<1>3. F \in Files OBVIOUS
<1>4. /\ WorkShape' /\ WorkTypes'
      /\ \A g \in Handlers \ {h} : work'[g] = work[g]
      /\ work'[h] # None /\ work'[h].at = "writing"
      /\ work'[h].file = F /\ work'[h].copy = work[h].copy /\ work'[h].op = work[h].op
      /\ work'[h].entry = work[h].entry /\ work'[h].into = work[h].into
      /\ work'[h].spoilt = work[h].spoilt
  BY <1>0, <1>1, CallTypes DEF FileInv
<1>5. StoredTypes' BY <1>1, <1>2, <1>3 DEF FileInv, FileTypes, StoredTypes
<1>6. ConfigWhole' BY <1>0, <1>1, <1>4 DEF FileInv, ConfigWhole, Works
<1>7. ASSUME NEW f \in Files \ mixed PROVE Calm(f)'
  <2>1. CASE f # F
    <3>1. F = "env" \/ tmp' = tmp BY <1>2, <1>3, TargetFacts
    <3>2. f \in torn' => f \in torn BY <1>2, <2>1
    <3>3. \A g \in Handlers : work[g] # None /\ work[g].file # F => work'[g] = work[g]
      BY <1>0, <1>4
    <3>4. \A g \in Handlers : work'[g] # None => work[g] # None /\ work'[g].file = work[g].file
      BY <1>0, <1>1, <1>4
    <3>5. QED BY <1>1, <1>3, <1>7, <2>1, <3>1, <3>2, <3>3, <3>4, OthersCalm
  <2>2. CASE f = F
    <3>1. Calm(F) BY <1>7, <2>2 DEF FileInv
    <3>2. \A g \in Handlers : Works(g, F)' <=> Works(g, F) BY <1>0, <1>1, <1>4 DEF Works
    <3>3. Works(h, F) BY <1>0, <1>1 DEF Works
    <3>4. \A g \in Handlers : Works(g, F) => g = h BY <3>1, <3>3 DEF Calm
    <3>5. CopyIsNext(h, F)'
      BY <1>1, <1>4, <3>1, <3>3 DEF Calm, CopyIsNext
    <3>6. F \in torn' => F # "env" /\ Works(h, F)' /\ work'[h].at = "writing"
      BY <1>2, <1>4, <3>1, <3>2, <3>3, TargetFacts DEF Calm
    <3>7. content'[F] = expected'[F] BY <1>1, <3>1 DEF Calm
    <3>8. QED BY <2>2, <3>2, <3>4, <3>5, <3>6, <3>7 DEF Calm
  <2>3. QED BY <2>1, <2>2
<1>8. QED BY <1>1, <1>4, <1>5, <1>6, <1>7 DEF FileInv, FileTypes

\* writeFile fills its file in place: with the call's copy, or with a mixture
\* where a rival wrote, and then the file counts as mixed.
LEMMA FillInPlaceKeeps ==
  ASSUME FileInv, NEW h \in Handlers, FillInPlace(h)
  PROVE  FileInv'
<1>0. PICK F \in Files : F = work[h].file
  BY DEF FillInPlace, FileInv, FileTypes, WorkTypes, CallsWith
<1>1. /\ work[h] # None /\ work[h].at = "writing" /\ Target(F) = F
      /\ work' = Spoil(h, None)
      /\ tmp' = tmp /\ mixed' = mixed /\ cutLeaves' = cutLeaves
      /\ F \in mixed => expected' = expected
      /\ F \notin mixed => expected' = [expected EXCEPT ![F] = Result(F, work[h].op, work[h].entry, expected[F])]
  BY <1>0 DEF FillInPlace, Succeeds
<1>2. \/ content' = [content EXCEPT ![F] = work[h].copy] /\ torn' = torn \ {F}
      \/ work[h].spoilt /\ torn' = torn \cup {F} /\ content' = content
  BY <1>0 DEF FillInPlace
<1>3. F \in Files OBVIOUS
<1>4. F # "env" BY <1>1, <1>3, TargetFacts
<1>5. /\ WorkShape'
      /\ work'[h] = None
      /\ \A g \in Handlers \ {h} : work'[g] = work[g] \/ (g \in Rivals(h) /\ work'[g] = [work[g] EXCEPT !.spoilt = TRUE])
  BY <1>1 DEF Spoil, WorkShape, Rivals
<1>6. ASSUME NEW g \in Rivals(h)
      PROVE  LET s == [work[g] EXCEPT !.spoilt = TRUE]
             IN  /\ s \in CallsWith(s.copy) /\ s # None /\ s.file = work[g].file /\ s.copy = work[g].copy
                 /\ s.into = work[g].into /\ s.at = work[g].at
                 /\ work[g] # None /\ work[g].file = F
  <2>1. g \in Handlers /\ work[g] # None /\ work[g].file = F BY <1>0, <1>6 DEF Rivals
  <2>2. work[g] \in CallsWith(work[g].copy) BY <2>1 DEF FileInv, FileTypes, WorkTypes
  <2>3. QED BY <2>1, <2>2 DEF CallsWith, None
<1>7. \A g \in Handlers : work'[g] # None =>
        /\ work[g] # None /\ work'[g].file = work[g].file /\ work'[g].copy = work[g].copy
        /\ work'[g].into = work[g].into /\ work'[g].at = work[g].at
        /\ work'[g] \in CallsWith(work'[g].copy)
  <2> SUFFICES ASSUME NEW g \in Handlers, work'[g] # None
               PROVE  /\ work[g] # None /\ work'[g].file = work[g].file /\ work'[g].copy = work[g].copy
                      /\ work'[g].into = work[g].into /\ work'[g].at = work[g].at
                      /\ work'[g] \in CallsWith(work'[g].copy)
    OBVIOUS
  <2>1. g # h BY <1>5
  <2>2. CASE work'[g] = work[g] BY <2>2 DEF FileInv, FileTypes, WorkTypes
  <2>3. CASE g \in Rivals(h) /\ work'[g] = [work[g] EXCEPT !.spoilt = TRUE] BY <1>6, <2>3
  <2>4. QED BY <1>5, <2>1, <2>2, <2>3
<1>8. WorkTypes'
  <2>1. \A g \in Handlers : work'[g] = None \/ work'[g] \in CallsWith(work'[g].copy) BY <1>7
  <2>2. \A g \in Handlers : work'[g] # None =>
          /\ work'[g].into \in {Target(work'[g].file), "env"}
          /\ work'[g].at = "written" => work'[g].file = "env"
    BY <1>7 DEF FileInv, FileTypes, WorkTypes
  <2>3. QED BY <2>1, <2>2 DEF WorkTypes
<1>9. StoredTypes'
  <2>1. /\ content' = [f \in Files |-> content'[f]] /\ DOMAIN content' = Files
    BY <1>2, <1>3 DEF FileInv, FileTypes, StoredTypes
  <2>2. /\ expected' = [f \in Files |-> expected'[f]] /\ DOMAIN expected' = Files
    BY <1>1, <1>3 DEF FileInv, FileTypes, StoredTypes
  <2>3. torn' \subseteq Files /\ mixed' \subseteq Files /\ tmp'.kind \in {"none", "torn", "full"}
    BY <1>1, <1>2, <1>3 DEF FileInv, FileTypes, StoredTypes
  <2>4. QED BY <2>1, <2>2, <2>3 DEF StoredTypes
<1>10. ConfigWhole'
  <2>1. \A g \in Handlers : Works(g, "gateway")' => Works(g, "gateway") /\ work'[g].copy = work[g].copy
    BY <1>7 DEF Works
  <2>2. F = "gateway" => WholeConfig(work[h].copy, cutLeaves) BY <1>0, <1>1 DEF FileInv, ConfigWhole, Works
  <2>3. WholeConfig(content'["gateway"], cutLeaves)
    BY <1>2, <1>3, <2>2 DEF FileInv, FileTypes, StoredTypes, ConfigWhole, Files
  <2>4. cutLeaves' = cutLeaves BY <1>1
  <2>5. QED BY <2>1, <2>3, <2>4 DEF FileInv, ConfigWhole
<1>11. ASSUME NEW f \in Files \ mixed PROVE Calm(f)'
  <2>1. CASE f # F
    <3>1. content'[f] = content[f] /\ expected'[f] = expected[f]
      BY <1>1, <1>2, <1>3, <2>1 DEF FileInv, FileTypes, StoredTypes
    <3>2. f \in torn' => f \in torn BY <1>2, <2>1
    <3>3. \A g \in Handlers : work[g] # None /\ work[g].file # F => work'[g] = work[g]
      BY <1>0, <1>5, <1>6
    <3>4. QED BY <1>1, <1>3, <1>7, <1>11, <2>1, <3>1, <3>2, <3>3, OthersCalm
  <2>2. CASE f = F
    <3>1. Calm(F) BY <1>11, <2>2 DEF FileInv
    <3>2. Works(h, F) BY <1>0, <1>1 DEF Works
    <3>3. CopyIsNext(h, F) BY <3>1, <3>2 DEF Calm
    <3>4. \A g \in Handlers : Works(g, F) => g = h BY <3>1, <3>2 DEF Calm
    <3>5. \A g \in Handlers : ~Works(g, F)' BY <1>5, <1>7, <3>4 DEF Works
    <3>6. content' = [content EXCEPT ![F] = work[h].copy] /\ torn' = torn \ {F}
      BY <1>2, <3>3 DEF CopyIsNext
    <3>7. content'[F] = work[h].copy BY <1>3, <3>6 DEF FileInv, FileTypes, StoredTypes
    <3>8. expected'[F] = Result(F, work[h].op, work[h].entry, expected[F])
      BY <1>1, <1>3, <1>11, <2>2 DEF FileInv, FileTypes, StoredTypes
    <3>9. content'[F] = expected'[F] BY <3>3, <3>7, <3>8 DEF CopyIsNext
    <3>10. QED BY <2>2, <3>5, <3>6, <3>9 DEF Calm
  <2>3. QED BY <2>1, <2>2
<1>12. QED BY <1>1, <1>5, <1>8, <1>9, <1>10, <1>11 DEF FileInv, FileTypes

\* The temporary file is complete; where a rename took it away meanwhile the
\* bytes went to .env, which then counts as mixed.
LEMMA FillTemporaryKeeps ==
  ASSUME FileInv, NEW h \in Handlers, FillTemporary(h)
  PROVE  FileInv'
<1>1. /\ work[h] # None /\ work[h].at = "writing" /\ Target(work[h].file) = "tmp"
      /\ work' = [work EXCEPT ![h].at = "written"]
      /\ expected' = expected /\ mixed' = mixed /\ cutLeaves' = cutLeaves
  BY DEF FillTemporary, Step
<1>2. /\ work[h].into = "tmp" => /\ tmp' = [kind |-> "full", copy |-> work[h].copy]
                                 /\ content' = content /\ torn' = torn
      /\ work[h].into # "tmp" => /\ content' = [content EXCEPT !["env"] = work[h].copy]
                                 /\ torn' = torn \ {"env"} /\ tmp' = tmp
  BY DEF FillTemporary
<1>3. work[h].file = "env" /\ "env" \in Files
  BY <1>1, TargetFacts DEF FileInv, FileTypes, WorkTypes, CallsWith, Files
<1>4. /\ WorkShape' /\ WorkTypes'
      /\ \A g \in Handlers \ {h} : work'[g] = work[g]
      /\ work'[h] # None /\ work'[h].at = "written"
      /\ work'[h].file = work[h].file /\ work'[h].copy = work[h].copy /\ work'[h].op = work[h].op
      /\ work'[h].entry = work[h].entry /\ work'[h].into = work[h].into
      /\ work'[h].spoilt = work[h].spoilt
  BY <1>1, <1>3, CallTypes DEF FileInv
<1>5. StoredTypes'
  <2>1. /\ content' = [f \in Files |-> content'[f]] /\ DOMAIN content' = Files
    BY <1>2, <1>3 DEF FileInv, FileTypes, StoredTypes
  <2>2. /\ expected' = [f \in Files |-> expected'[f]] /\ DOMAIN expected' = Files
    BY <1>1 DEF FileInv, FileTypes, StoredTypes
  <2>3. torn' \subseteq Files /\ mixed' \subseteq Files /\ tmp'.kind \in {"none", "torn", "full"}
    BY <1>1, <1>2 DEF FileInv, FileTypes, StoredTypes
  <2>4. QED BY <2>1, <2>2, <2>3 DEF StoredTypes
<1>6. ConfigWhole'
  <2>1. \A g \in Handlers : Works(g, "gateway")' => Works(g, "gateway") /\ work'[g] = work[g]
    BY <1>3, <1>4 DEF Works
  <2>2. content'["gateway"] = content["gateway"]
    BY <1>2 DEF FileInv, FileTypes, StoredTypes, Files
  <2>3. cutLeaves' = cutLeaves BY <1>1
  <2>4. QED BY <2>1, <2>2, <2>3 DEF FileInv, ConfigWhole
<1>7. ASSUME NEW f \in Files \ mixed PROVE Calm(f)'
  <2>1. CASE f # "env"
    <3>1. content'[f] = content[f] /\ expected'[f] = expected[f]
      BY <1>1, <1>2, <2>1 DEF FileInv, FileTypes, StoredTypes
    <3>2. f \in torn' => f \in torn BY <1>2
    <3>3. \A g \in Handlers : work[g] # None /\ work[g].file # "env" => work'[g] = work[g]
      BY <1>3, <1>4
    <3>4. \A g \in Handlers : work'[g] # None => work[g] # None /\ work'[g].file = work[g].file
      BY <1>1, <1>4
    <3>5. QED BY <1>3, <1>7, <2>1, <3>1, <3>2, <3>3, <3>4, OthersCalm
  <2>2. CASE f = "env"
    <3>1. Calm("env") BY <1>7, <2>2 DEF FileInv
    <3>2. Works(h, "env") BY <1>1, <1>3 DEF Works
    <3>3. CopyIsNext(h, "env") BY <3>1, <3>2 DEF Calm
    <3>4. \A g \in Handlers : Works(g, "env")' <=> Works(g, "env") BY <1>1, <1>4 DEF Works
    <3>5. \A g \in Handlers : Works(g, "env") => g = h BY <3>1, <3>2 DEF Calm
    <3>6. work[h].into = "tmp" BY <3>3, TargetFacts DEF CopyIsNext, Files
    <3>7. CopyIsNext(h, "env")' BY <1>1, <1>2, <1>4, <3>3, <3>6 DEF CopyIsNext
    <3>8. content'["env"] = expected'["env"] /\ "env" \notin torn'
      BY <1>1, <1>2, <3>1, <3>6 DEF Calm
    <3>9. QED BY <2>2, <3>4, <3>5, <3>7, <3>8 DEF Calm
  <2>3. QED BY <2>1, <2>2
<1>8. QED BY <1>1, <1>4, <1>5, <1>6, <1>7 DEF FileInv, FileTypes

\* rename: .env is what the call made of its history.
LEMMA RenameKeeps ==
  ASSUME FileInv, NEW h \in Handlers, Rename(h)
  PROVE  FileInv'
<1>1. /\ work[h] # None /\ work[h].at = "written" /\ mixed' = mixed /\ cutLeaves' = cutLeaves
      /\ work' = [g \in Handlers |-> IF g = h THEN None
                    ELSE IF tmp.kind # "none" /\ work[g] # None /\ work[g].at = "writing" /\ work[g].into = "tmp"
                           THEN [work[g] EXCEPT !.into = "env"] ELSE work[g]]
  BY DEF Rename
<1>2. work[h].file = "env" /\ "env" \in Files
  BY <1>1 DEF FileInv, FileTypes, WorkTypes, Files
<1>3. /\ "env" \in mixed => expected' = expected
      /\ "env" \notin mixed =>
           expected' = [expected EXCEPT !["env"] = Result("env", work[h].op, work[h].entry, expected["env"])]
  BY <1>2 DEF Rename, Succeeds
<1>4. /\ tmp.kind = "none" => content' = content /\ torn' = torn /\ tmp' = tmp
      /\ tmp.kind = "full" => /\ content' = [content EXCEPT !["env"] = tmp.copy]
                              /\ torn' = torn \ {"env"} /\ tmp' = None
      /\ tmp.kind = "torn" => torn' = torn \cup {"env"} /\ tmp' = None /\ content' = content
  <2>1. CASE tmp.kind = "none" BY <2>1 DEF Rename
  <2>2. CASE tmp.kind = "full" BY <2>2 DEF Rename
  <2>3. CASE tmp.kind = "torn" BY <2>3 DEF Rename
  <2>4. QED BY <2>1, <2>2, <2>3 DEF FileInv, FileTypes, StoredTypes
<1>5. tmp.kind \in {"none", "full", "torn"} BY DEF FileInv, FileTypes, StoredTypes
<1>6. /\ WorkShape' /\ work'[h] = None
      /\ \A g \in Handlers \ {h} :
           \/ work'[g] = work[g]
           \/ /\ work[g] # None /\ work[g].into = "tmp" /\ work[g].at = "writing"
              /\ work'[g] = [work[g] EXCEPT !.into = "env"]
  BY <1>1 DEF WorkShape
<1>7. ASSUME NEW g \in Handlers, work'[g] # None
      PROVE  /\ work[g] # None /\ work'[g].file = work[g].file /\ work'[g].copy = work[g].copy
             /\ work'[g].at = work[g].at /\ work'[g].into \in {work[g].into, "env"}
             /\ work'[g] \in CallsWith(work'[g].copy)
             /\ work[g].file = "env" \/ work'[g] = work[g]
  <2>1. g # h BY <1>6, <1>7
  <2>2. CASE work'[g] = work[g] BY <1>7, <2>2 DEF FileInv, FileTypes, WorkTypes
  <2>3. CASE /\ work[g] # None /\ work[g].into = "tmp" /\ work[g].at = "writing"
             /\ work'[g] = [work[g] EXCEPT !.into = "env"]
    <3>1. work[g] \in CallsWith(work[g].copy) BY <2>3 DEF FileInv, FileTypes, WorkTypes
    <3>2. work[g].file \in Files BY <3>1 DEF CallsWith
    <3>3. work[g].file = "env" BY <2>3, <3>2, TargetFacts DEF FileInv, FileTypes, WorkTypes
    <3>4. QED BY <2>3, <3>1, <3>3 DEF CallsWith, None, Files
  <2>4. QED BY <1>6, <2>1, <2>2, <2>3
<1>8. WorkTypes'
  <2>1. \A g \in Handlers : work'[g] = None \/ work'[g] \in CallsWith(work'[g].copy) BY <1>7
  <2>2. \A g \in Handlers : work'[g] # None =>
          /\ work'[g].into \in {Target(work'[g].file), "env"}
          /\ work'[g].at = "written" => work'[g].file = "env"
    BY <1>7 DEF FileInv, FileTypes, WorkTypes
  <2>3. QED BY <2>1, <2>2 DEF WorkTypes
<1>9. StoredTypes'
  <2>1. /\ content' = [f \in Files |-> content'[f]] /\ DOMAIN content' = Files
    BY <1>2, <1>4, <1>5 DEF FileInv, FileTypes, StoredTypes
  <2>2. /\ expected' = [f \in Files |-> expected'[f]] /\ DOMAIN expected' = Files
    BY <1>2, <1>3 DEF FileInv, FileTypes, StoredTypes
  <2>3. torn' \subseteq Files /\ mixed' \subseteq Files
    BY <1>1, <1>2, <1>4, <1>5 DEF FileInv, FileTypes, StoredTypes
  <2>4. tmp'.kind \in {"none", "torn", "full"} BY <1>4, <1>5 DEF None
  <2>5. QED BY <2>1, <2>2, <2>3, <2>4 DEF StoredTypes
<1>10. ConfigWhole'
  <2>1. \A g \in Handlers : Works(g, "gateway")' => Works(g, "gateway") /\ work'[g].copy = work[g].copy
    BY <1>7 DEF Works
  <2>2. content'["gateway"] = content["gateway"]
    BY <1>4, <1>5 DEF FileInv, FileTypes, StoredTypes, Files
  <2>3. cutLeaves' = cutLeaves BY <1>1
  <2>4. QED BY <2>1, <2>2, <2>3 DEF FileInv, ConfigWhole
<1>11. ASSUME NEW f \in Files \ mixed PROVE Calm(f)'
  <2>1. CASE f # "env"
    <3>1. content'[f] = content[f] /\ expected'[f] = expected[f]
      BY <1>3, <1>4, <1>5, <2>1 DEF FileInv, FileTypes, StoredTypes
    <3>2. f \in torn' => f \in torn BY <1>4, <1>5, <2>1
    <3>3. \A g \in Handlers : work[g] # None /\ work[g].file # "env" => work'[g] = work[g]
      <4> SUFFICES ASSUME NEW g \in Handlers, work[g] # None, work[g].file # "env" PROVE work'[g] = work[g]
        OBVIOUS
      <4>1. g # h BY <1>2
      <4>2. work[g].file \in Files /\ work[g].into \in {Target(work[g].file), "env"}
        BY DEF FileInv, FileTypes, WorkTypes, CallsWith
      <4>3. work[g].into # "tmp" BY <4>2, TargetFacts
      <4>4. QED BY <1>6, <4>1, <4>3
    <3>4. QED BY <1>2, <1>7, <1>11, <2>1, <3>1, <3>2, <3>3, OthersCalm
  <2>2. CASE f = "env"
    <3>1. Calm("env") BY <1>11, <2>2 DEF FileInv
    <3>2. Works(h, "env") BY <1>1, <1>2 DEF Works
    <3>3. CopyIsNext(h, "env") BY <3>1, <3>2 DEF Calm
    <3>4. \A g \in Handlers : Works(g, "env") => g = h BY <3>1, <3>2 DEF Calm
    <3>5. \A g \in Handlers : ~Works(g, "env")' BY <1>6, <1>7, <3>4 DEF Works
    <3>6. tmp = [kind |-> "full", copy |-> work[h].copy] BY <1>1, <3>3 DEF CopyIsNext
    <3>7. content'["env"] = work[h].copy /\ "env" \notin torn'
      BY <1>2, <1>4, <3>6 DEF FileInv, FileTypes, StoredTypes
    <3>8. expected'["env"] = Result("env", work[h].op, work[h].entry, expected["env"])
      BY <1>2, <1>3, <1>11, <2>2 DEF FileInv, FileTypes, StoredTypes
    <3>9. content'["env"] = expected'["env"] BY <3>3, <3>7, <3>8 DEF CopyIsNext
    <3>10. QED BY <2>2, <3>5, <3>7, <3>9 DEF Calm
  <2>3. QED BY <2>1, <2>2
<1>12. QED BY <1>1, <1>6, <1>8, <1>9, <1>10, <1>11 DEF FileInv, FileTypes

\* The server stops: a file a call was at work on counts as mixed, .env not.
LEMMA FileCrashKeeps ==
  ASSUME FileInv, FileCrash
  PROVE  FileInv'
<1>1. /\ work' = [h \in Handlers |-> None]
      /\ mixed' = mixed \cup {f \in Files \ {"env"} : Busy(f)}
      /\ content' = content /\ torn' = torn /\ tmp' = tmp /\ expected' = expected
      /\ cutLeaves' = cutLeaves
  BY DEF FileCrash
<1>2. \A h \in Handlers : work'[h] = None BY <1>1
<1>3. WorkShape' /\ WorkTypes' BY <1>1, <1>2 DEF WorkShape, WorkTypes
<1>4. mixed' \subseteq Files BY <1>1 DEF FileInv, FileTypes, StoredTypes
<1>5. StoredTypes' BY <1>1, <1>4 DEF FileInv, FileTypes, StoredTypes
<1>6. ConfigWhole' BY <1>1, <1>2 DEF FileInv, ConfigWhole, Works
<1>7. ASSUME NEW f \in Files \ mixed' PROVE Calm(f)'
  <2>1. f \in Files \ mixed /\ Calm(f) BY <1>1, <1>7 DEF FileInv
  <2>2. f \notin torn BY <1>1, <1>7, <2>1 DEF Calm, Busy, Works
  <2>3. \A g \in Handlers : ~Works(g, f)' BY <1>2 DEF Works
  <2>4. content'[f] = expected'[f] BY <1>1, <2>1 DEF Calm
  <2>5. QED BY <1>1, <2>2, <2>3, <2>4 DEF Calm
<1>8. QED BY <1>3, <1>5, <1>6, <1>7 DEF FileInv, FileTypes

\* A write fails: its file counts as mixed, .env is as it was.
LEMMA FileFailsKeeps ==
  ASSUME FileInv, NEW h \in Handlers, FileFails(h)
  PROVE  FileInv'
<1>1. /\ work' = [work EXCEPT ![h] = None] /\ work[h] # None
      /\ mixed' = mixed \cup ({work[h].file} \ {"env"})
      /\ content' = content /\ torn' = torn /\ tmp' = tmp /\ expected' = expected
      /\ cutLeaves' = cutLeaves
  BY DEF FileFails
<1>2. work'[h] = None /\ \A g \in Handlers \ {h} : work'[g] = work[g]
  BY <1>1 DEF FileInv, FileTypes, WorkShape
<1>3. WorkShape' BY <1>1 DEF FileInv, FileTypes, WorkShape
<1>4. WorkTypes' BY <1>2 DEF FileInv, FileTypes, WorkTypes
<1>5. work[h].file \in Files BY <1>1 DEF FileInv, FileTypes, WorkTypes, CallsWith
<1>6. StoredTypes' BY <1>1, <1>5 DEF FileInv, FileTypes, StoredTypes
<1>7. ConfigWhole' BY <1>1, <1>2 DEF FileInv, ConfigWhole, Works
<1>8. ASSUME NEW f \in Files \ mixed' PROVE Calm(f)'
  <2>1. f \in Files \ mixed /\ Calm(f) BY <1>1, <1>8 DEF FileInv
  <2>2. CASE work[h].file = f
    <3>1. f = "env" BY <1>1, <1>8, <2>2
    <3>2. Works(h, f) BY <1>1, <2>2 DEF Works
    <3>3. \A g \in Handlers : ~Works(g, f)' BY <1>2, <2>1, <3>2 DEF Calm, Works
    <3>4. f \notin torn BY <2>1, <3>1 DEF Calm
    <3>5. QED BY <1>1, <2>1, <3>3, <3>4 DEF Calm
  <2>3. CASE work[h].file # f
    <3>1. \A g \in Handlers : Works(g, f)' <=> Works(g, f) BY <1>2, <2>3 DEF Works
    <3>2. \A g \in Handlers : Works(g, f) => work'[g] = work[g] BY <1>2, <2>3 DEF Works
    <3>3. \A g \in Handlers : Works(g, f) /\ work[g].at = "written" => f = "env"
      BY DEF FileInv, FileTypes, WorkTypes, Works
    <3>4. QED BY <1>1, <2>1, <3>1, <3>2, <3>3, CalmFrame
  <2>4. QED BY <2>2, <2>3
<1>9. QED BY <1>3, <1>4, <1>6, <1>7, <1>8 DEF FileInv, FileTypes

\* At the start nobody is at work and the files are their history.
LEMMA FileInitInv == FileInit => FileInv
<1> SUFFICES ASSUME FileInit PROVE FileInv OBVIOUS
<1>1. \A h \in Handlers : work[h] = None BY DEF FileInit
<1>2. WorkShape /\ WorkTypes BY <1>1 DEF WorkShape, WorkTypes, FileInit
<1>3. content = [f \in Files |-> content[f]] /\ DOMAIN content = Files
  <2> DEFINE E(f) == CASE f = "cron" -> [x \in {"job1"} |-> "on"]
                       [] f = "tokens" -> [x \in {"old"} |-> "on"]
                       [] f = "env" -> [x \in {"PATH"} |-> "on"]
                       [] f = "gateway" -> [x \in {"password", "list", "port"} |-> "on"]
  <2>1. content = [f \in Files |-> E(f)] BY DEF FileInit
  <2> HIDE DEF E
  <2>2. QED BY <2>1
<1>4. expected = content /\ torn = {} /\ mixed = {} /\ tmp = None BY DEF FileInit
<1>5. StoredTypes BY <1>3, <1>4 DEF StoredTypes, None
<1>6. WholeConfig(content["gateway"], cutLeaves)
  <2>1. content["gateway"] = [x \in {"password", "list", "port"} |-> "on"] BY DEF FileInit, Files
  <2>2. QED BY <2>1 DEF WholeConfig
<1>7. ConfigWhole BY <1>1, <1>6 DEF ConfigWhole, Works
<1>8. ASSUME NEW f \in Files \ mixed PROVE Calm(f)
  BY <1>1, <1>4 DEF Calm, Works
<1>9. QED BY <1>2, <1>5, <1>7, <1>8 DEF FileInv, FileTypes

\* Every step of a handler, and every stop of the server, keeps FileInv.
LEMMA FileNextInv == FileInv /\ [FileNext]_fileVars => FileInv'
<1> SUFFICES ASSUME FileInv, [FileNext]_fileVars PROVE FileInv' OBVIOUS
<1>1. ASSUME NEW h \in Handlers, NEW f \in Files, NEW r \in Requests(f),
             ReadAndChange(h, f, r[1], r[2])
      PROVE  FileInv'
  BY <1>1, ReadKeeps
<1>2. ASSUME NEW h \in Handlers, Truncate(h) \/ FillInPlace(h) \/ FillTemporary(h) \/ Rename(h)
      PROVE  FileInv'
  BY <1>2, TruncateKeeps, FillInPlaceKeeps, FillTemporaryKeeps, RenameKeeps
<1>6. ASSUME NEW h \in Handlers, FileFails(h) PROVE FileInv' BY <1>6, FileFailsKeeps
<1>3. CASE FileCrash BY <1>3, FileCrashKeeps
<1>4. CASE UNCHANGED fileVars
  <2>1. /\ content' = content /\ torn' = torn /\ tmp' = tmp /\ work' = work
        /\ expected' = expected /\ mixed' = mixed /\ cutLeaves' = cutLeaves
    BY <1>4 DEF fileVars
  <2>2. FileTypes' /\ ConfigWhole'
    BY <2>1 DEF FileInv, FileTypes, StoredTypes, WorkShape, WorkTypes, ConfigWhole, Works
  <2>3. \A f \in Files \ mixed' : Calm(f)'
    BY <2>1 DEF FileInv, Calm, CopyIsNext, Works
  <2>4. QED BY <2>2, <2>3 DEF FileInv
<1>5. QED BY <1>1, <1>2, <1>3, <1>4, <1>6 DEF FileNext

\* The strengthened invariant of the shared files.
THEOREM FileInvHolds == FileSpec => []FileInv
BY FileInitInv, FileNextInv, PTL DEF FileSpec

\* api/cron, api/tokens, api/integrations and api/gateway-config: for any
\* number of handlers, calls and stops of the server, a file on which calls
\* did not overlap holds what they would have left one after the other, .env
\* is whole even in between, and openclaw.json keeps its password.
THEOREM FilesCorrect == FileSpec => []FilesSafe
<1>1. ASSUME FileInv PROVE FilesSafe
  <2>1. QuietFileIsRight
    <3> SUFFICES ASSUME NEW f \in Files, ~Busy(f), f \notin mixed
                 PROVE  f \notin torn /\ content[f] = expected[f]
      BY DEF QuietFileIsRight
    <3>1. Calm(f) BY <1>1 DEF FileInv
    <3>2. QED BY <3>1 DEF Calm, Busy, Works
  <2>2. EnvIsWhole BY <1>1 DEF FileInv, EnvIsWhole, Calm, Files
  <2>3. GatewayKeepsPassword BY <1>1 DEF FileInv, ConfigWhole, WholeConfig, GatewayKeepsPassword
  <2>4. QED BY <2>1, <2>2, <2>3 DEF FilesSafe
<1>2. QED BY <1>1, FileInvHolds, PTL

(***************************************************************************)
(* Users, sessions and access requests.                                    *)
(*                                                                         *)
(* OneAccountPerPerson counts the rows linked to an identity.  What keeps  *)
(* it is about more rows than that: whoever has a row with the person's    *)
(* e-mail, or a linked one, has only that row, so that the approval and    *)
(* the login find it and make no second one.                               *)
(***************************************************************************)
SessionRow == [user : 0..MaxUsers, expired : BOOLEAN]

\* Beyond OneAccountPerPerson: a linked row is a Google row, and no person
\* whose e-mail nobody typed is found in two rows.
RowsAreFound ==
    /\ \A i \in DOMAIN users : users[i].sub # Nobody => users[i].provider = "google"
    /\ \A p \in People \ handEdited : \A i, j \in Accounts(p) : i = j

AccInv ==
    /\ AccTypeOK /\ unguarded \in BOOLEAN
    /\ RowsAreFound /\ NoOrphanSession /\ AnAdminStays

\* Every nonempty set of numbers has a smallest one.
LEMMA SmallestOf ==
  ASSUME NEW T, T \subseteq Nat, T # {}
  PROVE  \E x \in T : \A y \in T : x <= y
<1>1. PICK x \in T : \A y \in T : ~(<<y, x>> \in OpToRel(<, Nat))
  BY NatLessThanWellFounded, WFMin
<1>2. \A y \in T : ~(y < x) BY <1>1 DEF OpToRel
<1>3. QED BY <1>2

\* ORDER BY id LIMIT 1: where a person has accounts, one of them is found.
LEMMA AccountFound ==
  ASSUME AccInv, NEW p \in People, Accounts(p) # {}
  PROVE  AccountOf(p) \in Accounts(p) /\ AccountOf(p) \in DOMAIN users
<1>1. Accounts(p) \subseteq DOMAIN users /\ DOMAIN users \subseteq Nat
  BY AccountsAssumption DEF Accounts, AccInv, AccTypeOK
<1>2. \E i \in Accounts(p) : \A j \in Accounts(p) : i <= j
  BY <1>1, SmallestOf
<1>3. AccountOf(p) \in Accounts(p) BY <1>2 DEF AccountOf
<1>4. QED BY <1>1, <1>3

\* UPDATE of one row of users.
LEMMA RowWritten ==
  ASSUME AccInv, NEW id \in DOMAIN users, NEW row \in UserRow, users' = [users EXCEPT ![id] = row]
  PROVE  /\ DOMAIN users' = DOMAIN users /\ users'[id] = row
         /\ \A i \in DOMAIN users \ {id} : users'[i] = users[i]
         /\ \A i \in DOMAIN users' : users'[i] \in UserRow
BY DEF AccInv, AccTypeOK

\* INSERT into users with the next id.
LEMMA RowInserted ==
  ASSUME AccInv, NEW row \in UserRow, users' = With(lastUserId + 1, row),
         lastUserId < MaxUsers, lastUserId' = lastUserId + 1
  PROVE  /\ DOMAIN users' = DOMAIN users \cup {lastUserId + 1}
         /\ lastUserId + 1 \notin DOMAIN users
         /\ users'[lastUserId + 1] = row
         /\ \A i \in DOMAIN users : users'[i] = users[i]
         /\ \A i \in DOMAIN users' : users'[i] \in UserRow
         /\ DOMAIN users' \subseteq 1..lastUserId' /\ lastUserId' \in 1..MaxUsers
<1>1. lastUserId \in Nat /\ lastUserId >= 1 /\ MaxUsers \in Nat /\ DOMAIN users \subseteq 1..lastUserId
  BY AccountsAssumption DEF AccInv, AccTypeOK
<1>2. lastUserId + 1 \notin DOMAIN users BY <1>1
<1>3. DOMAIN users' = DOMAIN users \cup {lastUserId + 1} BY DEF With
<1>4. users'[lastUserId + 1] = row /\ \A i \in DOMAIN users : users'[i] = users[i]
  BY <1>2 DEF With
<1>5. \A i \in DOMAIN users' : users'[i] \in UserRow
  BY <1>3, <1>4 DEF AccInv, AccTypeOK
<1>6. DOMAIN users' \subseteq 1..lastUserId' /\ lastUserId' \in 1..MaxUsers BY <1>1, <1>3
<1>7. QED BY <1>2, <1>3, <1>4, <1>5, <1>6

\* createSession: the new session is the user's, the others stay or go.
LEMMA SessionMade ==
  ASSUME AccInv, NEW id \in 1..MaxUsers, CreateSession(id)
  PROVE  /\ sessions' \in [Tokens -> SessionRow]
         /\ \A t \in Tokens : sessions'[t] # NoSession =>
              sessions'[t].user = id \/ sessions'[t] = sessions[t]
         /\ \A t \in Tokens : sessions[t] = NoSession /\ sessions'[t] # NoSession =>
              sessions'[t].user = id
<1> DEFINE token == CHOOSE t \in Tokens : sessions[t] = NoSession
<1>1. sessions' = [t \in Tokens |->
                     IF t = token THEN [user |-> id, expired |-> FALSE]
                     ELSE IF sessions[t].expired THEN NoSession ELSE sessions[t]]
  BY DEF CreateSession
<1>2. sessions \in [Tokens -> SessionRow] BY DEF AccInv, AccTypeOK, SessionRow
<1>3. NoSession \in SessionRow /\ [user |-> id, expired |-> FALSE] \in SessionRow
  BY AccountsAssumption DEF NoSession, SessionRow
<1> HIDE DEF token
<1>4. \A t \in Tokens : sessions'[t] \in {[user |-> id, expired |-> FALSE], NoSession, sessions[t]}
  BY <1>1
<1>5. sessions' \in [Tokens -> SessionRow] BY <1>1, <1>2, <1>3
<1>6. QED BY <1>4, <1>5

\* A handler answers: the count of its caller goes down.
LEMMA AnswerCounts ==
  ASSUME AccInv, NEW by \in 0..MaxUsers, Answered(by)
  PROVE  adminCalls' \in [0..MaxUsers -> 0..MaxAdminCalls]
<1>1. adminCalls[by] \in 0..MaxAdminCalls /\ adminCalls[by] - 1 \in 0..MaxAdminCalls
  BY AccountsAssumption DEF AccInv, AccTypeOK, Answered
<1>2. QED BY <1>1 DEF AccInv, AccTypeOK, Answered

\* A call comes in: the bound on all calls bounds the caller's.
LEMMA CallCounts ==
  ASSUME AccInv, NEW by \in 0..MaxUsers, AdminCall(by)
  PROVE  adminCalls' \in [0..MaxUsers -> 0..MaxAdminCalls]
<1> DEFINE C == {c \in (0..MaxUsers) \X (1..MaxAdminCalls) : c[2] <= adminCalls[c[1]]}
           F == [k \in 1..MaxAdminCalls |-> <<by, k>>]
<1>1. adminCalls[by] \in 0..MaxAdminCalls /\ MaxAdminCalls \in Nat /\ MaxUsers \in Nat
  BY AccountsAssumption DEF AccInv, AccTypeOK
<1>2. Cardinality(C) < MaxAdminCalls BY DEF AdminCall
<1>3. adminCalls[by] # MaxAdminCalls
  <2> SUFFICES ASSUME adminCalls[by] = MaxAdminCalls PROVE FALSE OBVIOUS
  <2>1. \A k \in 1..MaxAdminCalls : F[k] \in C BY <1>1
  <2>2. F \in Injection(1..MaxAdminCalls, C) BY <2>1 DEF Injection, IsInjective
  <2>3. IsFiniteSet(1..MaxAdminCalls) /\ Cardinality(1..MaxAdminCalls) = MaxAdminCalls
    BY <1>1, FS_Interval
  <2>4. IsFiniteSet(C)
    <3>1. IsFiniteSet(0..MaxUsers) /\ IsFiniteSet(1..MaxAdminCalls) BY <1>1, FS_Interval
    <3>2. IsFiniteSet((0..MaxUsers) \X (1..MaxAdminCalls)) BY <3>1, FS_Product
    <3>3. C \in SUBSET ((0..MaxUsers) \X (1..MaxAdminCalls)) OBVIOUS
    <3>4. QED
      <4> HIDE DEF C
      <4>1. QED BY <3>2, <3>3, FS_Subset
  <2> HIDE DEF C, F
  <2>5. Cardinality(1..MaxAdminCalls) <= Cardinality(C) BY <2>2, <2>4, FS_Injection
  <2>6. Cardinality(C) \in Nat BY <2>4, FS_CardinalityType
  <2>7. QED BY <1>1, <1>2, <2>3, <2>5, <2>6
<1>4. adminCalls[by] + 1 \in 0..MaxAdminCalls BY <1>1, <1>3
<1>5. QED BY <1>4 DEF AccInv, AccTypeOK, AdminCall

\* A user row becomes a person's Google row, at a login or an approval: the
\* person was found in no other row, and nobody else is found in this one.
LEMMA LinkKeeps ==
  ASSUME AccInv, NEW p \in People, Accounts(p) # {}, NEW row \in UserRow,
         row.provider = "google", row.sub = p, row.email = p,
         users' = [users EXCEPT ![AccountOf(p)] = row], handEdited' = handEdited
  PROVE  RowsAreFound'
<1> DEFINE id == AccountOf(p)
<1>1. id \in Accounts(p) /\ id \in DOMAIN users BY AccountFound
<1>2. PICK i0 \in DOMAIN users : i0 = id /\ i0 \in Accounts(p) BY <1>1
<1> HIDE DEF id
<1>3. /\ DOMAIN users' = DOMAIN users /\ users'[i0] = row
      /\ \A i \in DOMAIN users \ {i0} : users'[i] = users[i]
  BY <1>2, RowWritten DEF id
<1>4. \A i \in DOMAIN users' : users'[i].sub # Nobody => users'[i].provider = "google"
  BY <1>3 DEF AccInv, RowsAreFound
<1>5. ASSUME NEW q \in People \ handEdited, NEW i \in DOMAIN users',
             (users'[i].provider = "google" /\ users'[i].sub = q) \/ users'[i].email = q
      PROVE  i \in Accounts(q)
  <2>1. CASE i = i0
    <3>1. q = p BY <1>3, <1>5, <2>1
    <3>2. QED BY <1>2, <2>1, <3>1
  <2>2. CASE i # i0
    <3>1. i \in DOMAIN users /\ users'[i] = users[i] BY <1>3, <1>5, <2>2
    <3>2. QED BY <1>5, <3>1 DEF Accounts
  <2>3. QED BY <2>1, <2>2
<1>6. \A q \in People \ handEdited' : \A i, j \in Accounts(q)' : i = j
  BY <1>5 DEF Accounts, AccInv, RowsAreFound
<1>7. QED BY <1>4, <1>6 DEF RowsAreFound

\* A new row: with a typed e-mail, or for a person who was in no row.
LEMMA InsertKeeps ==
  ASSUME AccInv, NEW row \in UserRow, users' = With(lastUserId + 1, row),
         lastUserId < MaxUsers, lastUserId' = lastUserId + 1,
         row.sub # Nobody => row.provider = "google",
         handEdited \subseteq handEdited',
         \A q \in People \ handEdited' : row.sub = q \/ row.email = q => Accounts(q) = {}
  PROVE  RowsAreFound'
<1> DEFINE n == lastUserId + 1
<1>0. PICK n0 : n0 = n OBVIOUS
<1>1. /\ DOMAIN users' = DOMAIN users \cup {n0} /\ n0 \notin DOMAIN users
      /\ users'[n0] = row /\ \A i \in DOMAIN users : users'[i] = users[i]
  BY <1>0, RowInserted
<1>2. \A i \in DOMAIN users' : users'[i].sub # Nobody => users'[i].provider = "google"
  BY <1>1 DEF AccInv, RowsAreFound
<1>3. ASSUME NEW q \in People \ handEdited', NEW i \in Accounts(q)', NEW j \in Accounts(q)'
      PROVE  i = j
  <2>1. \A k \in DOMAIN users : k \in Accounts(q)' => k \in Accounts(q)
    BY <1>1 DEF Accounts
  <2>2. i \in DOMAIN users' /\ j \in DOMAIN users' BY DEF Accounts
  <2>3. n0 \in Accounts(q)' => Accounts(q) = {} BY <1>1 DEF Accounts
  <2>4. CASE n0 \in Accounts(q)'
    BY <1>1, <2>1, <2>2, <2>3, <2>4
  <2>5. CASE n0 \notin Accounts(q)'
    <3>1. i \in Accounts(q) /\ j \in Accounts(q) BY <1>1, <2>1, <2>2, <2>5
    <3>2. q \in People \ handEdited OBVIOUS
    <3>3. QED BY <3>1, <3>2 DEF AccInv, RowsAreFound
  <2>6. QED BY <2>4, <2>5
<1>4. QED BY <1>2, <1>3 DEF RowsAreFound

\* Steps that leave users alone and give no session away.
LEMMA SameUsers ==
  ASSUME AccInv, users' = users, lastUserId' = lastUserId, handEdited' = handEdited,
         unguarded => unguarded', unguarded' \in BOOLEAN,
         sessions' \in [Tokens -> SessionRow],
         \A t \in Tokens : sessions'[t] # NoSession => sessions'[t].user \in DOMAIN users,
         requests' \in [People -> {"none", "pending", "approved", "rejected"}],
         adminCalls' \in [0..MaxUsers -> 0..MaxAdminCalls]
  PROVE  AccInv'
<1>1. AccTypeOK' BY DEF AccInv, AccTypeOK, SessionRow
<1>2. RowsAreFound' BY DEF AccInv, RowsAreFound, Accounts
<1>3. NoOrphanSession' BY DEF NoOrphanSession, Exists
<1>4. AnAdminStays' BY DEF AccInv, AnAdminStays
<1>5. QED BY <1>1, <1>2, <1>3, <1>4 DEF AccInv

\* Logging in and out, sessions that expire, and a new request.
LEMMA SigningKeeps ==
  ASSUME AccInv,
         \/ \E id \in 1..MaxUsers : Login(id)
         \/ \E p \in People : GooglePending(p)
         \/ \E t \in Tokens : Logout(t)
         \/ SessionsExpire
         \/ \E by \in 0..MaxUsers : AdminCall(by) \/ Refused(by)
  PROVE  AccInv'
<1>0. /\ users' = users /\ lastUserId' = lastUserId /\ handEdited' = handEdited
      /\ unguarded' = unguarded
  BY DEF Login, GooglePending, Logout, SessionsExpire, AdminCall, Refused
<1>1. /\ sessions \in [Tokens -> SessionRow]
      /\ requests \in [People -> {"none", "pending", "approved", "rejected"}]
      /\ adminCalls \in [0..MaxUsers -> 0..MaxAdminCalls]
      /\ unguarded \in BOOLEAN
      /\ \A t \in Tokens : sessions[t] # NoSession => sessions[t].user \in DOMAIN users
  BY DEF AccInv, AccTypeOK, SessionRow, NoOrphanSession, Exists
<1>2. SUFFICES /\ sessions' \in [Tokens -> SessionRow]
               /\ \A t \in Tokens : sessions'[t] # NoSession => sessions'[t].user \in DOMAIN users
               /\ requests' \in [People -> {"none", "pending", "approved", "rejected"}]
               /\ adminCalls' \in [0..MaxUsers -> 0..MaxAdminCalls]
  BY <1>0, <1>1, SameUsers
<1>3. CASE \E id \in 1..MaxUsers : Login(id)
  <2>1. PICK id \in 1..MaxUsers : Login(id) BY <1>3
  <2>2. id \in DOMAIN users /\ CreateSession(id) /\ requests' = requests /\ adminCalls' = adminCalls
    BY <2>1 DEF Login, AuthenticateUser, Exists
  <2>3. QED BY <1>1, <2>2, SessionMade
<1>4. CASE \E p \in People : GooglePending(p)
  BY <1>1, <1>4 DEF GooglePending
<1>5. CASE \E t \in Tokens : Logout(t)
  <2>1. PICK t \in Tokens : Logout(t) BY <1>5
  <2>2. /\ sessions' = [sessions EXCEPT ![t] = NoSession]
        /\ requests' = requests /\ adminCalls' = adminCalls
    BY <2>1 DEF Logout
  <2>3. NoSession \in SessionRow BY AccountsAssumption DEF NoSession, SessionRow
  <2>4. QED BY <1>1, <2>2, <2>3
<1>6. CASE SessionsExpire
  <2> DEFINE S(t) == IF sessions[t] = NoSession THEN NoSession
                     ELSE [sessions[t] EXCEPT !.expired = TRUE]
  <2>1. sessions' = [t \in Tokens |-> S(t)] /\ requests' = requests /\ adminCalls' = adminCalls
    BY <1>6 DEF SessionsExpire
  <2>2. \A t \in Tokens : S(t) \in SessionRow /\ (S(t) # NoSession => sessions[t] # NoSession /\ S(t).user = sessions[t].user)
    BY <1>1 DEF SessionRow
  <2> HIDE DEF S
  <2>3. QED BY <1>1, <2>1, <2>2
<1>7. CASE \E by \in 0..MaxUsers : AdminCall(by)
  BY <1>1, <1>7, CallCounts DEF AdminCall
<1>8. CASE \E by \in 0..MaxUsers : Refused(by)
  BY <1>1, <1>8, AnswerCounts DEF Refused
<1>9. QED BY <1>3, <1>4, <1>5, <1>6, <1>7, <1>8

\* Steps that change rows: the parts that are left to show for each of them.
LEMMA RowsChanged ==
  ASSUME AccInv, DOMAIN users' \subseteq 1..lastUserId', lastUserId' \in 1..MaxUsers,
         \A i \in DOMAIN users' : users'[i] \in UserRow,
         RowsAreFound', AnAdminStays', unguarded' \in BOOLEAN,
         sessions' \in [Tokens -> SessionRow],
         \A t \in Tokens : sessions'[t] # NoSession => sessions'[t].user \in DOMAIN users',
         requests' \in [People -> {"none", "pending", "approved", "rejected"}],
         adminCalls' \in [0..MaxUsers -> 0..MaxAdminCalls]
  PROVE  AccInv'
<1>1. AccTypeOK' BY DEF AccTypeOK, SessionRow
<1>2. NoOrphanSession' BY DEF NoOrphanSession, Exists
<1>3. QED BY <1>1, <1>2 DEF AccInv

\* The Google callback links the account it found.
LEMMA GoogleLoginKeeps ==
  ASSUME AccInv, NEW p \in People, GoogleLogin(p)
  PROVE  AccInv'
<1>1. Known(p) /\ Accounts(p) # {} BY DEF GoogleLogin, Known
<1>2. PICK id \in DOMAIN users : id = AccountOf(p) BY <1>1, AccountFound
<1> DEFINE row == [users[id] EXCEPT !.provider = "google", !.sub = p, !.email = p]
<1>3. users[id] \in UserRow BY DEF AccInv, AccTypeOK
<1>4. /\ row \in UserRow /\ row.provider = "google" /\ row.sub = p /\ row.email = p
      /\ row.role = users[id].role
  BY <1>3 DEF UserRow
<1>5. /\ users' = [users EXCEPT ![AccountOf(p)] = row] /\ CreateSession(id)
      /\ lastUserId' = lastUserId /\ requests' = requests /\ adminCalls' = adminCalls
      /\ handEdited' = handEdited /\ unguarded' = unguarded
  BY <1>2 DEF GoogleLogin
<1> HIDE DEF row
<1>6. RowsAreFound' BY <1>1, <1>4, <1>5, LinkKeeps
<1>7. /\ DOMAIN users' = DOMAIN users /\ users'[id] = row
      /\ \A i \in DOMAIN users \ {id} : users'[i] = users[i]
      /\ \A i \in DOMAIN users' : users'[i] \in UserRow
  BY <1>2, <1>4, <1>5, RowWritten
<1>8. AnAdminStays' BY <1>4, <1>5, <1>7 DEF AccInv, AnAdminStays
<1>9. id \in 1..MaxUsers BY AccountsAssumption DEF AccInv, AccTypeOK
<1>10. /\ sessions' \in [Tokens -> SessionRow]
       /\ \A t \in Tokens : sessions'[t] # NoSession => sessions'[t].user \in DOMAIN users'
  BY <1>5, <1>7, <1>9, SessionMade DEF AccInv, NoOrphanSession, Exists
<1>11. QED BY <1>5, <1>6, <1>7, <1>8, <1>10, RowsChanged DEF AccInv, AccTypeOK

\* A write by an administrator: what stays the same in each.
LEMMA WrittenFacts ==
  ASSUME AccInv, NEW by \in 0..MaxUsers, NEW unchecked \in BOOLEAN,
         Written(by, unchecked)
  PROVE  /\ adminCalls' \in [0..MaxUsers -> 0..MaxAdminCalls]
         /\ unguarded' \in BOOLEAN
         /\ ~unguarded' => ~unguarded /\ ~unchecked /\ by \in DOMAIN users /\ users[by].role = "admin"
<1>1. adminCalls' \in [0..MaxUsers -> 0..MaxAdminCalls] BY AnswerCounts DEF Written
<1>2. unguarded' = (unguarded \/ unchecked \/ ~StillAdmin(by)) BY DEF Written
<1>3. QED BY <1>1, <1>2 DEF AccInv, StillAdmin

\* POST users, with an e-mail typed by the administrator.
LEMMA CreateUserKeeps ==
  ASSUME AccInv, NEW by \in 0..MaxUsers, NEW role \in Roles, NEW provider \in {"local", "google"},
         NEW email \in People \cup {Nobody}, CreateUser(by, role, provider, email)
  PROVE  AccInv'
<1> DEFINE row == Row(role, provider, Nobody, email)
<1>1. row \in UserRow /\ row.sub = Nobody /\ row.email = email BY DEF Row, UserRow
<1>2. /\ users' = With(lastUserId + 1, row) /\ lastUserId < MaxUsers /\ lastUserId' = lastUserId + 1
      /\ handEdited' = handEdited \cup {email} /\ sessions' = sessions /\ requests' = requests
      /\ Written(by, FALSE)
  BY DEF CreateUser
<1> HIDE DEF row
<1>3. /\ DOMAIN users' = DOMAIN users \cup {lastUserId + 1}
      /\ \A i \in DOMAIN users : users'[i] = users[i]
      /\ \A i \in DOMAIN users' : users'[i] \in UserRow
      /\ DOMAIN users' \subseteq 1..lastUserId' /\ lastUserId' \in 1..MaxUsers
  BY <1>1, <1>2, RowInserted
<1>4. \A q \in People \ handEdited' : row.sub # q /\ row.email # q
  BY <1>1, <1>2, AccountsAssumption
<1>5. RowsAreFound' BY <1>1, <1>2, <1>4, InsertKeeps
<1>6. AnAdminStays' BY <1>2, <1>3, WrittenFacts DEF AccInv, AnAdminStays
<1>7. \A t \in Tokens : sessions'[t] # NoSession => sessions'[t].user \in DOMAIN users'
  BY <1>2, <1>3 DEF AccInv, NoOrphanSession, Exists
<1>8. sessions' \in [Tokens -> SessionRow] /\ requests' \in [People -> {"none", "pending", "approved", "rejected"}]
  BY <1>2 DEF AccInv, AccTypeOK, SessionRow
<1>9. QED BY <1>2, <1>3, <1>5, <1>6, <1>7, <1>8, WrittenFacts, RowsChanged

\* PUT users: the caller's own role stays, and a person's row is found no
\* more often, unless the e-mail was typed.
LEMMA UpdateUserKeeps ==
  ASSUME AccInv, NEW by \in 0..MaxUsers, NEW id \in DOMAIN users,
         NEW role \in Roles \cup {EmptyRole}, NEW approved \in BOOLEAN, NEW email \in People \cup {Nobody},
         UpdateUser(by, id, role, approved, email)
  PROVE  AccInv'
<1> DEFINE row == [users[id] EXCEPT !.role = role, !.approved = approved, !.email = email]
<1>1. users[id] \in UserRow BY DEF AccInv, AccTypeOK
<1>2. /\ row \in UserRow /\ row.provider = users[id].provider /\ row.sub = users[id].sub
      /\ row.email = email /\ row.role = role
  BY <1>1 DEF UserRow
<1>3. /\ users' = [users EXCEPT ![id] = row] /\ Written(by, by = id /\ role = EmptyRole)
      /\ by = id => role \in {users[id].role, "admin", EmptyRole}
      /\ handEdited' = IF email = users[id].email THEN handEdited ELSE handEdited \cup {email}
      /\ lastUserId' = lastUserId /\ sessions' = sessions /\ requests' = requests
  BY DEF UpdateUser, MayChangeRole
<1> HIDE DEF row
<1>4. /\ DOMAIN users' = DOMAIN users /\ users'[id] = row
      /\ \A i \in DOMAIN users \ {id} : users'[i] = users[i]
      /\ \A i \in DOMAIN users' : users'[i] \in UserRow
  BY <1>2, <1>3, RowWritten
<1>5. RowsAreFound'
  <2>1. \A i \in DOMAIN users' : users'[i].sub # Nobody => users'[i].provider = "google"
    BY <1>2, <1>4 DEF AccInv, RowsAreFound
  <2>2. ASSUME NEW q \in People \ handEdited', NEW i \in Accounts(q)' PROVE i \in Accounts(q)
    <3>1. i \in DOMAIN users /\ ((users'[i].provider = "google" /\ users'[i].sub = q) \/ users'[i].email = q)
      BY <1>4 DEF Accounts
    <3>2. CASE i = id
      <4>1. email = q => users[id].email = q BY <1>3
      <4>2. QED BY <1>2, <1>4, <3>1, <3>2, <4>1 DEF Accounts
    <3>3. CASE i # id BY <1>4, <3>1, <3>3 DEF Accounts
    <3>4. QED BY <3>2, <3>3
  <2>3. \A q \in People \ handEdited' : q \notin handEdited BY <1>3
  <2>4. \A q \in People \ handEdited' : \A i, j \in Accounts(q)' : i = j
    BY <2>2, <2>3 DEF AccInv, RowsAreFound
  <2>5. QED BY <2>1, <2>4 DEF RowsAreFound
<1>6. AnAdminStays'
  <2> SUFFICES ASSUME ~unguarded' PROVE \E i \in DOMAIN users' : users'[i].role = "admin"
    BY DEF AnAdminStays
  <2>1. /\ by \in DOMAIN users /\ users[by].role = "admin"
        /\ ~(by = id /\ role = EmptyRole)
    BY <1>3, WrittenFacts
  <2>2. users'[by].role = "admin" BY <1>2, <1>3, <1>4, <2>1
  <2>3. QED BY <1>4, <2>1, <2>2
<1>7. \A t \in Tokens : sessions'[t] # NoSession => sessions'[t].user \in DOMAIN users'
  BY <1>3, <1>4 DEF AccInv, NoOrphanSession, Exists
<1>8. sessions' \in [Tokens -> SessionRow] /\ requests' \in [People -> {"none", "pending", "approved", "rejected"}]
  BY <1>3 DEF AccInv, AccTypeOK, SessionRow
<1>9. DOMAIN users' \subseteq 1..lastUserId' /\ lastUserId' \in 1..MaxUsers
  BY <1>3, <1>4 DEF AccInv, AccTypeOK
<1>10. QED BY <1>3, <1>4, <1>5, <1>6, <1>7, <1>8, <1>9, WrittenFacts, RowsChanged

\* DELETE users: the user's sessions go with the row, and the caller stays.
LEMMA DeleteUserKeeps ==
  ASSUME AccInv, NEW by \in 0..MaxUsers, NEW id \in DOMAIN users, DeleteUser(by, id)
  PROVE  AccInv'
<1>1. /\ users' = [i \in DOMAIN users \ {id} |-> users[i]] /\ by # id /\ Written(by, FALSE)
      /\ sessions' = [t \in Tokens |-> IF sessions[t].user = id THEN NoSession ELSE sessions[t]]
      /\ lastUserId' = lastUserId /\ requests' = requests /\ handEdited' = handEdited
  BY DEF DeleteUser, DestroyAllUserSessions
<1>2. /\ DOMAIN users' = DOMAIN users \ {id}
      /\ \A i \in DOMAIN users' : users'[i] = users[i]
  BY <1>1
<1>3. RowsAreFound' BY <1>1, <1>2 DEF AccInv, RowsAreFound, Accounts
<1>4. AnAdminStays' BY <1>1, <1>2, WrittenFacts DEF AnAdminStays
<1>5. /\ sessions' \in [Tokens -> SessionRow]
      /\ \A t \in Tokens : sessions'[t] # NoSession => sessions'[t].user \in DOMAIN users'
  <2>1. sessions \in [Tokens -> SessionRow] BY DEF AccInv, AccTypeOK, SessionRow
  <2>2. NoSession \in SessionRow BY AccountsAssumption DEF NoSession, SessionRow
  <2>3. QED BY <1>1, <1>2, <2>1, <2>2 DEF AccInv, NoOrphanSession, Exists
<1>6. /\ requests' \in [People -> {"none", "pending", "approved", "rejected"}]
      /\ DOMAIN users' \subseteq 1..lastUserId' /\ lastUserId' \in 1..MaxUsers
      /\ \A i \in DOMAIN users' : users'[i] \in UserRow
  BY <1>1, <1>2 DEF AccInv, AccTypeOK
<1>7. QED BY <1>1, <1>3, <1>4, <1>5, <1>6, WrittenFacts, RowsChanged

\* PUT access requests, rejected.
LEMMA RejectKeeps ==
  ASSUME AccInv, NEW by \in 0..MaxUsers, NEW p \in People, RejectRequest(by, p)
  PROVE  AccInv'
<1>1. /\ requests' = [requests EXCEPT ![p] = "rejected"] /\ Written(by, FALSE)
      /\ users' = users /\ lastUserId' = lastUserId /\ sessions' = sessions /\ handEdited' = handEdited
  BY DEF RejectRequest, RejectedStatus
<1>2. /\ sessions \in [Tokens -> SessionRow]
      /\ \A t \in Tokens : sessions[t] # NoSession => sessions[t].user \in DOMAIN users
      /\ requests' \in [People -> {"none", "pending", "approved", "rejected"}]
  BY <1>1 DEF AccInv, AccTypeOK, SessionRow, NoOrphanSession, Exists
<1>3. QED BY <1>1, <1>2, WrittenFacts, SameUsers

\* PUT access requests, approved: the account found is linked, or a new one
\* is made for a person who was in no row.
LEMMA ApproveKeeps ==
  ASSUME AccInv, NEW by \in 0..MaxUsers, NEW p \in People, NEW role \in Roles,
         ApproveRequest(by, p, role)
  PROVE  AccInv'
<1>1. /\ requests' = [requests EXCEPT ![p] = "approved"] /\ Answered(by)
      /\ sessions' = sessions /\ handEdited' = handEdited
  BY DEF ApproveRequest
<1>2. /\ adminCalls' \in [0..MaxUsers -> 0..MaxAdminCalls]
      /\ sessions' \in [Tokens -> SessionRow]
      /\ requests' \in [People -> {"none", "pending", "approved", "rejected"}]
      /\ \A t \in Tokens : sessions'[t] # NoSession => sessions'[t].user \in DOMAIN users
  BY <1>1, AnswerCounts DEF AccInv, AccTypeOK, SessionRow, NoOrphanSession, Exists
<1>3. CASE Accounts(p) # {}
  <2>1. PICK id \in DOMAIN users : id = AccountOf(p) BY <1>3, AccountFound
  <2> DEFINE row == [users[id] EXCEPT !.provider = "google", !.sub = p, !.email = p,
                                      !.approved = TRUE, !.role = role]
  <2>2. users[id] \in UserRow BY DEF AccInv, AccTypeOK
  <2>3. row \in UserRow /\ row.provider = "google" /\ row.sub = p /\ row.email = p
    BY <2>2 DEF UserRow
  <2>4. /\ users' = [users EXCEPT ![AccountOf(p)] = row] /\ lastUserId' = lastUserId
        /\ unguarded' = (unguarded \/ users[id].role = "admin")
    BY <1>3, <2>1 DEF ApproveRequest, ApprovedAccounts
  <2> HIDE DEF row
  <2>5. RowsAreFound' BY <1>1, <1>3, <2>3, <2>4, LinkKeeps
  <2>6. /\ DOMAIN users' = DOMAIN users
        /\ \A i \in DOMAIN users \ {id} : users'[i] = users[i]
        /\ \A i \in DOMAIN users' : users'[i] \in UserRow
    BY <2>1, <2>3, <2>4, RowWritten
  <2>7. AnAdminStays' /\ unguarded' \in BOOLEAN BY <2>4, <2>6 DEF AccInv, AnAdminStays
  <2>8. DOMAIN users' \subseteq 1..lastUserId' /\ lastUserId' \in 1..MaxUsers
    BY <2>4, <2>6 DEF AccInv, AccTypeOK
  <2>9. QED BY <1>2, <2>5, <2>6, <2>7, <2>8, RowsChanged
<1>4. CASE Accounts(p) = {}
  <2> DEFINE row == Row(role, "google", p, p)
  <2>1. row \in UserRow /\ row.provider = "google" /\ row.sub = p /\ row.email = p
    BY DEF Row, UserRow
  <2>2. /\ users' = With(lastUserId + 1, row) /\ lastUserId < MaxUsers /\ lastUserId' = lastUserId + 1
        /\ unguarded' = unguarded
    BY <1>4 DEF ApproveRequest, ApprovedAccounts
  <2> HIDE DEF row
  <2>3. RowsAreFound' BY <1>1, <1>4, <2>1, <2>2, InsertKeeps
  <2>4. /\ DOMAIN users' = DOMAIN users \cup {lastUserId + 1}
        /\ \A i \in DOMAIN users : users'[i] = users[i]
        /\ \A i \in DOMAIN users' : users'[i] \in UserRow
        /\ DOMAIN users' \subseteq 1..lastUserId' /\ lastUserId' \in 1..MaxUsers
    BY <2>1, <2>2, RowInserted
  <2>5. AnAdminStays' /\ unguarded' \in BOOLEAN BY <2>2, <2>4 DEF AccInv, AnAdminStays
  <2>6. QED BY <1>2, <2>3, <2>4, <2>5, RowsChanged
<1>5. QED BY <1>3, <1>4

\* The administrator of the seeding, alone in the table.
LEMMA AccInitInv == AccInit => AccInv
<1> SUFFICES ASSUME AccInit PROVE AccInv OBVIOUS
<1> DEFINE row == Row("admin", "local", Nobody, Nobody)
<1>1. row \in UserRow /\ row.role = "admin" /\ row.sub = Nobody /\ row.email = Nobody
  BY AccountsAssumption DEF Row, UserRow
<1>2. users = [i \in {1} |-> row] /\ lastUserId = 1 BY DEF AccInit
<1> HIDE DEF row
<1>3. DOMAIN users = {1} /\ users[1] = row BY <1>2
<1>4. NoSession \in SessionRow BY AccountsAssumption DEF NoSession, SessionRow
<1>5. sessions \in [Tokens -> SessionRow] BY <1>4 DEF AccInit
<1>6. requests \in [People -> {"none", "pending", "approved", "rejected"}] BY DEF AccInit
<1>7. adminCalls \in [0..MaxUsers -> 0..MaxAdminCalls] BY AccountsAssumption DEF AccInit
<1>8. AccTypeOK BY <1>1, <1>2, <1>3, <1>5, <1>6, <1>7, AccountsAssumption DEF AccTypeOK, SessionRow
<1>9. RowsAreFound BY <1>1, <1>3, AccountsAssumption DEF RowsAreFound, Accounts
<1>10. NoOrphanSession /\ AnAdminStays /\ unguarded \in BOOLEAN
  BY <1>1, <1>3 DEF NoOrphanSession, AnAdminStays, AccInit
<1>11. QED BY <1>8, <1>9, <1>10 DEF AccInv

\* Every handler of api/auth keeps AccInv.
LEMMA AccNextInv == AccInv /\ [AccNext]_accVars => AccInv'
<1> SUFFICES ASSUME AccInv, [AccNext]_accVars PROVE AccInv' OBVIOUS
<1>1. CASE \/ \E id \in 1..MaxUsers : Login(id)
           \/ \E p \in People : GooglePending(p)
           \/ \E t \in Tokens : Logout(t)
           \/ SessionsExpire
           \/ \E by \in 0..MaxUsers : AdminCall(by) \/ Refused(by)
  BY <1>1, SigningKeeps
<1>2. ASSUME NEW p \in People, GoogleLogin(p) PROVE AccInv'
  BY <1>2, GoogleLoginKeeps
<1>3. ASSUME NEW by \in 0..MaxUsers, NEW role \in Roles, NEW provider \in {"local", "google"},
             NEW email \in People \cup {Nobody}, CreateUser(by, role, provider, email)
      PROVE  AccInv'
  BY <1>3, CreateUserKeeps
<1>4. ASSUME NEW by \in 0..MaxUsers, NEW id \in DOMAIN users, DeleteUser(by, id) PROVE AccInv'
  BY <1>4, DeleteUserKeeps
<1>5. ASSUME NEW by \in 0..MaxUsers, NEW id \in DOMAIN users,
             NEW role \in Roles \cup {EmptyRole}, NEW approved \in BOOLEAN, NEW email \in People \cup {Nobody},
             UpdateUser(by, id, role, approved, email)
      PROVE  AccInv'
  BY <1>5, UpdateUserKeeps
<1>6. ASSUME NEW by \in 0..MaxUsers, NEW p \in People, RejectRequest(by, p) PROVE AccInv'
  BY <1>6, RejectKeeps
<1>7. ASSUME NEW by \in 0..MaxUsers, NEW p \in People, NEW role \in Roles, ApproveRequest(by, p, role)
      PROVE  AccInv'
  BY <1>7, ApproveKeeps
<1>8. CASE UNCHANGED accVars
  <2>1. /\ users' = users /\ lastUserId' = lastUserId /\ sessions' = sessions /\ requests' = requests
        /\ adminCalls' = adminCalls /\ handEdited' = handEdited /\ unguarded' = unguarded
    BY <1>8 DEF accVars
  <2>2. QED BY <2>1, SameUsers DEF AccInv, AccTypeOK, SessionRow, NoOrphanSession, Exists
<1>9. QED BY <1>1, <1>2, <1>3, <1>4, <1>5, <1>6, <1>7, <1>8 DEF AccNext

\* The strengthened invariant of accounts, sessions and requests.
THEOREM AccInvHolds == AccSpec => []AccInv
BY AccInitInv, AccNextInv, PTL DEF AccSpec

\* A step that gives out a session gives it to an approved account.
ApprovedFirst ==
    \A t \in Tokens : sessions[t] = NoSession /\ sessions'[t] # NoSession =>
      users'[sessions'[t].user].approved

\* createSession is only called behind the check of the approval.
LEMMA SessionsAreApproved == AccInv /\ [AccNext]_accVars => ApprovedFirst
<1> SUFFICES ASSUME AccInv, [AccNext]_accVars, NEW t \in Tokens,
                    sessions[t] = NoSession, sessions'[t] # NoSession
             PROVE  users'[sessions'[t].user].approved
  BY DEF ApprovedFirst
<1>1. CASE \E id \in 1..MaxUsers : Login(id)
  <2>1. PICK id \in 1..MaxUsers : Login(id) BY <1>1
  <2>2. users' = users /\ users[id].approved /\ CreateSession(id)
    BY <2>1 DEF Login, AuthenticateUser
  <2>3. QED BY <2>2, SessionMade
<1>2. CASE \E p \in People : GoogleLogin(p)
  <2>1. PICK p \in People : GoogleLogin(p) BY <1>2
  <2>2. Accounts(p) # {} BY <2>1 DEF GoogleLogin, Known
  <2>3. PICK id \in DOMAIN users : id = AccountOf(p) BY <2>2, AccountFound
  <2> DEFINE row == [users[id] EXCEPT !.provider = "google", !.sub = p, !.email = p]
  <2>4. users[id] \in UserRow BY DEF AccInv, AccTypeOK
  <2>5. row.approved = users[id].approved BY <2>4 DEF UserRow
  <2>6. users' = [users EXCEPT ![id] = row] /\ CreateSession(id) /\ users[id].approved
    BY <2>1, <2>3 DEF GoogleLogin, Known
  <2> HIDE DEF row
  <2>7. id \in 1..MaxUsers BY AccountsAssumption DEF AccInv, AccTypeOK
  <2>8. sessions'[t].user = id BY <2>6, <2>7, SessionMade
  <2>9. QED BY <2>5, <2>6, <2>8
<1>3. CASE SessionsExpire
  <2>1. sessions'[t] = NoSession BY <1>3 DEF SessionsExpire
  <2>2. QED BY <2>1
<1>4. CASE \E x \in Tokens : Logout(x)
  <2>1. PICK x \in Tokens : Logout(x) BY <1>4
  <2>2. sessions' = [sessions EXCEPT ![x] = NoSession] BY <2>1 DEF Logout
  <2>3. sessions'[t] = NoSession BY <2>2 DEF AccInv, AccTypeOK
  <2>4. QED BY <2>3
<1>5. CASE \E by \in 0..MaxUsers, id \in DOMAIN users : DeleteUser(by, id)
  <2>1. PICK id \in DOMAIN users : sessions' = DestroyAllUserSessions(id) BY <1>5 DEF DeleteUser
  <2>2. sessions'[t] = NoSession BY <2>1 DEF DestroyAllUserSessions
  <2>3. QED BY <2>2
<1>6. ASSUME NEW by \in 0..MaxUsers, AdminCall(by) \/ Refused(by) PROVE sessions' = sessions
  BY <1>6 DEF AdminCall, Refused
<1>7. ASSUME NEW p \in People, GooglePending(p) PROVE sessions' = sessions
  BY <1>7 DEF GooglePending
<1>8. ASSUME NEW by \in 0..MaxUsers, NEW role \in Roles, NEW provider \in {"local", "google"},
             NEW email \in People \cup {Nobody}, CreateUser(by, role, provider, email)
      PROVE  sessions' = sessions
  BY <1>8 DEF CreateUser
<1>9. ASSUME NEW by \in 0..MaxUsers, NEW id \in DOMAIN users,
             NEW role \in Roles \cup {EmptyRole}, NEW approved \in BOOLEAN, NEW email \in People \cup {Nobody},
             UpdateUser(by, id, role, approved, email)
      PROVE  sessions' = sessions
  BY <1>9 DEF UpdateUser
<1>10. ASSUME NEW by \in 0..MaxUsers, NEW p \in People, NEW role \in Roles,
              RejectRequest(by, p) \/ ApproveRequest(by, p, role)
       PROVE  sessions' = sessions
  BY <1>10 DEF RejectRequest, ApproveRequest
<1>11. UNCHANGED accVars => sessions' = sessions BY DEF accVars
<1>12. CASE \/ \E by \in 0..MaxUsers : AdminCall(by) \/ Refused(by)
            \/ \E p \in People : GooglePending(p)
            \/ \E by \in 0..MaxUsers, role \in Roles, provider \in {"local", "google"},
                  email \in People \cup {Nobody} : CreateUser(by, role, provider, email)
            \/ \E by \in 0..MaxUsers, id \in DOMAIN users, role \in Roles \cup {EmptyRole},
                  approved \in BOOLEAN, email \in People \cup {Nobody} : UpdateUser(by, id, role, approved, email)
            \/ \E by \in 0..MaxUsers, p \in People :
                  RejectRequest(by, p) \/ \E role \in Roles : ApproveRequest(by, p, role)
            \/ UNCHANGED accVars
  <2>1. sessions' = sessions
    BY <1>6, <1>7, <1>8, <1>9, <1>10, <1>11, <1>12, AccountsAssumption
  <2>2. QED BY <2>1
<1>13. QED BY <1>1, <1>2, <1>3, <1>4, <1>5, <1>12 DEF AccNext

\* A set all of whose members are equal has at most one.
LEMMA NotTwo ==
  ASSUME NEW S, \A x, y \in S : x = y
  PROVE  Cardinality(S) <= 1
<1>1. CASE S = {} BY <1>1, FS_EmptySet
<1>2. CASE S # {}
  <2>1. PICK x \in S : TRUE BY <1>2
  <2>2. S = {x} BY <2>1
  <2>3. QED BY <2>2, FS_Singleton
<1>3. QED BY <1>1, <1>2

\* lib/auth.ts and api/auth: for any number of people, sessions and calls of
\* administrators, and any order of logins, approvals and changes, no session
\* is without its user, a person has one account unless its e-mail was typed
\* into another, the guarded changes leave an administrator, and a session
\* needs an approved account.
THEOREM AccountsCorrect == AccSpec => AccountsSafe
<1>1. AccInv => AccTypeOK /\ NoOrphanSession /\ OneAccountPerPerson /\ AnAdminStays
  <2> SUFFICES ASSUME AccInv PROVE OneAccountPerPerson BY DEF AccInv
  <2> SUFFICES ASSUME NEW p \in People \ handEdited
               PROVE  Cardinality({i \in DOMAIN users : users[i].sub = p}) <= 1
    BY DEF OneAccountPerPerson
  <2>1. \A i \in DOMAIN users : users[i].sub = p => i \in Accounts(p)
    BY AccountsAssumption DEF AccInv, RowsAreFound, Accounts
  <2>2. \A i, j \in {k \in DOMAIN users : users[k].sub = p} : i = j
    BY <2>1 DEF AccInv, RowsAreFound
  <2>3. QED BY <2>2, NotTwo
<1>2. AccInv /\ [AccNext]_accVars => [ApprovedFirst]_accVars BY SessionsAreApproved
<1>3. QED BY <1>1, <1>2, AccInvHolds, PTL DEF AccSpec, AccountsSafe, SessionNeedsApproval, ApprovedFirst

(***************************************************************************)
(* The schema and its migrations.                                          *)
(*                                                                         *)
(* UpMeansMigrated speaks of processes that are up.  On the way there,     *)
(* what a process skips has been applied, and what has been applied is in  *)
(* the file.  Migration 013 adds its column only where the table is there, *)
(* which holds because every process applies 012 before it.                *)
(***************************************************************************)
OwnerGateway == <<"tenants", "owner_gateway">>

SchemaHas(i) ==
    /\ Migrations[i].creates \subseteq tables
    /\ Migrations[i].scoped \X {"workspace_id"} \subseteq columns
    /\ i # 13 => Migrations[i].adds \subseteq columns
    /\ i = 13 => OwnerGateway \in columns

DbTypes ==
    /\ applied \subseteq Ids
    /\ proc \in [Procs -> [pc : {"down", "migrating", "broken", "seeding", "up"}, applied : SUBSET Ids]]

ProcsKnowLess ==
    \A p \in Procs : /\ proc[p].applied \subseteq applied
                     /\ proc[p].pc \in {"seeding", "up"} => proc[p].applied = Ids

\* A process that is about to seed will seed the administrator there is.
SeedingInv ==
    /\ \A a, b \in admins : a = b
    /\ \A a \in admins : a.password \notin {"absent", "insecure"}
    /\ \A p \in Procs : proc[p].pc = "seeding" =>
         Seedable(env) /\ \A a \in admins : a.name = env.user

DbInv ==
    /\ DbTypes /\ ProcsKnowLess /\ SeedingInv
    /\ \A i \in applied : SchemaHas(i)

\* lib/migrations.ts: what a migration needs, creates and scopes does not
\* depend on the file; what it scopes it needs.
MigrationIsFixed(i) ==
    /\ Migrations'[i].creates = Migrations[i].creates
    /\ Migrations'[i].scoped = Migrations[i].scoped
    /\ Migrations[i].scoped \subseteq Migrations[i].needs
    /\ i # 13 => Migrations'[i].adds = Migrations[i].adds

\* The list of migrations, one by one.
LEMMA MigrationsFixed == \A i \in Ids : MigrationIsFixed(i)
<1> USE DEF Migration, Creates, MigrationIsFixed
<1>1. MigrationIsFixed(1) BY DEF Migrations, M001
<1>2. MigrationIsFixed(2) BY DEF Migrations, M002
<1>3. MigrationIsFixed(3) BY DEF Migrations, M003
<1>4. MigrationIsFixed(4) BY DEF Migrations, M004
<1>5. MigrationIsFixed(5) BY DEF Migrations, M005
<1>6. MigrationIsFixed(6) BY DEF Migrations, M006
<1>7. MigrationIsFixed(7) BY DEF Migrations, M007
<1>8. MigrationIsFixed(8) BY DEF Migrations, M008
<1>9. MigrationIsFixed(9) BY DEF Migrations, M009
<1>10. MigrationIsFixed(10) BY DEF Migrations, M010
<1>11. MigrationIsFixed(11) BY DEF Migrations, M011
<1>12. MigrationIsFixed(12) BY DEF Migrations, M012
<1>13. MigrationIsFixed(13) BY DEF Migrations, M013
<1>14. MigrationIsFixed(14) BY DEF Migrations, M014
<1>15. MigrationIsFixed(15) BY DEF Migrations, M015
<1>16. MigrationIsFixed(16) BY DEF Migrations, M016
<1>17. MigrationIsFixed(17) BY DEF Migrations, M017
<1>18. MigrationIsFixed(18) BY DEF Migrations, M018
<1>19. MigrationIsFixed(19) BY DEF Migrations, M019
<1>20. MigrationIsFixed(20) BY DEF Migrations, M020
<1>21. MigrationIsFixed(21) BY DEF Migrations, M021
<1>22. MigrationIsFixed(22) BY DEF Migrations, M022
<1>23. MigrationIsFixed(23) BY DEF Migrations, M023
<1> HIDE DEF MigrationIsFixed
<1>24. QED
  BY <1>1, <1>2, <1>3, <1>4, <1>5, <1>6, <1>7, <1>8, <1>9, <1>10, <1>11, <1>12, <1>13, <1>14,
     <1>15, <1>16, <1>17, <1>18, <1>19, <1>20, <1>21, <1>22, <1>23 DEF Ids

\* Migration 013, and 012 before it.
LEMMA OwnerGatewayAdded ==
  /\ "tenants" \in Migrations[12].creates
  /\ Migrations[13].adds = IF "tenants" \in tables THEN {OwnerGateway} ELSE {}
<1>1. Migrations[12] = M012 /\ Migrations[13] = M013 BY DEF Migrations
<1>2. QED BY <1>1 DEF M012, M013, Creates, Migration, OwnerGateway

\* Nothing removes a table or a column.
LEMMA SchemaStays ==
  ASSUME NEW i \in Ids, SchemaHas(i), tables \subseteq tables', columns \subseteq columns'
  PROVE  SchemaHas(i)'
<1>1. MigrationIsFixed(i) BY MigrationsFixed
<1>2. QED BY <1>1 DEF MigrationIsFixed, SchemaHas

\* The loop of runMigrations takes the first migration it has not skipped.
LEMMA NextIsFirst ==
  ASSUME DbInv, NEW p \in Procs, Pending(p) # {}
  PROVE  /\ NextMigration(p) \in Pending(p) /\ NextMigration(p) \in Ids
         /\ \A j \in Ids : j < NextMigration(p) => j \in proc[p].applied
<1>1. Pending(p) \subseteq Ids /\ Ids \subseteq Nat BY DEF Pending, Ids
<1>2. \E i \in Pending(p) : \A j \in Pending(p) : i <= j BY <1>1, SmallestOf
<1>3. NextMigration(p) \in Pending(p) /\ \A j \in Pending(p) : NextMigration(p) <= j
  BY <1>2 DEF NextMigration
<1>4. QED
  <2> HIDE DEF NextMigration
  <2>1. \A j \in Ids \ Pending(p) : j \in proc[p].applied BY DEF Pending
  <2>2. PICK n \in Ids : n = NextMigration(p) BY <1>1, <1>3
  <2>3. ASSUME NEW j \in Ids, j < n PROVE j \in proc[p].applied
    <3>1. j \in Nat /\ n \in Nat BY <1>1
    <3>2. j \in Pending(p) => n <= j BY <1>3, <2>2
    <3>3. j \notin Pending(p) BY <2>3, <3>1, <3>2
    <3>4. QED BY <2>1, <3>3
  <2>4. QED BY <1>3, <2>2, <2>3

\* One migration is applied: the file has what it makes.
LEMMA ApplyKeeps ==
  ASSUME DbInv, NEW p \in Procs, ApplyMigration(p)
  PROVE  DbInv'
<1> DEFINE n == NextMigration(p)
<1>0. Pending(p) # {} BY DEF ApplyMigration
<1>1. PICK i \in Ids : i = n /\ \A j \in Ids : j < i => j \in proc[p].applied BY <1>0, NextIsFirst
<1>2. /\ proc[p].pc = "migrating" /\ Missing(i) = {}
      /\ tables' = TablesAfter(i) /\ columns' = ColumnsAfter(i)
      /\ applied' = applied \cup {i}
      /\ proc' = [proc EXCEPT ![p].applied = @ \cup {i}]
      /\ admins' = admins /\ env' = env
  BY <1>1 DEF ApplyMigration
<1> HIDE DEF n
<1>3. MigrationIsFixed(i) BY MigrationsFixed
<1>4. tables \subseteq tables' /\ columns \subseteq columns' BY <1>2 DEF TablesAfter, ColumnsAfter
<1>5. SchemaHas(i)'
  <2>1. Migrations[i].creates \subseteq tables' BY <1>2 DEF TablesAfter
  <2>2. Migrations[i].scoped \subseteq TablesAfter(i)
    BY <1>2, <1>3 DEF Missing, MigrationIsFixed, TablesAfter
  <2>3. \A t \in Migrations[i].scoped : <<t, "workspace_id">> \in columns'
    BY <1>2, <2>2 DEF ColumnsAfter
  <2>4. Migrations[i].scoped \X {"workspace_id"} \subseteq columns' BY <2>3
  <2>5. Migrations[i].adds \subseteq columns' BY <1>2 DEF ColumnsAfter
  <2>6. i = 13 => OwnerGateway \in columns'
    <3> SUFFICES ASSUME i = 13 PROVE OwnerGateway \in columns' OBVIOUS
    <3>1. 12 \in Ids /\ 12 < i BY DEF Ids
    <3>2. 12 \in applied BY <1>1, <3>1 DEF DbInv, ProcsKnowLess
    <3>3. "tenants" \in tables BY <3>2, OwnerGatewayAdded DEF DbInv, SchemaHas
    <3>4. QED BY <2>5, <3>3, OwnerGatewayAdded
  <2>7. QED BY <1>3, <2>1, <2>4, <2>5, <2>6 DEF SchemaHas, MigrationIsFixed
<1>6. \A j \in applied' : SchemaHas(j)'
  <2>1. \A j \in applied : j \in Ids /\ SchemaHas(j) BY DEF DbInv, DbTypes
  <2>2. \A j \in applied : SchemaHas(j)' BY <1>4, <2>1, SchemaStays
  <2>3. QED BY <1>2, <1>5, <2>2
<1>7. /\ proc' \in [Procs -> [pc : {"down", "migrating", "broken", "seeding", "up"}, applied : SUBSET Ids]]
      /\ \A q \in Procs : proc'[q].pc = proc[q].pc /\ (q # p => proc'[q] = proc[q])
      /\ proc'[p].applied = proc[p].applied \cup {i}
  BY <1>2 DEF DbInv, DbTypes
<1>8. DbTypes' BY <1>2, <1>7 DEF DbInv, DbTypes
<1>9. ProcsKnowLess'
  <2>1. \A q \in Procs : proc'[q].applied \subseteq applied'
    BY <1>2, <1>7 DEF DbInv, ProcsKnowLess
  <2>2. \A q \in Procs : proc'[q].pc \in {"seeding", "up"} => proc'[q].applied = Ids
    BY <1>2, <1>7 DEF DbInv, ProcsKnowLess
  <2>3. QED BY <2>1, <2>2 DEF ProcsKnowLess
<1>10. SeedingInv' BY <1>2, <1>7 DEF DbInv, SeedingInv, Seedable, ResolveSeedAuthPassword
<1>11. QED BY <1>6, <1>8, <1>9, <1>10 DEF DbInv

\* The file of an older release has what its migrations made.
LEMMA OldFileKeeps ==
  ASSUME DbInv, NEW n \in OldReleases, OldFile(n)
  PROVE  DbInv'
<1>1. /\ tables = {} /\ \A p \in Procs : proc[p] = Down
      /\ applied' = 1..n
      /\ tables' = UNION {Migrations[i].creates : i \in 1..n}
      /\ admins' = admins /\ env' = env /\ proc' = proc
  BY DEF OldFile
<1> DEFINE scoped == UNION {Migrations[i].scoped : i \in 1..n}
           added == UNION {Migrations[i].adds : i \in 1..n}
<1>2. columns' = (IF n >= 13 THEN {OwnerGateway} ELSE {}) \cup added
                   \cup {<<t, "workspace_id">> : t \in scoped}
  BY DEF OldFile, OwnerGateway
<1> HIDE DEF scoped, added
<1>c. /\ added \subseteq columns' /\ (n >= 13 => OwnerGateway \in columns')
      /\ \A t \in scoped : <<t, "workspace_id">> \in columns'
  BY <1>2
<1>3. n \in 0..23 /\ 1..n \subseteq Ids BY DatabaseAssumption DEF Ids
<1>4. ASSUME NEW i \in 1..n PROVE SchemaHas(i)'
  <2>1. MigrationIsFixed(i) BY <1>3, MigrationsFixed
  <2>2. Migrations[i].creates \subseteq tables' BY <1>1
  <2>3. Migrations[i].adds \subseteq columns' BY <1>c DEF added
  <2>4. \A t \in Migrations[i].scoped : <<t, "workspace_id">> \in columns'
    <3>1. Migrations[i].scoped \subseteq UNION {Migrations[j].scoped : j \in 1..n} OBVIOUS
    <3>2. Migrations[i].scoped \subseteq scoped BY <3>1 DEF scoped
    <3>3. QED BY <1>c, <3>2
  <2>5. Migrations[i].scoped \X {"workspace_id"} \subseteq columns' BY <2>4
  <2>6. i = 13 => n >= 13 BY <1>3
  <2>7. i = 13 => OwnerGateway \in columns' BY <1>c, <2>6
  <2>8. QED BY <2>1, <2>2, <2>3, <2>5, <2>7 DEF SchemaHas, MigrationIsFixed
<1>5. DbTypes' BY <1>1, <1>3 DEF DbInv, DbTypes
<1>6. ProcsKnowLess' BY <1>1 DEF ProcsKnowLess, Down
<1>7. SeedingInv' BY <1>1 DEF DbInv, SeedingInv, Seedable, ResolveSeedAuthPassword
<1>8. QED BY <1>1, <1>4, <1>5, <1>6, <1>7 DEF DbInv

\* Steps that leave the file alone: what is left to show for them.
LEMMA FileStays ==
  ASSUME DbInv, tables' = tables, columns' = columns, applied' = applied,
         ProcsKnowLess', SeedingInv',
         proc' \in [Procs -> [pc : {"down", "migrating", "broken", "seeding", "up"}, applied : SUBSET Ids]]
  PROVE  DbInv'
<1>1. \A i \in applied' : SchemaHas(i)' BY SchemaStays DEF DbInv, DbTypes
<1>2. DbTypes' BY DEF DbInv, DbTypes
<1>3. QED BY <1>1, <1>2 DEF DbInv

\* A process opens the file, fails, counts the users, seeds or stops.
LEMMA ProcessKeeps ==
  ASSUME DbInv, NEW p \in Procs,
         \/ OpenDatabase(p) \/ MigrationThrows(p) \/ CountUsers(p)
         \/ SeedAdmin(p) \/ MoveToReview(p) \/ ProcessStops(p)
  PROVE  DbInv'
<1> DEFINE States == [pc : {"down", "migrating", "broken", "seeding", "up"}, applied : SUBSET Ids]
<1>0. /\ tables' = tables /\ columns' = columns /\ applied' = applied
  BY DEF OpenDatabase, MigrationThrows, CountUsers, SeedAdmin, MoveToReview, ProcessStops, RolledBack
<1>1. proc \in [Procs -> States] /\ applied \in SUBSET Ids BY DEF DbInv, DbTypes
<1>2. CASE OpenDatabase(p)
  <2>1. /\ proc' = [proc EXCEPT ![p] = [pc |-> "migrating", applied |-> applied]]
        /\ admins' = admins /\ env' = env
    BY <1>2 DEF OpenDatabase
  <2>2. [pc |-> "migrating", applied |-> applied] \in States BY <1>1
  <2>3. proc' \in [Procs -> States] BY <1>1, <2>1, <2>2
  <2>4. ProcsKnowLess' BY <1>0, <1>1, <2>1 DEF DbInv, ProcsKnowLess
  <2>5. SeedingInv' BY <1>1, <2>1 DEF DbInv, SeedingInv, Seedable, ResolveSeedAuthPassword
  <2>6. QED BY <1>0, <2>3, <2>4, <2>5, FileStays
<1>3. CASE MigrationThrows(p)
  <2>1. proc' = [proc EXCEPT ![p].pc = "broken"] /\ admins' = admins /\ env' = env
    BY <1>3 DEF MigrationThrows, At
  <2>2. proc' \in [Procs -> States] BY <1>1, <2>1
  <2>3. /\ proc'[p].pc = "broken" /\ proc'[p].applied = proc[p].applied
        /\ \A q \in Procs \ {p} : proc'[q] = proc[q]
    BY <1>1, <2>1
  <2>4. ProcsKnowLess' BY <1>0, <2>3 DEF DbInv, ProcsKnowLess
  <2>5. SeedingInv' BY <2>1, <2>3 DEF DbInv, SeedingInv, Seedable, ResolveSeedAuthPassword
  <2>6. QED BY <1>0, <2>2, <2>4, <2>5, FileStays
<1>4. CASE CountUsers(p)
  <2> DEFINE pc == IF admins = {} /\ Seedable(env) THEN "seeding" ELSE "up"
  <2>1. /\ proc' = [proc EXCEPT ![p].pc = pc] /\ admins' = admins /\ env' = env
        /\ Ids \subseteq proc[p].applied
    BY <1>4 DEF CountUsers, At, Pending
  <2>2. pc \in {"seeding", "up"} /\ (pc = "seeding" => admins = {} /\ Seedable(env)) OBVIOUS
  <2> HIDE DEF pc
  <2>3. proc' \in [Procs -> States] BY <1>1, <2>1, <2>2
  <2>4. /\ proc'[p].pc = pc /\ proc'[p].applied = proc[p].applied
        /\ \A q \in Procs \ {p} : proc'[q] = proc[q]
    BY <1>1, <2>1
  <2>5. proc[p].applied = Ids BY <1>1, <2>1
  <2>6. ProcsKnowLess' BY <1>0, <2>4, <2>5 DEF DbInv, ProcsKnowLess
  <2>7. SeedingInv' BY <2>1, <2>2, <2>4 DEF DbInv, SeedingInv, Seedable, ResolveSeedAuthPassword
  <2>8. QED BY <1>0, <2>3, <2>6, <2>7, FileStays
<1>5. CASE SeedAdmin(p)
  <2>1. /\ proc' = [proc EXCEPT ![p].pc = "up"] /\ env' = env /\ admins' = InsertAdmin(p)
        /\ proc[p].pc = "seeding"
    BY <1>5 DEF SeedAdmin, At
  <2>2. proc' \in [Procs -> States] BY <1>1, <2>1
  <2>3. /\ proc'[p].pc = "up" /\ proc'[p].applied = proc[p].applied
        /\ \A q \in Procs \ {p} : proc'[q] = proc[q]
    BY <1>1, <2>1
  <2>4. ProcsKnowLess' BY <1>0, <2>1, <2>3 DEF DbInv, ProcsKnowLess
  <2>5. Seedable(env) /\ \A a \in admins : a.name = env.user
    BY <2>1 DEF DbInv, SeedingInv
  <2> DEFINE row == [name |-> env.user, by |-> p, password |-> ResolveSeedAuthPassword(env)]
  <2>6. row.name = env.user /\ row.password \notin {"absent", "insecure"} BY <2>5 DEF Seedable
  <2>7. admins' = admins \/ (admins = {} /\ admins' = {row})
    BY <2>1, <2>5 DEF InsertAdmin
  <2> HIDE DEF row
  <2>8. /\ \A a, b \in admins' : a = b
        /\ \A a \in admins' : a.password \notin {"absent", "insecure"} /\ a.name = env.user
    BY <2>5, <2>6, <2>7 DEF DbInv, SeedingInv
  <2>9. \A q \in Procs : proc'[q].pc = "seeding" => Seedable(env)'
    BY <2>1, <2>5 DEF Seedable, ResolveSeedAuthPassword
  <2>10. SeedingInv' BY <2>1, <2>8, <2>9 DEF SeedingInv
  <2>11. QED BY <1>0, <2>2, <2>4, <2>10, FileStays
<1>6. CASE MoveToReview(p)
  <2>1. proc' = proc /\ env' = env /\ admins' = admins BY <1>6 DEF MoveToReview
  <2>2. ProcsKnowLess' BY <1>0, <2>1 DEF DbInv, ProcsKnowLess
  <2>3. SeedingInv' BY <2>1 DEF DbInv, SeedingInv, Seedable, ResolveSeedAuthPassword
  <2>4. QED BY <1>0, <1>1, <2>1, <2>2, <2>3, FileStays
<1>7. CASE ProcessStops(p)
  <2>1. /\ proc' = [proc EXCEPT ![p] = Down] /\ admins' = admins
        /\ env' \in IF \A q \in Procs \ {p} : proc[q] = Down THEN Envs ELSE {env}
    BY <1>7 DEF ProcessStops
  <2>2. Down \in States /\ Down.pc = "down" /\ Down.applied = {} BY DEF Down
  <2>3. /\ proc'[p] = Down /\ \A q \in Procs \ {p} : proc'[q] = proc[q]
        /\ proc' \in [Procs -> States]
    BY <1>1, <2>1, <2>2
  <2>4. ProcsKnowLess' BY <1>0, <2>2, <2>3 DEF DbInv, ProcsKnowLess
  <2>5. \A q \in Procs : proc'[q].pc = "seeding" => env' = env /\ proc[q].pc = "seeding"
    BY <2>1, <2>2, <2>3
  <2>6. SeedingInv' BY <2>1, <2>5 DEF DbInv, SeedingInv, Seedable, ResolveSeedAuthPassword
  <2>7. QED BY <1>0, <2>3, <2>4, <2>6, FileStays
<1>8. QED BY <1>2, <1>3, <1>4, <1>5, <1>6, <1>7

\* An empty file and no process.
LEMMA DbInitInv == DbInit => DbInv
<1> SUFFICES ASSUME DbInit PROVE DbInv OBVIOUS
<1>1. applied = {} /\ admins = {} /\ proc = [p \in Procs |-> Down] BY DEF DbInit
<1>2. QED BY <1>1 DEF DbInv, DbTypes, ProcsKnowLess, SeedingInv, Down

\* Every step of a process keeps DbInv.
LEMMA DbNextInv == DbInv /\ [DbNext]_dbVars => DbInv'
<1> SUFFICES ASSUME DbInv, [DbNext]_dbVars PROVE DbInv' OBVIOUS
<1>1. ASSUME NEW n \in OldReleases, OldFile(n) PROVE DbInv' BY <1>1, OldFileKeeps
<1>2. ASSUME NEW p \in Procs, ApplyMigration(p) PROVE DbInv' BY <1>2, ApplyKeeps
<1>3. ASSUME NEW p \in Procs,
             \/ OpenDatabase(p) \/ MigrationThrows(p) \/ CountUsers(p)
             \/ SeedAdmin(p) \/ MoveToReview(p) \/ ProcessStops(p)
      PROVE  DbInv'
  BY <1>3, ProcessKeeps
<1>4. CASE UNCHANGED dbVars
  <2>1. /\ tables' = tables /\ columns' = columns /\ applied' = applied
        /\ admins' = admins /\ env' = env /\ proc' = proc
    BY <1>4 DEF dbVars
  <2>2. ProcsKnowLess' BY <2>1 DEF DbInv, ProcsKnowLess
  <2>3. SeedingInv' BY <2>1 DEF DbInv, SeedingInv, Seedable, ResolveSeedAuthPassword
  <2>4. QED BY <2>1, <2>2, <2>3, FileStays DEF DbInv, DbTypes
<1>5. QED BY <1>1, <1>2, <1>3, <1>4 DEF DbNext

\* The strengthened invariant of the schema and the seeding.
THEOREM DbInvHolds == DbSpec => []DbInv
BY DbInitInv, DbNextInv, PTL DEF DbSpec

\* A step on a migrated file, while nobody migrates from an older reading,
\* changes neither schema nor tasks.
QuietStart ==
    /\ Ids \subseteq applied
    /\ \A p \in Procs : proc[p].pc = "migrating" => Ids \subseteq proc[p].applied
    => UNCHANGED <<tables, columns>> /\ (inReview => inReview')

\* runMigrations skips what it read as applied.
LEMMA LateStartIsQuiet == DbInv /\ [DbNext]_dbVars => QuietStart
<1> SUFFICES ASSUME [DbNext]_dbVars, Ids \subseteq applied,
                    \A p \in Procs : proc[p].pc = "migrating" => Ids \subseteq proc[p].applied
             PROVE  UNCHANGED <<tables, columns>> /\ (inReview => inReview')
  BY DEF QuietStart
<1>1. ASSUME NEW n \in OldReleases, OldFile(n) PROVE FALSE
  <2>1. applied = {} BY <1>1 DEF OldFile
  <2>2. 1 \in Ids BY DEF Ids
  <2>3. QED BY <2>1, <2>2
<1>2. ASSUME NEW p \in Procs, ApplyMigration(p) PROVE FALSE
  BY <1>2 DEF ApplyMigration, Pending
<1>3. ASSUME NEW p \in Procs,
             \/ OpenDatabase(p) \/ MigrationThrows(p) \/ CountUsers(p)
             \/ SeedAdmin(p) \/ MoveToReview(p) \/ ProcessStops(p)
      PROVE  UNCHANGED <<tables, columns>> /\ (inReview => inReview')
  BY <1>3 DEF OpenDatabase, MigrationThrows, CountUsers, SeedAdmin, MoveToReview, ProcessStops
<1>4. CASE UNCHANGED dbVars BY <1>4 DEF dbVars
<1>5. QED BY <1>1, <1>2, <1>3, <1>4 DEF DbNext

\* getDatabase: for any number of processes that open, migrate, fail, stop
\* and seed one file, a process that is up works on the whole schema, a late
\* one changes nothing, and there is one seeded administrator.
THEOREM DatabaseCorrect == DbSpec => DatabaseSafe
<1>1. ASSUME DbInv PROVE UpMeansMigrated
  <2> SUFFICES ASSUME NEW p \in Procs, proc[p].pc \in {"seeding", "up"}
               PROVE  /\ applied = Ids
                      /\ UNION {M.creates : M \in {Migrations[i] : i \in Ids}} \subseteq tables
                      /\ \A i \in Ids : /\ Migrations[i].adds \subseteq columns
                                        /\ Migrations[i].scoped \X {"workspace_id"} \subseteq columns
    BY DEF UpMeansMigrated
  <2>1. applied = Ids BY <1>1 DEF DbInv, DbTypes, ProcsKnowLess
  <2>2. \A i \in Ids : SchemaHas(i) BY <1>1, <2>1 DEF DbInv
  <2>3. UNION {M.creates : M \in {Migrations[i] : i \in Ids}} \subseteq tables
    BY <2>2 DEF SchemaHas
  <2>4. \A i \in Ids : Migrations[i].adds \subseteq columns
    BY <2>2, OwnerGatewayAdded DEF SchemaHas
  <2>5. \A i \in Ids : Migrations[i].scoped \X {"workspace_id"} \subseteq columns
    BY <2>2 DEF SchemaHas
  <2>6. QED BY <2>1, <2>3, <2>4, <2>5
<1>2. DbInv => OneSeededAdmin BY NotTwo DEF DbInv, SeedingInv, OneSeededAdmin
<1>3. DbInv /\ [DbNext]_dbVars => [QuietStart]_dbVars BY LateStartIsQuiet
<1>4. QED BY <1>1, <1>2, <1>3, DbInvHolds, PTL DEF DbSpec, DatabaseSafe, LateStarterChangesNothing, QuietStart

---------------------------------------------------------------------------
(***************************************************************************)
(* The scheduler and its backups.                                          *)
(*                                                                         *)
(* A tick that waits for a task has the task marked as running and came    *)
(* when it was due.  Why a task waits only for those before it: each tick  *)
(* since it was due is still waiting, for a task further to the front.     *)
(***************************************************************************)
Scheds == [ScheduledIds -> [lastRun : Nat, nextRun : Nat, running : BOOLEAN]]
Ticks == [task : ScheduledIds, now : Nat]

MarkedOnce(s, S) ==
  /\ \A t, u \in S : t.task = u.task => t = u
  /\ \A t \in S : s[t.task].running
TimesFit(s, S) ==
  /\ \A id \in ScheduledIds : s[id].lastRun <= s[id].nextRun
  /\ \A t \in S : s[t.task].nextRun <= t.now
HeldUp(s, S, on, ready, m) ==
  \A id \in on : ~s[id].running =>
    \A k \in Nat : ready[id] < k /\ s[id].nextRun <= k /\ k <= m =>
      \E t \in S : t.now = k /\ Index(t.task) < Index(id)

SchedTypeInv ==
  /\ minute \in Nat
  /\ sched \in Scheds /\ suspended \subseteq Ticks
  /\ switchedOn \subseteq ScheduledIds /\ readySince \in [ScheduledIds -> Nat]
  /\ manual \subseteq Nat
  /\ DOMAIN files \subseteq Nat /\ IsFiniteSet(DOMAIN files)

\* No backup that is over, and none of an administrator, has the name of the
\* one the scheduler has under way.
NamesApart ==
  /\ \A n \in manual \cup DOMAIN files : n <= minute
  /\ \A t \in suspended : t.now <= minute
  /\ \A t \in suspended : t.task = "auto_backup" =>
       t.now \notin manual /\ (t.now \in DOMAIN files => ~files[t.now].complete)

SchedInv ==
  /\ SchedTypeInv
  /\ MarkedOnce(sched, suspended) /\ TimesFit(sched, suspended)
  /\ HeldUp(sched, suspended, switchedOn, readySince, minute)
  /\ NamesApart /\ ABackupStays

\* Index is the position of a task.
LEMMA IndexFacts ==
  /\ Len(Order) \in Nat /\ DOMAIN Order = 1..Len(Order)
  /\ \A i \in 1..Len(Order) : Order[i] \in ScheduledIds /\ Index(Order[i]) = i
  /\ \A id \in ScheduledIds : Index(id) \in 1..Len(Order) /\ Order[Index(id)] = id
  /\ \A id \in ScheduledIds : id = "auto_backup" => Index(id) = 1
<1>1. Len(Order) \in Nat /\ DOMAIN Order = 1..Len(Order)
  BY SchedulerAssumption
<1>2. \A i \in DOMAIN Order : Order[i] \in ScheduledIds
  BY DEF ScheduledIds
<1>3. \A id \in ScheduledIds : Index(id) \in DOMAIN Order /\ Order[Index(id)] = id
  <2> SUFFICES ASSUME NEW id \in ScheduledIds
               PROVE  Index(id) \in DOMAIN Order /\ Order[Index(id)] = id
    OBVIOUS
  <2>1. \E i \in DOMAIN Order : Order[i] = id
    BY DEF ScheduledIds
  <2> QED BY <2>1 DEF Index
<1>4. \A i \in DOMAIN Order : Index(Order[i]) = i
  BY <1>2, <1>3, SchedulerAssumption
<1> QED BY <1>1, <1>2, <1>3, <1>4, SchedulerAssumption

\* The loop of a tick: it ends, or starts the first task that is due.
LEMMA ScanFacts ==
  ASSUME NEW s, NEW now, NEW i \in Nat \ {0}, NEW S, ScanFrom(s, now, i, S)
  PROVE  \/ /\ sched' = s /\ suspended' = S
            /\ \A j \in i..Len(Order) : ~Due(s, now, Order[j])
         \/ \E j \in i..Len(Order) :
              /\ Due(s, now, Order[j])
              /\ \A k \in i..Len(Order) : Due(s, now, Order[k]) => j <= k
              /\ sched' = [s EXCEPT ![Order[j]].running = TRUE]
              /\ suspended' = S \cup {[task |-> Order[j], now |-> now]}
<1> DEFINE due == FromPosition(s, now, i)
<1>1. due \subseteq i..Len(Order) /\ due \subseteq Nat
  BY IndexFacts DEF FromPosition
<1>2. CASE due = {}
  BY <1>2 DEF ScanFrom, FromPosition
<1>3. CASE due # {}
  <2>1. \E j \in due : \A k \in due : j <= k
    BY <1>1, <1>3, SmallestOf
  <2>2. Min(due) \in due /\ \A k \in due : Min(due) <= k
    BY <2>1 DEF Min
  <2>3. /\ sched' = [s EXCEPT ![Order[Min(due)]].running = TRUE]
        /\ suspended' = S \cup {[task |-> Order[Min(due)], now |-> now]}
    BY <1>3 DEF ScanFrom
  <2>4. \A k \in i..Len(Order) : Due(s, now, Order[k]) => k \in due
    BY DEF FromPosition
  <2>5. Due(s, now, Order[Min(due)])
    BY <2>2 DEF FromPosition
  <2> QED BY <1>1, <2>2, <2>3, <2>4, <2>5
<1> QED BY <1>2, <1>3

\* What a tick that starts, or goes on, does to the table and the waiting ticks.
LEMMA ScanKeeps ==
  ASSUME NEW s \in Scheds, NEW S, S \subseteq Ticks, NEW now \in Nat, NEW i \in Nat \ {0},
         ScanFrom(s, now, i, S), MarkedOnce(s, S), TimesFit(s, S),
         switchedOn \subseteq ScheduledIds
  PROVE  /\ sched' \in Scheds /\ suspended' \subseteq Ticks /\ S \subseteq suspended'
         /\ MarkedOnce(sched', suspended') /\ TimesFit(sched', suspended')
         /\ \A id \in ScheduledIds :
              /\ sched'[id].lastRun = s[id].lastRun /\ sched'[id].nextRun = s[id].nextRun
              /\ ~sched'[id].running => ~s[id].running
         /\ \A t \in suspended' : t \in S \/ (t.now = now /\ i <= Index(t.task))
         /\ \A id \in switchedOn :
              ~sched'[id].running /\ s[id].nextRun <= now /\ i <= Index(id) =>
                \E t \in suspended' : t.now = now /\ Index(t.task) < Index(id)
<1>1. CASE /\ sched' = s /\ suspended' = S
           /\ \A j \in i..Len(Order) : ~Due(s, now, Order[j])
  <2>1. ASSUME NEW id \in switchedOn, ~s[id].running, s[id].nextRun <= now, i <= Index(id)
        PROVE  FALSE
    <3>1. Index(id) \in i..Len(Order) /\ Order[Index(id)] = id
      BY <2>1, IndexFacts
    <3>2. s[id].nextRun \in Nat
      BY DEF Scheds
    <3> QED BY <1>1, <2>1, <3>1, <3>2 DEF Due
  <2> QED BY <1>1, <2>1
<1>2. CASE \E j \in i..Len(Order) :
             /\ Due(s, now, Order[j])
             /\ \A k \in i..Len(Order) : Due(s, now, Order[k]) => j <= k
             /\ sched' = [s EXCEPT ![Order[j]].running = TRUE]
             /\ suspended' = S \cup {[task |-> Order[j], now |-> now]}
  <2>1. PICK j \in i..Len(Order) :
             /\ Due(s, now, Order[j])
             /\ \A k \in i..Len(Order) : Due(s, now, Order[k]) => j <= k
             /\ sched' = [s EXCEPT ![Order[j]].running = TRUE]
             /\ suspended' = S \cup {[task |-> Order[j], now |-> now]}
    BY <1>2
  <2> DEFINE x == Order[j]
             new == [task |-> x, now |-> now]
  <2>2. j \in Nat /\ i <= j /\ x \in ScheduledIds /\ Index(x) = j
    BY IndexFacts
  <2>3. ~s[x].running /\ now >= s[x].nextRun /\ x \in switchedOn
    BY <2>1 DEF Due
  <2> HIDE DEF x
  <2>4. sched' = [s EXCEPT ![x].running = TRUE] /\ suspended' = S \cup {new}
    BY <2>1 DEF x
  <2>5. new \in Ticks /\ new.task = x /\ new.now = now
    BY <2>2 DEF Ticks
  <2> HIDE DEF new
  <2>6. sched' \in Scheds
    BY <2>2, <2>4 DEF Scheds
  <2>7. \A id \in ScheduledIds :
          /\ sched'[id].lastRun = s[id].lastRun /\ sched'[id].nextRun = s[id].nextRun
          /\ id # x => sched'[id] = s[id]
    BY <2>2, <2>4 DEF Scheds
  <2>8. sched'[x].running
    BY <2>2, <2>4 DEF Scheds
  <2>9. \A id \in ScheduledIds : ~sched'[id].running => id # x /\ ~s[id].running
    BY <2>7, <2>8
  <2>10. \A t \in S : t.task \in ScheduledIds /\ s[t.task].running /\ t.task # x
    BY <2>3 DEF MarkedOnce, Ticks
  <2>11. MarkedOnce(sched', suspended')
    <3>1. \A t, u \in suspended' : t.task = u.task => t = u
      BY <2>4, <2>5, <2>10 DEF MarkedOnce
    <3>2. \A t \in suspended' : sched'[t.task].running
      BY <2>4, <2>5, <2>7, <2>8, <2>10
    <3> QED BY <3>1, <3>2 DEF MarkedOnce
  <2>12. TimesFit(sched', suspended')
    <3>1. \A id \in ScheduledIds : sched'[id].lastRun <= sched'[id].nextRun
      BY <2>7 DEF TimesFit
    <3>2. s[x].nextRun \in Nat /\ sched'[x].nextRun <= now
      BY <2>2, <2>3, <2>7 DEF Scheds
    <3>3. \A t \in S : sched'[t.task].nextRun <= t.now
      BY <2>7, <2>10 DEF TimesFit
    <3> QED BY <2>4, <2>5, <3>1, <3>2, <3>3 DEF TimesFit
  <2>13. ASSUME NEW id \in switchedOn, ~sched'[id].running, s[id].nextRun <= now, i <= Index(id)
         PROVE  \E t \in suspended' : t.now = now /\ Index(t.task) < Index(id)
    <3>1. id \in ScheduledIds /\ id # x /\ ~s[id].running /\ s[id].nextRun \in Nat
      BY <2>9, <2>13 DEF Scheds
    <3>2. Index(id) \in i..Len(Order) /\ Order[Index(id)] = id
      BY <2>13, <3>1, IndexFacts
    <3>3. Due(s, now, Order[Index(id)])
      BY <2>13, <3>1, <3>2 DEF Due
    <3>4. j <= Index(id) /\ j # Index(id)
      BY <2>1, <3>1, <3>2, <3>3 DEF x
    <3> QED BY <2>2, <2>4, <2>5, <3>2, <3>4
  <2> QED BY <2>2, <2>4, <2>5, <2>6, <2>7, <2>9, <2>11, <2>12, <2>13
<1> QED BY <1>1, <1>2, ScanFacts

\* The interval fires.
LEMMA TickInv ==
  ASSUME SchedInv, Tick
  PROVE  SchedInv'
<1> DEFINE m == minute + 1
<1>1. /\ minute' = m /\ ScanFrom(sched, m, 1, suspended)
      /\ UNCHANGED <<switchedOn, readySince, manual, files, backupMade, excused>>
  BY DEF Tick, StartPosition
<1>2. minute \in Nat /\ m \in Nat
  BY DEF SchedInv, SchedTypeInv
<1>3. /\ sched' \in Scheds /\ suspended' \subseteq Ticks /\ suspended \subseteq suspended'
      /\ MarkedOnce(sched', suspended') /\ TimesFit(sched', suspended')
      /\ \A id \in ScheduledIds :
           /\ sched'[id].nextRun = sched[id].nextRun
           /\ ~sched'[id].running => ~sched[id].running
      /\ \A t \in suspended' : t \in suspended \/ t.now = m
      /\ \A id \in switchedOn :
           ~sched'[id].running /\ sched[id].nextRun <= m /\ 1 <= Index(id) =>
             \E t \in suspended' : t.now = m /\ Index(t.task) < Index(id)
  <2>1. /\ sched \in Scheds /\ suspended \subseteq Ticks /\ MarkedOnce(sched, suspended)
        /\ TimesFit(sched, suspended) /\ switchedOn \subseteq ScheduledIds
    BY DEF SchedInv, SchedTypeInv
  <2> HIDE DEF m
  <2> QED BY <1>1, <1>2, <2>1, ScanKeeps
<1>4. SchedTypeInv'
  BY <1>1, <1>2, <1>3 DEF SchedInv, SchedTypeInv
<1>5. HeldUp(sched', suspended', switchedOn', readySince', minute')
  <2> SUFFICES ASSUME NEW id \in switchedOn, ~sched'[id].running, NEW k \in Nat,
                      readySince[id] < k, sched'[id].nextRun <= k, k <= m
               PROVE  \E t \in suspended' : t.now = k /\ Index(t.task) < Index(id)
    BY <1>1 DEF HeldUp
  <2>1. id \in ScheduledIds /\ sched[id].nextRun <= k /\ ~sched[id].running
    BY <1>3 DEF SchedInv, SchedTypeInv
  <2>2. CASE k <= minute
    BY <1>3, <2>1, <2>2 DEF SchedInv, HeldUp
  <2>3. CASE k = m
    <3>1. 1 <= Index(id)
      BY <2>1, IndexFacts
    <3> QED BY <1>3, <2>1, <2>3, <3>1
  <2> QED BY <1>2, <2>2, <2>3
<1>6. NamesApart'
  <2>1. \A n \in manual \cup DOMAIN files : n \in Nat /\ n <= minute
    BY DEF SchedInv, SchedTypeInv, NamesApart
  <2>2. m \notin manual \cup DOMAIN files
    BY <1>2, <2>1
  <2>3. \A t \in suspended' : t.now <= m
    BY <1>2, <1>3 DEF SchedInv, NamesApart, SchedTypeInv, Ticks
  <2>4. \A n \in manual \cup DOMAIN files : n <= m
    BY <1>2, <2>1
  <2> HIDE DEF m
  <2> QED BY <1>1, <1>3, <2>2, <2>3, <2>4 DEF SchedInv, NamesApart
<1>7. ABackupStays'
  BY <1>1 DEF SchedInv, ABackupStays
<1> QED BY <1>3, <1>4, <1>5, <1>6, <1>7 DEF SchedInv


\* A task is over and its tick goes on, for TaskEnds and AutoBackupEnds.
LEMMA GoesOn ==
  ASSUME SchedInv, NEW t \in suspended, UNCHANGED <<minute, switchedOn>>,
         ScanFrom([sched EXCEPT ![t.task] = Finished(t)], t.now, Index(t.task) + 1,
                  suspended \ {t}),
         readySince' = [readySince EXCEPT ![t.task] = minute]
  PROVE  /\ sched' \in Scheds /\ suspended' \subseteq Ticks /\ readySince' \in [ScheduledIds -> Nat]
         /\ MarkedOnce(sched', suspended') /\ TimesFit(sched', suspended')
         /\ HeldUp(sched', suspended', switchedOn', readySince', minute')
         /\ \A u \in suspended' : \/ u \in suspended \ {t}
                                  \/ u.now = t.now /\ u.task # "auto_backup"
         /\ \A id \in ScheduledIds : sched[id].lastRun <= sched'[id].lastRun
<1> DEFINE s == [sched EXCEPT ![t.task] = Finished(t)]
           S == suspended \ {t}
           i == Index(t.task) + 1
<1>1. /\ sched \in Scheds /\ suspended \subseteq Ticks /\ minute \in Nat
      /\ switchedOn \subseteq ScheduledIds /\ readySince \in [ScheduledIds -> Nat]
      /\ MarkedOnce(sched, suspended) /\ TimesFit(sched, suspended)
      /\ HeldUp(sched, suspended, switchedOn, readySince, minute)
  BY DEF SchedInv, SchedTypeInv
<1>2. /\ t.task \in ScheduledIds /\ t.now \in Nat /\ Index(t.task) \in Nat
      /\ i \in Nat \ {0} /\ Interval[t.task] \in Nat
  BY <1>1, IndexFacts, SchedulerAssumption DEF Ticks
<1>3. Finished(t) \in [lastRun : Nat, nextRun : Nat, running : BOOLEAN]
  BY <1>2 DEF Finished
<1>4. /\ s \in Scheds
      /\ \A id \in ScheduledIds : id # t.task => s[id] = sched[id]
      /\ s[t.task].lastRun = t.now /\ s[t.task].nextRun = t.now + Interval[t.task]
  BY <1>1, <1>2, <1>3 DEF Scheds, Finished
<1> HIDE DEF s
<1>5. \A u \in S : u \in suspended /\ u.task \in ScheduledIds /\ u.task # t.task
                   /\ s[u.task] = sched[u.task]
  BY <1>1, <1>4 DEF MarkedOnce, Ticks
<1>6. MarkedOnce(s, S)
  BY <1>1, <1>5 DEF MarkedOnce
<1>7. TimesFit(s, S)
  <2>1. \A id \in ScheduledIds : s[id].lastRun <= s[id].nextRun
    BY <1>1, <1>2, <1>4 DEF TimesFit
  <2>2. \A u \in S : s[u.task].nextRun <= u.now
    BY <1>1, <1>5 DEF TimesFit
  <2> QED BY <2>1, <2>2 DEF TimesFit
<1>8. ScanFrom(s, t.now, i, S) /\ S \subseteq Ticks
  BY <1>1 DEF s
<1>9. /\ sched' \in Scheds /\ suspended' \subseteq Ticks /\ S \subseteq suspended'
      /\ MarkedOnce(sched', suspended') /\ TimesFit(sched', suspended')
      /\ \A id \in ScheduledIds :
           /\ sched'[id].lastRun = s[id].lastRun /\ sched'[id].nextRun = s[id].nextRun
           /\ ~sched'[id].running => ~s[id].running
      /\ \A u \in suspended' : u \in S \/ (u.now = t.now /\ i <= Index(u.task))
      /\ \A id \in switchedOn :
           ~sched'[id].running /\ s[id].nextRun <= t.now /\ i <= Index(id) =>
             \E u \in suspended' : u.now = t.now /\ Index(u.task) < Index(id)
  <2> HIDE DEF S, i
  <2> QED BY <1>1, <1>2, <1>4, <1>6, <1>7, <1>8, ScanKeeps
<1>10. readySince' \in [ScheduledIds -> Nat] /\ readySince'[t.task] = minute
       /\ \A id \in ScheduledIds : id # t.task => readySince'[id] = readySince[id]
  BY <1>1, <1>2
<1>11. HeldUp(sched', suspended', switchedOn', readySince', minute')
  <2> SUFFICES ASSUME NEW id \in switchedOn, ~sched'[id].running, NEW k \in Nat,
                      readySince'[id] < k, sched'[id].nextRun <= k, k <= minute
               PROVE  \E u \in suspended' : u.now = k /\ Index(u.task) < Index(id)
    BY DEF HeldUp
  <2>1. id \in ScheduledIds /\ id # t.task
    BY <1>1, <1>10
  <2>2. s[id] = sched[id] /\ ~sched[id].running /\ sched[id].nextRun <= k /\ readySince[id] < k
    BY <1>4, <1>9, <1>10, <2>1
  <2>3. PICK u \in suspended : u.now = k /\ Index(u.task) < Index(id)
    BY <1>1, <2>2 DEF HeldUp
  <2>4. CASE u # t
    BY <1>9, <2>3, <2>4
  <2>5. CASE u = t
    <3>1. i <= Index(id) /\ s[id].nextRun <= t.now
      BY <1>2, <2>1, <2>2, <2>3, <2>5, IndexFacts
    <3> QED BY <1>9, <2>3, <2>5, <3>1
  <2> QED BY <2>4, <2>5
<1>12. \A u \in suspended' : u \in S \/ (u.now = t.now /\ u.task # "auto_backup")
  <2> SUFFICES ASSUME NEW u \in suspended', u.now = t.now, i <= Index(u.task)
               PROVE  u.task # "auto_backup"
    BY <1>9
  <2>1. u.task \in ScheduledIds /\ Index(t.task) \in 1..Len(Order)
    BY <1>2, <1>9, IndexFacts DEF Ticks
  <2> QED BY <1>2, <2>1, IndexFacts
<1>13. \A id \in ScheduledIds : sched[id].lastRun <= sched'[id].lastRun
  <2> SUFFICES ASSUME NEW id \in ScheduledIds
               PROVE  sched[id].lastRun <= sched'[id].lastRun
    OBVIOUS
  <2>1. sched[id].lastRun \in Nat /\ sched[id].nextRun \in Nat
    BY <1>1 DEF Scheds
  <2>2. CASE id = t.task
    BY <1>1, <1>2, <1>4, <1>9, <2>1, <2>2 DEF TimesFit
  <2>3. CASE id # t.task
    BY <1>4, <1>9, <2>1, <2>3
  <2> QED BY <2>2, <2>3
<1> QED BY <1>9, <1>10, <1>11, <1>12, <1>13

LEMMA TaskEndsInv ==
  ASSUME SchedInv, NEW t \in suspended, TaskEnds(t)
  PROVE  SchedInv'
<1>1. /\ UNCHANGED <<minute, switchedOn, manual, files, backupMade, excused>>
      /\ ScanFrom([sched EXCEPT ![t.task] = Finished(t)], t.now, Index(t.task) + 1,
                  suspended \ {t})
      /\ readySince' = [readySince EXCEPT ![t.task] = minute]
  BY DEF TaskEnds
<1>2. /\ sched' \in Scheds /\ suspended' \subseteq Ticks /\ readySince' \in [ScheduledIds -> Nat]
      /\ MarkedOnce(sched', suspended') /\ TimesFit(sched', suspended')
      /\ HeldUp(sched', suspended', switchedOn', readySince', minute')
      /\ \A u \in suspended' : \/ u \in suspended \ {t}
                               \/ u.now = t.now /\ u.task # "auto_backup"
  BY <1>1, GoesOn
<1>3. NamesApart'
  BY <1>1, <1>2 DEF SchedInv, NamesApart
<1> QED BY <1>1, <1>2, <1>3 DEF SchedInv, SchedTypeInv, ABackupStays

\* Pruning keeps a complete backup, or too many are incomplete.
LEMMA PruneKeepsOne ==
  ASSUME NEW name \in Nat, NEW n \in Nat \ {0}, Prune(Complete(name), n),
         DOMAIN files \subseteq Nat, IsFiniteSet(DOMAIN files)
  PROVE  /\ DOMAIN files' \subseteq DOMAIN files \cup {name} /\ IsFiniteSet(DOMAIN files')
         /\ \A f \in DOMAIN files' : f # name => files'[f] = files[f]
         /\ ABackupStays'
<1> DEFINE fs == Complete(name)
           D == DOMAIN files \cup {name}
           bad == {f \in D : ~fs[f].complete}
<1>1. DOMAIN fs = D /\ fs[name].complete /\ \A f \in D : f # name => fs[f] = files[f]
  BY DEF Complete
<1> HIDE DEF fs
<1>2. PICK keep \in SUBSET D :
        /\ Cardinality(keep) = Min({n, Cardinality(D)})
        /\ files' = [f \in keep |-> fs[f]]
        /\ excused' = (excused \/ Cardinality(bad) >= n)
  BY <1>1 DEF Prune, Keeps, fs
<1>3. IsFiniteSet(D) /\ Cardinality(D) \in Nat
  BY FS_AddElement, FS_CardinalityType
<1>4. IsFiniteSet(keep) /\ (Cardinality(keep) = Cardinality(D) => keep = D)
  BY <1>3, FS_Subset
<1>5. Cardinality(keep) = n \/ Cardinality(keep) = Cardinality(D)
  <2>1. \E x \in {n, Cardinality(D)} : \A y \in {n, Cardinality(D)} : x <= y
    BY <1>3
  <2>2. Min({n, Cardinality(D)}) \in {n, Cardinality(D)}
    BY <2>1 DEF Min
  <2> QED BY <1>2, <2>2
<1>6. ASSUME ~(Cardinality(bad) >= n)
      PROVE  \E f \in keep : fs[f].complete
  <2> SUFFICES ASSUME \A f \in keep : ~fs[f].complete
               PROVE  FALSE
    OBVIOUS
  <2>1. IsFiniteSet(bad) /\ bad \in SUBSET D
    <3>1. bad \in SUBSET D
      OBVIOUS
    <3> QED BY <1>3, <3>1, FS_Subset
  <2>2. keep \in SUBSET bad
    OBVIOUS
  <2>3. Cardinality(keep) <= Cardinality(bad) /\ Cardinality(bad) \in Nat /\ Cardinality(keep) \in Nat
    BY <1>4, <2>1, <2>2, FS_Subset, FS_CardinalityType
  <2>4. Cardinality(keep) # n
    BY <1>6, <2>3
  <2>5. name \in keep
    BY <1>4, <1>5, <2>4
  <2> QED BY <1>1, <2>5
<1>7. \A f \in keep : files'[f] = fs[f]
  BY <1>2
<1>8. DOMAIN files' = keep
  BY <1>2
<1>9. ABackupStays'
  BY <1>2, <1>6, <1>7, <1>8 DEF ABackupStays
<1> QED BY <1>1, <1>4, <1>7, <1>8, <1>9

\* What the scheduler has under way keeps its name to itself.
LEMMA BackupEndsInv ==
  ASSUME SchedInv, NEW t \in suspended, AutoBackupEnds(t)
  PROVE  SchedInv'
<1>1. /\ t.task = "auto_backup" /\ UNCHANGED <<minute, switchedOn, manual>>
      /\ ScanFrom([sched EXCEPT ![t.task] = Finished(t)], t.now, Index(t.task) + 1,
                  suspended \ {t})
      /\ readySince' = [readySince EXCEPT ![t.task] = minute]
      /\ \/ Prune(Complete(t.now), RetentionCount)
         \/ /\ files' = [n \in DOMAIN files \ {t.now} |-> files[n]]
            /\ UNCHANGED <<backupMade, excused>>
  BY DEF AutoBackupEnds
<1>2. /\ sched' \in Scheds /\ suspended' \subseteq Ticks /\ readySince' \in [ScheduledIds -> Nat]
      /\ MarkedOnce(sched', suspended') /\ TimesFit(sched', suspended')
      /\ HeldUp(sched', suspended', switchedOn', readySince', minute')
      /\ \A u \in suspended' : \/ u \in suspended \ {t}
                               \/ u.now = t.now /\ u.task # "auto_backup"
  BY <1>1, GoesOn
<1>3. /\ t.now \in Nat /\ t.now <= minute /\ DOMAIN files \subseteq Nat
      /\ IsFiniteSet(DOMAIN files) /\ NamesApart /\ ABackupStays
  BY DEF SchedInv, SchedTypeInv, Ticks, NamesApart
<1>4. /\ DOMAIN files' \subseteq DOMAIN files \cup {t.now} /\ IsFiniteSet(DOMAIN files')
      /\ \A f \in DOMAIN files' : f # t.now => files'[f] = files[f]
      /\ ABackupStays'
  <2>1. CASE Prune(Complete(t.now), RetentionCount)
    BY <1>3, <2>1, PruneKeepsOne, SchedulerAssumption
  <2>2. CASE /\ files' = [n \in DOMAIN files \ {t.now} |-> files[n]]
             /\ UNCHANGED <<backupMade, excused>>
    <3>1. IsFiniteSet(DOMAIN files \ {t.now})
      BY <1>3, FS_RemoveElement
    <3>2. t.now \in DOMAIN files => ~files[t.now].complete
      BY <1>1, <1>3 DEF NamesApart
    <3>3. ABackupStays'
      BY <1>3, <2>2, <3>2 DEF ABackupStays
    <3> QED BY <2>2, <3>1, <3>3
  <2> QED BY <1>1, <2>1, <2>2
<1>5. NamesApart'
  <2>2. \A u \in suspended' : u.task = "auto_backup" => FALSE
    <3> SUFFICES ASSUME NEW u \in suspended', u.task = "auto_backup"
                 PROVE  FALSE
      OBVIOUS
    <3>1. u \in suspended /\ u # t
      BY <1>2
    <3> QED BY <1>1, <3>1 DEF SchedInv, MarkedOnce
  <2>3. \A u \in suspended' : u.now <= minute
    BY <1>2, <1>3 DEF NamesApart
  <2>4. \A n \in manual \cup DOMAIN files' : n <= minute
    BY <1>3, <1>4 DEF NamesApart
  <2> QED BY <1>1, <2>2, <2>3, <2>4 DEF NamesApart
<1>6. SchedTypeInv'
  BY <1>1, <1>2, <1>3, <1>4 DEF SchedInv, SchedTypeInv
<1> QED BY <1>2, <1>4, <1>5, <1>6 DEF SchedInv


\* The file of a backup appears; one made by hand ends.
LEMMA BackupWritesInv ==
  ASSUME SchedInv, NEW name, BackupWrites(name)
  PROVE  SchedInv'
<1>1. /\ UNCHANGED <<minute, sched, suspended, switchedOn, readySince, manual, backupMade, excused>>
      /\ name \notin DOMAIN files
      /\ (\E t \in suspended : t.task = "auto_backup" /\ t.now = name) \/ name \in manual
      /\ files' = [n \in DOMAIN files \cup {name} |->
                     IF n = name THEN [mtime |-> minute, complete |-> FALSE] ELSE files[n]]
  BY DEF BackupWrites
<1>2. /\ DOMAIN files \subseteq Nat /\ IsFiniteSet(DOMAIN files) /\ NamesApart /\ ABackupStays
      /\ manual \subseteq Nat /\ suspended \subseteq Ticks
  BY DEF SchedInv, SchedTypeInv
<1>3. name \in Nat /\ name <= minute
  BY <1>1, <1>2 DEF NamesApart, Ticks
<1>4. /\ DOMAIN files' = DOMAIN files \cup {name} /\ ~files'[name].complete
      /\ \A n \in DOMAIN files : files'[n] = files[n]
  BY <1>1
<1>5. IsFiniteSet(DOMAIN files')
  BY <1>2, <1>4, FS_AddElement
<1>6. ABackupStays'
  BY <1>1, <1>2, <1>4 DEF ABackupStays
<1>7. NamesApart'
  BY <1>1, <1>2, <1>3, <1>4 DEF NamesApart
<1>8. SchedTypeInv'
  BY <1>1, <1>2, <1>3, <1>4, <1>5 DEF SchedInv, SchedTypeInv
<1> QED BY <1>1, <1>6, <1>7, <1>8 DEF SchedInv

LEMMA ManualEndsInv ==
  ASSUME SchedInv, NEW name \in manual, NEW keep \in Nat \ {0}, ManualBackupEnds(name, keep)
  PROVE  SchedInv'
<1>1. /\ UNCHANGED <<minute, sched, suspended, switchedOn, readySince>>
      /\ manual' = manual \ {name} /\ Prune(Complete(name), keep)
  BY DEF ManualBackupEnds
<1>2. /\ DOMAIN files \subseteq Nat /\ IsFiniteSet(DOMAIN files) /\ NamesApart
      /\ manual \subseteq Nat /\ name \in Nat
  BY DEF SchedInv, SchedTypeInv
<1>3. /\ DOMAIN files' \subseteq DOMAIN files \cup {name} /\ IsFiniteSet(DOMAIN files')
      /\ \A f \in DOMAIN files' : f # name => files'[f] = files[f]
      /\ ABackupStays'
  BY <1>1, <1>2, PruneKeepsOne
<1>4. NamesApart'
  <2>1. \A n \in manual' \cup DOMAIN files' : n <= minute
    BY <1>1, <1>2, <1>3 DEF NamesApart
  <2>2. \A t \in suspended : t.task = "auto_backup" => t.now # name
    BY <1>2 DEF NamesApart
  <2>3. \A t \in suspended : t.task = "auto_backup" =>
          t.now \notin manual' /\ (t.now \in DOMAIN files' => ~files'[t.now].complete)
    BY <1>1, <1>2, <1>3, <2>2 DEF NamesApart
  <2> QED BY <1>1, <1>2, <2>1, <2>3 DEF NamesApart
<1>5. SchedTypeInv'
  BY <1>1, <1>2, <1>3 DEF SchedInv, SchedTypeInv
<1> QED BY <1>1, <1>3, <1>4, <1>5 DEF SchedInv

\* What people do: backups begun and deleted by hand, switches, restarts.
LEMMA ByHandInv ==
  ASSUME SchedInv,
         \/ ManualBackup
         \/ \E name \in 1..MaxMinute : DeleteBackup(name)
         \/ \E id \in ScheduledIds : SwitchTask(id)
         \/ RestartServer
  PROVE  SchedInv'
<1>1. /\ minute \in Nat /\ sched \in Scheds /\ suspended \subseteq Ticks
      /\ switchedOn \subseteq ScheduledIds /\ readySince \in [ScheduledIds -> Nat]
      /\ manual \subseteq Nat /\ DOMAIN files \subseteq Nat /\ IsFiniteSet(DOMAIN files)
  BY DEF SchedInv, SchedTypeInv
<1>2. CASE ManualBackup
  <2>1. /\ UNCHANGED <<minute, sched, suspended, switchedOn, readySince, files, backupMade, excused>>
        /\ minute \notin manual \cup DOMAIN files /\ manual' = manual \cup {minute}
        /\ [task |-> "auto_backup", now |-> minute] \notin suspended
    BY <1>2 DEF ManualBackup
  <2>2. \A t \in suspended : t.task = "auto_backup" => t.now # minute
    <3> SUFFICES ASSUME NEW t \in suspended, t.task = "auto_backup", t.now = minute
                 PROVE  FALSE
      OBVIOUS
    <3>1. t = [task |-> "auto_backup", now |-> minute]
      BY <1>1 DEF Ticks
    <3> QED BY <2>1, <3>1
  <2>3. NamesApart'
    BY <1>1, <2>1, <2>2 DEF SchedInv, NamesApart
  <2> QED BY <1>1, <2>1, <2>3 DEF SchedInv, SchedTypeInv, ABackupStays
<1>3. CASE \E name \in 1..MaxMinute : DeleteBackup(name)
  <2>1. PICK name \in 1..MaxMinute : DeleteBackup(name)
    BY <1>3
  <2>2. /\ UNCHANGED <<minute, sched, suspended, switchedOn, readySince, manual, backupMade>>
        /\ files' = [n \in DOMAIN files \ {name} |-> files[n]] /\ excused' = TRUE
    BY <2>1 DEF DeleteBackup
  <2>3. IsFiniteSet(DOMAIN files')
    BY <1>1, <2>2, FS_RemoveElement
  <2>4. NamesApart'
    BY <2>2 DEF SchedInv, NamesApart
  <2> QED BY <1>1, <2>2, <2>3, <2>4 DEF SchedInv, SchedTypeInv, ABackupStays
<1>4. CASE \E id \in ScheduledIds : SwitchTask(id)
  <2>1. PICK id \in ScheduledIds : SwitchTask(id)
    BY <1>4
  <2>2. /\ UNCHANGED <<minute, sched, suspended, manual, files, backupMade, excused>>
        /\ switchedOn' \subseteq switchedOn \cup {id}
        /\ readySince' = [readySince EXCEPT ![id] = minute]
    BY <2>1 DEF SwitchTask
  <2>3. HeldUp(sched', suspended', switchedOn', readySince', minute')
    <3> SUFFICES ASSUME NEW x \in switchedOn', ~sched[x].running, NEW k \in Nat,
                        readySince'[x] < k, sched[x].nextRun <= k, k <= minute
                 PROVE  \E t \in suspended : t.now = k /\ Index(t.task) < Index(x)
      BY <2>2 DEF HeldUp
    <3>1. x # id /\ x \in switchedOn /\ readySince[x] < k
      BY <1>1, <2>2
    <3> QED BY <3>1 DEF SchedInv, HeldUp
  <2>4. switchedOn' \subseteq ScheduledIds /\ readySince' \in [ScheduledIds -> Nat]
    BY <1>1, <2>2
  <2>5. NamesApart'
    BY <2>2 DEF SchedInv, NamesApart
  <2> QED BY <1>1, <2>2, <2>3, <2>4, <2>5 DEF SchedInv, SchedTypeInv, ABackupStays
<1>5. CASE RestartServer
  <2>1. /\ UNCHANGED <<minute, switchedOn, files, backupMade, excused>>
        /\ sched' = Registered(minute) /\ suspended' = {} /\ manual' = {}
        /\ readySince' = [id \in ScheduledIds |-> minute]
    BY <1>5 DEF RestartServer
  <2>2. sched' \in Scheds /\ TimesFit(sched', suspended')
    BY <1>1, <2>1, SchedulerAssumption DEF Registered, NeverRun, Scheds, TimesFit
  <2>3. HeldUp(sched', suspended', switchedOn', readySince', minute')
    <3> SUFFICES ASSUME NEW x \in switchedOn, NEW k \in Nat, readySince'[x] < k, k <= minute
                 PROVE  FALSE
      BY <2>1 DEF HeldUp
    <3> QED BY <1>1, <2>1
  <2>4. MarkedOnce(sched', suspended') /\ NamesApart'
    BY <2>1 DEF MarkedOnce, NamesApart, SchedInv
  <2> QED BY <1>1, <2>1, <2>2, <2>3, <2>4 DEF SchedInv, SchedTypeInv, ABackupStays
<1> QED BY <1>2, <1>3, <1>4, <1>5

LEMMA SchedNextInv ==
  ASSUME SchedInv, SchedNext
  PROVE  SchedInv'
<1>1. CASE \E t \in suspended : TaskEnds(t) \/ AutoBackupEnds(t)
  BY <1>1, TaskEndsInv, BackupEndsInv
<1>2. CASE \E n \in 1..MaxMinute : BackupWrites(n) \/ DeleteBackup(n)
  BY <1>2, BackupWritesInv, ByHandInv
<1>3. CASE \E n \in manual, keep \in {RetentionCount, MaxManual} : ManualBackupEnds(n, keep)
  BY <1>3, ManualEndsInv, SchedulerAssumption
<1>4. CASE \E id \in ScheduledIds : SwitchTask(id)
  BY <1>4, ByHandInv
<1> QED BY <1>1, <1>2, <1>3, <1>4, TickInv, ByHandInv DEF SchedNext

\* No tick that comes back late sets the times of a task back.
LEMMA NeverBack ==
  ASSUME SchedInv, SchedNext
  PROVE  \/ \A id \in ScheduledIds : sched[id].lastRun <= sched'[id].lastRun
         \/ sched' = Registered(minute)
<1>1. \A id \in ScheduledIds : sched[id].lastRun \in Nat
  BY DEF SchedInv, SchedTypeInv, Scheds
<1>2. CASE Tick
  <2>1. /\ sched \in Scheds /\ suspended \subseteq Ticks /\ MarkedOnce(sched, suspended)
        /\ TimesFit(sched, suspended) /\ switchedOn \subseteq ScheduledIds
        /\ minute + 1 \in Nat /\ ScanFrom(sched, minute + 1, 1, suspended)
    BY <1>2 DEF SchedInv, SchedTypeInv, Tick, StartPosition
  <2>2. \A id \in ScheduledIds : sched'[id].lastRun = sched[id].lastRun
    BY <2>1, ScanKeeps
  <2> QED BY <1>1, <2>2
<1>3. CASE \E t \in suspended : TaskEnds(t) \/ AutoBackupEnds(t)
  <2>1. PICK t \in suspended : TaskEnds(t) \/ AutoBackupEnds(t)
    BY <1>3
  <2>2. /\ UNCHANGED <<minute, switchedOn>>
        /\ ScanFrom([sched EXCEPT ![t.task] = Finished(t)], t.now, Index(t.task) + 1,
                    suspended \ {t})
        /\ readySince' = [readySince EXCEPT ![t.task] = minute]
    BY <2>1 DEF TaskEnds, AutoBackupEnds
  <2> QED BY <2>2, GoesOn
<1>4. CASE \/ sched' = sched
           \/ sched' = Registered(minute)
  BY <1>1, <1>4
<1>5. ASSUME \/ \E n \in 1..MaxMinute : BackupWrites(n) \/ DeleteBackup(n)
             \/ \E n \in manual, keep \in {RetentionCount, MaxManual} : ManualBackupEnds(n, keep)
             \/ ManualBackup \/ \E id \in ScheduledIds : SwitchTask(id)
      PROVE  sched' = sched
  BY <1>5 DEF BackupWrites, DeleteBackup, ManualBackupEnds, ManualBackup, SwitchTask
<1>6. ASSUME RestartServer
      PROVE  sched' = Registered(minute)
  BY <1>6 DEF RestartServer
<1> QED BY <1>2, <1>3, <1>4, <1>5, <1>6 DEF SchedNext

\* Every tick since a task was due waits for a task further to the front, no two
\* of them for the same.
LEMMA HungDelayLittle ==
  ASSUME SchedInv
  PROVE  HungTasksDelayLittle
<1> SUFFICES ASSUME NEW id \in switchedOn, ~sched[id].running
             PROVE  minute < Max({sched[id].nextRun, readySince[id]}) + Index(id)
  BY DEF HungTasksDelayLittle
<1> DEFINE M == Max({sched[id].nextRun, readySince[id]})
           p == Index(id)
<1>1. /\ minute \in Nat /\ suspended \subseteq Ticks /\ id \in ScheduledIds
      /\ sched[id].nextRun \in Nat /\ readySince[id] \in Nat /\ p \in Nat \ {0}
      /\ MarkedOnce(sched, suspended)
      /\ HeldUp(sched, suspended, switchedOn, readySince, minute)
  BY IndexFacts DEF SchedInv, SchedTypeInv, Scheds
<1>2. M \in Nat /\ sched[id].nextRun <= M /\ readySince[id] <= M
  <2>1. \E x \in {sched[id].nextRun, readySince[id]} :
          \A y \in {sched[id].nextRun, readySince[id]} : x >= y
    BY <1>1
  <2> QED BY <1>1, <2>1 DEF Max
<1> HIDE DEF M, p
<1>3. SUFFICES ASSUME minute >= M + p
               PROVE  FALSE
  BY <1>1, <1>2 DEF M, p
<1> DEFINE W == (M + 1)..minute
           F == 1..(p - 1)
           f == [k \in W |-> Index((CHOOSE t \in suspended : t.now = k /\ Index(t.task) < p).task)]
           at(k) == CHOOSE t \in suspended : t.now = k /\ Index(t.task) < p
<1>4. \A k \in W : at(k) \in suspended /\ at(k).now = k /\ Index(at(k).task) < p
  <2> SUFFICES ASSUME NEW k \in W
               PROVE  \E t \in suspended : t.now = k /\ Index(t.task) < p
    OBVIOUS
  <2>1. k \in Nat /\ readySince[id] < k /\ sched[id].nextRun <= k /\ k <= minute
    BY <1>1, <1>2
  <2> QED BY <1>1, <2>1 DEF HeldUp, p
<1>5. \A k \in W : f[k] = Index(at(k).task)
  OBVIOUS
<1>6. f \in [W -> F]
  <2>1. \A k \in W : at(k).task \in ScheduledIds
    BY <1>1, <1>4 DEF Ticks
  <2>2. \A k \in W : Index(at(k).task) \in F
    <3> SUFFICES ASSUME NEW k \in W
                 PROVE  Index(at(k).task) \in F
      OBVIOUS
    <3> HIDE DEF at
    <3>1. Index(at(k).task) \in 1..Len(Order) /\ Len(Order) \in Nat
      BY <2>1, IndexFacts
    <3> QED BY <1>1, <1>4, <3>1
  <2> QED BY <2>2
<1> HIDE DEF at, f
<1>7. IsFiniteSet(W) /\ Cardinality(W) >= p
  BY <1>1, <1>2, <1>3, FS_Interval
<1>8. IsFiniteSet(F) /\ Cardinality(F) = p - 1
  <2>1. 1 \in Int /\ p - 1 \in Int /\ p - 1 >= 0
    BY <1>1
  <2>2. Cardinality(F) = IF 1 > p - 1 THEN 0 ELSE (p - 1) - 1 + 1
    BY <2>1, FS_Interval
  <2> QED BY <1>1, <2>1, <2>2, FS_Interval
<1>9. Cardinality(F) < Cardinality(W)
  BY <1>1, <1>7, <1>8, FS_CardinalityType
<1>10. PICK k, l \in W : k # l /\ f[k] = f[l]
  <2> HIDE DEF W, F
  <2> QED BY <1>6, <1>7, <1>8, <1>9, FS_PigeonHole
<1>11. at(k).task = at(l).task
  <2>1. at(k).task \in ScheduledIds /\ at(l).task \in ScheduledIds
    BY <1>1, <1>4, <1>10 DEF Ticks
  <2> QED BY <1>5, <1>10, <2>1, IndexFacts
<1> QED BY <1>1, <1>4, <1>10, <1>11 DEF MarkedOnce

\* Overlapping ticks neither repeat, starve nor set back a task, and their
\* pruning leaves a backup: for any tasks, however long they hang, any backups
\* made and deleted by hand, and any restarts.
THEOREM SchedulerCorrect == SchedSpec => SchedulerSafe
<1>1. SchedInit => SchedInv
  <2> SUFFICES ASSUME SchedInit
               PROVE  SchedInv
    OBVIOUS
  <2>1. sched \in Scheds /\ TimesFit(sched, suspended)
    BY SchedulerAssumption DEF SchedInit, Registered, NeverRun, Scheds, TimesFit
  <2>2. DOMAIN files = {}
    BY DEF SchedInit
  <2>3. IsFiniteSet(DOMAIN files)
    BY <2>2, FS_EmptySet
  <2>4. HeldUp(sched, suspended, switchedOn, readySince, minute)
    BY DEF SchedInit, HeldUp
  <2>5. MarkedOnce(sched, suspended) /\ NamesApart /\ ABackupStays
    BY <2>2 DEF SchedInit, MarkedOnce, NamesApart, ABackupStays
  <2> QED BY <2>1, <2>2, <2>3, <2>4, <2>5 DEF SchedInit, SchedInv, SchedTypeInv
<1>2. SchedInv /\ [SchedNext]_schedVars => SchedInv'
  <2>1. SchedInv /\ UNCHANGED schedVars => SchedInv'
    BY DEF schedVars, SchedInv, SchedTypeInv, MarkedOnce, TimesFit, HeldUp, NamesApart, ABackupStays
  <2> QED BY <2>1, SchedNextInv
<1>3. SchedInv => OneTickPerTask /\ HungTasksDelayLittle /\ ABackupStays
  BY HungDelayLittle DEF SchedInv, MarkedOnce, OneTickPerTask
<1>4. SchedInv /\ [SchedNext]_schedVars
        => [\A id \in ScheduledIds :
              sched[id].lastRun <= sched'[id].lastRun \/ sched' = Registered(minute)]_schedVars
  BY NeverBack
<1> QED BY <1>1, <1>2, <1>3, <1>4, PTL DEF SchedSpec, SchedulerSafe, LastRunNeverGoesBack

---------------------------------------------------------------------------
(***************************************************************************)
(* The rate limiter.                                                       *)
(*                                                                         *)
(* Windows of a key do not overlap, so a stretch of a window's length      *)
(* meets two of them at most: the present one, of which the entry knows    *)
(* the count, and one before it.                                           *)
(***************************************************************************)
Entries == [count : 1..(MaxRequests + 1), resetAt : Nat] \cup {NoEntry}
KeyOf(c) == IF TrustedProxies # {} THEN c ELSE "unknown"
EntryOf(c) == store[KeyOf(c)]
Start(c) == EntryOf(c).resetAt - WindowMs

RlTypeInv ==
  /\ clock \in Nat
  /\ store \in [Keys -> Entries]
  /\ passed \in [Clients -> Seq(Nat)]

\* The present window counts what passed in it, behind proxies exactly; the
\* window before it was full at most.
CountsWindow(c) ==
  /\ 0 <= Start(c) /\ Start(c) <= clock
  /\ \A i \in DOMAIN passed[c] : passed[c][i] <= EntryOf(c).resetAt
  /\ Within(c, Start(c), clock) <= EntryOf(c).count
  /\ Within(c, Start(c), clock) <= MaxRequests
  /\ TrustedProxies # {} =>
       \/ EntryOf(c).count = Within(c, Start(c), clock)
       \/ EntryOf(c).count = MaxRequests + 1 /\ Within(c, Start(c), clock) = MaxRequests
  /\ Within(c, Start(c) - WindowMs, Start(c) - 1) <= MaxRequests

\* Without an entry nothing passed now, and not more than a window's worth of late.
QuietSince(c) ==
  /\ \A i \in DOMAIN passed[c] : passed[c][i] < clock
  /\ Within(c, clock - WindowMs, clock) <= MaxRequests

ClientInv(c) ==
  /\ \A i \in DOMAIN passed[c] : passed[c][i] <= clock
  /\ EntryOf(c) # NoEntry => CountsWindow(c)
  /\ EntryOf(c) = NoEntry => QuietSince(c)
  /\ \A t \in Nat : Within(c, t, t + WindowMs) <= 2 * MaxRequests

RlInv == RlTypeInv /\ (\A c \in Clients : ClientInv(c)) /\ RefusedForItsOwn

\* Whatever the client writes in front, it is counted under one key.
LEMMA KeyFacts ==
  ASSUME NEW c \in Clients
  PROVE  /\ KeyOf(c) \in Keys
         /\ \A chain \in Chains(c) : ExtractClientIp(chain) = KeyOf(c)
<1>1. KeyOf(c) \in Keys
  BY DEF KeyOf, Keys
<1>2. ASSUME NEW chain \in Chains(c)
      PROVE  ExtractClientIp(chain) = KeyOf(c)
  <2> DEFINE U == {i \in DOMAIN chain : chain[i] \notin TrustedProxies}
  <2>1. c \notin TrustedProxies /\ \A f \in Clients : f \notin TrustedProxies
    BY RateLimiterAssumption
  <2>2. CASE chain = <<c>>
    <3>1. DOMAIN chain = {1} /\ chain[1] = c
      BY <2>2
    <3>2. U = {1}
      BY <2>1, <3>1
    <3> HIDE DEF U
    <3>3. Max(U) = 1
      BY <3>2 DEF Max
    <3> QED BY <3>1, <3>2, <3>3 DEF ExtractClientIp, KeyOf, U
  <2>3. CASE \E f \in Clients : chain = <<f, c>>
    <3>1. PICK f \in Clients : chain = <<f, c>>
      BY <2>3
    <3>2. DOMAIN chain = {1, 2} /\ chain[1] = f /\ chain[2] = c
      BY <3>1
    <3>3. U = {1, 2}
      BY <2>1, <3>2
    <3> HIDE DEF U
    <3>4. Max(U) = 2
      BY <3>3 DEF Max
    <3> QED BY <3>2, <3>3, <3>4 DEF ExtractClientIp, KeyOf, U
  <2>4. CASE \E p \in TrustedProxies : chain = <<c, p>>
    <3>1. PICK p \in TrustedProxies : chain = <<c, p>>
      BY <2>4
    <3>2. DOMAIN chain = {1, 2} /\ chain[1] = c /\ chain[2] = p
      BY <3>1
    <3>3. U = {1}
      BY <2>1, <3>2
    <3> HIDE DEF U
    <3>4. Max(U) = 1
      BY <3>3 DEF Max
    <3> QED BY <3>2, <3>3, <3>4 DEF ExtractClientIp, KeyOf, U
  <2> QED BY <2>2, <2>3, <2>4 DEF Chains
<1> QED BY <1>1, <1>2

\* What passed in a stretch: a number, no smaller for a longer stretch, and no
\* more than in the parts of the stretch.
LEMMA WithinFacts ==
  ASSUME NEW c, passed[c] \in Seq(Nat)
  PROVE  \A a, b \in Int :
           /\ IsFiniteSet(PassedIn(c, a, b)) /\ Within(c, a, b) \in Nat
           /\ \A x, y \in Int : x <= a /\ b <= y => Within(c, a, b) <= Within(c, x, y)
           /\ \A m \in Int : Within(c, a, b) <= Within(c, a, m - 1) + Within(c, m, b)
<1> DEFINE D == DOMAIN passed[c]
<1>1. IsFiniteSet(D) /\ \A i \in D : passed[c][i] \in Nat
  <2>1. Len(passed[c]) \in Nat /\ D = 1..Len(passed[c])
    OBVIOUS
  <2>2. \A i \in D : passed[c][i] \in Nat
    BY <2>1
  <2>3. IsFiniteSet(1..Len(passed[c]))
    <3>1. 1 \in Int /\ Len(passed[c]) \in Int
      BY <2>1
    <3> QED BY <3>1, FS_Interval
  <2> QED BY <2>1, <2>2, <2>3
<1> HIDE DEF D
<1>2. \A a, b : PassedIn(c, a, b) \in SUBSET D
  BY DEF PassedIn, D
<1>3. \A a, b : IsFiniteSet(PassedIn(c, a, b)) /\ Within(c, a, b) \in Nat
  BY <1>1, <1>2, FS_Subset, FS_CardinalityType DEF Within
<1>4. ASSUME NEW a \in Int, NEW b \in Int, NEW x \in Int, NEW y \in Int, x <= a, b <= y
      PROVE  Within(c, a, b) <= Within(c, x, y)
  <2>1. PassedIn(c, a, b) \in SUBSET PassedIn(c, x, y)
    BY <1>1, <1>4 DEF PassedIn, D
  <2> QED BY <1>3, <2>1, FS_Subset DEF Within
<1>5. ASSUME NEW a \in Int, NEW b \in Int, NEW m \in Int
      PROVE  Within(c, a, b) <= Within(c, a, m - 1) + Within(c, m, b)
  <2> DEFINE S == PassedIn(c, a, m - 1)
             T == PassedIn(c, m, b)
  <2>1. PassedIn(c, a, b) \in SUBSET (S \cup T)
    BY <1>1 DEF PassedIn, D
  <2>2. IsFiniteSet(S) /\ IsFiniteSet(T)
    BY <1>3
  <2> HIDE DEF S, T
  <2>3. /\ IsFiniteSet(S \cup T) /\ IsFiniteSet(S \cap T)
        /\ Cardinality(S \cup T) = Cardinality(S) + Cardinality(T) - Cardinality(S \cap T)
    BY <2>2, FS_Union, FS_Intersection
  <2>4. /\ Cardinality(S) \in Nat /\ Cardinality(T) \in Nat
        /\ Cardinality(S \cup T) \in Nat /\ Cardinality(S \cap T) \in Nat
    BY <2>2, <2>3, FS_CardinalityType
  <2>5. Within(c, a, b) <= Cardinality(S \cup T) /\ Within(c, a, b) \in Nat
    BY <1>3, <2>1, <2>3, FS_Subset DEF Within
  <2>6. Within(c, a, m - 1) = Cardinality(S) /\ Within(c, m, b) = Cardinality(T)
    BY DEF Within, S, T
  <2> QED BY <2>3, <2>4, <2>5, <2>6
<1> QED BY <1>3, <1>4, <1>5

\* One more request that passed counts in every stretch around now.
LEMMA OneMore ==
  ASSUME NEW c, passed[c] \in Seq(Nat), clock \in Nat, passed'[c] = Append(passed[c], clock)
  PROVE  /\ passed'[c] \in Seq(Nat)
         /\ \A i \in DOMAIN passed'[c] :
              (i \in DOMAIN passed[c] /\ passed'[c][i] = passed[c][i]) \/ passed'[c][i] = clock
         /\ \A a, b \in Int : Within(c, a, b)' =
              IF a <= clock /\ clock <= b THEN Within(c, a, b) + 1 ELSE Within(c, a, b)
<1> DEFINE n == Len(passed[c])
           q == passed'[c]
<1>1. /\ n \in Nat /\ DOMAIN passed[c] = 1..n /\ DOMAIN q = 1..(n + 1) /\ q \in Seq(Nat)
      /\ q[n + 1] = clock /\ \A i \in 1..n : q[i] = passed[c][i]
  OBVIOUS
<1> HIDE DEF n, q
<1>2. ASSUME NEW a \in Int, NEW b \in Int
      PROVE  Within(c, a, b)' =
               IF a <= clock /\ clock <= b THEN Within(c, a, b) + 1 ELSE Within(c, a, b)
  <2> DEFINE S == PassedIn(c, a, b)
  <2>1. IsFiniteSet(S) /\ S \subseteq 1..n
    BY <1>1, WithinFacts DEF PassedIn
  <2>2. n + 1 \notin S
    BY <1>1, <2>1
  <2>3. PassedIn(c, a, b)' = {i \in 1..(n + 1) : a <= q[i] /\ q[i] <= b}
    BY <1>1 DEF PassedIn, q
  <2>4. S = {i \in 1..n : a <= passed[c][i] /\ passed[c][i] <= b}
    BY <1>1 DEF PassedIn
  <2> HIDE DEF S
  <2>5. \A i : i \in 1..(n + 1) <=> i \in 1..n \/ i = n + 1
    BY <1>1
  <2>6. CASE a <= clock /\ clock <= b
    <3>1. PassedIn(c, a, b)' = S \cup {n + 1}
      BY <1>1, <2>3, <2>4, <2>5, <2>6
    <3>2. Cardinality(S \cup {n + 1}) = Cardinality(S) + 1
      BY <2>1, <2>2, FS_AddElement
    <3> QED BY <2>6, <3>1, <3>2 DEF Within, S
  <2>7. CASE ~(a <= clock /\ clock <= b)
    <3>1. PassedIn(c, a, b)' = S
      BY <1>1, <2>3, <2>4, <2>5, <2>7
    <3> QED BY <2>7, <3>1 DEF Within, S
  <2> QED BY <2>6, <2>7
<1>3. \A i \in DOMAIN q : (i \in DOMAIN passed[c] /\ q[i] = passed[c][i]) \/ q[i] = clock
  <2> SUFFICES ASSUME NEW i \in 1..(n + 1)
               PROVE  (i \in DOMAIN passed[c] /\ q[i] = passed[c][i]) \/ q[i] = clock
    BY <1>1
  <2>1. i \in 1..n \/ i = n + 1
    BY <1>1
  <2> QED BY <1>1, <2>1
<1> QED BY <1>1, <1>2, <1>3 DEF q


\* Nothing passed after now.
LEMMA NothingLater ==
  ASSUME NEW c, passed[c] \in Seq(Nat), NEW m \in Int, \A i \in DOMAIN passed[c] : passed[c][i] <= m
  PROVE  \A a, b \in Int : m <= b => Within(c, a, b) = Within(c, a, m)
<1> SUFFICES ASSUME NEW a \in Int, NEW b \in Int, m <= b
             PROVE  PassedIn(c, a, b) = PassedIn(c, a, m)
  BY DEF Within
<1>1. \A i \in DOMAIN passed[c] : passed[c][i] \in Nat
  OBVIOUS
<1>2. \A i \in DOMAIN passed[c] : passed[c][i] <= b
  BY <1>1
<1> QED BY <1>1, <1>2 DEF PassedIn

LEMMA EntryFacts ==
  ASSUME RlTypeInv, NEW c \in Clients
  PROVE  /\ KeyOf(c) \in Keys /\ passed[c] \in Seq(Nat) /\ clock \in Nat
         /\ WindowMs \in Nat /\ MaxRequests \in Nat \ {0}
         /\ EntryOf(c) # NoEntry => EntryOf(c).count \in 1..(MaxRequests + 1)
                                    /\ EntryOf(c).resetAt \in Nat
         /\ NoEntry.resetAt = 0 /\ NoEntry.count = 0
<1>1. KeyOf(c) \in Keys /\ passed[c] \in Seq(Nat)
  BY KeyFacts DEF RlTypeInv
<1>2. EntryOf(c) \in Entries
  BY <1>1 DEF RlTypeInv, EntryOf
<1>3. EntryOf(c) # NoEntry => EntryOf(c).count \in 1..(MaxRequests + 1) /\ EntryOf(c).resetAt \in Nat
  BY <1>2 DEF Entries
<1> QED BY <1>1, <1>3, RateLimiterAssumption DEF RlTypeInv, NoEntry

\* Time passes.
LEMMA ClockTickInv ==
  ASSUME RlInv, ClockTick
  PROVE  RlInv'
<1>1. clock' = clock + 1 /\ lastReply' = NoReply /\ UNCHANGED <<store, passed>>
  BY DEF ClockTick
<1>2. RlTypeInv' /\ RlTypeInv
  BY <1>1 DEF RlInv, RlTypeInv
<1>3. ASSUME NEW c \in Clients
      PROVE  ClientInv(c)'
  <2>1. ClientInv(c) /\ EntryOf(c)' = EntryOf(c) /\ Start(c)' = Start(c)
    BY <1>1 DEF RlInv, EntryOf, Start
  <2>2. /\ passed[c] \in Seq(Nat) /\ clock \in Nat /\ WindowMs \in Nat
        /\ EntryOf(c) # NoEntry => EntryOf(c).resetAt \in Nat
    BY <1>2, EntryFacts
  <2>3. \A i \in DOMAIN passed[c] : passed[c][i] \in Nat /\ passed[c][i] <= clock
    <3>1. \A i \in DOMAIN passed[c] : passed[c][i] \in Nat
      BY <2>2
    <3> QED BY <2>1, <3>1 DEF ClientInv
  <2>4. \A a, b \in Int : Within(c, a, b)' = Within(c, a, b)
    BY <1>1 DEF Within, PassedIn
  <2>5. \A a \in Int : Within(c, a, clock + 1) = Within(c, a, clock)
    <3>1. clock \in Int /\ clock + 1 \in Int /\ clock <= clock + 1
      BY <2>2
    <3> QED BY <2>2, <2>3, <3>1, NothingLater
  <2>6. \A i \in DOMAIN passed[c] : passed[c][i] < clock + 1
    BY <2>2, <2>3
  <2>7. ASSUME EntryOf(c) # NoEntry
        PROVE  CountsWindow(c)'
    <3>1. CountsWindow(c) /\ Start(c) \in Int
      BY <2>1, <2>2, <2>7 DEF ClientInv, Start
    <3>3. Within(c, Start(c) - WindowMs, Start(c) - 1)' = Within(c, Start(c) - WindowMs, Start(c) - 1)
      BY <1>1 DEF Within, PassedIn, Start, EntryOf
    <3>4. Start(c) <= clock + 1
      BY <2>2, <3>1 DEF CountsWindow
    <3>5. Within(c, Start(c), clock)' = Within(c, Start(c), clock)
      <4>1. PassedIn(c, Start(c), clock)' = PassedIn(c, Start(c), clock + 1)
        BY <1>1, <2>1 DEF PassedIn
      <4>2. Within(c, Start(c), clock)' = Within(c, Start(c), clock + 1)
        BY <4>1 DEF Within
      <4> QED BY <2>5, <3>1, <4>2
    <3> QED BY <1>1, <2>1, <3>1, <3>3, <3>4, <3>5 DEF CountsWindow
  <2>8. ASSUME EntryOf(c) = NoEntry
        PROVE  QuietSince(c)'
    <3>1. QuietSince(c)
      BY <2>1, <2>8 DEF ClientInv
    <3>2. /\ clock - WindowMs \in Int /\ (clock + 1) - WindowMs \in Int /\ clock \in Int
          /\ clock - WindowMs <= (clock + 1) - WindowMs
      BY <2>2
    <3>3. /\ Within(c, (clock + 1) - WindowMs, clock) <= Within(c, clock - WindowMs, clock)
          /\ Within(c, (clock + 1) - WindowMs, clock) \in Nat
          /\ Within(c, clock - WindowMs, clock) \in Nat
      BY <2>2, <3>2, WithinFacts
    <3>4. Within(c, (clock + 1) - WindowMs, clock + 1) <= MaxRequests
      BY <1>2, <2>5, <3>1, <3>2, <3>3, EntryFacts DEF QuietSince
    <3>5. Within(c, clock - WindowMs, clock)' = Within(c, (clock + 1) - WindowMs, clock + 1)
      <4>1. PassedIn(c, clock - WindowMs, clock)' = PassedIn(c, (clock + 1) - WindowMs, clock + 1)
        <5>1. PassedIn(c, clock - WindowMs, clock)' =
                {i \in DOMAIN passed'[c] : clock' - WindowMs <= passed'[c][i] /\ passed'[c][i] <= clock'}
          BY DEF PassedIn
        <5>2. PassedIn(c, (clock + 1) - WindowMs, clock + 1) =
                {i \in DOMAIN passed[c] : (clock + 1) - WindowMs <= passed[c][i] /\ passed[c][i] <= clock + 1}
          BY DEF PassedIn
        <5>3. clock' = clock + 1 /\ passed' = passed
          BY <1>1
        <5>4. clock' - WindowMs = (clock + 1) - WindowMs
          BY <2>2, <5>3
        <5>5. \A i : i \in PassedIn(c, clock - WindowMs, clock)'
                       <=> i \in PassedIn(c, (clock + 1) - WindowMs, clock + 1)
          BY <5>1, <5>2, <5>3, <5>4
        <5> QED BY <5>5
      <4> QED BY <4>1 DEF Within
    <3> QED BY <1>1, <2>6, <3>4, <3>5 DEF QuietSince
  <2>9. \A t \in Nat : Within(c, t, t + WindowMs)' <= 2 * MaxRequests
    BY <1>1, <2>1 DEF ClientInv, Within, PassedIn
  <2>10. \A i \in DOMAIN passed'[c] : passed'[c][i] <= clock'
    BY <1>1, <2>2, <2>3
  <2> QED BY <2>1, <2>7, <2>8, <2>9, <2>10 DEF ClientInv
<1>4. RefusedForItsOwn'
  BY <1>1 DEF RefusedForItsOwn, NoReply
<1> QED BY <1>2, <1>3, <1>4 DEF RlInv

\* The sweep forgets windows that are over.
LEMMA CleanupInv ==
  ASSUME RlInv, Cleanup
  PROVE  RlInv'
<1>1. store' = Swept /\ lastReply' = NoReply /\ UNCHANGED <<clock, passed>>
  BY DEF Cleanup
<1>2. RlTypeInv
  BY DEF RlInv
<1>3. RlTypeInv'
  <2>1. NoEntry \in Entries
    BY DEF Entries
  <2>2. Swept \in [Keys -> Entries]
    BY <1>2, <2>1 DEF RlTypeInv, Swept
  <2> QED BY <1>1, <1>2, <2>2 DEF RlTypeInv
<1>4. ASSUME NEW c \in Clients
      PROVE  ClientInv(c)'
  <2>1. ClientInv(c)
    BY DEF RlInv
  <2>2. /\ passed[c] \in Seq(Nat) /\ clock \in Nat /\ WindowMs \in Nat /\ KeyOf(c) \in Keys
        /\ MaxRequests \in Nat
        /\ EntryOf(c) # NoEntry => EntryOf(c).resetAt \in Nat
    BY <1>2, EntryFacts
  <2>3. EntryOf(c)' = IF clock > EntryOf(c).resetAt THEN NoEntry ELSE EntryOf(c)
    BY <1>1, <2>2 DEF EntryOf, Swept, KeyOf
  <2>4. CASE EntryOf(c)' = EntryOf(c)
    BY <1>1, <2>1, <2>4 DEF ClientInv, CountsWindow, QuietSince, Start, Within, PassedIn
  <2>5. CASE EntryOf(c)' # EntryOf(c)
    <3>1. /\ EntryOf(c)' = NoEntry /\ EntryOf(c) # NoEntry /\ clock > EntryOf(c).resetAt
          /\ CountsWindow(c)
      BY <2>1, <2>3, <2>5 DEF ClientInv
    <3>2. \A i \in DOMAIN passed[c] : passed[c][i] \in Nat
      BY <2>2
    <3>3. \A i \in DOMAIN passed[c] : passed[c][i] < clock
      BY <2>2, <3>1, <3>2 DEF CountsWindow
    <3>4. Start(c) \in Int /\ Start(c) <= clock - WindowMs /\ clock - WindowMs \in Int /\ clock \in Int
      BY <2>2, <3>1 DEF Start
    <3>5. /\ Within(c, clock - WindowMs, clock) <= Within(c, Start(c), clock)
          /\ Within(c, clock - WindowMs, clock) \in Nat /\ Within(c, Start(c), clock) \in Nat
      BY <2>2, <3>4, WithinFacts
    <3>6. Within(c, clock - WindowMs, clock) <= MaxRequests
      BY <2>2, <3>1, <3>5 DEF CountsWindow
    <3>7. QuietSince(c)'
      BY <1>1, <3>3, <3>6 DEF QuietSince, Within, PassedIn
    <3> QED BY <1>1, <2>1, <3>1, <3>7 DEF ClientInv, Within, PassedIn
  <2> QED BY <2>4, <2>5
<1>5. RefusedForItsOwn'
  BY <1>1 DEF RefusedForItsOwn, NoReply
<1> QED BY <1>3, <1>4, <1>5 DEF RlInv


\* A request begins a window, is counted in it, or is refused.
LEMMA CheckFacts ==
  ASSUME RlTypeInv, NEW c \in Clients, NEW chain \in Chains(c), CheckRateLimit(c, chain)
  PROVE  /\ clock' = clock /\ RlTypeInv'
         /\ \A d \in Clients : d # c => passed'[d] = passed[d]
         /\ \A d \in Clients : KeyOf(d) # KeyOf(c) => EntryOf(d)' = EntryOf(d)
         /\ \/ /\ EntryOf(c) = NoEntry \/ clock > EntryOf(c).resetAt
               /\ EntryOf(c)' = [count |-> 1, resetAt |-> clock + WindowMs]
               /\ passed'[c] = Append(passed[c], clock) /\ lastReply'.ok
            \/ /\ EntryOf(c) # NoEntry /\ ~(clock > EntryOf(c).resetAt)
               /\ EntryOf(c).count < MaxRequests
               /\ EntryOf(c)' = [count |-> EntryOf(c).count + 1, resetAt |-> EntryOf(c).resetAt]
               /\ passed'[c] = Append(passed[c], clock) /\ lastReply'.ok
            \/ /\ EntryOf(c) # NoEntry /\ ~(clock > EntryOf(c).resetAt)
               /\ EntryOf(c).count >= MaxRequests
               /\ EntryOf(c)' = [count |-> MaxRequests + 1, resetAt |-> EntryOf(c).resetAt]
               /\ passed' = passed /\ lastReply'.client = c
<1> DEFINE k == KeyOf(c)
           e == store[k]
<1>1. ExtractClientIp(chain) = k /\ k \in Keys
  BY KeyFacts
<1>2. /\ clock \in Nat /\ WindowMs \in Nat /\ MaxRequests \in Nat \ {0}
      /\ passed \in [Clients -> Seq(Nat)] /\ store \in [Keys -> Entries] /\ EntryOf(c) = e
  BY RateLimiterAssumption DEF RlTypeInv, EntryOf
<1>3. e # NoEntry => /\ e \in [count : 1..(MaxRequests + 1), resetAt : Nat]
                     /\ e.count \in Nat /\ e.resetAt \in Nat /\ e.count <= MaxRequests + 1
  <2>1. e \in Entries
    BY <1>1, <1>2
  <2>2. e # NoEntry => e \in [count : 1..(MaxRequests + 1), resetAt : Nat]
    BY <2>1 DEF Entries
  <2> HIDE DEF e
  <2> QED BY <1>2, <2>2
<1>4. /\ clock' = clock
      /\ \/ /\ e = NoEntry \/ clock > e.resetAt
            /\ store' = [store EXCEPT ![k] = [count |-> 1, resetAt |-> clock + WindowMs]]
            /\ Pass(c)
         \/ /\ e # NoEntry /\ ~(clock > e.resetAt) /\ ~(e.count + 1 > MaxRequests)
            /\ store' = [store EXCEPT ![k].count = Min({@, MaxRequests}) + 1]
            /\ Pass(c)
         \/ /\ e # NoEntry /\ ~(clock > e.resetAt) /\ e.count + 1 > MaxRequests
            /\ store' = [store EXCEPT ![k].count = Min({@, MaxRequests}) + 1]
            /\ passed' = passed /\ lastReply' = [client |-> c, ok |-> FALSE]
  BY <1>1 DEF CheckRateLimit, NewWindow
<1>5. \A d \in Clients : EntryOf(d)' = store'[KeyOf(d)] /\ EntryOf(d) = store[KeyOf(d)]
                         /\ KeyOf(d) \in Keys
  BY KeyFacts DEF EntryOf, KeyOf
<1>6. Pass(c) => /\ passed' \in [Clients -> Seq(Nat)] /\ passed'[c] = Append(passed[c], clock)
                 /\ \A d \in Clients : d # c => passed'[d] = passed[d]
                 /\ lastReply'.ok
  BY <1>2 DEF Pass
<1>7. [count |-> 1, resetAt |-> clock + WindowMs] \in Entries
  BY <1>2 DEF Entries
<1>8. ASSUME e # NoEntry
      PROVE  /\ Min({e.count, MaxRequests}) = IF e.count <= MaxRequests THEN e.count ELSE MaxRequests
             /\ [store EXCEPT ![k].count = Min({@, MaxRequests}) + 1]
                  = [store EXCEPT ![k] = [count |-> Min({e.count, MaxRequests}) + 1, resetAt |-> e.resetAt]]
             /\ [count |-> Min({e.count, MaxRequests}) + 1, resetAt |-> e.resetAt] \in Entries
  <2>1. Min({e.count, MaxRequests}) = IF e.count <= MaxRequests THEN e.count ELSE MaxRequests
    <3> HIDE DEF e
    <3> QED BY <1>2, <1>3, <1>8 DEF Min
  <2>2. [e EXCEPT !.count = Min({@, MaxRequests}) + 1]
          = [count |-> Min({e.count, MaxRequests}) + 1, resetAt |-> e.resetAt]
    <3> HIDE DEF e
    <3> QED BY <1>3, <1>8
  <2>3. [store EXCEPT ![k].count = Min({@, MaxRequests}) + 1]
          = [store EXCEPT ![k] = [store[k] EXCEPT !.count = Min({@, MaxRequests}) + 1]]
    OBVIOUS
  <2>4. Min({e.count, MaxRequests}) + 1 \in 1..(MaxRequests + 1)
    <3>1. e.count \in Nat /\ e.count <= MaxRequests + 1
      BY <1>3, <1>8
    <3> HIDE DEF e
    <3> QED BY <1>2, <2>1, <3>1
  <2>5. [count |-> Min({e.count, MaxRequests}) + 1, resetAt |-> e.resetAt] \in Entries
    <3> HIDE DEF e
    <3> QED BY <1>3, <1>8, <2>4 DEF Entries
  <2> QED BY <2>1, <2>2, <2>3, <2>5
<1> HIDE DEF e, k
<1>9. ASSUME NEW x \in Entries, store' = [store EXCEPT ![k] = x]
      PROVE  /\ store' \in [Keys -> Entries] /\ EntryOf(c)' = x
             /\ \A d \in Clients : KeyOf(d) # KeyOf(c) => EntryOf(d)' = EntryOf(d)
  BY <1>1, <1>2, <1>5, <1>9 DEF k
<1>10. CASE /\ e = NoEntry \/ clock > e.resetAt
            /\ store' = [store EXCEPT ![k] = [count |-> 1, resetAt |-> clock + WindowMs]]
            /\ Pass(c)
  BY <1>2, <1>4, <1>6, <1>7, <1>9, <1>10 DEF RlTypeInv
<1>11. CASE /\ e # NoEntry /\ ~(clock > e.resetAt) /\ ~(e.count + 1 > MaxRequests)
            /\ store' = [store EXCEPT ![k].count = Min({@, MaxRequests}) + 1]
            /\ Pass(c)
  <2>1. e.count < MaxRequests /\ Min({e.count, MaxRequests}) = e.count
    BY <1>2, <1>3, <1>8, <1>11
  <2>2. /\ store' \in [Keys -> Entries]
        /\ EntryOf(c)' = [count |-> e.count + 1, resetAt |-> e.resetAt]
        /\ \A d \in Clients : KeyOf(d) # KeyOf(c) => EntryOf(d)' = EntryOf(d)
    BY <1>8, <1>9, <1>11, <2>1
  <2> QED BY <1>2, <1>4, <1>6, <1>11, <2>1, <2>2 DEF RlTypeInv
<1>12. CASE /\ e # NoEntry /\ ~(clock > e.resetAt) /\ e.count + 1 > MaxRequests
            /\ store' = [store EXCEPT ![k].count = Min({@, MaxRequests}) + 1]
            /\ passed' = passed /\ lastReply' = [client |-> c, ok |-> FALSE]
  <2>1. e.count >= MaxRequests /\ Min({e.count, MaxRequests}) = MaxRequests
    BY <1>2, <1>3, <1>8, <1>12
  <2>2. /\ store' \in [Keys -> Entries]
        /\ EntryOf(c)' = [count |-> MaxRequests + 1, resetAt |-> e.resetAt]
        /\ \A d \in Clients : KeyOf(d) # KeyOf(c) => EntryOf(d)' = EntryOf(d)
    BY <1>8, <1>9, <1>12, <2>1
  <2> QED BY <1>2, <1>4, <1>12, <2>1, <2>2 DEF RlTypeInv
<1> QED BY <1>4, <1>10, <1>11, <1>12

\* Clients of one key have one entry.
LEMMA SameKey ==
  ASSUME NEW c \in Clients, NEW d \in Clients, KeyOf(d) = KeyOf(c)
  PROVE  EntryOf(d) = EntryOf(c) /\ EntryOf(d)' = EntryOf(c)' /\ (TrustedProxies # {} => d = c)
  BY DEF EntryOf, KeyOf

\* A window begins: what passed late belongs to one window before it.
LEMMA WindowBegins ==
  ASSUME RlInv, NEW c \in Clients, NEW d \in Clients, KeyOf(d) = KeyOf(c),
         clock' = clock, passed'[c] = Append(passed[c], clock), d # c => passed'[d] = passed[d],
         EntryOf(c) = NoEntry \/ clock > EntryOf(c).resetAt,
         EntryOf(c)' = [count |-> 1, resetAt |-> clock + WindowMs]
  PROVE  ClientInv(d)'
<1> DEFINE W == WindowMs
<1>1. /\ ClientInv(d) /\ clock \in Nat /\ W \in Nat /\ MaxRequests \in Nat \ {0}
      /\ passed[d] \in Seq(Nat) /\ EntryOf(d) = EntryOf(c)
      /\ EntryOf(d) # NoEntry => EntryOf(d).resetAt \in Nat
      /\ EntryOf(d)' = EntryOf(c)' /\ (TrustedProxies # {} => d = c)
  BY EntryFacts, SameKey DEF RlInv
<1>2. EntryOf(d)'.count = 1 /\ EntryOf(d)'.resetAt = clock + W /\ EntryOf(d)' # NoEntry
  BY <1>1 DEF NoEntry
<1>3. \A i \in DOMAIN passed[d] : passed[d][i] \in Nat /\ passed[d][i] < clock
  <2>1. \A i \in DOMAIN passed[d] : passed[d][i] \in Nat
    BY <1>1
  <2>2. CASE EntryOf(d) = NoEntry
    BY <1>1, <2>1, <2>2 DEF ClientInv, QuietSince
  <2>3. CASE EntryOf(d) # NoEntry
    <3>1. CountsWindow(d) /\ clock > EntryOf(d).resetAt
      BY <1>1, <2>3 DEF ClientInv
    <3> QED BY <1>1, <2>1, <2>3, <3>1 DEF CountsWindow
  <2> QED BY <2>2, <2>3
<1>4. clock \in Int /\ clock - W \in Int /\ clock - 1 \in Int /\ (clock - W) - 1 \in Int
  BY <1>1
<1>5. \A a, b \in Int : Within(d, a, b) \in Nat
  BY <1>1, WithinFacts
<1>6. Within(d, clock - W, clock) <= MaxRequests
  <2>1. CASE EntryOf(d) = NoEntry
    BY <1>1, <2>1 DEF ClientInv, QuietSince
  <2>2. CASE EntryOf(d) # NoEntry
    <3>1. CountsWindow(d) /\ Start(d) \in Int /\ Start(d) <= clock - W
      <4>1. CountsWindow(d) /\ clock > EntryOf(d).resetAt /\ EntryOf(d).resetAt \in Nat
        BY <1>1, <2>2 DEF ClientInv
      <4> QED BY <1>1, <4>1 DEF Start
    <3>2. Within(d, clock - W, clock) <= Within(d, Start(d), clock)
      BY <1>1, <1>4, <3>1, WithinFacts
    <3>3. Within(d, Start(d), clock) <= MaxRequests
      BY <3>1 DEF CountsWindow
    <3>4. Within(d, Start(d), clock) \in Nat /\ Within(d, clock - W, clock) \in Nat
      BY <1>4, <1>5, <3>1
    <3> QED BY <1>1, <3>2, <3>3, <3>4
  <2> QED BY <2>1, <2>2
<1>7. \A a \in Int : Within(d, a, clock) = Within(d, a, clock - 1)
  <2>1. \A i \in DOMAIN passed[d] : passed[d][i] <= clock - 1
    BY <1>1, <1>3
  <2>2. clock - 1 <= clock /\ clock - 1 \in Int /\ clock \in Int /\ passed[d] \in Seq(Nat)
    BY <1>1
  <2> QED BY <2>1, <2>2, NothingLater
<1>8. Within(d, clock, clock) = 0
  <2>1. PassedIn(d, clock, clock) = {}
    BY <1>1, <1>3 DEF PassedIn
  <2> QED BY <2>1, FS_EmptySet DEF Within
<1>9. /\ passed'[d] \in Seq(Nat)
      /\ \A i \in DOMAIN passed'[d] :
           (i \in DOMAIN passed[d] /\ passed'[d][i] = passed[d][i]) \/ passed'[d][i] = clock
      /\ \A a, b \in Int : Within(d, a, b)' =
           IF d = c /\ a <= clock /\ clock <= b THEN Within(d, a, b) + 1 ELSE Within(d, a, b)
  <2>1. CASE d = c
    BY <1>1, <2>1, OneMore
  <2>2. CASE d # c
    BY <1>1, <2>2 DEF Within, PassedIn
  <2> QED BY <2>1, <2>2
<1>10. \A i \in DOMAIN passed'[d] : passed'[d][i] <= clock
  <2>1. \A i \in DOMAIN passed[d] : passed[d][i] <= clock
    BY <1>1 DEF ClientInv
  <2>2. clock <= clock
    BY <1>1
  <2> QED BY <1>9, <2>1, <2>2
<1>11. Start(d)' = clock
  BY <1>1, <1>2 DEF Start
<1>12. Within(d, clock, clock)' = IF d = c THEN 1 ELSE 0
  BY <1>4, <1>8, <1>9
<1>13. CountsWindow(d)'
  <2>1. Within(d, Start(d), clock)' = IF d = c THEN 1 ELSE 0
    <3>1. PassedIn(d, Start(d), clock)' = PassedIn(d, clock, clock)'
      BY <1>11 DEF PassedIn
    <3> QED BY <1>12, <3>1 DEF Within
  <2>2. Within(d, Start(d) - WindowMs, Start(d) - 1)' <= MaxRequests
    <3>1. PassedIn(d, Start(d) - WindowMs, Start(d) - 1)' = PassedIn(d, clock - WindowMs, clock - 1)'
      BY <1>11 DEF PassedIn
    <3>2. Within(d, clock - W, clock - 1)' = Within(d, clock - W, clock - 1)
      BY <1>1, <1>4, <1>9
    <3>3. Within(d, clock - W, clock - 1) = Within(d, clock - W, clock)
      BY <1>4, <1>7
    <3> QED BY <1>6, <3>1, <3>2, <3>3 DEF Within
  <2>3. \A i \in DOMAIN passed'[d] : passed'[d][i] <= EntryOf(d)'.resetAt
    <3>1. \A i \in DOMAIN passed'[d] : passed'[d][i] \in Nat
      BY <1>9
    <3> QED BY <1>1, <1>2, <1>10, <3>1
  <2>4. MaxRequests >= 1
    BY <1>1
  <2> QED BY <1>1, <1>2, <1>11, <2>1, <2>2, <2>3, <2>4 DEF CountsWindow
<1>14. \A t \in Nat : Within(d, t, t + W)' <= 2 * MaxRequests
  <2> SUFFICES ASSUME NEW t \in Nat
               PROVE  Within(d, t, t + W)' <= 2 * MaxRequests
    OBVIOUS
  <2>1. t \in Int /\ t + W \in Int
    BY <1>1
  <2>2. Within(d, t, t + W) <= 2 * MaxRequests
    BY <1>1 DEF ClientInv
  <2>3. Within(d, t, t + W)' =
          IF d = c /\ t <= clock /\ clock <= t + W THEN Within(d, t, t + W) + 1 ELSE Within(d, t, t + W)
    BY <1>9, <2>1
  <2>4. CASE t <= clock /\ clock <= t + W
    <3>1. clock - W <= t
      BY <1>1, <2>4
    <3>2. Within(d, t, t + W) = Within(d, t, clock)
      <4>1. \A i \in DOMAIN passed[d] : passed[d][i] <= clock
        BY <1>1 DEF ClientInv
      <4>2. passed[d] \in Seq(Nat) /\ clock \in Int /\ clock <= t + W
        BY <1>1, <1>4, <2>4
      <4> HIDE DEF W
      <4> QED BY <2>1, <4>1, <4>2, NothingLater
    <3>3. Within(d, t, clock) <= Within(d, clock - W, clock)
      BY <1>1, <1>4, <2>1, <3>1, WithinFacts
    <3>4. Within(d, t, clock) \in Nat /\ Within(d, clock - W, clock) \in Nat
      BY <1>4, <1>5, <2>1
    <3> HIDE DEF W
    <3> QED BY <1>1, <1>6, <2>3, <3>2, <3>3, <3>4
  <2>5. CASE ~(t <= clock /\ clock <= t + W)
    BY <2>2, <2>3, <2>5
  <2> QED BY <2>4, <2>5
<1> QED BY <1>2, <1>10, <1>13, <1>14 DEF ClientInv


\* A window goes on: the request is counted.
LEMMA WindowGoesOn ==
  ASSUME RlInv, NEW c \in Clients, NEW d \in Clients, KeyOf(d) = KeyOf(c),
         clock' = clock, passed'[c] = Append(passed[c], clock), d # c => passed'[d] = passed[d],
         EntryOf(c) # NoEntry, ~(clock > EntryOf(c).resetAt), EntryOf(c).count < MaxRequests,
         EntryOf(c)' = [count |-> EntryOf(c).count + 1, resetAt |-> EntryOf(c).resetAt]
  PROVE  ClientInv(d)'
<1> DEFINE W == WindowMs
           n == EntryOf(d).count
<1>1. /\ ClientInv(d) /\ clock \in Nat /\ W \in Nat /\ MaxRequests \in Nat \ {0}
      /\ passed[d] \in Seq(Nat) /\ EntryOf(d) = EntryOf(c)
      /\ EntryOf(d)' = EntryOf(c)' /\ (TrustedProxies # {} => d = c)
  BY EntryFacts, SameKey DEF RlInv
<1>2. /\ EntryOf(d) # NoEntry /\ EntryOf(d).resetAt \in Nat /\ n \in Nat \ {0}
      /\ clock <= EntryOf(d).resetAt /\ n < MaxRequests
  BY <1>1, EntryFacts DEF RlInv
<1>3. /\ EntryOf(d)'.count = n + 1 /\ EntryOf(d)'.resetAt = EntryOf(d).resetAt
      /\ EntryOf(d)' # NoEntry
  <2>1. n + 1 # 0
    BY <1>2
  <2> QED BY <1>1, <2>1 DEF NoEntry
<1>4. CountsWindow(d) /\ Start(d) \in Int
  <2>1. CountsWindow(d)
    BY <1>1, <1>2 DEF ClientInv
  <2>2. Start(d) \in Int
    BY <1>1, <1>2 DEF Start
  <2> QED BY <2>1, <2>2
<1>5. PICK s \in Int, now \in Int : s = Start(d) /\ now = clock
  BY <1>1, <1>4
<1>6. /\ 0 <= s /\ s <= now /\ now - W <= s /\ s - W \in Int /\ s - 1 \in Int
      /\ Start(d)' = s /\ clock' = now /\ passed'[c] = Append(passed[c], now)
  <2>1. 0 <= Start(d) /\ Start(d) <= clock
    BY <1>4 DEF CountsWindow
  <2>2. clock - W <= Start(d)
    BY <1>1, <1>2 DEF Start
  <2>3. Start(d)' = Start(d)
    BY <1>3 DEF Start
  <2> QED BY <1>1, <1>5, <2>1, <2>2, <2>3
<1>7. \A a, b \in Int : Within(d, a, b) \in Nat
  BY <1>1, WithinFacts
<1>8. /\ passed'[d] \in Seq(Nat)
      /\ \A i \in DOMAIN passed'[d] :
           (i \in DOMAIN passed[d] /\ passed'[d][i] = passed[d][i]) \/ passed'[d][i] = now
      /\ \A a, b \in Int : Within(d, a, b)' =
           IF d = c /\ a <= now /\ now <= b THEN Within(d, a, b) + 1 ELSE Within(d, a, b)
  <2>1. CASE d = c
    BY <1>1, <1>5, <2>1, OneMore
  <2>2. CASE d # c
    BY <1>1, <2>2 DEF Within, PassedIn
  <2> QED BY <2>1, <2>2
<1>9. \A i \in DOMAIN passed'[d] : passed'[d][i] <= now /\ passed'[d][i] <= EntryOf(d).resetAt
  <2>1. \A i \in DOMAIN passed[d] : passed[d][i] <= now
    BY <1>1, <1>5 DEF ClientInv
  <2>2. \A i \in DOMAIN passed[d] : passed[d][i] <= EntryOf(d).resetAt
    BY <1>4 DEF CountsWindow
  <2>3. now <= now /\ now <= EntryOf(d).resetAt
    BY <1>2, <1>5
  <2> QED BY <1>8, <2>1, <2>2, <2>3
<1>10. /\ Within(d, s, now) <= n /\ Within(d, s - W, s - 1) <= MaxRequests
       /\ TrustedProxies # {} => n = Within(d, s, now)
  <2>1. /\ Within(d, Start(d), clock) <= n
        /\ Within(d, Start(d) - WindowMs, Start(d) - 1) <= MaxRequests
        /\ TrustedProxies # {} => n = Within(d, Start(d), clock) \/ n = MaxRequests + 1
    BY <1>4 DEF CountsWindow
  <2>2. n # MaxRequests + 1
    BY <1>1, <1>2
  <2> QED BY <1>5, <2>1, <2>2
<1>11. Within(d, s, now)' = IF d = c THEN Within(d, s, now) + 1 ELSE Within(d, s, now)
  BY <1>5, <1>6, <1>8
<1>12. Within(d, s - W, s - 1)' = Within(d, s - W, s - 1)
  <2>1. ~(now <= s - 1)
    BY <1>5, <1>6
  <2> QED BY <1>6, <1>8, <2>1
<1>13. CountsWindow(d)'
  <2>1. /\ Within(d, Start(d), clock)' = Within(d, s, now)'
        /\ Within(d, Start(d) - WindowMs, Start(d) - 1)' = Within(d, s - W, s - 1)'
    <3>1. /\ PassedIn(d, Start(d), clock)' = PassedIn(d, s, now)'
          /\ PassedIn(d, Start(d) - WindowMs, Start(d) - 1)' = PassedIn(d, s - W, s - 1)'
      BY <1>6 DEF PassedIn
    <3> QED BY <3>1 DEF Within
  <2>2. /\ Within(d, s, now)' <= n + 1 /\ Within(d, s, now)' <= MaxRequests
        /\ TrustedProxies # {} => n + 1 = Within(d, s, now)'
    <3>1. Within(d, s, now) \in Nat
      BY <1>5, <1>7
    <3>2. CASE d = c
      BY <1>1, <1>2, <1>10, <1>11, <3>1, <3>2
    <3>3. CASE d # c
      BY <1>1, <1>2, <1>10, <1>11, <3>1, <3>3
    <3> QED BY <3>2, <3>3
  <2>3. \A i \in DOMAIN passed'[d] : passed'[d][i] <= EntryOf(d)'.resetAt
    BY <1>3, <1>9
  <2>4. Within(d, s - W, s - 1)' <= MaxRequests
    BY <1>10, <1>12
  <2> QED BY <1>3, <1>6, <2>1, <2>2, <2>3, <2>4 DEF CountsWindow
<1>14. \A t \in Nat : Within(d, t, t + W)' <= 2 * MaxRequests
  <2> SUFFICES ASSUME NEW t \in Nat
               PROVE  Within(d, t, t + W)' <= 2 * MaxRequests
    OBVIOUS
  <2>1. t \in Int /\ t + W \in Int
    BY <1>1
  <2>2. Within(d, t, t + W) <= 2 * MaxRequests
    BY <1>1 DEF ClientInv
  <2>3. Within(d, t, t + W)' =
          IF d = c /\ t <= now /\ now <= t + W THEN Within(d, t, t + W) + 1 ELSE Within(d, t, t + W)
    BY <1>8, <2>1
  <2>4. CASE t <= now /\ now <= t + W
    <3>1. s - W <= t
      BY <1>1, <1>5, <1>6, <2>4
    <3>2. Within(d, t, t + W) = Within(d, t, now)
      <4>1. \A i \in DOMAIN passed[d] : passed[d][i] <= now
        BY <1>1, <1>5 DEF ClientInv
      <4>2. passed[d] \in Seq(Nat) /\ now \in Int /\ now <= t + W
        BY <1>1, <1>5, <2>4
      <4> HIDE DEF W
      <4> QED BY <2>1, <4>1, <4>2, NothingLater
    <3>3. Within(d, t, now) <= Within(d, s - W, now)
      BY <1>1, <1>5, <1>6, <2>1, <3>1, WithinFacts
    <3>4. Within(d, s - W, now) <= Within(d, s - W, s - 1) + Within(d, s, now)
      BY <1>1, <1>5, <1>6, WithinFacts
    <3>5. /\ Within(d, t, now) \in Nat /\ Within(d, s - W, now) \in Nat
          /\ Within(d, s - W, s - 1) \in Nat /\ Within(d, s, now) \in Nat
      BY <1>5, <1>6, <1>7, <2>1
    <3>6. Within(d, s, now) + 1 <= MaxRequests
      BY <1>1, <1>2, <1>10, <3>5
    <3>7. Within(d, t, now) + 1 <= 2 * MaxRequests
      <4>1. Within(d, s - W, s - 1) <= MaxRequests /\ MaxRequests \in Nat
        BY <1>1, <1>10
      <4> HIDE DEF W
      <4> QED BY <3>3, <3>4, <3>5, <3>6, <4>1
    <3>8. Within(d, t, t + W)' <= Within(d, t, now) + 1
      <4> HIDE DEF W
      <4> QED BY <2>3, <3>2, <3>5
    <3>9. Within(d, t, t + W)' \in Nat /\ MaxRequests \in Nat
      <4> HIDE DEF W
      <4> QED BY <1>1, <2>3, <3>2, <3>5
    <3> HIDE DEF W
    <3> QED BY <3>5, <3>7, <3>8, <3>9
  <2>5. CASE ~(t <= now /\ now <= t + W)
    BY <2>2, <2>3, <2>5
  <2> QED BY <2>4, <2>5
<1> QED BY <1>3, <1>6, <1>9, <1>13, <1>14 DEF ClientInv

\* A refused request only sets the count to its end.
LEMMA RefusedKeeps ==
  ASSUME RlInv, NEW c \in Clients, NEW d \in Clients, KeyOf(d) = KeyOf(c),
         UNCHANGED <<clock, passed>>,
         EntryOf(c) # NoEntry, ~(clock > EntryOf(c).resetAt), EntryOf(c).count >= MaxRequests,
         EntryOf(c)' = [count |-> MaxRequests + 1, resetAt |-> EntryOf(c).resetAt]
  PROVE  ClientInv(d)'
<1>1. /\ ClientInv(d) /\ clock \in Nat /\ MaxRequests \in Nat \ {0} /\ WindowMs \in Nat
      /\ passed[d] \in Seq(Nat) /\ EntryOf(d) = EntryOf(c) /\ EntryOf(d)' = EntryOf(c)'
  BY EntryFacts, SameKey DEF RlInv
<1>2. /\ EntryOf(d) # NoEntry /\ EntryOf(d).resetAt \in Nat /\ EntryOf(d).count \in Nat
      /\ EntryOf(d).count >= MaxRequests
  BY <1>1, EntryFacts DEF RlInv
<1>3. /\ EntryOf(d)'.count = MaxRequests + 1 /\ EntryOf(d)'.resetAt = EntryOf(d).resetAt
      /\ EntryOf(d)' # NoEntry
  <2>1. MaxRequests + 1 # 0
    BY <1>1
  <2> QED BY <1>1, <2>1 DEF NoEntry
<1>4. CountsWindow(d) /\ Start(d) \in Int
  <2>1. CountsWindow(d)
    BY <1>1, <1>2 DEF ClientInv
  <2>2. Start(d) \in Int
    BY <1>1, <1>2 DEF Start
  <2> QED BY <2>1, <2>2
<1>5. Start(d)' = Start(d)
  BY <1>3 DEF Start
<1>6. /\ Within(d, Start(d), clock)' = Within(d, Start(d), clock)
      /\ Within(d, Start(d) - WindowMs, Start(d) - 1)' = Within(d, Start(d) - WindowMs, Start(d) - 1)
      /\ Within(d, Start(d), clock) \in Nat
  <2>1. /\ PassedIn(d, Start(d), clock)' = PassedIn(d, Start(d), clock)
        /\ PassedIn(d, Start(d) - WindowMs, Start(d) - 1)' = PassedIn(d, Start(d) - WindowMs, Start(d) - 1)
    BY <1>5 DEF PassedIn
  <2>2. Within(d, Start(d), clock) \in Nat
    BY <1>1, <1>4, WithinFacts
  <2> QED BY <2>1, <2>2 DEF Within
<1>7. CountsWindow(d)'
  <2>1. TrustedProxies # {} => Within(d, Start(d), clock) = MaxRequests
    BY <1>1, <1>2, <1>4, <1>6 DEF CountsWindow
  <2> QED BY <1>1, <1>3, <1>4, <1>5, <1>6, <2>1 DEF CountsWindow
<1>8. \A t \in Nat : Within(d, t, t + WindowMs)' <= 2 * MaxRequests
  BY <1>1 DEF ClientInv, Within, PassedIn
<1> QED BY <1>1, <1>3, <1>7, <1>8 DEF ClientInv

LEMMA CheckInv ==
  ASSUME RlInv, NEW c \in Clients, NEW chain \in Chains(c), CheckRateLimit(c, chain)
  PROVE  RlInv'
<1>1. RlTypeInv /\ clock' = clock /\ RlTypeInv'
  BY CheckFacts DEF RlInv
<1>2. \A d \in Clients : d # c => passed'[d] = passed[d]
  BY <1>1, CheckFacts
<1>3. ASSUME NEW d \in Clients
      PROVE  ClientInv(d)'
  <2>1. CASE KeyOf(d) # KeyOf(c)
    <3>1. EntryOf(d)' = EntryOf(d) /\ passed'[d] = passed[d] /\ ClientInv(d)
      <4>1. d # c
        BY <2>1
      <4> QED BY <1>1, <1>2, <2>1, <4>1, CheckFacts DEF RlInv
    <3> QED BY <1>1, <3>1 DEF ClientInv, CountsWindow, QuietSince, Start, Within, PassedIn
  <2>2. CASE KeyOf(d) = KeyOf(c)
    <3>1. CASE /\ EntryOf(c) = NoEntry \/ clock > EntryOf(c).resetAt
               /\ EntryOf(c)' = [count |-> 1, resetAt |-> clock + WindowMs]
               /\ passed'[c] = Append(passed[c], clock) /\ lastReply'.ok
      BY <1>1, <1>2, <2>2, <3>1, WindowBegins
    <3>2. CASE /\ EntryOf(c) # NoEntry /\ ~(clock > EntryOf(c).resetAt)
               /\ EntryOf(c).count < MaxRequests
               /\ EntryOf(c)' = [count |-> EntryOf(c).count + 1, resetAt |-> EntryOf(c).resetAt]
               /\ passed'[c] = Append(passed[c], clock) /\ lastReply'.ok
      BY <1>1, <1>2, <2>2, <3>2, WindowGoesOn
    <3>3. CASE /\ EntryOf(c) # NoEntry /\ ~(clock > EntryOf(c).resetAt)
               /\ EntryOf(c).count >= MaxRequests
               /\ EntryOf(c)' = [count |-> MaxRequests + 1, resetAt |-> EntryOf(c).resetAt]
               /\ passed' = passed /\ lastReply'.client = c
      BY <1>1, <2>2, <3>3, RefusedKeeps
    <3> QED BY <1>1, <3>1, <3>2, <3>3, CheckFacts
  <2> QED BY <2>1, <2>2
<1>4. RefusedForItsOwn'
  <2> SUFFICES ASSUME TrustedProxies # {}, ~lastReply'.ok
               PROVE  \E from \in 0..clock :
                        /\ from + WindowMs >= clock
                        /\ Within(c, from, clock)' >= MaxRequests /\ lastReply'.client = c
    BY <1>1 DEF RefusedForItsOwn
  <2>1. /\ EntryOf(c) # NoEntry /\ ~(clock > EntryOf(c).resetAt) /\ EntryOf(c).count >= MaxRequests
        /\ EntryOf(c)' = [count |-> MaxRequests + 1, resetAt |-> EntryOf(c).resetAt]
        /\ passed' = passed /\ lastReply'.client = c
    BY <1>1, CheckFacts
  <2>2. /\ clock \in Nat /\ WindowMs \in Nat /\ MaxRequests \in Nat \ {0} /\ passed[c] \in Seq(Nat)
        /\ EntryOf(c).resetAt \in Nat /\ EntryOf(c).count \in Nat
    BY <1>1, <2>1, EntryFacts
  <2>3. CountsWindow(c)
    BY <2>1 DEF RlInv, ClientInv
  <2>4. Start(c) \in 0..clock /\ Start(c) + WindowMs >= clock
    BY <2>1, <2>2, <2>3 DEF CountsWindow, Start
  <2>5. Within(c, Start(c), clock) \in Nat
    <3>1. Start(c) \in Int /\ clock \in Int
      BY <2>2, <2>4
    <3> QED BY <2>2, <3>1, WithinFacts
  <2>6. Within(c, Start(c), clock) >= MaxRequests
    BY <2>1, <2>2, <2>3, <2>5 DEF CountsWindow
  <2>7. PICK s \in 0..clock : s = Start(c)
    BY <2>4
  <2>8. Within(c, s, clock)' = Within(c, Start(c), clock)
    BY <1>1, <2>1, <2>7 DEF Within, PassedIn
  <2> QED BY <2>1, <2>4, <2>6, <2>7, <2>8
<1> QED BY <1>1, <1>3, <1>4 DEF RlInv

\* No client gets more than two windows' worth through in a window's length, and
\* behind proxies none is refused on account of others: for any clients, forged
\* headers, limits, and sweeps at any time.
THEOREM RateLimitCorrect == RlSpec => []RateLimitSafe
<1>1. RlInit => RlInv
  <2> SUFFICES ASSUME RlInit
               PROVE  RlInv
    OBVIOUS
  <2>1. RlTypeInv
    BY DEF RlInit, RlTypeInv, Entries
  <2>2. ASSUME NEW c \in Clients
        PROVE  ClientInv(c)
    <3>1. passed[c] = <<>> /\ EntryOf(c) = NoEntry
      BY KeyFacts DEF RlInit, EntryOf
    <3>2. \A a, b : Within(c, a, b) = 0
      <4>1. \A a, b : PassedIn(c, a, b) = {}
        BY <3>1 DEF PassedIn
      <4> QED BY <4>1, FS_EmptySet DEF Within
    <3>3. \A i \in DOMAIN passed[c] : FALSE
      BY <3>1
    <3>4. 0 <= MaxRequests /\ 0 <= 2 * MaxRequests
      BY RateLimiterAssumption
    <3> QED BY <3>1, <3>2, <3>3, <3>4 DEF ClientInv, QuietSince
  <2>3. RefusedForItsOwn
    BY DEF RlInit, RefusedForItsOwn, NoReply
  <2> QED BY <2>1, <2>2, <2>3 DEF RlInv
<1>2. RlInv /\ [RlNext]_rlVars => RlInv'
  <2>1. RlInv /\ UNCHANGED rlVars => RlInv'
    <3> SUFFICES ASSUME RlInv, UNCHANGED rlVars
                 PROVE  RlInv'
      OBVIOUS
    <3>1. clock' = clock /\ store' = store /\ passed' = passed /\ lastReply' = lastReply
      BY DEF rlVars
    <3>2. ASSUME NEW c \in Clients
          PROVE  ClientInv(c)'
      <4>1. EntryOf(c)' = EntryOf(c) /\ passed'[c] = passed[c] /\ clock' = clock /\ ClientInv(c)
        BY <3>1 DEF RlInv, EntryOf
      <4> QED BY <4>1 DEF ClientInv, CountsWindow, QuietSince, Start, Within, PassedIn
    <3>3. RefusedForItsOwn'
      BY <3>1 DEF RlInv, RefusedForItsOwn, Within, PassedIn
    <3> QED BY <3>1, <3>2, <3>3 DEF RlInv, RlTypeInv
  <2>2. RlInv /\ RlNext => RlInv'
    BY CheckInv, CleanupInv, ClockTickInv DEF RlNext
  <2> QED BY <2>1, <2>2
<1>3. RlInv => RateLimitSafe
  BY RateLimiterAssumption DEF RlInv, ClientInv, RateLimitSafe, RateBounded
<1> QED BY <1>1, <1>2, <1>3, PTL DEF RlSpec
=============================================================================
