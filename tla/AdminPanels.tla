----------------------------- MODULE AdminPanels -----------------------------
(***************************************************************************)
(* The forms of the administration panels, over the rows they edit.  A     *)
(* panel fetches its rows, opens a form prefilled from what it shows,      *)
(* submits it, and reacts to an answer that may be a refusal or be lost;   *)
(* another administrator writes the same rows meanwhile.  What tells the   *)
(* panels apart is control only, and each is a record of it:               *)
(*   edits   what a save puts on the wire: the fields typed that differ    *)
(*           from what is shown, the fields typed, the whole row, or one   *)
(*           field at a click without a form;                              *)
(*   creates whether there is a form for a new row;                        *)
(*   closes  whether the form goes away on an accepted save or on any;     *)
(*   busy    who knows that a save is pending and disables the submit      *)
(*           button: the panel, the form, which forgets it when it is      *)
(*           opened again, or nobody;                                      *)
(*   deletes whether a delete names its row in the body, in the query, or  *)
(*           the panel has none;                                           *)
(*   stores  whether the server keeps the rows in a table, or in a file    *)
(*           it reads, changes and rewrites whole.                         *)
(***************************************************************************)
EXTENDS Naturals, FiniteSets

CONSTANTS
  PanelKinds,        \* the panels looked at, a set of records
  MaxTyped,          \* bound: values typed, by this user and by the other
  MaxPanelFaults,    \* bound: refusals and lost answers
  MaxWire,           \* bound: requests under way at once
  MaxSubmits         \* bound: saves, clicks and deletes

VARIABLES
  panel,      \* the panel that is open
  saved,      \* the rows of the table, row -> field -> value
  shown,      \* the panel's copy of them
  form,       \* the open form, or ClosedForm
  submits,    \* saves, clicks and deletes so far
  wire,       \* requests and answers under way
  typedUpTo,  \* the last value typed (0: the original content)
  faults,     \* refusals and losses so far
  copies,     \* rows made from the present filling of the form
  unheard,    \* answers to it that were lost
  orphans,    \* saves from a form that was opened again since
  otherCopy,  \* the file as another administrator's request has read it
  dropped,    \* values the user gave up himself
  accepted,   \* values the server took
  submitted,  \* values put into a request
  refusedDelete  \* a delete of a row that exists was refused

panelVars == <<panel, saved, shown, form, submits, wire, typedUpTo, faults, copies,
               unheard, orphans, otherCopy, dropped, accepted, submitted, refusedDelete>>

Stored(edits, creates, closes, busy, deletes, stores) ==
  [edits |-> edits, creates |-> creates, closes |-> closes, busy |-> busy,
   deletes |-> deletes, stores |-> stores]
Controls(edits, creates, closes, busy, deletes) ==
  Stored(edits, creates, closes, busy, deletes, "table")

\* Keyed values edited in place.
SettingsPanel == Controls("changed", FALSE, "ok", "panel", "query")
IntegrationsPanel == Stored("typed", FALSE, "ok", "panel", "query", "file")
\* Lists whose rows have buttons that write one field at once.
WebhookPanel == Controls("click", TRUE, "ok", "no", "query")
AlertRulesPanel == Controls("click", TRUE, "ok", "form", "body")
MultiGatewayPanel == Controls("click", TRUE, "ok", "form", "body")
CronPanel == Stored("click", TRUE, "ok", "no", "body", "file")
NotificationsPanel == Controls("click", FALSE, "ok", "no", "none")
SquadStatus == Controls("click", FALSE, "ok", "no", "none")
JobButtons == Controls("click", FALSE, "ok", "panel", "none")
\* Forms over a whole row.
UserPanel == Controls("whole", TRUE, "ok", "panel", "query")
WorkflowForm == Controls("whole", TRUE, "ok", "no", "query")
PipelineForm == Controls("whole", TRUE, "ok", "no", "query")
TaskEditForm == Controls("whole", FALSE, "ok", "no", "none")
AgentModal == Controls("whole", FALSE, "ok", "no", "none")
AgentEdit == Controls("whole", FALSE, "ok", "no", "none")
ConfigTab == Controls("whole", FALSE, "ok", "form", "none")
\* Forms that only create.
TaskCreateForm == Controls("none", TRUE, "ok", "no", "none")
TaskComments == Controls("none", TRUE, "ok", "no", "none")
AgentCreate == Controls("none", TRUE, "ok", "no", "none")
AgentWizard == Controls("none", TRUE, "ok", "form", "none")
TenantForm == Controls("none", TRUE, "ok", "no", "none")
DecommissionDialog == Controls("none", TRUE, "ok", "panel", "none")
GitHubImport == Controls("none", TRUE, "ok", "panel", "none")
\* Tabs whose save handler swallows the error before they look at it.
SoulTab == Controls("whole", FALSE, "always", "no", "none")
MemoryTab == Controls("whole", FALSE, "always", "no", "none")

\* Every panel of the program that saves something.
AllPanels ==
  {SettingsPanel, IntegrationsPanel, WebhookPanel, AlertRulesPanel,
   MultiGatewayPanel, CronPanel, NotificationsPanel, SquadStatus, JobButtons,
   UserPanel, WorkflowForm, PipelineForm, TaskEditForm, AgentModal, AgentEdit,
   ConfigTab, TaskCreateForm, TaskComments, AgentCreate, AgentWizard,
   TenantForm, DecommissionDialog, GitHubImport, SoulTab, MemoryTab}

ASSUME AdminPanelsAssumption ==
  /\ PanelKinds \subseteq AllPanels
  /\ MaxTyped \in Nat /\ MaxPanelFaults \in Nat /\ {MaxWire, MaxSubmits} \subseteq Nat

-----------------------------------------------------------------------------
FieldNames == {"a", "b"}
RowIds == {1, 2}
FreshRow == 2
ClosedForm == [row |-> 0, new |-> FALSE]
Unread == [r \in {} |-> 0]
Existing == DOMAIN saved

\* The fields of g, and those of f that g does not set.
Over(g, f) == [x \in DOMAIN g \cup DOMAIN f |-> IF x \in DOMAIN g THEN g[x] ELSE f[x]]

\* Request bodies.  A settings save leaves out what equals the value shown.
Payload(f) ==
  CASE panel.edits = "typed" -> [x \in f.typed |-> f.vals[x]]
    [] panel.edits = "changed" ->
         [x \in {y \in f.typed : f.vals[y] # shown[f.row][y]} |-> f.vals[x]]
    [] OTHER -> f.vals

FormOpen == form # ClosedForm
Saves == {c \in wire : c.kind = "save"}

\* A form that is opened is a new one: the saves under way are not its own.
FreshForm == orphans' = IF panel.busy = "no" THEN orphans ELSE orphans \cup {c.n : c \in Saves}

\* startEdit: the form is filled from the row shown; an open one is replaced.
StartEdit(r) ==
  /\ panel.edits \in {"changed", "typed", "whole"}
  /\ r \in DOMAIN shown
  /\ form' = [row |-> r, new |-> FALSE, vals |-> shown[r], typed |-> {}]
  /\ dropped' = dropped \cup (IF FormOpen THEN {form.vals[x] : x \in form.typed} ELSE {})
  /\ copies' = 0 /\ unheard' = 0
  /\ FreshForm
  /\ UNCHANGED <<panel, submits, saved, shown, wire, typedUpTo, faults, otherCopy, accepted,
                 submitted, refusedDelete>>

\* The form for a new row starts empty.
StartCreate ==
  /\ panel.creates
  /\ FreshRow \notin Existing
  /\ form' = [row |-> FreshRow, new |-> TRUE,
               vals |-> [x \in FieldNames |-> 0], typed |-> {}]
  /\ dropped' = dropped \cup (IF FormOpen THEN {form.vals[x] : x \in form.typed} ELSE {})
  /\ copies' = 0 /\ unheard' = 0
  /\ FreshForm
  /\ UNCHANGED <<panel, submits, saved, shown, wire, typedUpTo, faults, otherCopy, accepted,
                 submitted, refusedDelete>>

\* handleEdit and the inputs: a field gets a new value, also during a save.
TypeField(x) ==
  /\ FormOpen
  /\ typedUpTo < MaxTyped
  /\ typedUpTo' = typedUpTo + 1
  /\ form' = [form EXCEPT !.vals[x] = typedUpTo + 1, !.typed = @ \cup {x}]
  /\ dropped' = dropped \cup (IF x \in form.typed THEN {form.vals[x]} ELSE {})
  /\ UNCHANGED <<panel, submits, saved, shown, wire, faults, copies, unheard,
                 orphans, otherCopy, accepted, submitted, refusedDelete>>

\* handleDiscard, closeForm, onCancel.
DiscardForm ==
  /\ FormOpen
  /\ dropped' = dropped \cup {form.vals[x] : x \in form.typed}
  /\ form' = ClosedForm
  /\ UNCHANGED <<panel, submits, saved, shown, wire, typedUpTo, faults, copies,
                 unheard, orphans, otherCopy, accepted, submitted, refusedDelete>>

\* handleSave: nothing goes out when nothing changed; the button is disabled
\* while a save is pending where the panel, or the form, keeps track of it.
MaySubmit ==
  /\ panel.busy = "panel" => Saves = {}
  /\ panel.busy = "form" => \A c \in Saves : c.n \in orphans
SubmitForm ==
  /\ FormOpen
  /\ MaySubmit
  /\ form.typed # {}
  /\ DOMAIN Payload(form) # {}
  /\ Cardinality(wire) < MaxWire
  /\ submits < MaxSubmits
  /\ submits' = submits + 1
  /\ LET body == Payload(form) IN
     /\ wire' = wire \cup {[kind |-> "save", row |-> form.row, new |-> form.new, body |-> body,
                            typed |-> form.typed, stage |-> "sent", copy |-> Unread,
                            n |-> submits]}
     /\ submitted' = submitted \cup {form.vals[x] : x \in form.typed \cap DOMAIN body}
  /\ UNCHANGED <<panel, saved, shown, form, typedUpTo, faults, copies, unheard,
                 orphans, otherCopy, dropped, accepted, refusedDelete>>

\* Toggle, set primary, mark read, enable, change status: the button writes
\* the opposite of what the panel shows, and its answer is not looked at.
ClickField(r, x) ==
  /\ panel.edits = "click"
  /\ r \in DOMAIN shown
  /\ Cardinality(wire) < MaxWire
  /\ submits < MaxSubmits
  /\ submits' = submits + 1
  /\ panel = JobButtons => ~\E c \in wire : c.kind = "click"
  /\ typedUpTo < MaxTyped
  /\ typedUpTo' = typedUpTo + 1
  /\ wire' = wire \cup {[kind |-> "click", row |-> r, new |-> FALSE,
                         body |-> [y \in {x} |-> typedUpTo + 1], typed |-> {x}, stage |-> "sent",
                         copy |-> Unread, n |-> submits]}
  /\ UNCHANGED <<panel, saved, shown, form, faults, copies, unheard, orphans,
                 otherCopy, dropped, accepted, submitted, refusedDelete>>

\* The delete button; its request needs no form.
ClickDelete(r) ==
  /\ panel.deletes # "none"
  /\ r \in DOMAIN shown
  /\ Cardinality(wire) < MaxWire
  /\ ~\E c \in wire : c.kind = "delete"
  /\ submits < MaxSubmits
  /\ submits' = submits + 1
  /\ wire' = wire \cup {[kind |-> "delete", row |-> r, stage |-> "sent", copy |-> Unread]}
  /\ UNCHANGED <<panel, saved, shown, form, typedUpTo, faults, copies,
                 unheard, orphans, otherCopy, dropped, accepted, submitted,
                 refusedDelete>>

Answer(c, stage) == wire' = (wire \ {c}) \cup {[c EXCEPT !.stage = stage, !.copy = Unread]}

\* The rows are in a file: the handler reads it, and awaits, before it changes
\* what it has read.
Accepts(c) == c.kind # "delete" \/ panel.deletes = "body"
FileRead(c) ==
  /\ panel.stores = "file"
  /\ c.kind \in {"save", "click", "delete"} /\ c.stage = "sent" /\ Accepts(c)
  /\ wire' = (wire \ {c}) \cup {[c EXCEPT !.stage = "read", !.copy = saved]}
  /\ UNCHANGED <<panel, submits, saved, shown, form, typedUpTo, faults, copies, unheard,
                 orphans, otherCopy, dropped, accepted, submitted, refusedDelete>>

\* The rows a handler changes: those of the table, or the file as it was read.
Held(c) == IF panel.stores = "file" THEN c.copy ELSE saved
Ready(c) == c.stage = IF panel.stores = "file" THEN "read" ELSE "sent"
OfThisForm(c) == form.new /\ c.n \notin orphans

\* The server takes a save: the fields named are written in one statement or
\* one transaction, or with the rest of the file.  A new row gets its id here,
\* so a second request from the same form makes another row, of which only the
\* number is kept.
ServerSaves(c) ==
  /\ c.kind \in {"save", "click"} /\ Ready(c)
  /\ \/ /\ ~c.new /\ c.row \in DOMAIN Held(c)
        /\ saved' = [Held(c) EXCEPT ![c.row] = Over(c.body, @)]
        /\ UNCHANGED copies
     \/ /\ c.new
        /\ saved' = Over(Held(c), [r \in {c.row} |-> c.body])
        /\ copies' = IF OfThisForm(c) THEN copies + 1 ELSE copies
  /\ accepted' = accepted \cup {c.body[x] : x \in DOMAIN c.body}
  /\ Answer(c, "ok")
  /\ UNCHANGED <<panel, submits, shown, form, typedUpTo, faults, unheard, orphans,
                 otherCopy, dropped, submitted, refusedDelete>>

\* The server refuses: validation, a conflict, a row that is gone.
ServerRefuses(c) ==
  /\ c.kind \in {"save", "click"} /\ c.stage = "sent"
  /\ faults < MaxPanelFaults
  /\ faults' = faults + 1
  /\ Answer(c, "refused")
  /\ UNCHANGED <<panel, submits, saved, shown, form, typedUpTo, copies, unheard,
                 orphans, otherCopy, dropped, accepted, submitted, refusedDelete>>

\* DELETE handlers read the id from the JSON body: without one they answer
\* 400 "Request body required" before they look at anything.
ServerDeletes(c) ==
  /\ c.kind = "delete"
  /\ \/ /\ Accepts(c) /\ Ready(c) /\ c.row \in DOMAIN Held(c)
        /\ saved' = [r \in DOMAIN Held(c) \ {c.row} |-> Held(c)[r]]
        /\ Answer(c, "ok")
        /\ UNCHANGED refusedDelete
     \/ /\ IF Accepts(c) THEN Ready(c) /\ c.row \notin DOMAIN Held(c) ELSE c.stage = "sent"
        /\ Answer(c, "refused")
        /\ refusedDelete' = (refusedDelete \/ (~Accepts(c) /\ c.row \in Existing))
        /\ UNCHANGED saved
  /\ UNCHANGED <<panel, submits, shown, form, typedUpTo, faults, copies, unheard,
                 orphans, otherCopy, dropped, accepted, submitted>>

\* An answer is lost: fetch rejects and the handler's catch runs.
AnswerLost(c) ==
  /\ c.kind \in {"save", "click"}
  /\ c.stage \in {"sent", "ok"}
  /\ faults < MaxPanelFaults
  /\ faults' = faults + 1
  /\ unheard' = IF c.stage = "ok" /\ c.new /\ OfThisForm(c) THEN unheard + 1 ELSE unheard
  /\ Answer(c, "lost")
  /\ UNCHANGED <<panel, submits, saved, shown, form, typedUpTo, copies, orphans,
                 otherCopy, dropped, accepted, submitted, refusedDelete>>

\* The save's answer: an accepted one clears whatever is in the form and asks
\* for the rows again; a refused or lost one leaves the form alone.
ClosesAlways(c) == TRUE
Closes(c) == c.stage = "ok" \/ panel.closes = "always"
SaveAnswered(c) ==
  /\ c.kind = "save" /\ c.stage \notin {"sent", "read"}
  /\ form' = IF Closes(c) THEN ClosedForm ELSE form
  /\ wire' = (wire \ {c}) \cup
             (IF c.stage = "ok" THEN {[kind |-> "fetch", stage |-> "sent"]} ELSE {})
  /\ UNCHANGED <<panel, submits, saved, shown, typedUpTo, faults, copies, unheard,
                 orphans, otherCopy, dropped, accepted, submitted, refusedDelete>>

ButtonAnswered(c) ==
  /\ c.kind \in {"click", "delete"} /\ c.stage \notin {"sent", "read"}
  /\ wire' = (wire \ {c}) \cup
             (IF c.stage = "ok" THEN {[kind |-> "fetch", stage |-> "sent"]} ELSE {})
  /\ UNCHANGED <<panel, submits, saved, shown, form, typedUpTo, faults, copies,
                 unheard, orphans, otherCopy, dropped, accepted, submitted,
                 refusedDelete>>

\* The list is read and, later, shown; the form keeps what it holds.
ServerLists(c) ==
  /\ c.kind = "fetch" /\ c.stage = "sent"
  /\ wire' = (wire \ {c}) \cup {[kind |-> "fetch", stage |-> "ok", rows |-> saved]}
  /\ UNCHANGED <<panel, submits, saved, shown, form, typedUpTo, faults, copies,
                 unheard, orphans, otherCopy, dropped, accepted, submitted,
                 refusedDelete>>
RowsShown(c) ==
  /\ c.kind = "fetch" /\ c.stage = "ok"
  /\ shown' = c.rows
  /\ wire' = wire \ {c}
  /\ UNCHANGED <<panel, submits, saved, form, typedUpTo, faults, copies, unheard,
                 orphans, otherCopy, dropped, accepted, submitted, refusedDelete>>

\* Another administrator writes a field of a row, from a tab of his own.
OtherAdminReads ==
  /\ panel.stores = "file"
  /\ typedUpTo < MaxTyped
  /\ otherCopy = Unread
  /\ otherCopy' = saved
  /\ UNCHANGED <<panel, submits, saved, shown, form, wire, typedUpTo, faults, copies,
                 unheard, orphans, dropped, accepted, submitted, refusedDelete>>
OtherAdminWrites(r, x) ==
  LET rows == IF panel.stores = "file" THEN otherCopy ELSE saved IN
  /\ r \in DOMAIN rows
  /\ typedUpTo < MaxTyped
  /\ typedUpTo' = typedUpTo + 1
  /\ saved' = [rows EXCEPT ![r][x] = typedUpTo + 1]
  /\ otherCopy' = Unread
  /\ UNCHANGED <<panel, submits, shown, form, wire, faults, copies, unheard,
                 orphans, dropped, accepted, submitted, refusedDelete>>

PanelInit ==
  /\ panel \in PanelKinds
  /\ saved = [r \in {1} |-> [x \in FieldNames |-> 0]]
  /\ shown = saved
  /\ form = ClosedForm /\ wire = {} /\ submits = 0
  /\ typedUpTo = 0 /\ faults = 0 /\ copies = 0 /\ unheard = 0
  /\ orphans = {} /\ otherCopy = Unread
  /\ dropped = {} /\ accepted = {} /\ submitted = {} /\ refusedDelete = FALSE

PanelNext ==
  \/ \E r \in RowIds : StartEdit(r) \/ ClickDelete(r)
  \/ StartCreate \/ DiscardForm \/ SubmitForm
  \/ \E x \in FieldNames : TypeField(x)
  \/ OtherAdminReads
  \/ \E c \in wire : \/ FileRead(c) \/ ServerSaves(c) \/ ServerRefuses(c) \/ ServerDeletes(c)
                     \/ AnswerLost(c) \/ SaveAnswered(c) \/ ButtonAnswered(c)
                     \/ ServerLists(c) \/ RowsShown(c)
  \/ \E r \in RowIds, x \in FieldNames : OtherAdminWrites(r, x) \/ ClickField(r, x)

PanelSpec == PanelInit /\ [][PanelNext]_panelVars

-----------------------------------------------------------------------------
\* What was submitted is not lost with a failed save: it was taken by the
\* server, or it is still in the form, on its way, or the user dropped it.
\* The SOUL and memory tabs close on any answer.  Where the button stays
\* enabled, or only the form knows that it should not, a second save is sent
\* from a form that the answer to the first one clears.
SubmittedIsKept ==
  panel.closes = "ok" /\ panel.busy = "panel" =>
    submitted \subseteq accepted \cup dropped
      \cup (IF FormOpen THEN {form.vals[x] : x \in FieldNames} ELSE {})
      \cup UNION {{c.body[x] : x \in DOMAIN c.body} : c \in Saves}

\* A save changes no field its user left alone, so two administrators who edit
\* different fields of one row do not undo each other.  Forms that send the
\* whole row as it was when they were opened do not promise this, nor do the
\* handlers that rewrite a file, once it is no longer what they read.
OnlyTypedFieldsChange ==
  [][\A c \in wire : \A x \in FieldNames :
       /\ c.kind \in {"save", "click"} /\ ~c.new /\ c.row \in Existing /\ panel.edits # "whole"
       /\ saved = Held(c)
       /\ c \notin wire' /\ saved'[c.row][x] # saved[c.row][x]
       => x \in c.typed]_panelVars

\* Where the submit button is disabled during a save, one filling of the form
\* makes at most one row, and one more for each answer that was lost; where
\* the form knows, a row made from an earlier opening is not of this one.
OneRowPerForm == panel.busy # "no" => copies <= 1 + unheard

\* The delete button deletes: no delete of a row that exists is refused.
DeleteButtonWorks == ~refusedDelete

\* A form neither loses what was typed, nor repeats it, nor undoes what
\* somebody else saved.
FormsSafe ==
  /\ [](SubmittedIsKept /\ OneRowPerForm)
  /\ OnlyTypedFieldsChange
=============================================================================
