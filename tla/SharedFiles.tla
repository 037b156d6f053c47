---------------------------- MODULE SharedFiles ----------------------------
(***************************************************************************)
(* The files of OpenClaw and Mission Control that request handlers read,   *)
(* change in memory and write back with asynchronous calls, without a      *)
(* lock: the cron jobs, the token records, the .env of the integrations    *)
(* and the gateway's openclaw.json.                                        *)
(*                                                                         *)
(* writeFile truncates its file before it fills it.  .env is written to a  *)
(* temporary file that is then renamed, the other three in place.          *)
(***************************************************************************)
EXTENDS Naturals, FiniteSets, FiniteSetsExt

CONSTANTS
  Handlers,        \* request handlers and scheduled tasks that can be at work
  MaxFileCalls,    \* bound on calls
  MaxFileCrashes   \* bound on stops of the server and failed writes

ASSUME SharedFilesAssumption == {MaxFileCalls, MaxFileCrashes} \subseteq Nat

VARIABLES
  content,   \* [Files -> entries]
  torn,      \* files that were truncated and not (properly) filled again
  tmp,       \* .env.tmp: "none", or what is in it
  work,      \* the calls under way
  expected,  \* history: what the files hold if calls had run one by one
  mixed,     \* history: files on which calls overlapped or were cut off
  cutLeaves,   \* history: leaves of openclaw.json below a path that was replaced
  fileCalls, fileCrashes

fileVars == <<content, torn, tmp, work, expected, mixed, cutLeaves, fileCalls,
             fileCrashes>>

Files == {"cron", "tokens", "env", "gateway"}
None == [kind |-> "none"]
Nothing == [x \in {} |-> "on"]

\* jobs.json has one entry per job, the token file one per record, .env one
\* per variable, openclaw.json one per leaf.  "list" stands for an array with
\* a secret inside, which the panel shows and edits as a whole.
FileInit ==
  /\ content = [f \in Files |->
       CASE f = "cron" -> [x \in {"job1"} |-> "on"]
         [] f = "tokens" -> [x \in {"old"} |-> "on"]
         [] f = "env" -> [x \in {"PATH"} |-> "on"]
         [] f = "gateway" -> [x \in {"password", "list", "port"} |-> "on"]]
  /\ torn = {}
  /\ tmp = None
  /\ work = [h \in Handlers |-> None]
  /\ expected = content
  /\ mixed = {} /\ cutLeaves = {}
  /\ fileCalls = 0 /\ fileCrashes = 0

Upsert(entries, x, v) == [y \in DOMAIN entries \cup {x} |-> IF y = x THEN v ELSE entries[y]]
Dropped(entries, S) == [y \in DOMAIN entries \ S |-> entries[y]]

(***************************************************************************)
(* What the handlers do to the copy they read.  A call is <<file, operation, entry>>. *)
(***************************************************************************)
\* What a handler makes of a file that does not parse.  The cron file counts
\* as missing and `add` starts a new one; the token records count as none;
\* openclaw.json is refused; .env has no syntax to fail.
Recovers(f, op) == f = "env" \/ <<f, op>> \in {<<"cron", "add">>, <<"tokens", "post">>}

ReadsNothing(f) == Nothing

\* loadCronFile, loadTokenDataFromFile, readEnvFile and the gateway's readFile
ReadsAs(f) == IF f \in torn THEN Nothing ELSE content[f]

\* isVarBlocked and blockedPaths, which looks for the path itself and those
\* that begin with it, not for one above
Protected(f, x) == <<f, x>> \in {<<"env", "PATH">>, <<"gateway", "password">>}

AddCronJob(jobs, x) == Upsert(jobs, x, "on")

ToggleCronJob(jobs, x) == [jobs EXCEPT ![x] = IF @ = "on" THEN "off" ELSE "on"]

RemoveCronJob(jobs, x) == Dropped(jobs, {x})

PostTokens(records, x) == Upsert(records, x, "on")

CleanTokens(records) == Dropped(records, {"old"})

\* PUT /api/integrations, or a value pulled from the vault
PutVars(vars, x) == Upsert(vars, x, "new")

RemoveVars(vars, x) == Dropped(vars, {x})

\* The leaves below a path: "auth" is gateway.auth, "gateway" all above it.
LeavesBelow(x) == CASE x = "auth" -> {"password"}
              [] x = "gateway" -> {"password", "port"}
              [] OTHER -> {}

\* PUT /api/gateway-config: an array comes back the way the panel showed it,
\* with its secrets redacted; an object, here an empty one, takes the place of
\* all that was below its path.
SetNestedValue(leaves, x) ==
  IF LeavesBelow(x) # {} THEN Dropped(leaves, LeavesBelow(x))
  ELSE Upsert(leaves, x, IF x = "list" THEN "redacted" ELSE "new")

Result(f, op, x, entries) ==
  CASE op = "add" -> AddCronJob(entries, x)
    [] op = "toggle" -> ToggleCronJob(entries, x)
    [] f = "cron" /\ op = "remove" -> RemoveCronJob(entries, x)
    [] op = "post" -> PostTokens(entries, x)
    [] op = "clean" -> CleanTokens(entries)
    [] f = "env" /\ op = "put" -> PutVars(entries, x)
    [] f = "env" /\ op = "remove" -> RemoveVars(entries, x)
    [] f = "gateway" -> SetNestedValue(entries, x)

\* Requests: the entry must exist for a toggle or a removal, and a clean-up
\* that finds nothing old writes nothing
Requests(f) ==
  CASE f = "cron" -> {"add", "toggle", "remove"} \X {"job1", "job2"}
    [] f = "tokens" -> {<<"post", "new">>, <<"clean", "old">>}
    [] f = "env" -> {"put", "remove"} \X {"KEY", "PATH"}
    [] f = "gateway" -> {"put"} \X {"port", "list", "password", "auth", "gateway"}

\* Where the handler writes: saveCronFile, saveTokenData, writeEnvFile
Target(f) == IF f = "env" THEN "tmp" ELSE f

Busy(f) == \E h \in Handlers : work[h] # None /\ work[h].file = f

\* The handler has read the file and changed its copy
ReadAndChange(h, f, op, x) ==
  /\ work[h] = None
  /\ fileCalls < MaxFileCalls
  /\ ~Protected(f, x)
  /\ f \in torn => Recovers(f, op)
  /\ op \in {"toggle", "remove", "clean"} => x \in DOMAIN ReadsAs(f)
  /\ work' = [work EXCEPT ![h] = [kind |-> "call", file |-> f, at |-> "changed", op |-> op, entry |-> x,
                                  copy |-> Result(f, op, x, ReadsAs(f)), into |-> Target(f), spoilt |-> FALSE]]
  /\ mixed' = IF Busy(f) THEN mixed \cup {f} ELSE mixed
  /\ cutLeaves' = IF f = "gateway" THEN cutLeaves \cup LeavesBelow(x) ELSE cutLeaves
  /\ fileCalls' = fileCalls + 1
  /\ UNCHANGED <<content, torn, tmp, expected, fileCrashes>>

Step(h, stage) == work' = [work EXCEPT ![h].at = stage]

\* writeFile opens its file, which empties it
Truncate(h) ==
  LET w == work[h] IN
  /\ w # None /\ w.at = "changed"
  /\ Step(h, "writing")
  /\ IF Target(w.file) = "tmp"
       THEN tmp' = [kind |-> "torn"] /\ UNCHANGED torn
       ELSE torn' = torn \cup {w.file} /\ UNCHANGED tmp
  /\ UNCHANGED <<content, expected, mixed, cutLeaves, fileCalls, fileCrashes>>

\* Others that write the same bytes of the same file at this moment
Rivals(h) == {g \in Handlers \ {h} : work[g] # None /\ work[g].at = "writing"
                                       /\ work[g].file = work[h].file /\ work[g].into = work[h].into}

Spoil(h, stage) == [g \in Handlers |-> IF g \in Rivals(h) THEN [work[g] EXCEPT !.spoilt = TRUE]
                                       ELSE IF g = h THEN stage ELSE work[g]]

Succeeds(h) == expected' = [expected EXCEPT ![work[h].file] = Result(work[h].file, work[h].op, work[h].entry, @)]

\* writeFile has written its bytes.  Where a rival wrote first, the file
\* holds this copy or a mixture of both.
FillInPlace(h) ==
  LET w == work[h] IN
  /\ w # None /\ w.at = "writing" /\ Target(w.file) = w.file
  /\ \/ /\ content' = [content EXCEPT ![w.file] = w.copy]
        /\ torn' = torn \ {w.file}
     \/ /\ w.spoilt
        /\ torn' = torn \cup {w.file}
        /\ UNCHANGED content
  /\ work' = Spoil(h, None)
  /\ IF w.file \in mixed THEN UNCHANGED expected ELSE Succeeds(h)
  /\ UNCHANGED <<tmp, mixed, cutLeaves, fileCalls, fileCrashes>>

\* The temporary file is complete, or the file that it has become meanwhile
FillTemporary(h) ==
  LET w == work[h] IN
  /\ w # None /\ w.at = "writing" /\ Target(w.file) = "tmp"
  /\ IF w.into = "tmp"
       THEN tmp' = [kind |-> "full", copy |-> w.copy] /\ UNCHANGED <<content, torn>>
       ELSE content' = [content EXCEPT !["env"] = w.copy] /\ torn' = torn \ {"env"} /\ UNCHANGED tmp
  /\ Step(h, "written")
  /\ UNCHANGED <<expected, mixed, cutLeaves, fileCalls, fileCrashes>>

\* rename: whoever still writes the temporary file now writes .env.  Without
\* a temporary file the call fails.
Rename(h) ==
  LET w == work[h] IN
  /\ w # None /\ w.at = "written"
  /\ CASE tmp.kind = "none" -> UNCHANGED <<content, torn, tmp>>
       [] tmp.kind = "full" -> content' = [content EXCEPT !["env"] = tmp.copy] /\ torn' = torn \ {"env"} /\ tmp' = None
       [] tmp.kind = "torn" -> torn' = torn \cup {"env"} /\ tmp' = None /\ UNCHANGED content
  /\ work' = [g \in Handlers |-> IF g = h THEN None
                                 ELSE IF tmp.kind # "none" /\ work[g] # None /\ work[g].at = "writing" /\ work[g].into = "tmp"
                                        THEN [work[g] EXCEPT !.into = "env"] ELSE work[g]]
  /\ IF "env" \in mixed THEN UNCHANGED expected ELSE Succeeds(h)
  /\ UNCHANGED <<mixed, cutLeaves, fileCalls, fileCrashes>>

\* The server stops: what was truncated stays so
FileCrash ==
  /\ fileCrashes < MaxFileCrashes
  /\ fileCrashes' = fileCrashes + 1
  /\ work' = [h \in Handlers |-> None]
  /\ mixed' = mixed \cup {f \in Files \ {"env"} : Busy(f)}
  /\ UNCHANGED <<content, torn, tmp, expected, cutLeaves, fileCalls>>

\* writeFile or rename fails, with what is written so far
FileFails(h) ==
  /\ fileCrashes < MaxFileCrashes
  /\ fileCrashes' = fileCrashes + 1
  /\ work[h] # None /\ work[h].at \in {"writing", "written"}
  /\ work' = [work EXCEPT ![h] = None]
  /\ mixed' = mixed \cup ({work[h].file} \ {"env"})
  /\ UNCHANGED <<content, torn, tmp, expected, cutLeaves, fileCalls>>

FileNext ==
  \/ \E h \in Handlers :
       \/ \E f \in Files : \E r \in Requests(f) : ReadAndChange(h, f, r[1], r[2])
       \/ Truncate(h) \/ FillInPlace(h) \/ FillTemporary(h) \/ Rename(h) \/ FileFails(h)
  \/ FileCrash

FileSpec == FileInit /\ [][FileNext]_fileVars

(***************************************************************************)
(* Properties.                                                             *)
(***************************************************************************)
\* Handlers that do not overlap on a file leave in it what they would have
\* left one after the other, whatever others do to the other files; for .env
\* this includes a failure or a stop of the server at any point of a write.
QuietFileIsRight ==
  \A f \in Files : ~Busy(f) /\ f \notin mixed => f \notin torn /\ content[f] = expected[f]

\* writeEnvFile: .env is complete at every moment unless two handlers write
\* it at the same time; a stop of the server never cuts it.
EnvIsWhole == "env" \notin mixed => "env" \notin torn

\* "CRITICAL: Preserves gateway.auth.password": no sequence of updates,
\* overlapping, mixed up or cut off, leaves an openclaw.json that parses and has
\* lost the password or a leaf, unless one replaced a path above it, which the
\* list of blocked paths does not stop.
GatewayKeepsPassword ==
  \/ "gateway" \in torn
  \/ /\ {"password", "list", "port"} \ cutLeaves \subseteq DOMAIN content["gateway"]
     /\ "password" \in cutLeaves \/ content["gateway"]["password"] = "on"

\* What the four files hold after handlers that overlap or are cut off.
FilesSafe == QuietFileIsRight /\ EnvIsWhole /\ GatewayKeepsPassword
=============================================================================
