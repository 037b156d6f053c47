----------------------------- MODULE Scheduler -----------------------------
(***************************************************************************)
(* lib/scheduler.ts: the table of periodic tasks, the tick of every minute *)
(* and the backups it makes, with the backups an administrator makes and   *)
(* deletes through api/backup and api/scheduler.                           *)
(*                                                                         *)
(* A tick goes through the tasks in order and suspends in each one it      *)
(* starts; the next tick comes a minute later in any case.  Time is in     *)
(* minutes, and intervals are shortened.  What the other tasks do is in    *)
(* the modules of their components.                                        *)
(***************************************************************************)
EXTENDS Naturals, Sequences, FiniteSets, FiniteSetsExt

CONSTANTS
    Order,         \* the tasks in the order of the Map
    Interval,      \* their intervals
    FirstRun,      \* minutes from start to their first run
    RetentionCount,\* general.backup_retention_count
    MaxManual,     \* MAX_BACKUPS of api/backup
    MaxMinute,     \* bound on time
    MaxEvents      \* bound on restarts, settings changes, manual actions

VARIABLES
    minute,
    sched,         \* tasks: lastRun, nextRun and the flag running
    suspended,     \* ticks that wait for a task: the task, and their now
    switchedOn,    \* tasks enabled in the settings
    readySince,    \* when each was enabled or its last run ended (observation)
    manual,        \* backups an administrator has under way
    files,         \* backup files: modification time, complete or not
    backupMade,    \* some backup has ended well (observation)
    excused,       \* a backup was deleted by hand, or as many as are kept were
                   \* incomplete (observation)
    events

schedVars == <<minute, sched, suspended, switchedOn, readySince, manual, files,
               backupMade, excused, events>>

ScheduledIds == {Order[i] : i \in DOMAIN Order}
Index(id) == CHOOSE i \in DOMAIN Order : Order[i] = id

\* The backup is the first task of the Map: it starts with its tick, so that the
\* time in its file's name is the tick's.
ASSUME SchedulerAssumption ==
    /\ Order \in Seq(ScheduledIds)
    /\ \A i \in DOMAIN Order : Order[i] = "auto_backup" => i = 1
    /\ \A i, j \in DOMAIN Order : Order[i] = Order[j] => i = j
    /\ \A id \in ScheduledIds : Interval[id] \in Nat \ {0} /\ FirstRun[id] \in Nat
    /\ RetentionCount \in Nat \ {0} /\ MaxManual \in Nat \ {0}
---------------------------------------------------------------------------
(* The tick.                                                               *)

NeverRun == 0

\* Fault: tasks under way are not skipped.
DueAgain(s, now, id) == now >= s[id].nextRun /\ id \in switchedOn
\* Fault: the clock decides, but the tick's now is recorded.
DueByClock(s, now, id) == ~s[id].running /\ minute >= s[id].nextRun /\ id \in switchedOn
Due(s, now, id) == ~s[id].running /\ now >= s[id].nextRun /\ id \in switchedOn

\* The loop from position i on: the first task that is due is started and the
\* tick suspends in it; without one the tick is over.
FromPosition(s, now, i) == {j \in i..Len(Order) : Due(s, now, Order[j])}

ScanFrom(s, now, i, others) ==
    LET due == FromPosition(s, now, i) IN
    IF due = {}
    THEN sched' = s /\ suspended' = others
    ELSE LET id == Order[Min(due)] IN
         /\ sched' = [s EXCEPT ![id].running = TRUE]
         /\ suspended' = others \cup {[task |-> id, now |-> now]}

\* Fault: a tick does nothing while an earlier one is under way.
StartIfIdle == IF suspended = {} THEN 1 ELSE Len(Order) + 1
StartPosition == 1

\* The interval fires, whether or not earlier ticks are over.
Tick ==
    /\ minute < MaxMinute /\ minute' = minute + 1
    /\ ScanFrom(sched, minute + 1, StartPosition, suspended)
    /\ UNCHANGED <<switchedOn, readySince, manual, files, backupMade, excused, events>>

\* finally: the tick's own now counts, however long the task took.
Finished(t) == [lastRun |-> t.now, running |-> FALSE,
                nextRun |-> t.now + Interval[t.task]]

\* A task ends, well or with an exception, and its tick goes on.
TaskEnds(t) ==
    /\ t \in suspended /\ t.task # "auto_backup"
    /\ ScanFrom([sched EXCEPT ![t.task] = Finished(t)], t.now, Index(t.task) + 1,
                suspended \ {t})
    /\ readySince' = [readySince EXCEPT ![t.task] = minute]
    /\ UNCHANGED <<minute, switchedOn, manual, files, backupMade, excused, events>>
---------------------------------------------------------------------------
(* Backups.  A file is named after the time its backup was started; it is  *)
(* on the disk, incomplete, from then on.  Two backups of one second would *)
(* share a file; this case is left out.                                    *)

Complete(name) ==
    [n \in DOMAIN files \cup {name} |->
       IF n = name THEN [mtime |-> minute, complete |-> TRUE] ELSE files[n]]

\* Fault: slice(0, n) instead of slice(n).
KeepsRest(fs, keep, n) ==
    /\ keep \subseteq DOMAIN fs
    /\ Cardinality(keep) = Cardinality(DOMAIN fs) - Min({n, Cardinality(DOMAIN fs)})
    /\ \A k \in keep, d \in DOMAIN fs \ keep : fs[k].mtime <= fs[d].mtime

\* Sorted by modification time, everything behind the first n is deleted,
\* files of backups that are under way included.
Keeps(fs, keep, n) ==
    /\ keep \subseteq DOMAIN fs /\ Cardinality(keep) = Min({n, Cardinality(DOMAIN fs)})
    /\ \A k \in keep, d \in DOMAIN fs \ keep : fs[k].mtime >= fs[d].mtime

Prune(fs, n) ==
    \E keep \in SUBSET DOMAIN fs :
        /\ Keeps(fs, keep, n)
        /\ files' = [f \in keep |-> fs[f]]
        /\ backupMade' = TRUE
        /\ excused' = (excused \/ Cardinality({f \in DOMAIN fs : ~fs[f].complete}) >= n)

\* The file appears on the disk.
BackupWrites(name) ==
    /\ name \notin DOMAIN files
    /\ \/ \E t \in suspended : t.task = "auto_backup" /\ t.now = name
       \/ name \in manual
    /\ files' = [n \in DOMAIN files \cup {name} |->
                   IF n = name THEN [mtime |-> minute, complete |-> FALSE] ELSE files[n]]
    /\ UNCHANGED <<minute, sched, suspended, switchedOn, readySince, manual, backupMade, excused, events>>

\* runBackup of the scheduler: with its number of files to keep, and then the
\* tick goes on.  A failure leaves no file.
AutoBackupEnds(t) ==
    /\ t \in suspended /\ t.task = "auto_backup"
    /\ \/ Prune(Complete(t.now), RetentionCount)
       \/ /\ files' = [n \in DOMAIN files \ {t.now} |-> files[n]]
          /\ UNCHANGED <<backupMade, excused>>
    /\ ScanFrom([sched EXCEPT ![t.task] = Finished(t)], t.now, Index(t.task) + 1,
                suspended \ {t})
    /\ readySince' = [readySince EXCEPT ![t.task] = minute]
    /\ UNCHANGED <<minute, switchedOn, manual, events>>

\* POST /api/backup, or POST /api/scheduler with auto_backup: the flag
\* running is neither asked nor set.
ManualBackup ==
    /\ events < MaxEvents /\ events' = events + 1
    /\ minute \notin manual \cup DOMAIN files
    /\ [task |-> "auto_backup", now |-> minute] \notin suspended
    /\ manual' = manual \cup {minute}
    /\ UNCHANGED <<minute, sched, suspended, switchedOn, readySince, files, backupMade, excused>>
ManualBackupEnds(name, keep) ==
    /\ name \in manual /\ manual' = manual \ {name}
    /\ Prune(Complete(name), keep)
    /\ UNCHANGED <<minute, sched, suspended, switchedOn, readySince, events>>

DeleteBackup(name) ==
    /\ events < MaxEvents /\ events' = events + 1
    /\ name \in DOMAIN files
    /\ files' = [n \in DOMAIN files \ {name} |-> files[n]]
    /\ excused' = TRUE
    /\ UNCHANGED <<minute, sched, suspended, switchedOn, readySince, manual, backupMade>>
---------------------------------------------------------------------------
(* Settings, start and stop of the process.                                *)

SwitchTask(id) ==
    /\ events < MaxEvents /\ events' = events + 1
    /\ switchedOn' = IF id \in switchedOn THEN switchedOn \ {id} ELSE switchedOn \cup {id}
    /\ readySince' = [readySince EXCEPT ![id] = minute]
    /\ UNCHANGED <<minute, sched, suspended, manual, files, backupMade, excused>>

Registered(now) ==
    [id \in ScheduledIds |-> [lastRun |-> NeverRun, nextRun |-> now + FirstRun[id],
                         running |-> FALSE]]

\* The process ends and initScheduler runs in a new one; a backup that was
\* under way leaves its incomplete file.
RestartServer ==
    /\ events < MaxEvents /\ events' = events + 1
    /\ sched' = Registered(minute) /\ suspended' = {} /\ manual' = {}
    /\ readySince' = [id \in ScheduledIds |-> minute]
    /\ UNCHANGED <<minute, switchedOn, files, backupMade, excused>>

SchedInit ==
    /\ minute = 1
    /\ sched = Registered(1) /\ suspended = {}
    /\ switchedOn = ScheduledIds /\ readySince = [id \in ScheduledIds |-> 1]
    /\ manual = {} /\ files = <<>>
    /\ backupMade = FALSE /\ excused = FALSE /\ events = 0

SchedNext ==
    \/ Tick
    \/ \E t \in suspended : TaskEnds(t) \/ AutoBackupEnds(t)
    \/ \E n \in 1..MaxMinute : BackupWrites(n) \/ DeleteBackup(n)
    \/ \E n \in manual, keep \in {RetentionCount, MaxManual} : ManualBackupEnds(n, keep)
    \/ ManualBackup
    \/ \E id \in ScheduledIds : SwitchTask(id)
    \/ RestartServer

SchedSpec == SchedInit /\ [][SchedNext]_schedVars
---------------------------------------------------------------------------
(* Properties.                                                             *)

\* Overlapping ticks never run a task twice at once.
OneTickPerTask ==
    \A t, u \in suspended : t.task = u.task => t = u

\* However long tasks hang, an enabled task that is due waits at most as many
\* minutes as tasks stand before it: every one of these can hold up one tick.
HungTasksDelayLittle ==
    \A id \in switchedOn :
        ~sched[id].running => minute < Max({sched[id].nextRun, readySince[id]}) + Index(id)

\* A tick that comes back late with an old now does not set a task's times
\* back behind what a later tick recorded.
LastRunNeverGoesBack ==
    [][\A id \in ScheduledIds :
         sched[id].lastRun <= sched'[id].lastRun \/ sched' = Registered(minute)]_schedVars

\* Pruning by the scheduler and by administrators, in any order and with
\* restarts in the middle of backups, leaves a complete backup once there was
\* one, as long as fewer backups are incomplete than are kept and nobody
\* deletes any by hand.
ABackupStays == backupMade /\ ~excused => \E n \in DOMAIN files : files[n].complete

\* Overlapping ticks neither repeat, starve nor set back a task, and their
\* pruning leaves a backup.
SchedulerSafe ==
    /\ [](OneTickPerTask /\ HungTasksDelayLittle /\ ABackupStays)
    /\ LastRunNeverGoesBack
============================================================================
