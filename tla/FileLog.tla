------------------------------- MODULE FileLog -------------------------------
(***************************************************************************)
(* The file log adapter (core/logs/file.go): writers that append to one    *)
(* file, its rotation when it has enough lines or a new day begins, the    *)
(* goroutines that wake up at midnight, and the deletion of old files.     *)
(* Rotation by size is rotation by lines with another unit; by the hour it *)
(* is the daily one with a shorter day.  Renaming a file and opening a new *)
(* one may fail.                                                           *)
(***************************************************************************)
EXTENDS Integers, FiniteSetsExt

CONSTANTS Writers,    \* goroutines that call WriteMsg
          MaxMsgs,    \* messages they write: a bound
          LastDay,    \* the last day: a bound
          MaxFiles,   \* MaxFiles
          MaxDays,    \* MaxDays
          MaxFaults   \* calls of the file system that fail: a bound

\* A log that keeps its files for no day deletes the one it writes.
FileLogAssumption == IsFiniteSet(Writers) /\ LastDay \in Nat \ {0} /\ MaxDays \in Nat \ {0}

VARIABLES conf,      \* MaxLines (0: not used) and Rotate
          today,     \* the day
          fs,        \* the files: how many lines, and the day each was last written; the log is Log
          writer,    \* fileLogWriter: open, lines, day it was opened, number of files
          job,       \* what a writer does: the step and the day of its message
          timers,    \* goroutines of dailyRotate, by the day they started on
          cleaners,  \* goroutines of deleteOldLog
          msgs, faults,   \* bounds
          wrong,     \* history: an error was reported by doRotate
          written, removed, orphans   \* history: lines written, in deleted files, to a file already deleted

fileLogVars == <<conf, today, fs, writer, job, timers, cleaners, msgs, faults, wrong, written, removed, orphans>>

Log == <<0, 0>>           \* the file; a rotated one is <<day, number>>
File(count) == [lines |-> count, at |-> today]
Days == 1 .. LastDay

Init ==
  /\ conf \in [maxLines : {0, 1}, rotate : BOOLEAN]
  /\ today = 1 /\ fs = [n \in {Log} |-> [lines |-> 0, at |-> 1]]
  /\ writer = [open |-> TRUE, day |-> 1, lines |-> 0, files |-> 0]
  /\ job = [w \in Writers |-> [step |-> "idle", day |-> 1]]
  /\ timers = [d \in Days |-> IF d = 1 THEN 1 ELSE 0]
  /\ cleaners = 0 /\ msgs = 0 /\ faults = 0 /\ wrong = FALSE /\ written = 0 /\ removed = 0 /\ orphans = 0

-----------------------------------------------------------------------------
(* Rotation.                                                               *)

\* needRotateDaily: enough lines, or another day than that of the opening.
NeedRotate(day) == (conf.maxLines > 0 /\ writer.lines >= conf.maxLines) \/ day # writer.day

\* Mutant: the first number, whether it is free or not.
FreeNameFirst(day) == IF conf.maxLines > 0 THEN {<<day, 1>>} ELSE {<<writer.day, writer.files + 1>>} \ DOMAIN fs

\* The name to rename to: with lines or sizes the first free number of the
\* message's day, otherwise the next number on the day of the opening.
FreeName(day) ==
  IF conf.maxLines > 0
  THEN LET free == {i \in writer.files + 1 .. MaxFiles : <<day, i>> \notin DOMAIN fs} IN
       IF free = {} THEN {} ELSE {<<day, Min(free)>>}
  ELSE {<<writer.day, writer.files + 1>>} \ DOMAIN fs

Count == IF conf.maxLines > 0 THEN writer.files ELSE writer.files + 1

\* createLogFile appends to what is there; initFd counts the lines and starts
\* the goroutine that waits for midnight.
InitFd(f, ts) ==
  /\ fs' = [n \in DOMAIN f \cup {Log} |-> IF n \in DOMAIN f THEN f[n] ELSE File(0)]
  /\ writer' = [open |-> TRUE, day |-> today, files |-> Count,
                lines |-> IF Log \in DOMAIN f /\ conf.maxLines > 0 THEN f[Log].lines ELSE 0]
  /\ timers' = [ts EXCEPT ![today] = @ + 1]

Renamed(name) == [n \in (DOMAIN fs \cup {name}) \ {Log} |-> IF n = name THEN fs[Log] ELSE fs[n]]

\* doRotate: not if there is no name left; otherwise the file is closed,
\* renamed and opened anew by startLogger, whatever failed before, and
\* deleteOldLog is started.
DoRotate(day, ts) ==
  LET name == FreeName(day)
      gone == Log \notin DOMAIN fs
  IN  IF ~gone /\ name = {}
      THEN wrong' = TRUE /\ writer' = [writer EXCEPT !.files = Count] /\ timers' = ts /\ UNCHANGED <<fs, cleaners, faults>>
      ELSE \E renameFails \in BOOLEAN \cap {FALSE, ~gone}, openFails \in BOOLEAN :
             LET f == IF gone \/ renameFails THEN fs ELSE Renamed(CHOOSE n \in name : TRUE) IN
             /\ faults' = faults + (IF renameFails THEN 1 ELSE 0) + (IF openFails THEN 1 ELSE 0) /\ faults' <= MaxFaults
             /\ wrong' = (wrong \/ renameFails \/ openFails) /\ cleaners' = cleaners + 1
             /\ IF openFails THEN fs' = f /\ writer' = [writer EXCEPT !.open = FALSE, !.files = Count] /\ timers' = ts
                ELSE InitFd(f, ts)

NoRotation == UNCHANGED <<fs, writer, timers, cleaners, faults, wrong>>

-----------------------------------------------------------------------------
(* Writers.                                                                *)

\* A message is stamped when it is logged and may come to the adapter late.
Begin(w) ==
  /\ job[w].step = "idle" /\ msgs < MaxMsgs /\ msgs' = msgs + 1
  /\ job' = [job EXCEPT ![w] = [step |-> IF conf.rotate THEN "check" ELSE "write", day |-> today]]
  /\ UNCHANGED <<conf, today, fs, writer, timers, cleaners, faults, wrong, written, removed, orphans>>

\* Under the read lock.
Check(w) ==
  /\ job[w].step = "check"
  /\ job' = [job EXCEPT ![w].step = IF NeedRotate(job[w].day) THEN "rotate" ELSE "write"]
  /\ UNCHANGED <<conf, today, fs, writer, timers, cleaners, msgs, faults, wrong, written, removed, orphans>>

\* Under the lock, which is given back before the message is written.
Rotate(w) ==
  /\ job[w].step = "rotate"
  /\ IF NeedRotate(job[w].day) THEN DoRotate(job[w].day, timers) ELSE NoRotation
  /\ job' = [job EXCEPT ![w].step = "write"]
  /\ UNCHANGED <<conf, today, msgs, written, removed, orphans>>

\* A file that was closed refuses the message.
Write(w) ==
  /\ job[w].step = "write"
  /\ job' = [job EXCEPT ![w].step = "idle"]
  /\ IF writer.open
     THEN /\ written' = written + 1 /\ writer' = [writer EXCEPT !.lines = @ + 1]
          /\ IF Log \in DOMAIN fs
             THEN fs' = [fs EXCEPT ![Log] = File(@.lines + 1)] /\ UNCHANGED orphans
             ELSE orphans' = orphans + 1 /\ UNCHANGED fs
     ELSE UNCHANGED <<written, writer, fs, orphans>>
  /\ UNCHANGED <<conf, today, timers, cleaners, msgs, faults, wrong, removed>>

-----------------------------------------------------------------------------
(* Time.  A goroutine whose timer is due runs before the next midnight.    *)

Tick ==
  /\ today < LastDay /\ \A d \in Days : d < today => timers[d] = 0
  /\ today' = today + 1
  /\ UNCHANGED <<conf, fs, writer, job, timers, cleaners, msgs, faults, wrong, written, removed, orphans>>

\* dailyRotate, also where Rotate is off.
DailyRotate ==
  \E d \in Days :
    LET ts == [timers EXCEPT ![d] = @ - 1] IN
    /\ d < today /\ timers[d] > 0
    /\ IF NeedRotate(today) THEN DoRotate(today, ts)
       ELSE timers' = ts /\ UNCHANGED <<fs, writer, cleaners, faults, wrong>>
    /\ UNCHANGED <<conf, today, job, msgs, written, removed, orphans>>

\* deleteOldLog: files that were not written for MaxDays.
DeleteOldLog ==
  LET old == {n \in DOMAIN fs : fs[n].at + MaxDays < today} IN
  /\ cleaners > 0 /\ cleaners' = cleaners - 1
  /\ fs' = [n \in DOMAIN fs \ old |-> fs[n]]
  /\ removed' = removed + MapThenSumSet(LAMBDA n : fs[n].lines, old)
  /\ UNCHANGED <<conf, today, writer, job, timers, msgs, faults, wrong, written, orphans>>

Next ==
  \/ \E w \in Writers : Begin(w) \/ Check(w) \/ Rotate(w) \/ Write(w)
  \/ Tick \/ DailyRotate \/ DeleteOldLog

Spec == Init /\ [][Next]_fileLogVars

-----------------------------------------------------------------------------
(* Properties.                                                             *)

\* Every line that was written is in a file, until the file is deleted for
\* its age: no rotation renames one file over another, and only after a
\* rotation that failed may the file a writer has open be deleted itself.
NothingLost ==
  /\ MapThenSumSet(LAMBDA n : fs[n].lines, DOMAIN fs) + removed + orphans = written
  /\ orphans > 0 => wrong

\* Between the check and the write every other writer may have come in
\* between: a file has at most one line for each of them too many, as long as
\* no rotation failed.
LinesBound ==
  conf.rotate /\ conf.maxLines > 0 /\ ~wrong =>
    \A n \in DOMAIN fs : fs[n].lines <= conf.maxLines + Cardinality(Writers) - 1

\* While the log is open, somebody waits for the midnight that ends the day it
\* was opened on.
TimerPending == writer.open /\ ~wrong => timers[writer.day] > 0

\* Rotation, by size, lines, day or timer, loses no line and goes on.
FileLogSound == NothingLost /\ LinesBound /\ TimerPending

=============================================================================
