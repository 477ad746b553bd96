----------------------------- MODULE TaskManager -----------------------------
(***************************************************************************)
(* The task manager of package task (task/task.go): the run loop that      *)
(* sorts the tasks, sleeps until the first of them is due and starts it,   *)
(* the API calls that change the task list from other goroutines, and the  *)
(* two unbuffered channels, stop and changed, by which they reach the      *)
(* loop.  A send on either is a goroutine of its own that lives until the  *)
(* loop receives.                                                          *)
(***************************************************************************)
EXTENDS Integers, Sequences, FiniteSets, SequencesExt

CONSTANTS Tasks,       \* taskers, each registered under its own name
          Due,         \* the instants at which a tasker's Schedule matches
          Loops,       \* goroutines of run(): the bound on StartTask
          Stoppers,    \* calls of StopTask and GracefulShutdown
          MaxTime,     \* the bound on the clock
          MaxChanged   \* the bound on goroutines blocked on changed

ASSUME TaskAssumption ==
  /\ MaxTime \in Nat /\ MaxChanged \in Nat
  /\ Due \in [Tasks -> SUBSET (1 .. MaxTime)]

VARIABLES
  tasks,      \* adminTaskList: the registered taskers
  next,       \* Task.Next, 0 for the zero time
  started,    \* taskManager.started
  clock,      \* time.Now()
  changed,    \* goroutines blocked in m.changed <- true
  stopper,    \* a StopTask or GracefulShutdown call
  pc,         \* where a run() goroutine is
  now,        \* run()'s local now
  list,       \* run()'s local sortList
  eff,        \* run()'s local effective
  running,    \* <<tasker, instant>>: goroutines inside e.Run
  wait,       \* the counter of taskManager.wait
  ran,        \* history: every run that was ever started
  late        \* history: runs of a tasker started since it was deleted

loopVars == <<pc, now, list, eff>>
runVars  == <<running, wait, ran>>
vars == <<tasks, next, started, clock, changed, stopper, loopVars, runVars, late>>

Zero  == 0             \* time.Time{}: the schedule never matches again
Never == MaxTime + 1   \* now.AddDate(10, 0, 0)

\* Schedule.Next: the first matching instant after now, or the zero time.
NextAfter(t, n) ==
  IF \E d \in Due[t] : d > n
  THEN CHOOSE d \in Due[t] : d > n /\ \A e \in Due[t] : e > n => d <= e
  ELSE Zero

Live(l) == pc[l] \notin {"off", "done"}

Init ==
  /\ tasks = {} /\ next = [t \in Tasks |-> Zero]
  /\ started = FALSE /\ clock = 0 /\ changed = 0
  /\ stopper = [g \in Stoppers |-> "unused"]
  /\ pc  = [l \in Loops |-> "off"]
  /\ now = [l \in Loops |-> 0]
  /\ list = [l \in Loops |-> <<>>]
  /\ eff = [l \in Loops |-> Never]
  /\ running = {} /\ wait = 0 /\ ran = {}
  /\ late = [t \in Tasks |-> 0]

Tick ==
  /\ clock < MaxTime
  /\ clock' = clock + 1
  /\ UNCHANGED <<tasks, next, started, changed, stopper, loopVars, runVars, late>>

-----------------------------------------------------------------------------
(* The API.  Each call works under taskLock and, when the manager is       *)
(* started, leaves a goroutine behind that sends on changed.               *)

Notify ==
  \/ ~started /\ UNCHANGED changed
  \/ started /\ changed < MaxChanged /\ changed' = changed + 1

\* Mutant: the loop is not told of the new task.
AddTaskSilently(t) ==
  /\ tasks' = tasks \cup {t}
  /\ next'  = [next EXCEPT ![t] = NextAfter(t, clock)]
  /\ late'  = [late EXCEPT ![t] = 0]
  /\ UNCHANGED <<started, clock, changed, stopper, loopVars, runVars>>

AddTask(t) ==
  /\ tasks' = tasks \cup {t}
  /\ next'  = [next EXCEPT ![t] = NextAfter(t, clock)]
  /\ late'  = [late EXCEPT ![t] = 0]
  /\ Notify
  /\ UNCHANGED <<started, clock, stopper, loopVars, runVars>>

DeleteTask(t) ==
  /\ t \in tasks
  /\ tasks' = tasks \ {t}
  /\ Notify
  /\ UNCHANGED <<next, started, clock, stopper, loopVars, runVars, late>>

ClearTask ==
  /\ tasks # {}
  /\ tasks' = {}
  /\ Notify
  /\ UNCHANGED <<next, started, clock, stopper, loopVars, runVars, late>>

\* A second call while started returns at once.
StartTask ==
  /\ ~started
  /\ started' = TRUE
  /\ \E l \in Loops :
       /\ pc[l] = "off"
       /\ pc'  = [pc EXCEPT ![l] = "init"]
       /\ now' = [now EXCEPT ![l] = clock]
  /\ UNCHANGED <<tasks, next, clock, changed, stopper, list, eff, runVars, late>>

\* Both start a goroutine that sends on stop, whether or not a loop runs.
StopTask(g) ==
  /\ stopper[g] = "unused"
  /\ stopper' = [stopper EXCEPT ![g] = "stop"]
  /\ UNCHANGED <<tasks, next, started, clock, changed, loopVars, runVars, late>>

GracefulShutdown(g) ==
  /\ stopper[g] = "unused"
  /\ stopper' = [stopper EXCEPT ![g] = "shutdown"]
  /\ UNCHANGED <<tasks, next, started, clock, changed, loopVars, runVars, late>>

\* Mutant: done is closed as soon as the loop has the stop request.
CloseAtOnce(g) ==
  /\ stopper[g] = "waiting"
  /\ stopper' = [stopper EXCEPT ![g] = "closed"]
  /\ UNCHANGED <<tasks, next, started, clock, changed, loopVars, runVars, late>>

\* m.wait.Wait() returns and done is closed.
WaitReturns(g) ==
  /\ stopper[g] = "waiting"
  /\ wait = 0
  /\ stopper' = [stopper EXCEPT ![g] = "closed"]
  /\ UNCHANGED <<tasks, next, started, clock, changed, loopVars, runVars, late>>

-----------------------------------------------------------------------------
(* The run loop.                                                           *)

\* setTasksStartTime(n), under taskLock.
SetTasksStartTime(n) ==
  next' = [t \in Tasks |-> IF t \in tasks THEN NextAfter(t, n) ELSE next[t]]

\* The first statement of run().
RunInit(l) ==
  /\ pc[l] = "init"
  /\ SetTasksStartTime(now[l])
  /\ pc' = [pc EXCEPT ![l] = "sort"]
  /\ UNCHANGED <<tasks, started, clock, changed, stopper, now, list, eff, runVars, late>>

\* MapSorter.Less: by next run time, zero times last.
Less(t, u) == next[t] # Zero /\ (next[u] = Zero \/ next[t] < next[u])

Sorted(S) ==
  {s \in SetToSeqs(S) : \A i, j \in 1 .. Len(s) : i < j => ~Less(s[j], s[i])}

\* NewMapSorter under the read lock, then Sort.  The sort is not stable.
Snapshot(l) ==
  /\ pc[l] = "sort"
  /\ \E s \in Sorted(tasks) : list' = [list EXCEPT ![l] = s]
  /\ pc' = [pc EXCEPT ![l] = "sorted"]
  /\ UNCHANGED <<tasks, next, started, clock, changed, stopper, now, eff, runVars, late>>

\* effective is chosen from the snapshot, but after asking the live map, with
\* no lock held, whether it is empty: the index of an empty snapshot panics.
Effective(l) ==
  /\ pc[l] = "sorted"
  /\ \/ /\ tasks # {} /\ list[l] = <<>>
        /\ pc' = [pc EXCEPT ![l] = "panic"]
        /\ UNCHANGED eff
     \/ /\ tasks = {} \/ list[l] # <<>>
        /\ eff' = [eff EXCEPT ![l] =
             IF tasks = {} \/ next[list[l][1]] = Zero THEN Never ELSE next[list[l][1]]]
        /\ pc' = [pc EXCEPT ![l] = "select"]
  /\ UNCHANGED <<tasks, next, started, clock, changed, stopper, now, list, runVars, late>>

\* case now = <-time.After(effective.Sub(now))
TimerFires(l) ==
  /\ pc[l] = "select"
  /\ eff[l] <= clock
  /\ now' = [now EXCEPT ![l] = clock]
  /\ pc'  = [pc EXCEPT ![l] = "run"]
  /\ UNCHANGED <<tasks, next, started, clock, changed, stopper, list, eff, runVars, late>>

\* case <-m.changed
RecvChanged(l) ==
  /\ pc[l] = "select"
  /\ changed > 0
  /\ changed' = changed - 1
  /\ now' = [now EXCEPT ![l] = clock]
  /\ SetTasksStartTime(clock)
  /\ pc' = [pc EXCEPT ![l] = "sort"]
  /\ UNCHANGED <<tasks, started, clock, stopper, list, eff, runVars, late>>

\* case <-m.stop: the sender of StopTask ends, that of GracefulShutdown goes
\* on to wait.
RecvStop(l) ==
  /\ pc[l] = "select"
  /\ \E g \in Stoppers :
       /\ stopper[g] \in {"stop", "shutdown"}
       /\ stopper' = [stopper EXCEPT ![g] = IF @ = "stop" THEN "sent" ELSE "waiting"]
  /\ pc' = [pc EXCEPT ![l] = "stopping"]
  /\ UNCHANGED <<tasks, next, started, clock, changed, now, list, eff, runVars, late>>

\* markManagerStop, and run() returns.
MarkManagerStop(l) ==
  /\ pc[l] = "stopping"
  /\ started' = FALSE
  /\ pc' = [pc EXCEPT ![l] = "done"]
  /\ UNCHANGED <<tasks, next, clock, changed, stopper, now, list, eff, runVars, late>>

HeadDue(l) == list[l] # <<>> /\ next[Head(list[l])] = eff[l]

\* An iteration of runNextTasks finds its tasker due: m.wait.Add(1), go Run.
StartRun(l) ==
  /\ pc[l] = "run"
  /\ HeadDue(l)
  /\ LET e == Head(list[l]) IN
       /\ running' = running \cup {<<e, eff[l]>>}
       /\ ran'     = ran \cup {<<e, eff[l]>>}
       /\ late'    = IF e \in tasks THEN late ELSE [late EXCEPT ![e] = @ + 1]
  /\ wait' = wait + 1
  /\ pc' = [pc EXCEPT ![l] = "advance"]
  /\ UNCHANGED <<tasks, next, started, clock, changed, stopper, now, list, eff>>

\* Mutant: the tasker keeps its next run time.
AdvanceNot(l) ==
  /\ pc[l] = "advance"
  /\ list' = [list EXCEPT ![l] = Tail(@)]
  /\ pc' = [pc EXCEPT ![l] = "run"]
  /\ UNCHANGED <<tasks, next, started, clock, changed, stopper, now, eff, runVars, late>>

\* ... e.SetPrev, e.SetNext(effective), without the lock.
Advance(l) ==
  /\ pc[l] = "advance"
  /\ next' = [next EXCEPT ![Head(list[l])] = NextAfter(Head(list[l]), eff[l])]
  /\ list' = [list EXCEPT ![l] = Tail(@)]
  /\ pc' = [pc EXCEPT ![l] = "run"]
  /\ UNCHANGED <<tasks, started, clock, changed, stopper, now, eff, runVars, late>>

\* The first tasker that is not due, or the end of the list, ends the round.
EndRound(l) ==
  /\ pc[l] = "run"
  /\ ~HeadDue(l)
  /\ pc' = [pc EXCEPT ![l] = "sort"]
  /\ UNCHANGED <<tasks, next, started, clock, changed, stopper, now, list, eff, runVars, late>>

\* e.Run returns; the deferred m.wait.Done().
Finish(r) ==
  /\ r \in running
  /\ running' = running \ {r}
  /\ wait' = wait - 1
  /\ UNCHANGED <<tasks, next, started, clock, changed, stopper, loopVars, ran, late>>

Loop(l) ==
  \/ RunInit(l) \/ Snapshot(l) \/ Effective(l) \/ TimerFires(l) \/ RecvChanged(l)
  \/ RecvStop(l) \/ MarkManagerStop(l) \/ StartRun(l) \/ Advance(l) \/ EndRound(l)

\* A panic in a run() goroutine ends the process.
Next ==
  /\ \A l \in Loops : pc[l] # "panic"
  /\ \/ Tick
     \/ \E t \in Tasks : AddTask(t) \/ DeleteTask(t)
     \/ ClearTask \/ StartTask
     \/ \E g \in Stoppers : StopTask(g) \/ GracefulShutdown(g) \/ WaitReturns(g)
     \/ \E l \in Loops : Loop(l)
     \/ \E r \in running : Finish(r)

Spec == Init /\ [][Next]_vars

\* The scheduler runs every goroutine that can run, time passes and every
\* DoFunc returns.  A select chooses at random among its ready cases, hence
\* strong fairness for each of them.  Nobody has to call the API.
Fairness ==
  /\ WF_vars(Next /\ Tick)
  /\ \A l \in Loops :
       /\ WF_vars(Next /\ (RunInit(l) \/ Snapshot(l) \/ Effective(l)))
       /\ WF_vars(Next /\ (StartRun(l) \/ Advance(l) \/ EndRound(l) \/ MarkManagerStop(l)))
       /\ SF_vars(Next /\ TimerFires(l))
       /\ SF_vars(Next /\ RecvChanged(l))
       /\ SF_vars(Next /\ RecvStop(l))
  /\ \A g \in Stoppers : WF_vars(Next /\ WaitReturns(g))
  /\ \A r \in Tasks \X (1 .. MaxTime) : WF_vars(Next /\ Finish(r))

FairSpec == Spec /\ Fairness

-----------------------------------------------------------------------------
(* Properties.                                                             *)

\* Every variable has its type; the counter of the WaitGroup equals the
\* number of Run goroutines, so that Done never panics.
TypeOK ==
  /\ tasks \subseteq Tasks
  /\ next \in [Tasks -> 0 .. MaxTime]
  /\ started \in BOOLEAN /\ clock \in 0 .. MaxTime /\ changed \in 0 .. MaxChanged
  /\ stopper \in [Stoppers -> {"unused", "stop", "sent", "shutdown", "waiting", "closed"}]
  /\ pc \in [Loops -> {"off", "init", "sort", "sorted", "select", "run", "advance",
                       "stopping", "done", "panic"}]
  /\ now \in [Loops -> 0 .. MaxTime] /\ eff \in [Loops -> 1 .. Never]
  /\ \A l \in Loops : ToSet(list[l]) \subseteq Tasks
  /\ running \subseteq ran /\ ran \subseteq Tasks \X (1 .. MaxTime)
  /\ wait = Cardinality(running)

\* One run() loop at most, whatever the order of StartTask, StopTask and
\* GracefulShutdown calls: started stays true until the old loop is leaving.
SingleLoop ==
  /\ \A k, l \in Loops : Live(k) /\ Live(l) => k = l
  /\ started <=> \E l \in Loops : Live(l)

\* When GracefulShutdown's channel is closed in a manager that was started
\* once, no task is running, and none will be: the loop that took the stop
\* request counted every run before it started it.
ShutdownMeansQuiet ==
  /\ \E g \in Stoppers : stopper[g] = "closed"
  /\ \A k, l \in Loops : pc[k] # "off" /\ pc[l] # "off" => k = l
  => running = {}

\* An occurrence of a task is started at most once, although next is reset
\* from the clock by AddTask and by the changed message while the loop is
\* working from an older snapshot.
NoDoubleRun == [][running' \subseteq running \/ (running' \ running) \cap ran = {}]_vars

\* A deleted task can still be started by the loop's old snapshot, but only
\* once: the next snapshot no longer has it.
DeletedRunsAtMostOnce == \A t \in Tasks : late[t] <= 1

\* A registered task never sits on a run time for good: while the manager is
\* started it is run, rescheduled or removed.  A task added while the loop
\* sleeps for years is picked up through the changed channel.
NoStuckTask ==
  \A t \in Tasks : \A d \in 1 .. MaxTime :
    (started /\ t \in tasks /\ next[t] = d) ~>
       (~started \/ t \notin tasks \/ next[t] # d \/ \E l \in Loops : pc[l] = "panic")

\* GracefulShutdown of a started manager reports in the end if it is the
\* only stop request.
LoneShutdownReports ==
  \A g \in Stoppers :
    (stopper[g] = "shutdown" /\ started /\ \A h \in Stoppers \ {g} : stopper[h] = "unused")
      ~> (\/ stopper[g] = "closed" \/ \E l \in Loops : pc[l] = "panic"
          \/ \E h \in Stoppers \ {g} : stopper[h] # "unused")

\* The comment in run(): "If there are no entries yet, just sleep - it still
\* handles new entries and stop requests."
EmptyListJustSleeps == \A l \in Loops : pc[l] # "panic"

\* One loop, which runs a deleted task once more at most and no task after the
\* shutdown has reported.
LoopSound == TypeOK /\ SingleLoop /\ ShutdownMeansQuiet /\ DeletedRunsAtMostOnce

\* The loop gets to every task that is due and to a lone shutdown request.
LoopProgress == NoStuckTask /\ LoneShutdownReports

=============================================================================
