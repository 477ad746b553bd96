-------------------------- MODULE TaskManagerProofs --------------------------
(***************************************************************************)
(* The run loop of the task manager, for any tasks and schedules, any      *)
(* number of loops, of stop requests and of ticks: one loop at a time, no  *)
(* occurrence started twice, one late run of a deleted task at most, and   *)
(* quiet after a shutdown has reported.                                    *)
(*                                                                         *)
(* They hold together or not at all.  wait counts the runs only if no      *)
(* occurrence is started twice; an occurrence is not started again because *)
(* next is past it, except between StartRun and Advance (RunInv); next     *)
(* stays past it because what resets it is a clock no older than the run,  *)
(* or the same loop (LoopInv), of which there is one (SingleLoop).         *)
(***************************************************************************)
EXTENDS TaskManager, SequenceTheorems, FiniteSetTheorems, TLAPS

\* The types of the variables, but for the counter of the WaitGroup.
Types ==
  /\ tasks \subseteq Tasks /\ IsFiniteSet(tasks)
  /\ next \in [Tasks -> 0 .. MaxTime]
  /\ started \in BOOLEAN /\ clock \in 0 .. MaxTime /\ changed \in 0 .. MaxChanged
  /\ stopper \in [Stoppers -> {"unused", "stop", "sent", "shutdown", "waiting", "closed"}]
  /\ pc \in [Loops -> {"off", "init", "sort", "sorted", "select", "run", "advance",
                       "stopping", "done", "panic"}]
  /\ now \in [Loops -> 0 .. MaxTime] /\ eff \in [Loops -> 1 .. Never]
  /\ list \in [Loops -> Seq(Tasks)]
  /\ running \subseteq ran /\ ran \subseteq Tasks \X (1 .. MaxTime) /\ IsFiniteSet(running)
  /\ late \in [Tasks -> Nat]

NoRepeat(s) == \A i, j \in 1 .. Len(s) : s[i] = s[j] => i = j

Runs(t) == {d \in 1 .. MaxTime : <<t, d>> \in ran}

\* Where a loop is between its sort and its select, what it has in hand.
LoopInv ==
  \A l \in Loops :
    /\ NoRepeat(list[l])
    /\ pc[l] = "init" => \A t \in Tasks : \A d \in Runs(t) : d <= now[l]
    /\ pc[l] \in {"run", "advance"} => eff[l] <= clock
    /\ pc[l] = "advance" =>
         list[l] # <<>> /\ \A d \in Runs(Head(list[l])) : d <= eff[l]

\* No run lies in the future, and the next run time of a task is past all its
\* runs, unless the loop has started one and not yet set the next.
RunInv ==
  \A t \in Tasks : \A d \in Runs(t) :
    /\ d <= clock
    /\ next[t] # Zero => \/ d < next[t]
                         \/ \E l \in Loops : pc[l] = "advance" /\ Head(list[l]) = t

\* A task that was run late is neither registered nor in what is left of a
\* snapshot.
LateInv ==
  \A t \in Tasks :
    /\ late[t] <= 1
    /\ t \in tasks => late[t] = 0
    /\ \A l \in Loops :
         /\ pc[l] \in {"sorted", "select", "run"} /\ t \in ToSet(list[l]) => late[t] = 0
         /\ pc[l] = "advance" /\ t \in ToSet(Tail(list[l])) => late[t] = 0

WaitInv == wait = Cardinality(running)

\* While one loop at most was ever started, a shutdown that waits or has
\* reported has ended that loop.
OneLoop == \A k, l \in Loops : pc[k] # "off" /\ pc[l] # "off" => k = l

QuietInv ==
  OneLoop =>
    \A g \in Stoppers :
      /\ stopper[g] \in {"waiting", "closed"} => \E l \in Loops : pc[l] \in {"stopping", "done"}
      /\ stopper[g] = "closed" => running = {}

IInv == Types /\ SingleLoop /\ LoopInv /\ RunInv /\ LateInv /\ WaitInv /\ QuietInv

-----------------------------------------------------------------------------
\* A set of numbers has a smallest one.
LEMMA Smallest ==
  ASSUME NEW S \in SUBSET Nat, S # {}
  PROVE  \E d \in S : \A e \in S : d <= e
<1> DEFINE R == OpToRel(<, Nat)
<1>1. IsWellFoundedOn(R, Nat) BY NatLessThanWellFounded, Zenon
<1>2. \A x, y \in Nat : y < x => <<y, x>> \in R BY DEF OpToRel
<1> HIDE DEF R
<1>3. PICK d \in S : \A y \in S : ~(<<y, d>> \in R) BY <1>1, WFMin
<1>4. \A e \in S : ~(e < d) BY <1>2, <1>3
<1> QED BY <1>4

\* Schedule.Next is a later instant, or the zero time.
LEMMA NextAfterProperties ==
  ASSUME NEW t \in Tasks, NEW n \in Nat
  PROVE  /\ NextAfter(t, n) \in 0 .. MaxTime
         /\ NextAfter(t, n) = Zero \/ NextAfter(t, n) > n
<1> USE TaskAssumption DEF TaskAssumption
<1> DEFINE S == {d \in Due[t] : d > n}
<1>0. Due[t] \subseteq 1 .. MaxTime OBVIOUS
<1>1. S \in SUBSET Nat BY <1>0
<1>2. CASE S = {} BY <1>2 DEF NextAfter, Zero
<1>3. CASE S # {}
  <2>1. PICK d \in S : \A e \in S : d <= e BY <1>1, <1>3, Smallest
  <2>2. \E x \in Due[t] : x > n /\ \A e \in Due[t] : e > n => x <= e BY <2>1
  <2>3. NextAfter(t, n) \in Due[t] /\ NextAfter(t, n) > n BY <2>2 DEF NextAfter
  <2> QED BY <1>0, <2>3
<1> QED BY <1>2, <1>3

\* What a snapshot holds.
LEMMA SortedProperties ==
  ASSUME Types, NEW s \in Sorted(tasks)
  PROVE  s \in Seq(Tasks) /\ NoRepeat(s) /\ ToSet(s) \subseteq tasks
<1> DEFINE n == Cardinality(tasks)
<1>1. n \in Nat BY FS_CardinalityType DEF Types
<1> HIDE DEF n
<1>2. s \in [1 .. n -> tasks] /\ \A i, j \in 1 .. n : i # j => s[i] # s[j]
  BY DEF Sorted, SetToSeqs, n
<1>3. s \in Seq(tasks) BY <1>1, <1>2
<1>4. s \in Seq(Tasks) /\ Len(s) = n /\ DOMAIN s = 1 .. n BY <1>1, <1>2, <1>3, SeqMonotonic DEF Types
<1>5. NoRepeat(s) BY <1>2, <1>4 DEF NoRepeat
<1>6. ToSet(s) \subseteq tasks BY <1>2, <1>4 DEF ToSet
<1> QED BY <1>4, <1>5, <1>6

\* What is left of a snapshot when its first task is done.
LEMMA TailProperties ==
  ASSUME NEW s \in Seq(Tasks), s # <<>>, NoRepeat(s)
  PROVE  /\ Head(s) \in Tasks /\ Head(s) \in ToSet(s) /\ Tail(s) \in Seq(Tasks) /\ NoRepeat(Tail(s))
         /\ ToSet(Tail(s)) \subseteq ToSet(s) \ {Head(s)}
<1>1. /\ Len(s) \in Nat \ {0} /\ DOMAIN s = 1 .. Len(s)
      /\ Head(s) \in Tasks /\ Tail(s) \in Seq(Tasks) /\ Len(Tail(s)) = Len(s) - 1
      /\ \A i \in 1 .. Len(Tail(s)) : Tail(s)[i] = s[i + 1]
  BY HeadTailProperties, EmptySeq, LenProperties
<1>2. Head(s) = s[1] /\ 1 \in DOMAIN s BY <1>1
<1>3. DOMAIN Tail(s) = 1 .. Len(s) - 1 BY <1>1, LenProperties
<1> DEFINE t == Tail(s)
<1> HIDE DEF t
<1>4. ASSUME NEW i \in 1 .. Len(s) - 1, NEW j \in 1 .. Len(s) - 1, Tail(s)[i] = Tail(s)[j] PROVE i = j
  <2>1. i + 1 \in 1 .. Len(s) /\ j + 1 \in 1 .. Len(s) /\ s[i + 1] = s[j + 1] BY <1>1, <1>4
  <2>2. i + 1 = j + 1 BY <2>1 DEF NoRepeat
  <2> QED BY <2>2
<1>5. NoRepeat(Tail(s)) BY <1>1, <1>4 DEF NoRepeat
<1>6. ASSUME NEW i \in 1 .. Len(s) - 1 PROVE Tail(s)[i] \in ToSet(s) /\ Tail(s)[i] # Head(s)
  <2>1. i + 1 \in DOMAIN s /\ i + 1 # 1 /\ Tail(s)[i] = s[i + 1] BY <1>1
  <2>2. s[i + 1] # s[1] BY <1>1, <1>2, <2>1 DEF NoRepeat
  <2> QED BY <1>2, <2>1, <2>2 DEF ToSet
<1>7. ToSet(Tail(s)) \subseteq ToSet(s) \ {Head(s)} BY <1>3, <1>6 DEF ToSet
<1>8. Head(s) \in ToSet(s) BY <1>2 DEF ToSet
<1> QED BY <1>1, <1>5, <1>7, <1>8

\* The runs of a task are instants, and what the occurrences are made of.
LEMMA RunsType == ASSUME Types PROVE \A t \in Tasks : Runs(t) \subseteq 1 .. MaxTime
BY DEF Runs

-----------------------------------------------------------------------------
(* Every action keeps the inductive invariant.                             *)

\* Time passes.
LEMMA TickInv ==
  ASSUME IInv, Tick
  PROVE  IInv'
<1> USE TaskAssumption DEF TaskAssumption, IInv, Tick, loopVars, runVars
<1>1. Types' BY DEF Types
<1>2. SingleLoop' BY DEF Types, SingleLoop, Live
<1>3. LoopInv' BY DEF Types, SingleLoop, Live, LoopInv, RunInv, Runs
<1>4. RunInv' BY DEF Types, SingleLoop, Live, LoopInv, RunInv, Runs
<1>5. LateInv' BY DEF Types, SingleLoop, Live, LateInv
<1>6. WaitInv' BY DEF WaitInv
<1>7. QuietInv' BY DEF Types, SingleLoop, Live, QuietInv, OneLoop
<1> QED BY <1>1, <1>2, <1>3, <1>4, <1>5, <1>6, <1>7

\* AddTask puts the next run past every earlier one: the clock is.
LEMMA AddInv ==
  ASSUME IInv, NEW t \in Tasks, AddTask(t)
  PROVE  IInv'
<1> USE TaskAssumption DEF TaskAssumption, IInv, AddTask, Notify, loopVars, runVars
<1>0. /\ clock \in Nat /\ NextAfter(t, clock) \in 0 .. MaxTime
      /\ NextAfter(t, clock) = Zero \/ NextAfter(t, clock) > clock
  BY NextAfterProperties DEF Types
<1>1. Types'
  <2>1. IsFiniteSet(tasks') BY FS_AddElement DEF Types
  <2>2. changed' \in 0 .. MaxChanged BY DEF Types
  <2> QED BY <1>0, <2>1, <2>2 DEF Types
<1>2. SingleLoop' BY DEF Types, SingleLoop, Live
<1>3. LoopInv' BY DEF Types, SingleLoop, Live, LoopInv, RunInv, Runs
<1>4. RunInv' BY <1>0 DEF Types, RunInv, Runs
<1>5. LateInv' BY DEF Types, SingleLoop, Live, LateInv
<1>6. WaitInv' BY DEF WaitInv
<1>7. QuietInv' BY DEF Types, SingleLoop, Live, QuietInv, OneLoop
<1> QED BY <1>1, <1>2, <1>3, <1>4, <1>5, <1>6, <1>7

\* DeleteTask leaves the loop's snapshot alone.
LEMMA DeleteInv ==
  ASSUME IInv, NEW t \in Tasks, DeleteTask(t)
  PROVE  IInv'
<1> USE TaskAssumption DEF TaskAssumption, IInv, DeleteTask, Notify, loopVars, runVars
<1>1. Types'
  <2>1. IsFiniteSet(tasks') BY FS_RemoveElement DEF Types
  <2>2. changed' \in 0 .. MaxChanged BY DEF Types
  <2> QED BY <2>1, <2>2 DEF Types
<1>2. SingleLoop' BY DEF Types, SingleLoop, Live
<1>3. LoopInv' BY DEF Types, SingleLoop, Live, LoopInv, RunInv, Runs
<1>4. RunInv' BY DEF Types, SingleLoop, Live, LoopInv, RunInv, Runs
<1>5. LateInv' BY DEF Types, SingleLoop, Live, LateInv
<1>6. WaitInv' BY DEF WaitInv
<1>7. QuietInv' BY DEF Types, SingleLoop, Live, QuietInv, OneLoop
<1> QED BY <1>1, <1>2, <1>3, <1>4, <1>5, <1>6, <1>7

\* ClearTask is DeleteTask of all.
LEMMA ClearInv ==
  ASSUME IInv, ClearTask
  PROVE  IInv'
<1> USE TaskAssumption DEF TaskAssumption, IInv, ClearTask, Notify, loopVars, runVars
<1>1. Types'
  <2>1. IsFiniteSet(tasks') BY FS_EmptySet
  <2>2. changed' \in 0 .. MaxChanged BY DEF Types
  <2> QED BY <2>1, <2>2 DEF Types
<1>2. SingleLoop' BY DEF Types, SingleLoop, Live
<1>3. LoopInv' BY DEF Types, SingleLoop, Live, LoopInv, RunInv, Runs
<1>4. RunInv' BY DEF Types, SingleLoop, Live, LoopInv, RunInv, Runs
<1>5. LateInv' BY DEF Types, SingleLoop, Live, LateInv
<1>6. WaitInv' BY DEF WaitInv
<1>7. QuietInv' BY DEF Types, SingleLoop, Live, QuietInv, OneLoop
<1> QED BY <1>1, <1>2, <1>3, <1>4, <1>5, <1>6, <1>7

\* StartTask starts a loop when none is live.
LEMMA StartInv ==
  ASSUME IInv, StartTask
  PROVE  IInv'
<1> USE TaskAssumption DEF TaskAssumption, IInv, StartTask, loopVars, runVars
<1>1. Types' BY DEF Types
<1>2. SingleLoop' BY DEF Types, SingleLoop, Live
<1>3. LoopInv' BY DEF Types, SingleLoop, Live, LoopInv, RunInv, Runs
<1>4. RunInv' BY DEF Types, SingleLoop, Live, LoopInv, RunInv, Runs
<1>5. LateInv' BY DEF Types, SingleLoop, Live, LateInv
<1>6. WaitInv' BY DEF WaitInv
<1>7. QuietInv' BY DEF Types, SingleLoop, Live, QuietInv, OneLoop
<1> QED BY <1>1, <1>2, <1>3, <1>4, <1>5, <1>6, <1>7

\* A stop request waits for a loop.
LEMMA StopInv ==
  ASSUME IInv, NEW g \in Stoppers, StopTask(g) \/ GracefulShutdown(g)
  PROVE  IInv'
<1> USE TaskAssumption DEF TaskAssumption, IInv, StopTask, GracefulShutdown, loopVars, runVars
<1>1. Types' BY DEF Types
<1>2. SingleLoop' BY DEF Types, SingleLoop, Live
<1>3. LoopInv' BY DEF Types, SingleLoop, Live, LoopInv, RunInv, Runs
<1>4. RunInv'
  <2>1. UNCHANGED <<clock, next, pc, list, ran>> OBVIOUS
  <2> QED BY <2>1 DEF RunInv, Runs
<1>5. LateInv' BY DEF Types, SingleLoop, Live, LateInv
<1>6. WaitInv' BY DEF WaitInv
<1>7. QuietInv' BY ZenonT(30) DEF Types, SingleLoop, Live, QuietInv, OneLoop
<1> QED BY <1>1, <1>2, <1>3, <1>4, <1>5, <1>6, <1>7

\* WaitGroup.Wait returns when no task runs.
LEMMA WaitReturnsInv ==
  ASSUME IInv, NEW g \in Stoppers, WaitReturns(g)
  PROVE  IInv'
<1> USE TaskAssumption DEF TaskAssumption, IInv, WaitReturns, loopVars, runVars
<1>1. Types' BY DEF Types
<1>2. SingleLoop' BY DEF Types, SingleLoop, Live
<1>3. LoopInv' BY DEF Types, SingleLoop, Live, LoopInv, RunInv, Runs
<1>4. RunInv' BY DEF Types, SingleLoop, Live, LoopInv, RunInv, Runs
<1>5. LateInv' BY DEF Types, SingleLoop, Live, LateInv
<1>6. WaitInv' BY DEF WaitInv
<1>7. QuietInv'
  <2>1. running = {} BY FS_EmptySet DEF Types, WaitInv
  <2> QED BY <2>1 DEF Types, QuietInv, OneLoop
<1> QED BY <1>1, <1>2, <1>3, <1>4, <1>5, <1>6, <1>7

\* The first schedule of a loop counts from the clock of StartTask, and nothing ran since.
LEMMA RunInitInv ==
  ASSUME IInv, NEW l \in Loops, RunInit(l)
  PROVE  IInv'
<1> USE TaskAssumption DEF TaskAssumption, IInv, RunInit, SetTasksStartTime, loopVars, runVars
<1>0. /\ now[l] \in Nat
      /\ \A t \in Tasks : NextAfter(t, now[l]) \in 0 .. MaxTime
      /\ \A t \in Tasks : NextAfter(t, now[l]) = Zero \/ NextAfter(t, now[l]) > now[l]
  BY NextAfterProperties DEF Types
<1>a. next' = [t \in Tasks |-> IF t \in tasks THEN NextAfter(t, now[l]) ELSE next[t]] OBVIOUS
<1>b. \A t \in Tasks : next'[t] = IF t \in tasks THEN NextAfter(t, now[l]) ELSE next[t] BY <1>a
<1>c. clock' = clock OBVIOUS
<1>1. Types'
  <2>1. ASSUME NEW t \in Tasks PROVE next'[t] \in 0 .. MaxTime
    <3> HIDE DEF RunInit, SetTasksStartTime
    <3>1. CASE t \in tasks BY <1>0, <1>b, <3>1
    <3>2. CASE t \notin tasks BY <1>b, <3>2 DEF Types
    <3> QED BY <3>1, <3>2
  <2>2. next' \in [Tasks -> 0 .. MaxTime] BY <1>a, <2>1
  <2> HIDE DEF SetTasksStartTime
  <2> QED BY <2>2 DEF Types
<1>2. SingleLoop' BY DEF Types, SingleLoop, Live
<1>3. LoopInv' BY DEF Types, SingleLoop, Live, LoopInv, RunInv, Runs
<1>4. RunInv'
  <2>1. \A k \in Loops : pc[k] # "advance" BY DEF SingleLoop, Live
  <2> SUFFICES ASSUME NEW t \in Tasks, NEW d \in Runs(t)
               PROVE  d <= clock' /\ (next'[t] # Zero => d < next'[t])
    BY DEF RunInv, Runs
  <2>2. d \in Int /\ d <= clock /\ d <= now[l] /\ (next[t] # Zero => d < next[t])
    BY <2>1 DEF LoopInv, RunInv, Runs
  <2> HIDE DEF RunInit, SetTasksStartTime
  <2>3. CASE t \in tasks BY <1>0, <1>b, <1>c, <2>2, <2>3 DEF Zero
  <2>4. CASE t \notin tasks BY <1>b, <1>c, <2>2, <2>4
  <2> QED BY <1>c, <2>2, <2>3, <2>4
<1>5. LateInv' BY DEF Types, SingleLoop, Live, LateInv
<1>6. WaitInv' BY DEF WaitInv
<1>7. QuietInv' BY DEF Types, SingleLoop, Live, QuietInv, OneLoop
<1> QED BY <1>1, <1>2, <1>3, <1>4, <1>5, <1>6, <1>7

\* A new snapshot holds no task that was run late.
LEMMA SnapshotInv ==
  ASSUME IInv, NEW l \in Loops, Snapshot(l)
  PROVE  IInv'
<1> USE TaskAssumption DEF TaskAssumption, IInv, Snapshot, loopVars, runVars
<1>0. PICK s \in Sorted(tasks) : list' = [list EXCEPT ![l] = s] OBVIOUS
<1>a. s \in Seq(Tasks) /\ NoRepeat(s) /\ ToSet(s) \subseteq tasks BY SortedProperties
<1>b. list'[l] = s /\ \A k \in Loops : k # l => list'[k] = list[k] BY <1>0 DEF Types
<1>1. Types' BY <1>0, <1>a DEF Types
<1>2. SingleLoop' BY DEF Types, SingleLoop, Live
<1>3. LoopInv' BY <1>a, <1>b DEF Types, LoopInv, Runs
<1>4. RunInv' BY <1>b DEF Types, RunInv, Runs
<1>5. LateInv' BY <1>a, <1>b DEF Types, SingleLoop, Live, LateInv
<1>6. WaitInv' BY DEF WaitInv
<1>7. QuietInv' BY DEF Types, SingleLoop, Live, QuietInv, OneLoop
<1> QED BY <1>1, <1>2, <1>3, <1>4, <1>5, <1>6, <1>7

\* The choice of the next instant.
LEMMA EffectiveInv ==
  ASSUME IInv, NEW l \in Loops, Effective(l)
  PROVE  IInv'
<1> USE TaskAssumption DEF TaskAssumption, IInv, Effective, loopVars, runVars
<1>1. Types'
  <2>1. ASSUME list[l] # <<>> PROVE next[list[l][1]] \in 0 .. MaxTime
    <3>1. Len(list[l]) \in Nat \ {0} /\ list[l] \in Seq(Tasks) BY <2>1, EmptySeq DEF Types
    <3>2. list[l][1] \in Tasks BY <3>1, ElementOfSeq
    <3> QED BY <3>2 DEF Types
  <2>2. (eff \in [Loops -> 1 .. Never])'
    <3> DEFINE v == IF tasks = {} \/ next[list[l][1]] = Zero THEN Never ELSE next[list[l][1]]
    <3>1. CASE eff' = eff BY <3>1 DEF Types, Never
    <3>2. CASE eff' = [eff EXCEPT ![l] = v] /\ (tasks = {} \/ list[l] # <<>>)
      <4>1. v \in 1 .. Never BY <2>1, <3>2 DEF Never, Zero
      <4> QED BY <3>2, <4>1 DEF Types, Never
    <3> QED BY <3>1, <3>2
  <2> QED BY <2>2 DEF Types
<1>2. SingleLoop' BY DEF Types, SingleLoop, Live
<1>3. LoopInv' BY ZenonT(30) DEF Types, SingleLoop, Live, LoopInv, RunInv, Runs
<1>4. RunInv' BY DEF Types, SingleLoop, Live, LoopInv, RunInv, Runs
<1>5. LateInv' BY DEF Types, SingleLoop, Live, LateInv
<1>6. WaitInv' BY DEF WaitInv
<1>7. QuietInv' BY ZenonT(30) DEF Types, SingleLoop, Live, QuietInv, OneLoop
<1> QED BY <1>1, <1>2, <1>3, <1>4, <1>5, <1>6, <1>7

\* The timer fires at the chosen instant or later.
LEMMA TimerInv ==
  ASSUME IInv, NEW l \in Loops, TimerFires(l)
  PROVE  IInv'
<1> USE TaskAssumption DEF TaskAssumption, IInv, TimerFires, loopVars, runVars
<1>1. Types' BY DEF Types
<1>2. SingleLoop' BY DEF Types, SingleLoop, Live
<1>3. LoopInv' BY DEF Types, SingleLoop, Live, LoopInv, RunInv, Runs
<1>4. RunInv' BY DEF Types, SingleLoop, Live, LoopInv, RunInv, Runs
<1>5. LateInv' BY DEF Types, SingleLoop, Live, LateInv
<1>6. WaitInv' BY DEF WaitInv
<1>7. QuietInv' BY DEF Types, SingleLoop, Live, QuietInv, OneLoop
<1> QED BY <1>1, <1>2, <1>3, <1>4, <1>5, <1>6, <1>7

\* The changed message puts every next run past the clock.
LEMMA ChangedInv ==
  ASSUME IInv, NEW l \in Loops, RecvChanged(l)
  PROVE  IInv'
<1> USE TaskAssumption DEF TaskAssumption, IInv, RecvChanged, SetTasksStartTime, loopVars, runVars
<1>0. /\ clock \in Nat
      /\ \A t \in Tasks : NextAfter(t, clock) \in 0 .. MaxTime
      /\ \A t \in Tasks : NextAfter(t, clock) = Zero \/ NextAfter(t, clock) > clock
  BY NextAfterProperties DEF Types
<1>a. next' = [t \in Tasks |-> IF t \in tasks THEN NextAfter(t, clock) ELSE next[t]] OBVIOUS
<1>b. \A t \in Tasks : next'[t] = IF t \in tasks THEN NextAfter(t, clock) ELSE next[t] BY <1>a
<1>c. clock' = clock OBVIOUS
<1>1. Types'
  <2>1. ASSUME NEW t \in Tasks PROVE next'[t] \in 0 .. MaxTime
    <3> HIDE DEF RecvChanged, SetTasksStartTime
    <3>1. CASE t \in tasks BY <1>0, <1>b, <3>1
    <3>2. CASE t \notin tasks BY <1>b, <3>2 DEF Types
    <3> QED BY <3>1, <3>2
  <2>2. next' \in [Tasks -> 0 .. MaxTime] BY <1>a, <2>1
  <2>3. changed' \in 0 .. MaxChanged BY DEF Types
  <2> HIDE DEF SetTasksStartTime
  <2> QED BY <2>2, <2>3 DEF Types
<1>2. SingleLoop' BY DEF Types, SingleLoop, Live
<1>3. LoopInv' BY DEF Types, SingleLoop, Live, LoopInv, RunInv, Runs
<1>4. RunInv'
  <2>1. \A k \in Loops : pc[k] # "advance" BY DEF SingleLoop, Live
  <2> SUFFICES ASSUME NEW t \in Tasks, NEW d \in Runs(t)
               PROVE  d <= clock' /\ (next'[t] # Zero => d < next'[t])
    BY DEF RunInv, Runs
  <2>2. d \in Int /\ d <= clock /\ d <= clock /\ (next[t] # Zero => d < next[t])
    BY <2>1 DEF LoopInv, RunInv, Runs
  <2> HIDE DEF RecvChanged, SetTasksStartTime
  <2>3. CASE t \in tasks BY <1>0, <1>b, <1>c, <2>2, <2>3 DEF Zero
  <2>4. CASE t \notin tasks BY <1>b, <1>c, <2>2, <2>4
  <2> QED BY <1>c, <2>2, <2>3, <2>4
<1>5. LateInv' BY DEF Types, SingleLoop, Live, LateInv
<1>6. WaitInv' BY DEF WaitInv
<1>7. QuietInv' BY DEF Types, SingleLoop, Live, QuietInv, OneLoop
<1> QED BY <1>1, <1>2, <1>3, <1>4, <1>5, <1>6, <1>7

\* The stop request takes the loop out of its select.
LEMMA RecvStopInv ==
  ASSUME IInv, NEW l \in Loops, RecvStop(l)
  PROVE  IInv'
<1> USE TaskAssumption DEF TaskAssumption, IInv, RecvStop, loopVars, runVars
<1>1. Types' BY DEF Types
<1>2. SingleLoop' BY DEF Types, SingleLoop, Live
<1>3. LoopInv' BY DEF Types, SingleLoop, Live, LoopInv, RunInv, Runs
<1>4. RunInv' BY DEF Types, SingleLoop, Live, LoopInv, RunInv, Runs
<1>5. LateInv' BY DEF Types, SingleLoop, Live, LateInv
<1>6. WaitInv' BY DEF WaitInv
<1>7. QuietInv' BY DEF Types, SingleLoop, Live, QuietInv, OneLoop
<1> QED BY <1>1, <1>2, <1>3, <1>4, <1>5, <1>6, <1>7

\* The loop ends with the mark.
LEMMA MarkInv ==
  ASSUME IInv, NEW l \in Loops, MarkManagerStop(l)
  PROVE  IInv'
<1> USE TaskAssumption DEF TaskAssumption, IInv, MarkManagerStop, loopVars, runVars
<1>1. Types' BY DEF Types
<1>2. SingleLoop' BY ZenonT(30) DEF Types, SingleLoop, Live
<1>3. LoopInv' BY DEF Types, SingleLoop, Live, LoopInv, RunInv, Runs
<1>4. RunInv' BY DEF Types, SingleLoop, Live, LoopInv, RunInv, Runs
<1>5. LateInv' BY DEF Types, SingleLoop, Live, LateInv
<1>6. WaitInv' BY DEF WaitInv
<1>7. QuietInv' BY DEF Types, SingleLoop, Live, QuietInv, OneLoop
<1> QED BY <1>1, <1>2, <1>3, <1>4, <1>5, <1>6, <1>7

\* A run is started only past all earlier ones of the task, and once from one snapshot.
LEMMA StartRunInv ==
  ASSUME IInv, NEW l \in Loops, StartRun(l)
  PROVE  IInv' /\ <<Head(list[l]), eff[l]>> \notin ran
<1> USE TaskAssumption DEF TaskAssumption, IInv, StartRun, HeadDue, loopVars, runVars
<1> DEFINE e == Head(list[l])
<1>a. /\ pc[l] = "run" /\ list[l] # <<>> /\ next[e] = eff[l] /\ eff[l] <= clock
      /\ \A k \in Loops : pc[k] # "advance"
  BY DEF LoopInv, SingleLoop, Live
<1>b. /\ e \in Tasks /\ e \in ToSet(list[l])
      /\ ToSet(Tail(list[l])) \subseteq ToSet(list[l]) \ {e}
  BY <1>a, TailProperties DEF Types, LoopInv
<1>c. eff[l] \in 1 .. MaxTime BY <1>a, <1>b DEF Types, Never
<1>d. /\ running' = running \cup {<<e, eff[l]>>} /\ ran' = ran \cup {<<e, eff[l]>>}
      /\ late' = (IF e \in tasks THEN late ELSE [late EXCEPT ![e] = @ + 1])
      /\ wait' = wait + 1 /\ pc' = [pc EXCEPT ![l] = "advance"]
      /\ UNCHANGED <<tasks, next, started, clock, changed, stopper, now, list, eff>>
  OBVIOUS
<1> HIDE DEF StartRun, e
<1>e. \A t \in Tasks : Runs(t)' = IF t = e THEN Runs(t) \cup {eff[l]} ELSE Runs(t)
  BY <1>b, <1>c, <1>d DEF Runs
<1>f. \A d \in Runs(e) : d < eff[l] BY <1>a, <1>b, <1>c DEF RunInv, Zero
<1>g. <<e, eff[l]>> \notin ran
  <2>1. eff[l] \notin Runs(e) BY <1>c, <1>f
  <2> QED BY <1>c, <2>1 DEF Runs
<1>1. Types'
  <2>1. IsFiniteSet(running') BY <1>d, FS_AddElement DEF Types
  <2>2. late' \in [Tasks -> Nat] BY <1>b, <1>d DEF Types
  <2>3. running' \subseteq ran' /\ ran' \subseteq Tasks \X (1 .. MaxTime)
    BY <1>b, <1>c, <1>d DEF Types
  <2>4. pc' \in [Loops -> {"off", "init", "sort", "sorted", "select", "run", "advance",
                           "stopping", "done", "panic"}]
    BY <1>d DEF Types
  <2> QED BY <1>d, <2>1, <2>2, <2>3, <2>4 DEF Types
<1>2. SingleLoop' BY <1>a, <1>d DEF Types, SingleLoop, Live
<1>3. LoopInv'
  <2>1. \A k \in Loops : k # l => pc'[k] = pc[k] BY <1>d DEF Types
  <2>2. \A k \in Loops : k # l => pc[k] # "init" BY <1>a DEF SingleLoop, Live
  <2>3. pc'[l] = "advance" /\ eff'[l] = eff[l] /\ list'[l] = list[l] BY <1>d DEF Types
  <2>4. \A d \in Runs(Head(list[l]))' : d <= eff[l]
    <3>1. UNCHANGED list BY <1>d
    <3>2. \A t \in Tasks : t = e => Runs(t)' = Runs(t) \cup {eff[l]} BY <1>e
    <3>3. ASSUME NEW t \in Tasks, t = e PROVE \A d \in Runs(t)' : d <= eff[l]
      <4>1. Runs(t) \subseteq 1 .. MaxTime /\ \A d \in Runs(t) : d < eff[l] BY <1>f, <3>3 DEF Runs
      <4>2. Runs(t)' = Runs(t) \cup {eff[l]} BY <3>2, <3>3
      <4> HIDE DEF IInv
      <4> QED BY <1>c, <4>1, <4>2
    <3> QED BY <1>b, <3>1, <3>3 DEF e
  <2> QED BY <1>a, <1>d, <2>1, <2>2, <2>3, <2>4 DEF LoopInv
<1>4. RunInv'
  <2>1. pc'[l] = "advance" /\ Head(list'[l]) = e BY <1>d DEF Types, e
  <2> QED BY <1>a, <1>c, <1>d, <1>e, <2>1 DEF RunInv, Types, Never
<1>5. LateInv'
  <2>1. late[e] = 0 BY <1>a, <1>b DEF LateInv
  <2>2. \A t \in Tasks : t # e => late'[t] = late[t] BY <1>d DEF Types
  <2>3. late'[e] <= 1 /\ (e \in tasks => late'[e] = 0) BY <1>b, <1>d, <2>1 DEF Types
  <2>4. /\ pc'[l] = "advance"
        /\ \A k \in Loops : k # l =>
             pc[k] \notin {"sorted", "select", "run", "advance"} /\ pc'[k] = pc[k]
    BY <1>a, <1>d DEF Types, SingleLoop, Live
  <2> QED BY <1>a, <1>b, <1>d, <2>2, <2>3, <2>4 DEF LateInv
<1>6. WaitInv'
  <2>1. <<e, eff[l]>> \notin running BY <1>g DEF Types
  <2> QED BY <1>d, <2>1, FS_AddElement DEF Types, WaitInv
<1>7. QuietInv' BY <1>a, <1>d DEF Types, QuietInv, OneLoop
<1> QED BY <1>1, <1>2, <1>3, <1>4, <1>5, <1>6, <1>7, <1>g DEF e

\* The next run time is past the run that was just started.
LEMMA AdvanceInv ==
  ASSUME IInv, NEW l \in Loops, Advance(l)
  PROVE  IInv'
<1> USE TaskAssumption DEF TaskAssumption, IInv, Advance, loopVars, runVars
<1> DEFINE e == Head(list[l])
           n == NextAfter(e, eff[l])
<1>a. eff[l] <= clock /\ list[l] # <<>> /\ (\A d \in Runs(e) : d <= eff[l]) BY DEF LoopInv
<1>b. /\ e \in Tasks /\ Tail(list[l]) \in Seq(Tasks) /\ NoRepeat(Tail(list[l]))
      /\ ToSet(Tail(list[l])) \subseteq ToSet(list[l]) \ {e}
  BY <1>a, TailProperties DEF Types, LoopInv
<1>c. eff[l] \in Nat /\ n \in 0 .. MaxTime /\ (n = Zero \/ n > eff[l])
  <2>1. eff[l] \in Nat BY DEF Types, Never
  <2> QED BY <1>b, <2>1, NextAfterProperties
<1>d. /\ next' = [next EXCEPT ![e] = n] /\ list' = [list EXCEPT ![l] = Tail(list[l])]
      /\ pc' = [pc EXCEPT ![l] = "run"]
      /\ UNCHANGED <<tasks, started, clock, changed, stopper, now, eff, running, wait, ran, late>>
  OBVIOUS
<1>e. pc[l] = "advance" /\ \A k \in Loops : pc[k] = "advance" => k = l BY DEF SingleLoop, Live
<1> HIDE DEF Advance, e, n
<1>f. /\ list'[l] = Tail(list[l]) /\ \A k \in Loops : k # l => list'[k] = list[k]
      /\ next'[e] = n /\ \A t \in Tasks : t # e => next'[t] = next[t]
  BY <1>b, <1>d DEF Types
<1>1. Types' BY <1>b, <1>c, <1>d DEF Types
<1>2. SingleLoop' BY <1>d, <1>e DEF Types, SingleLoop, Live
<1>3. LoopInv' BY <1>a, <1>b, <1>d, <1>e, <1>f DEF Types, LoopInv, Runs
<1>4. RunInv'
  <2> SUFFICES ASSUME NEW t \in Tasks, NEW d \in Runs(t)
               PROVE  d <= clock /\ (next'[t] # Zero => d < next'[t])
    BY <1>d DEF RunInv, Runs
  <2>1. d <= clock /\ d \in Int BY DEF RunInv, Runs
  <2>2. CASE t = e BY <1>a, <1>c, <1>f, <2>1, <2>2
  <2>3. CASE t # e
    <3>1. \A k \in Loops : pc[k] = "advance" => Head(list[k]) # t BY <1>e, <2>3 DEF e
    <3> QED BY <1>f, <2>1, <2>3, <3>1 DEF RunInv
  <2> QED BY <2>2, <2>3
<1>5. LateInv' BY <1>b, <1>d, <1>e, <1>f DEF Types, LateInv
<1>6. WaitInv' BY <1>d DEF WaitInv
<1>7. QuietInv' BY <1>d, <1>e DEF Types, QuietInv, OneLoop
<1> QED BY <1>1, <1>2, <1>3, <1>4, <1>5, <1>6, <1>7

\* The end of a round.
LEMMA EndInv ==
  ASSUME IInv, NEW l \in Loops, EndRound(l)
  PROVE  IInv'
<1> USE TaskAssumption DEF TaskAssumption, IInv, EndRound, loopVars, runVars
<1>1. Types' BY DEF Types
<1>2. SingleLoop' BY DEF Types, SingleLoop, Live
<1>3. LoopInv' BY DEF Types, SingleLoop, Live, LoopInv, RunInv, Runs
<1>4. RunInv' BY DEF Types, SingleLoop, Live, LoopInv, RunInv, Runs
<1>5. LateInv' BY DEF Types, SingleLoop, Live, LateInv
<1>6. WaitInv' BY DEF WaitInv
<1>7. QuietInv' BY DEF Types, SingleLoop, Live, QuietInv, OneLoop
<1> QED BY <1>1, <1>2, <1>3, <1>4, <1>5, <1>6, <1>7

\* A run that ends is counted out.
LEMMA FinishInv ==
  ASSUME IInv, NEW r \in running, Finish(r)
  PROVE  IInv'
<1> USE TaskAssumption DEF TaskAssumption, IInv, Finish, loopVars, runVars
<1>1. Types'
  <2>1. IsFiniteSet(running') BY FS_RemoveElement DEF Types
  <2> QED BY <2>1 DEF Types
<1>2. SingleLoop' BY DEF Types, SingleLoop, Live
<1>3. LoopInv' BY DEF Types, SingleLoop, Live, LoopInv, RunInv, Runs
<1>4. RunInv' BY DEF Types, SingleLoop, Live, LoopInv, RunInv, Runs
<1>5. LateInv' BY DEF Types, SingleLoop, Live, LateInv
<1>6. WaitInv' BY FS_RemoveElement DEF Types, WaitInv
<1>7. QuietInv' BY DEF Types, SingleLoop, Live, QuietInv, OneLoop
<1> QED BY <1>1, <1>2, <1>3, <1>4, <1>5, <1>6, <1>7

-----------------------------------------------------------------------------
\* At the start nothing is registered and nothing runs.
LEMMA InitInv == Init => IInv
<1> SUFFICES ASSUME Init PROVE IInv OBVIOUS
<1> USE TaskAssumption DEF TaskAssumption, Init
<1>1. Types
  <2>1. IsFiniteSet(tasks) /\ IsFiniteSet(running) BY FS_EmptySet
  <2>2. list \in [Loops -> Seq(Tasks)] BY EmptySeq
  <2>3. started \in BOOLEAN BY Zenon
  <2> QED BY <2>1, <2>2, <2>3 DEF Types, Zero, Never
<1>2. SingleLoop BY DEF SingleLoop, Live
<1>3. LoopInv BY DEF LoopInv, NoRepeat
<1>4. RunInv BY DEF RunInv, Runs
<1>5. LateInv BY DEF LateInv
<1>6. WaitInv BY FS_EmptySet DEF WaitInv
<1>7. QuietInv BY DEF QuietInv
<1> QED BY <1>1, <1>2, <1>3, <1>4, <1>5, <1>6, <1>7 DEF IInv

\* Every step of the manager keeps the inductive invariant.
LEMMA NextInv == IInv /\ [Next]_vars => IInv'
<1> SUFFICES ASSUME IInv, [Next]_vars PROVE IInv' OBVIOUS
<1>1. CASE UNCHANGED vars
  <2>1. /\ UNCHANGED <<tasks, next, started, clock, changed, stopper, pc, now, list, eff>>
        /\ UNCHANGED <<running, wait, ran, late>>
    BY <1>1 DEF vars, loopVars, runVars
  <2>2. Types' /\ SingleLoop' /\ LateInv' /\ WaitInv' /\ QuietInv'
    BY <2>1 DEF IInv, Types, SingleLoop, Live, LateInv, WaitInv, QuietInv, OneLoop
  <2>3. LoopInv' /\ RunInv' BY <2>1 DEF IInv, LoopInv, RunInv, Runs
  <2> QED BY <2>2, <2>3 DEF IInv
<1>2. ASSUME NEW l \in Loops, Loop(l) PROVE IInv'
  BY <1>2, RunInitInv, SnapshotInv, EffectiveInv, TimerInv, ChangedInv, RecvStopInv, MarkInv,
     StartRunInv, AdvanceInv, EndInv DEF Loop
<1>3. ASSUME NEW t \in Tasks, AddTask(t) \/ DeleteTask(t) PROVE IInv'
  BY <1>3, AddInv, DeleteInv
<1>4. ASSUME NEW g \in Stoppers, StopTask(g) \/ GracefulShutdown(g) \/ WaitReturns(g) PROVE IInv'
  BY <1>4, StopInv, WaitReturnsInv
<1> QED BY <1>1, <1>2, <1>3, <1>4, TickInv, ClearInv, StartInv, FinishInv DEF Next

\* The inductive invariant holds in every reachable state.
THEOREM Invariance == Spec => []IInv
BY InitInv, NextInv, PTL DEF Spec

\* There is one run() loop at most, the WaitGroup counts the tasks that run, a
\* deleted task is run once more at most, and after a GracefulShutdown that
\* has reported none runs.
THEOREM LoopCorrect == Spec => []LoopSound
<1>1. IInv => LoopSound
  <2> SUFFICES ASSUME IInv PROVE LoopSound OBVIOUS
  <2>1. ASSUME NEW l \in Loops PROVE ToSet(list[l]) \subseteq Tasks
    <3>1. list[l] \in Seq(Tasks) BY DEF IInv, Types
    <3> QED BY <3>1, ElementOfSeq, LenProperties DEF ToSet
  <2>2. TypeOK BY <2>1 DEF IInv, Types, WaitInv, TypeOK
  <2>3. ShutdownMeansQuiet BY DEF IInv, QuietInv, OneLoop, ShutdownMeansQuiet
  <2>4. DeletedRunsAtMostOnce BY DEF IInv, LateInv, DeletedRunsAtMostOnce
  <2> QED BY <2>2, <2>3, <2>4 DEF IInv, LoopSound
<1> QED BY <1>1, Invariance, PTL

\* No occurrence of a task is started twice, whatever AddTask, the changed
\* message and a restarted loop do to its next run time meanwhile.
THEOREM RunsOnce == Spec => NoDoubleRun
<1>1. ASSUME IInv, [Next]_vars
      PROVE  [running' \subseteq running \/ (running' \ running) \cap ran = {}]_vars
  <2>1. ASSUME NEW l \in Loops, StartRun(l)
        PROVE  running' \subseteq running \/ (running' \ running) \cap ran = {}
    <3>1. running' = running \cup {<<Head(list[l]), eff[l]>>} BY <2>1 DEF StartRun
    <3> QED BY <1>1, <2>1, <3>1, StartRunInv
  <2>2. CASE Next /\ ~\E l \in Loops : StartRun(l)
    <3>1. running' \subseteq running
      BY <2>2 DEF Next, Tick, AddTask, DeleteTask, ClearTask, StartTask, StopTask, GracefulShutdown,
           WaitReturns, Loop, RunInit, Snapshot, Effective, TimerFires, RecvChanged, RecvStop,
           MarkManagerStop, Advance, EndRound, Finish, runVars
    <3> QED BY <3>1
  <2> QED BY <1>1, <2>1, <2>2
<1> QED BY <1>1, Invariance, PTL DEF Spec, NoDoubleRun

=============================================================================
