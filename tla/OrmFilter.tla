------------------------------ MODULE OrmFilter ------------------------------
(***************************************************************************)
(* Filters around an Ormer (client/orm/filter_orm_decorator.go,            *)
(* invocation.go, filter.go): every method becomes an invocation that goes *)
(* through the chain of filters to the Ormer behind it; a transaction is   *)
(* decorated with the same chain, and DoTx calls Begin, its task and       *)
(* Commit or Rollback through it.  A filter may panic around any of them,  *)
(* and answer any but Begin itself instead of calling next (an answer to   *)
(* Begin would have to be a transaction of the filter's own).  The task    *)
(* may end its transaction itself.                                         *)
(***************************************************************************)
EXTENDS Integers, Sequences, SequencesExt

CONSTANTS NFilters,   \* filters of the chain
          MaxCalls    \* calls of the program: a bound

VARIABLES frames,     \* the invocations under way, the innermost last
          panicking,  \* a panic goes up through them
          tx,         \* the transaction: "none", "open", "committed", "rolled back"
          calls,
          verdict,    \* history: what the task of the last DoTx did
          own,        \* history: the task ended the transaction itself
          cut         \* history: the first <<method, stage>> that was broken off

ormFilterVars == <<frames, panicking, tx, calls, verdict, own, cut>>

\* The methods differ in what they return: one that can return an error and one
\* that returns an object stand for all of them.
Methods == {"ReadWithCtx", "QueryM2M"}
CanFail(m) == m # "QueryM2M"

\* What is called on a transaction besides, by DoTx and by its task.
Enders == {"Commit", "Rollback", "RollbackUnlessCommit"}

Frame(m, inside) == [method |-> m, inside |-> inside, seen |-> <<>>, stage |-> "in", ok |-> TRUE]
Top == Last(frames)
SetTop(f) == frames' = Append(Front(frames), f)

Init ==
  /\ frames = <<>> /\ panicking = FALSE /\ tx = "none" /\ calls = 0
  /\ verdict = "none" /\ own = FALSE /\ cut = <<>>

\* The program calls a method of the Ormer.
Call ==
  \E m \in Methods \cup {"DoTx"} :
    /\ frames = <<>> /\ ~panicking /\ calls < MaxCalls
    /\ frames' = <<Frame(m, FALSE)>> /\ calls' = calls + 1
    /\ tx' = "none" /\ verdict' = "none" /\ own' = FALSE /\ cut' = <<>>
    /\ UNCHANGED panicking

-----------------------------------------------------------------------------
(* The chain.                                                              *)

\* NewFilterOrmDecorator wraps from the last to the first: the filter that is
\* entered as the k-th.
Root(k) == k

Entering == frames # <<>> /\ ~panicking /\ Top.stage = "in"

Enter ==
  /\ Entering /\ Len(Top.seen) < NFilters
  /\ SetTop([Top EXCEPT !.seen = Append(@, Root(Len(@) + 1))])
  /\ UNCHANGED <<panicking, tx, calls, verdict, own, cut>>

BrokenOff == cut' = IF cut = <<>> THEN <<Top.method, Top.stage>> ELSE cut

\* A filter answers itself, with results of the right types: what is behind it
\* is not called.
Answer ==
  /\ Entering /\ Top.seen # <<>> /\ Top.method # "Begin"
  /\ \E ok \in BOOLEAN : SetTop([Top EXCEPT !.stage = "out", !.ok = ok \/ ~CanFail(Top.method)])
  /\ BrokenOff /\ UNCHANGED <<panicking, tx, calls, verdict, own>>

AtEnd == Entering /\ Len(Top.seen) = NFilters

\* A filter panics on the way in or out, or the method itself does.
Panic ==
  /\ frames # <<>> /\ ~panicking /\ Top.stage \in {"in", "out"}
  /\ Top.seen # <<>> \/ (AtEnd /\ Top.method \in Methods)
  /\ panicking' = TRUE /\ BrokenOff
  /\ UNCHANGED <<frames, tx, calls, verdict, own>>

\* execute: the Ormer, or the transaction, behind the decorator; on a
\* transaction that is ended it fails (sql.ErrTxDone).
Execute ==
  /\ AtEnd /\ Top.method \in Methods
  /\ \E ok \in BOOLEAN :
       /\ ok /\ Top.inside /\ CanFail(Top.method) => tx = "open"
       /\ SetTop([Top EXCEPT !.stage = "out", !.ok = ok \/ ~CanFail(Top.method)])
  /\ UNCHANGED <<panicking, tx, calls, verdict, own, cut>>

Begin ==
  /\ AtEnd /\ Top.method = "Begin"
  /\ \E ok \in BOOLEAN : SetTop([Top EXCEPT !.stage = "out", !.ok = ok]) /\ tx' = IF ok THEN "open" ELSE tx
  /\ UNCHANGED <<panicking, calls, verdict, own, cut>>

\* Commit, Rollback and RollbackUnlessCommit end an open transaction, also when
\* they fail: what became of a commit that failed is the database's affair.  On
\* an ended one only the last is no error.
End ==
  /\ AtEnd /\ Top.method \in Enders
  /\ \E ok \in BOOLEAN :
       /\ SetTop([Top EXCEPT !.stage = "out", !.ok = ok])
       /\ IF tx = "open"
          THEN /\ IF Top.method = "Commit"
                  THEN tx' \in {"committed"} \cup (IF ok THEN {} ELSE {"rolled back"})
                  ELSE tx' = "rolled back"
               /\ own' = (frames[1].stage = "task")
          ELSE ok = (Top.method = "RollbackUnlessCommit") /\ UNCHANGED <<tx, own>>
  /\ UNCHANGED <<panicking, calls, verdict, cut>>

-----------------------------------------------------------------------------
(* DoTx: doTxTemplate over the decorator.                                  *)

StartTx ==
  /\ AtEnd /\ Top.method = "DoTx"
  /\ frames' = Append(Front(frames), [Top EXCEPT !.stage = "begin"]) \o <<Frame("Begin", Top.inside)>>
  /\ UNCHANGED <<panicking, tx, calls, verdict, own, cut>>

InTask == frames # <<>> /\ ~panicking /\ Top.stage = "task"

\* NewFilterTxOrmDecorator: what is called on the transaction is inside it.
TxFrame(m) == Frame(m, TRUE)

\* The task calls a method on the transaction, or ends it.
TaskCall ==
  /\ InTask /\ calls < MaxCalls /\ calls' = calls + 1
  /\ \E m \in Methods \cup Enders : frames' = Append(frames, TxFrame(m))
  /\ UNCHANGED <<panicking, tx, verdict, own, cut>>

\* The deferred function: whatever a filter broke off before is over.
Finish(how) ==
  /\ frames' = Append(Front(frames), [Top EXCEPT !.stage = IF how = "panic" THEN "unwind" ELSE "end", !.ok = (how = "nil")])
               \o <<TxFrame(IF how = "nil" THEN "Commit" ELSE "Rollback")>>
  /\ verdict' = how /\ cut' = <<>>

\* It returns: nil is a commit, an error a rollback.
TaskReturns ==
  /\ InTask
  /\ \E how \in {"nil", "error"} : Finish(how)
  /\ UNCHANGED <<panicking, tx, calls, own>>

\* A panic of the task, or of a filter around a method it calls.
TaskPanics ==
  /\ InTask /\ panicking' = TRUE /\ UNCHANGED <<frames, tx, calls, verdict, own, cut>>

\* Mutant: the deferred function knows only errors.
UnwindError ==
  /\ panicking /\ frames # <<>>
  /\ frames' = Front(frames) /\ UNCHANGED <<panicking, verdict, cut>>
  /\ UNCHANGED <<tx, calls, own>>

\* The panic leaves a method; the deferred function of DoTx stops it to roll
\* back.
Unwind ==
  /\ panicking /\ frames # <<>>
  /\ IF Top.stage = "task" THEN Finish("panic") /\ panicking' = FALSE
     ELSE frames' = Front(frames) /\ UNCHANGED <<panicking, verdict, cut>>
  /\ UNCHANGED <<tx, calls, own>>

Recovered ==
  /\ panicking /\ frames = <<>> /\ panicking' = FALSE
  /\ UNCHANGED <<frames, tx, calls, verdict, own, cut>>

\* A method returns to its caller; DoTx goes on with its task, returns the
\* error of Begin, or that of its task whatever became of the commit.
Leave ==
  /\ frames # <<>> /\ ~panicking /\ Top.stage = "out"
  /\ LET rest == Front(frames) IN
     IF rest = <<>> THEN frames' = <<>> /\ UNCHANGED panicking
     ELSE LET d == Last(rest) up == Front(rest) IN
          CASE d.stage = "begin" /\ Top.ok -> frames' = Append(up, [d EXCEPT !.stage = "task"]) /\ UNCHANGED panicking
            [] d.stage = "begin" /\ ~Top.ok -> frames' = Append(up, [d EXCEPT !.stage = "out", !.ok = FALSE]) /\ UNCHANGED panicking
            [] d.stage = "task" -> frames' = rest /\ UNCHANGED panicking
            [] d.stage = "end" -> frames' = Append(up, [d EXCEPT !.stage = "out"]) /\ UNCHANGED panicking
            [] d.stage = "unwind" -> frames' = up /\ panicking' = TRUE
  /\ UNCHANGED <<tx, calls, verdict, own, cut>>

Next ==
  \/ Call \/ Enter \/ Answer \/ Panic \/ Execute \/ Begin \/ End
  \/ StartTx \/ TaskCall \/ TaskReturns \/ TaskPanics \/ Unwind \/ Recovered \/ Leave

Spec == Init /\ [][Next]_ormFilterVars

-----------------------------------------------------------------------------
(* Properties.                                                             *)

\* Where a filter can leave the transaction of a DoTx open: it panics behind
\* Begin, before the deferred function is there to end anything, or it does not
\* let the Commit or Rollback of that function through.
LeftOpen == {<<"Begin", "out">>, <<"Commit", "in">>, <<"Rollback", "in">>}

\* When DoTx is over, with a result or with a panic of its task or of a filter,
\* its transaction is ended, unless a filter broke off Begin, Commit or Rollback
\* itself; and DoTx has committed it only if the task returned nil, whatever the
\* task had done to the transaction.
TxEnded ==
  /\ frames = <<>> /\ tx = "open" => cut \in LeftOpen
  /\ tx = "committed" /\ ~own => verdict = "nil"

\* The filters of every invocation, also of those inside DoTx, come in the
\* order they were added.
FilterOrder == \A i \in DOMAIN frames : frames[i].seen = [k \in DOMAIN frames[i].seen |-> k]

\* The deferred function of DoTx ends the transaction, through the same filters
\* in their order as whatever is called inside it.
TxSound == TxEnded /\ FilterOrder

=============================================================================
