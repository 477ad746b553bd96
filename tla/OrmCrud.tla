------------------------------- MODULE OrmCrud -------------------------------
(***************************************************************************)
(* The ORM's writing side (client/orm: orm.go, db.go, orm_querym2m.go,     *)
(* orm_object.go).  Models are tables whose columns are foreign keys.  An  *)
(* operation is the sequence of SQL statements it sends, one action per    *)
(* statement, and a statement after the first may fail and leave the       *)
(* operation half done.  The database is external: a statement is atomic,  *)
(* and a transaction keeps the other clients out until it ends.            *)
(***************************************************************************)
EXTENDS Integers, Sequences, FiniteSets, Functions, SequencesExt

CONSTANTS Ormers,    \* goroutines, each with an Ormer
          Free,       \* no client
          Tables,     \* registered models
          Pks,        \* per table, the primary keys: a bound
          Cols,       \* per table, its foreign-key columns
          RefTo,      \* per column, the table it refers to
          Nullable,   \* columns with null=true
          UniqueCols, \* one-to-one columns
          Initial,    \* the default of a column with on_delete(set_default)
          OnDeletes,  \* the possible on_delete of the columns
          Databases,  \* what may be stored when the model begins
          PkKind,     \* type of the keys: "signed", "unsigned" or "string"
          WhereCols,  \* columns Delete may be given instead of the key
          Batches,    \* what InsertMulti is called with: [on, bulk, rows]
          MaxOps, MaxFaults  \* bounds

Null == 0

AllCols == UNION {Cols[t] : t \in Tables}
Home(k) == CHOOSE t \in Tables : k \in Cols[t]
Row(t) == [Cols[t] -> {Null} \cup UNION {Pks[RefTo[k]] : k \in Cols[t]}]

\* Rows of the models, with NULL only where it may be.
Fitting(t, row) == row \in Row(t) /\ \A k \in Cols[t] : row[k] = Null => k \in Nullable
Rows(d) ==
  /\ DOMAIN d = Tables
  /\ \A t \in Tables : DOMAIN d[t] \subseteq Pks[t] /\ \A p \in DOMAIN d[t] : Fitting(t, d[t][p])

ASSUME CrudAssumption ==
  /\ Free \notin Ormers /\ MaxOps \in Nat /\ MaxFaults \in Nat
  /\ \A t \in Tables : Pks[t] \subseteq Nat \ {Null}
  /\ PkKind \in {"signed", "unsigned", "string"}

\* A column belongs to one table and refers to one; on_delete(set_default)
\* needs a default.
ASSUME SchemaAssumption ==
  /\ IsFiniteSet(AllCols)
  /\ \A t, u \in Tables : t # u => Cols[t] \cap Cols[u] = {}
  /\ \A k \in AllCols : RefTo[k] \in Tables
  /\ \A od \in OnDeletes : \A k \in AllCols : od[k] = "set_default" => Initial \in Pks[RefTo[k]]

\* What is stored when the model begins has no reference to a missing row;
\* InsertMulti is given models of one table.
ASSUME InputAssumption ==
  /\ \A d \in Databases :
       /\ Rows(d)
       /\ \A k \in AllCols : \A p \in DOMAIN d[Home(k)] :
            d[Home(k)][p][k] \in DOMAIN d[RefTo[k]] \cup {Null}
  /\ \A b \in Batches :
       /\ b.on \in Tables /\ b.bulk \in Nat \ {0}
       /\ b.rows \in Seq([pk : Pks[b.on] \cup {Null}, row : Row(b.on)])

VARIABLES
  onDelete,  \* FieldInfo.OnDelete of every column
  db,        \* the database: per table, key -> row
  work,      \* per client, the statements its operation has still to send
  result,    \* per client, what its last operation returned: error, count
  owner,     \* the client whose transaction is open
  saved,     \* the database when that transaction began
  closed,    \* per client, its Inserter is closed
  ops, faults,
  asked,     \* history: per client, the rows InsertMulti was called with
  doomed,    \* history: per client, the rows its delete is to take away
  clean,     \* history: no delete was left half done or met another client
  hurt       \* history: clean, for the open transaction

txVars == <<owner, saved>>
crudVars == <<onDelete, db, work, result, txVars, closed, ops, faults, asked, doomed, clean, hurt>>

\* The keys of the rows with one of the values in a column.
Having(k, vals) == {p \in DOMAIN db[Home(k)] : db[Home(k)][p][k] \in vals}

CrudInit ==
  /\ onDelete \in OnDeletes
  /\ \A k \in AllCols : onDelete[k] = "set_null" => k \in Nullable
  /\ db \in Databases
  /\ work = [c \in Ormers |-> <<>>] /\ result = [c \in Ormers |-> <<"ok", 0>>]
  /\ owner = Free /\ saved = db /\ closed = [c \in Ormers |-> FALSE]
  /\ ops = 0 /\ faults = 0 /\ asked = [c \in Ormers |-> 0]
  /\ doomed = [c \in Ormers |-> {}] /\ clean = TRUE /\ hurt = FALSE

-----------------------------------------------------------------------------
(* Parts of the operations.                                                *)

\* getExistPk: a signed key always "exists", even when it is 0.
ExistPk(pk) == PkKind = "signed" \/ pk # Null

\* collectValues: a relation that is nil needs a column that may be NULL.
CollectValues(t, row) == \A k \in Cols[t] : row[k] = Null => k \in Nullable

\* The rows whose key or unique columns a new row would repeat.
Conflicts(t, pk, row) ==
  {p \in DOMAIN db[t] : \/ p = pk
                        \/ \E k \in Cols[t] \cap UniqueCols :
                             row[k] # Null /\ db[t][p][k] = row[k]}

\* One INSERT: all rows or, when one does not fit, none.  The database gives
\* a row its key when the model has none.
InsertValue(t, rows) ==
  \E keys \in [DOMAIN rows -> Pks[t]] :
    /\ IsInjective(keys)
    /\ \A i \in DOMAIN rows : /\ rows[i].pk \in {Null, keys[i]}
                              /\ CollectValues(t, rows[i].row)
                              /\ Conflicts(t, keys[i], rows[i].row) = {}
    /\ db' = [db EXCEPT ![t] = [p \in Range(keys) \cup DOMAIN db[t] |->
                IF p \in Range(keys) THEN rows[CHOOSE i \in DOMAIN keys : keys[i] = p].row ELSE db[t][p]]]

Rejected(t, rows) ==
  \/ Cardinality(Pks[t] \ DOMAIN db[t]) < Len(rows)
  \/ \E i \in DOMAIN rows : \/ ~CollectValues(t, rows[i].row)
                            \/ Conflicts(t, rows[i].pk, rows[i].row) # {}

\* SET of a column of the rows that have one of the values there.
SetWhere(k, vals, v) ==
  db' = [db EXCEPT ![Home(k)] = [p \in DOMAIN @ |->
           IF p \in Having(k, vals) THEN [@[p] EXCEPT ![k] = v] ELSE @[p]]]

Fk(t, od) == {k \in AllCols : RefTo[k] = t /\ onDelete[k] \in od}

\* Mutant: columns with set_null and set_default are passed over.
RelsCascadeOnly(t, args) ==
  SetToSeq({[op |-> "find", col |-> k, args |-> args] : k \in Fk(t, {"cascade"})})

\* Mutant: a cascade follows every relation, whatever its on_delete.
RelsCascadeAll(t, args) ==
  SetToSeq({[op |-> "find", col |-> k, args |-> args] : k \in Fk(t, {"cascade", "set_null", "set_default", "do_nothing"})})

\* deleteRels: what the deletion of the rows with these keys still asks for.
DeleteRels(t, args) ==
  SetToSeq({[op |-> "find", col |-> k, args |-> args] : k \in Fk(t, {"cascade"})}
     \cup {[op |-> "clear", col |-> k, args |-> args] : k \in Fk(t, {"set_null", "set_default"})})

\* DELETE, and if it removed anything deleteRels with the given arguments.
DeleteRows(c, t, pks, args, rest) ==
  /\ db' = [db EXCEPT ![t] = Restrict(@, DOMAIN @ \ pks)]
  /\ work' = [work EXCEPT ![c] = (IF pks = {} THEN <<>> ELSE DeleteRels(t, args)) \o rest]

\* The statements of InsertMulti: bulk rows each, all with the columns of the
\* first row.  A row with others ends it after the statements before its own.
Chunks(t, rows, bulk) ==
  LET n == Len(rows)
      bad == {i \in 1 .. n : bulk > 1 /\ (rows[i].pk = Null) # (rows[1].pk = Null)}
      full == IF bad = {} THEN (n + bulk - 1) \div bulk
              ELSE ((CHOOSE i \in bad : \A j \in bad : i <= j) - 1) \div bulk
      part(i) == SubSeq(rows, (i - 1) * bulk + 1, IF i * bulk < n THEN i * bulk ELSE n)
  IN  [i \in 1 .. full |-> [op |-> "insert", on |-> t, rows |-> part(i)]]
      \o (IF bad = {} /\ n > 0 THEN <<>> ELSE <<[op |-> "errArgs"]>>)

\* The rows a cascade from some rows has to take: the least set that holds
\* them and the rows that refer to one of them by a cascading column.
Closed(X) ==
  \A k \in AllCols : onDelete[k] = "cascade" =>
    \A p \in DOMAIN db[Home(k)] : <<RefTo[k], db[Home(k)][p][k]>> \in X => <<Home(k), p>> \in X

Closure(S) ==
  LET stored == {x \in Tables \X UNION {Pks[t] : t \in Tables} : x[2] \in DOMAIN db[x[1]]}
  IN  {x \in stored : \A X \in SUBSET stored : S \subseteq X /\ Closed(X) => x \in X}

-----------------------------------------------------------------------------
(* Operations, each with its first statement.                              *)

Turn(c) == owner \in {c, Free}
Calls(c) == work[c] = <<>> /\ Turn(c) /\ ops < MaxOps /\ ops' = ops + 1

Return(c, r, n) ==
  /\ result' = [result EXCEPT ![c] = <<r, n>>] /\ asked' = [asked EXCEPT ![c] = 0]
  /\ UNCHANGED <<work, doomed>>

Begins(c, todo, n) ==
  /\ work' = [work EXCEPT ![c] = todo] /\ asked' = [asked EXCEPT ![c] = n]
  /\ result' = [result EXCEPT ![c] = <<"ok", 0>>]

Unwritten == UNCHANGED <<onDelete, db, txVars, closed, faults, clean, hurt>>

\* A write while another client is in the middle of an operation.
Written(c) ==
  /\ clean' = (clean /\ \A d \in Ormers \ {c} : work[d] = <<>>)
  /\ UNCHANGED <<onDelete, txVars, closed, faults, hurt>>

\* Related objects an application hands over are stored ones.
Given(t) == {row \in Row(t) : \A k \in Cols[t] : row[k] \in DOMAIN db[RefTo[k]] \cup {Null}}

Read(c, t) ==
  /\ Calls(c) /\ Unwritten
  /\ \/ \E pk \in Pks[t] \cup {Null} :
          Return(c, IF ~ExistPk(pk) THEN "missPk"
                    ELSE IF pk \in DOMAIN db[t] THEN "ok" ELSE "noRows", 0)
     \/ \E k \in Cols[t] : \E v \in Pks[RefTo[k]] :
          Return(c, IF Having(k, {v}) = {} THEN "noRows" ELSE "ok", 0)

Insert(c, t) ==
  /\ Calls(c) /\ Written(c)
  /\ \E pk \in Pks[t] \cup {Null}, row \in Given(t) :
       LET rows == <<[pk |-> pk, row |-> row]>> IN
         \/ InsertValue(t, rows) /\ Return(c, "ok", 1)
         \/ Rejected(t, rows) /\ Return(c, "dbError", 0) /\ UNCHANGED db

\* Inserter.Insert is Insert with a prepared statement until Close.
InserterClosed(c) == Calls(c) /\ closed[c] /\ Return(c, "stmtClosed", 0) /\ Unwritten
InserterClose(c) ==
  /\ Calls(c) /\ ~closed[c] /\ closed' = [closed EXCEPT ![c] = TRUE] /\ Return(c, "ok", 0)
  /\ UNCHANGED <<onDelete, db, txVars, faults, clean, hurt>>

\* ReadOrCreate by a column: the INSERT is a statement of its own, later.
ReadOrCreate(c, k) ==
  /\ Calls(c) /\ Unwritten
  /\ \E row \in Given(Home(k)) :
       \/ Having(k, {row[k]} \ {Null}) # {} /\ Return(c, "ok", 0)
       \/ /\ Having(k, {row[k]} \ {Null}) = {}
          /\ Begins(c, <<[op |-> "insert", on |-> Home(k), rows |-> <<[pk |-> Null, row |-> row]>>]>>, 0)
          /\ UNCHANGED doomed

InsertMulti(c) ==
  /\ Calls(c) /\ Unwritten /\ UNCHANGED doomed
  /\ \E b \in Batches : /\ \A i \in DOMAIN b.rows : b.rows[i].row \in Given(b.on)
                        /\ Begins(c, Chunks(b.on, b.rows, b.bulk), Len(b.rows))

\* InsertOrUpdate leaves an auto key out: only a unique column can conflict.
InsertOrUpdate(c, t) ==
  /\ Calls(c) /\ Written(c)
  /\ \E row \in Given(t) :
       \/ InsertValue(t, <<[pk |-> Null, row |-> row]>>) /\ Return(c, "ok", 1)
       \/ /\ CollectValues(t, row)
          /\ \E p \in Conflicts(t, Null, row) : db' = [db EXCEPT ![t][p] = row]
          /\ Return(c, "ok", 1)
       \/ ~CollectValues(t, row) /\ Return(c, "dbError", 0) /\ UNCHANGED db

Update(c, k) ==
  /\ Calls(c) /\ Written(c)
  /\ \E pk \in Pks[Home(k)] \cup {Null}, v \in DOMAIN db[RefTo[k]] \cup {Null} :
       LET fits == /\ v = Null => k \in Nullable
                   /\ k \in UniqueCols => Having(k, {v} \ {Null}) \subseteq {pk} IN
         \/ ~ExistPk(pk) /\ Return(c, "missPk", 0) /\ UNCHANGED db
         \/ ExistPk(pk) /\ ~fits /\ Return(c, "dbError", 0) /\ UNCHANGED db
         \/ /\ ExistPk(pk) /\ fits /\ pk \notin DOMAIN db[Home(k)]
            /\ Return(c, "ok", 0) /\ UNCHANGED db
         \/ /\ fits /\ pk \in DOMAIN db[Home(k)]
            /\ db' = [db EXCEPT ![Home(k)][pk][k] = v] /\ Return(c, "ok", 1)

\* DELETE by key or by a column: what the WHERE clause is given, deleteRels
\* is given too.
DeleteBy(c, t, pks, args) ==
  /\ DeleteRows(c, t, pks, args, <<>>)
  /\ doomed' = [doomed EXCEPT ![c] = Closure({t} \X pks)]
  /\ result' = [result EXCEPT ![c] = <<"ok", Cardinality(pks)>>]
  /\ asked' = [asked EXCEPT ![c] = 0]

Delete(c, t) ==
  /\ Calls(c) /\ Written(c)
  /\ \/ \E pk \in Pks[t] \cup {Null} :
          \/ ~ExistPk(pk) /\ Return(c, "missPk", 0) /\ UNCHANGED db
          \/ ExistPk(pk) /\ DeleteBy(c, t, {pk} \cap DOMAIN db[t], {pk})
     \/ \E k \in WhereCols \cap Cols[t] : \E v \in Pks[RefTo[k]] :
          DeleteBy(c, t, Having(k, {v}), {v})

\* QuerySeter.Delete, and Remove and Clear of a many-to-many relation.
DeleteWhere(c, k) ==
  /\ Calls(c) /\ Unwritten
  /\ \E args \in (SUBSET Pks[RefTo[k]]) \ {{}} :
       /\ Begins(c, <<[op |-> "find", col |-> k, args |-> args]>>, 0)
       /\ doomed' = [doomed EXCEPT ![c] = Closure({Home(k)} \X Having(k, args))]

\* QueryM2M.Add: one INSERT into the through table, whatever is there already.
AddM2M(c, t) ==
  /\ Calls(c) /\ Written(c) /\ Cardinality(Cols[t]) = 2
  /\ \E k \in Cols[t] : \E a, b \in {row \in Given(t) : Null \notin Range(row)} :
       LET rows == <<[pk |-> Null, row |-> a], [pk |-> Null, row |-> b]>> IN
         /\ a[k] = b[k]
         /\ \/ InsertValue(t, rows) /\ Return(c, "ok", 2)
            \/ Rejected(t, rows) /\ Return(c, "dbError", 0) /\ UNCHANGED db

UpdateWhere(c, k) ==
  /\ Calls(c) /\ Written(c) /\ k \notin UniqueCols
  /\ \E args \in (SUBSET Pks[RefTo[k]]) \ {{}}, v \in DOMAIN db[RefTo[k]] :
       /\ SetWhere(k, args, v) /\ Return(c, "ok", Cardinality(Having(k, args)))

-----------------------------------------------------------------------------
(* The statements that follow.                                             *)

Statement(c, op) == Turn(c) /\ work[c] # <<>> /\ Head(work[c]).op = op /\ UNCHANGED <<ops, asked, doomed>>

\* DeleteBatch: SELECT the keys, then DELETE ... IN (keys).
Find(c) ==
  /\ Statement(c, "find") /\ Unwritten /\ UNCHANGED result
  /\ LET w == Head(work[c])
         pks == Having(w.col, w.args)
         then == IF pks = {} THEN <<>> ELSE <<[op |-> "remove", on |-> Home(w.col), args |-> pks]>>
     IN  work' = [work EXCEPT ![c] = then \o Tail(@)]

RemoveRows(c) ==
  /\ Statement(c, "remove") /\ Written(c) /\ UNCHANGED result
  /\ LET w == Head(work[c]) IN
       DeleteRows(c, w.on, w.args \cap DOMAIN db[w.on], w.args, Tail(work[c]))

\* UpdateBatch for set_null and set_default.
Clear(c) ==
  /\ Statement(c, "clear") /\ Written(c) /\ UNCHANGED result
  /\ LET w == Head(work[c]) IN
       SetWhere(w.col, w.args, IF onDelete[w.col] = "set_null" THEN Null ELSE Initial)
  /\ work' = [work EXCEPT ![c] = Tail(@)]

\* Mutant: a statement that was rejected is sent again.
InsertRowsRetry(c) ==
  /\ Statement(c, "insert") /\ Written(c)
  /\ LET w == Head(work[c]) IN
       /\ InsertValue(w.on, w.rows)
       /\ result' = [result EXCEPT ![c] = <<"ok", @[2] + Len(w.rows)>>]
       /\ work' = [work EXCEPT ![c] = Tail(@)]

InsertRows(c) ==
  /\ Statement(c, "insert") /\ Written(c)
  /\ LET w == Head(work[c])
         n == result[c][2]
     IN  \/ /\ InsertValue(w.on, w.rows)
            /\ result' = [result EXCEPT ![c] = <<"ok", n + Len(w.rows)>>]
            /\ work' = [work EXCEPT ![c] = Tail(@)]
         \/ /\ Rejected(w.on, w.rows) /\ UNCHANGED db
            /\ result' = [result EXCEPT ![c] = <<"dbError", n>>]
            /\ work' = [work EXCEPT ![c] = <<>>]

ErrArgs(c) ==
  /\ Statement(c, "errArgs") /\ Unwritten
  /\ result' = [result EXCEPT ![c] = <<"errArgs", @[2]>>]
  /\ work' = [work EXCEPT ![c] = <<>>]

\* A statement fails: the operation returns the error, what it did stays.
Fail(c) ==
  /\ Turn(c) /\ work[c] # <<>> /\ faults < MaxFaults /\ faults' = faults + 1
  /\ work' = [work EXCEPT ![c] = <<>>]
  /\ result' = [result EXCEPT ![c] = <<"dbError", @[2]>>]
  /\ IF owner = c THEN hurt' = TRUE /\ UNCHANGED clean
     ELSE clean' = FALSE /\ UNCHANGED hurt
  /\ UNCHANGED <<onDelete, db, txVars, closed, ops, asked, doomed>>

-----------------------------------------------------------------------------
(* Transactions.                                                           *)

Begin(c) ==
  /\ Calls(c) /\ owner = Free /\ owner' = c /\ saved' = db
  /\ Return(c, "ok", 0)
  /\ UNCHANGED <<onDelete, db, closed, faults, clean, hurt>>

InTx(c) == owner = c /\ work[c] = <<>>

\* DoTx after an error or a panic of its task; Rollback, RollbackUnlessCommit.
Rollback(c) ==
  /\ InTx(c) /\ owner' = Free /\ db' = saved /\ hurt' = FALSE
  /\ Return(c, "rolledBack", 0)
  /\ UNCHANGED <<onDelete, saved, closed, ops, faults, clean>>

\* DoTx after its task returned nil: it returns nil also when the commit
\* failed, which it only logs.
Commit(c) ==
  /\ InTx(c) /\ owner' = Free /\ Return(c, "ok", 0)
  /\ \/ clean' = (clean /\ ~hurt) /\ UNCHANGED <<db, faults>>
     \/ /\ faults < MaxFaults /\ faults' = faults + 1 /\ db' = saved
        /\ UNCHANGED clean
  /\ hurt' = FALSE
  /\ UNCHANGED <<onDelete, saved, closed, ops>>

Operation(c) ==
  \/ \E t \in Tables : \/ Read(c, t) \/ Insert(c, t) \/ InsertOrUpdate(c, t)
                     \/ AddM2M(c, t) \/ Delete(c, t)
  \/ \E k \in AllCols : \/ ReadOrCreate(c, k) \/ Update(c, k)
                        \/ DeleteWhere(c, k) \/ UpdateWhere(c, k)
  \/ InsertMulti(c) \/ InserterClose(c) \/ InserterClosed(c)
  \/ Begin(c) \/ Rollback(c) \/ Commit(c)

Continue(c) == Find(c) \/ RemoveRows(c) \/ Clear(c) \/ InsertRows(c) \/ ErrArgs(c)

CrudNext == \E c \in Ormers : Operation(c) \/ Continue(c) \/ Fail(c)

\* A goroutine that is in an operation goes on with it, and a transaction
\* is ended: DoTx ends it even when its task panics.
CrudFairness == \A c \in Ormers : WF_crudVars(Continue(c)) /\ WF_crudVars(Rollback(c) \/ Commit(c))

CrudSpec == CrudInit /\ [][CrudNext]_crudVars /\ CrudFairness

-----------------------------------------------------------------------------
(* Properties.                                                             *)

\* The database holds rows of its models only, and a delete never leaves NULL
\* in a column that may not be NULL.
CrudTypeOK ==
  /\ Rows(db)
  /\ \A c \in Ormers : \A i \in DOMAIN work[c] :
       work[c][i].op \in {"find", "remove", "clear", "insert", "errArgs"}
  /\ owner \in Ormers \cup {Free}

\* When every operation was carried out to its end, no column with cascade or
\* set_null refers to a row that is gone, however deep the cascade went and
\* whether or not the rows refer to one another in a circle.
NoOrphans ==
  clean /\ ~hurt /\ (\A c \in Ormers : work[c] = <<>>) =>
    \A k \in AllCols : onDelete[k] \in {"cascade", "set_null"} =>
      Having(k, Pks[RefTo[k]]) = Having(k, DOMAIN db[RefTo[k]])

\* A delete takes only rows that are deleted themselves or refer, directly or
\* through others, to a deleted one.
ExactDeleteStep ==
  clean' /\ owner' = owner =>
    \A t \in Tables : \A p \in DOMAIN db[t] \ DOMAIN db'[t] :
      \E c \in Ormers : <<t, p>> \in doomed'[c]

\* An InsertMulti that reports success stored, and counted, every row.
MultiComplete ==
  \A c \in Ormers : asked[c] > 0 /\ work[c] = <<>> /\ result[c][1] = "ok" =>
    result[c][2] = asked[c]

\* Every operation ends, also a cascade along a circle of references.
OperationEnds == \A c \in Ormers : work[c] # <<>> ~> work[c] = <<>>

\* The database after any statement: rows of their tables, no reference left
\* behind by a cascade, no row of an InsertMulti missing.
DatabaseSound == CrudTypeOK /\ NoOrphans /\ MultiComplete

\* No statement, of whichever client, removes a row that no delete was to take.
StatementsExact == [][ExactDeleteStep]_crudVars

=============================================================================
