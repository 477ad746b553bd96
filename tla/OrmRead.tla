------------------------------- MODULE OrmRead -------------------------------
(***************************************************************************)
(* What the ORM's reads leave in the caller's container (client/orm/db.go, *)
(* orm_raw.go): the rows of a result arrive one by one, a scan may fail in *)
(* between, a value may be NULL or unfit for its field, and the container  *)
(* may hold the rows of an earlier read.  A row is one column; what counts *)
(* is where its value ends up and what it replaces.                        *)
(***************************************************************************)
EXTENDS Integers, Sequences

CONSTANT MaxRows   \* rows of a result: a bound

Forms == {"read", "one", "all", "values", "rawRow", "rawCol", "rawRows", "rawCols", "rawValues", "rowsTo"}

\* The type of the field: "struct" and "slice" are types raw reads do not know,
\* of a struct that is no model.
ModelKinds == {"plain", "ptr", "sqlNull", "rel", "time", "fielder"}
Kinds == ModelKinds \cup {"struct", "slice"}
Cells == {"null", "good", "unfit"}            \* what the database sends

\* A field holds its zero value ("zero", "nil", the "invalid" of package sql),
\* what was sent ("good"), a related object whose key is zero, or what it held
\* before ("old").

VARIABLES form, kind,
          rows,    \* rows still to come
          broken,  \* the scan of the last of them fails
          cnt, acc,   \* rows counted, and the slice built so far
          cont,       \* the container: a slice, or one object
          status

vars == <<form, kind, rows, broken, cnt, acc, cont, status>>

Single == form \in {"read", "one", "rawRow", "rawCol", "rowsTo"}

Init ==
  /\ form \in Forms /\ kind \in Kinds
  /\ form \in {"read", "one", "all", "values"} => kind \in ModelKinds
  /\ form = "rowsTo" => kind \notin {"rel", "fielder"}
  /\ form \in {"rawCol", "rawCols", "rawValues"} => kind \in {"plain", "ptr", "time", "slice"}
  /\ \E n \in 0 .. MaxRows : rows \in [1 .. n -> Cells]
  /\ broken \in BOOLEAN /\ (broken => rows # <<>>)
  /\ cnt = 0 /\ acc = <<>> /\ status = "run"
  /\ cont \in {<<"old">>} \cup (IF Single THEN {} ELSE {<<>>})

-----------------------------------------------------------------------------
(* One value into one field.                                               *)

\* What a NULL leaves: the zero value of the type.
Nothing == IF kind \in {"ptr", "rel", "slice"} THEN "nil" ELSE IF kind = "sqlNull" THEN "invalid" ELSE "zero"

\* convertValueFromDB: an unfit value is an error, which setColsValues makes
\* a panic.
ConvertValueFromDB(cell) == IF cell = "unfit" THEN "panic" ELSE cell

\* dbBase.setFieldValue: NULL leaves a pointer as it is, a time and a relation;
\* the types of package models refuse it.
SetFieldValue(was, cell) ==
  CASE cell # "null"                     -> ConvertValueFromDB(cell)
    [] cell = "null" /\ kind = "fielder" -> "panic"
    [] cell = "null" /\ kind \in {"ptr", "rel", "time"} -> was
    [] OTHER                             -> Nothing

\* Fielder.SetRaw refuses NULL and what does not parse, which ends the read
\* with an error.
SetRaw(cell) == IF cell = "good" THEN "good" ELSE "refused"

\* rawSet.setFieldValue: NULL clears a pointer; a value that does not parse is
\* the zero value, but a time and a sql.Null stay as they were.  A relation
\* gets an object first, whatever its key will be.  Of a struct of another
\* type only NULL is written, and a slice is not written at all.
RawSetFieldValue(was, cell) ==
  CASE kind = "fielder"                       -> SetRaw(cell)
    [] kind = "slice"                         -> was
    [] kind = "struct" /\ cell # "null"       -> was
    [] kind = "rel" /\ cell # "good"          -> "zeroObject"
    [] kind \in {"time", "sqlNull"} /\ cell = "unfit" -> was
    [] kind \in {"plain", "ptr"} /\ cell = "unfit"    -> "zero"
    [] kind \notin {"fielder", "slice", "rel"} /\ cell = "null" -> Nothing
    [] kind \notin {"fielder", "slice", "struct"} /\ cell = "good" -> "good"

\* reflect.New of the model, or of the element type.
New == Nothing

\* loopSetRefs: a new value for a container that is no struct.
LoopSetRefs(cell) == RawSetFieldValue(New, cell)

-----------------------------------------------------------------------------
(* Rows.                                                                   *)

More == status = "run" /\ rows # <<>>
Scanned == More /\ ~(broken /\ Len(rows) = 1) /\ rows' = Tail(rows) /\ cnt' = cnt + 1
                /\ UNCHANGED <<form, kind, broken>>
Stop(s) == status' = s /\ UNCHANGED <<form, kind, rows, broken, cnt, acc>>
Done == status = "run" /\ (rows = <<>> \/ (form \in {"read", "rawRow", "rawCol"} /\ cnt = 1))

\* Into a new object first: if that panics the container is as it was.
Store(v, keep, built) ==
  IF v = "panic" THEN status' = "panic" /\ UNCHANGED <<acc, cont>>
  ELSE status' = "run" /\ acc' = built /\ cont' = keep

\* Mutant: the row is read into the caller's object itself.
ReadInPlace ==
  /\ form = "read" /\ cnt = 0 /\ Scanned
  /\ LET v == SetFieldValue(cont[1], Head(rows)) IN Store(v, <<v>>, acc)

\* dbBase.Read: QueryRow, into a new object that then replaces the caller's.
ReadRow ==
  /\ form = "read" /\ cnt = 0 /\ Scanned
  /\ LET v == SetFieldValue(New, Head(rows)) IN Store(v, <<v>>, acc)

\* dbBase.ReadBatch: for One the first row at once and the rest only counted,
\* for All a slice on the side.
BatchRow ==
  /\ form \in {"one", "all"} /\ Scanned
  /\ LET v == IF form = "one" /\ cnt > 0 THEN "good" ELSE SetFieldValue(New, Head(rows)) IN
       Store(v, IF form = "one" /\ cnt = 0 THEN <<v>> ELSE cont,
                IF form = "all" THEN Append(acc, v) ELSE acc)

\* dbBase.ReadValues: converted values, collected on the side.
ValuesRow ==
  /\ form = "values" /\ Scanned
  /\ LET v == IF Head(rows) = "null" THEN "nil" ELSE ConvertValueFromDB(Head(rows)) IN
       Store(v, cont, Append(acc, v))

\* rawSet.QueryRow of a struct: field by field in the caller's object.
RawRow ==
  /\ form = "rawRow" /\ cnt = 0 /\ Scanned
  /\ LET v == RawSetFieldValue(cont[1], Head(rows)) IN
       IF v = "refused" THEN status' = "error" /\ UNCHANGED cont ELSE cont' = <<v>> /\ UNCHANGED status
  /\ UNCHANGED acc

\* rawSet.QueryRow of a column: the caller's variable gets a new value.
RawCol ==
  /\ form = "rawCol" /\ cnt = 0 /\ Scanned
  /\ cont' = <<LoopSetRefs(Head(rows))>> /\ UNCHANGED <<acc, status>>

\* rawSet.QueryRows of structs: the first row empties the caller's slice.
RawRows ==
  /\ form = "rawRows" /\ Scanned
  /\ cont' = IF cnt = 0 THEN <<>> ELSE cont
  /\ LET v == RawSetFieldValue(New, Head(rows)) IN
       IF v = "refused" THEN status' = "error" /\ UNCHANGED acc ELSE acc' = Append(acc, v) /\ UNCHANGED status

\* rawSet.QueryRows of columns, by loopSetRefs; Values, ValuesList, ValuesFlat.
RawCols ==
  /\ form \in {"rawCols", "rawValues"} /\ Scanned
  /\ acc' = Append(acc, CASE form = "rawValues" -> IF Head(rows) = "null" THEN "nil" ELSE "good"
                          [] form = "rawCols" -> LoopSetRefs(Head(rows)))
  /\ UNCHANGED <<cont, status>>

\* queryRowsTo a struct: each row sets one field of the caller's object.
RowsToRow ==
  /\ form = "rowsTo" /\ Scanned
  /\ cont' = <<RawSetFieldValue(cont[1], Head(rows))>> /\ UNCHANGED <<acc, status>>

\* rows.Scan, or rows.Err after the last row, fails.
ScanFails ==
  /\ More /\ broken /\ Len(rows) = 1 /\ ~Done
  /\ Stop("error") /\ UNCHANGED cont

Finish ==
  /\ Done
  /\ Stop(IF cnt = 0 /\ form \in {"read", "one", "rawRow", "rawCol"} THEN "noRows" ELSE "ok")
  /\ cont' = CASE form \in {"values", "rawValues"} -> acc
               [] form \in {"all", "rawRows", "rawCols"} /\ cnt > 0 -> acc
               [] OTHER -> cont

Next ==
  \/ ReadRow \/ BatchRow \/ ValuesRow \/ RawRow \/ RawCol \/ RawRows \/ RawCols \/ RowsToRow
  \/ ScanFails \/ Finish

Spec == Init /\ [][Next]_vars

-----------------------------------------------------------------------------
(* Properties.                                                             *)

\* The types whose old value a raw read may leave: a time and a sql.Null that do
\* not parse, and what setFieldValue has no case for.
RawKeeps == {"time", "sqlNull", "struct", "slice"}

\* A read into a slice that reports rows left exactly those rows there and
\* nothing older in any of their fields; one that reports an object left nothing
\* of the old one, NULL or not, unless it was raw and the field of a type in
\* RawKeeps.
NothingOldAmongNew ==
  status = "ok" /\ cnt > 0 =>
    /\ ~Single => Len(cont) = cnt
    /\ "old" \in {cont[i] : i \in DOMAIN cont} => form \in {"rawRow", "rowsTo"} /\ kind \in RawKeeps

\* A read that fails leaves the caller's slice as it was, or, from QueryRows
\* of structs, empty: never with some of the rows.
FailedReadKeeps ==
  status \in {"error", "panic"} /\ ~Single => cont \in {<<"old">>, <<>>}

\* What a read leaves in the caller's container is the answer, all of it, or
\* what was there before.
ReadSound == NothingOldAmongNew /\ FailedReadKeeps

=============================================================================
