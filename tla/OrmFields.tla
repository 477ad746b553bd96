------------------------------ MODULE OrmFields ------------------------------
(***************************************************************************)
(* How the fields of a struct become the columns of a model               *)
(* (client/orm/internal/models: models_info_f.go, models_info_m.go,        *)
(* models_utils.go and Register of models.go).  The tags of a field are    *)
(* given; what NewFieldInfo makes of them takes several corrections, one   *)
(* behind the other.                                                       *)
(***************************************************************************)
EXTENDS Integers, Sequences, FiniteSets

VARIABLES struct,   \* the fields of the struct that are left
          fields,   \* Fields
          pk,       \* Fields.Pk: the place of the primary key, 0 if there is none
          state     \* "add", "ready", or "exit": the process has ended

ormFieldVars == <<struct, fields, pk, state>>

Integer == {"int"}
Timed == {"date", "datetime"}
Kinds == Integer \cup Timed \cup {"bool", "float", "varchar", "text", "fk", "one", "m2m", "reverseOne", "reverseMany"}
OnDelete == {"", "cascade", "do_nothing", "set_null", "set_default", "other"}

\* ParseStructTag: flags and values.  bad: a size, precision or number of
\* digits, or the Go type of a relation, is wrong.
Tags ==
  [name : {"X", "Id"}, kind : Kinds, null : BOOLEAN, index : BOOLEAN, auto : BOOLEAN, pk : BOOLEAN, unique : BOOLEAN,
   default : {"none", "good", "wrong"}, onDelete : OnDelete, bad : {FALSE}]
Plain(name, kind) ==
  [name |-> name, kind |-> kind, null |-> FALSE, index |-> FALSE, auto |-> FALSE, pk |-> FALSE, unique |-> FALSE,
   default |-> "none", onDelete |-> "", bad |-> FALSE]

\* getColumnName: many-sided relations have a column of their own name.
Column(t) == IF t.kind \in {"fk", "one"} THEN <<t.name, "id">> ELSE <<t.name>>

-----------------------------------------------------------------------------
(* NewFieldInfo, step by step.  A field that is refused is Wrong.          *)

Wrong == [wrong |-> TRUE]

\* The flags as they are written; relations without a column have none of
\* them, and a one-to-one relation is unique.
Flags(t) ==
  LET db == t.kind \notin {"m2m", "reverseOne", "reverseMany"} IN
  [wrong |-> FALSE, name |-> t.name, kind |-> t.kind, column |-> Column(t), dbcol |-> db,
   null |-> db /\ t.null, index |-> db /\ t.index, auto |-> db /\ t.auto, pk |-> db /\ t.pk,
   unique |-> db /\ (t.unique \/ t.kind = "one"),
   rel |-> t.kind \in {"fk", "one", "m2m"}, reverse |-> t.kind \in {"reverseOne", "reverseMany"},
   initial |-> t.default, onDelete |-> ""]

\* on_delete of a relation with a column.
CheckOnDelete(f, t) ==
  IF ~(f.rel /\ f.dbcol) THEN f
  ELSE IF \/ t.onDelete = "other"
          \/ t.onDelete = "set_default" /\ f.initial = "none"
          \/ t.onDelete = "set_null" /\ ~f.null
       THEN Wrong
       ELSE [f EXCEPT !.onDelete = IF t.onDelete = "" THEN "cascade" ELSE t.onDelete]

\* What a type does not have: a text has no index, only integers count up.
TypeRules(f, t) ==
  IF f.wrong THEN f
  ELSE IF t.bad \/ (f.auto /\ f.kind \notin Integer) THEN Wrong
  ELSE IF f.kind = "text" THEN [f EXCEPT !.index = FALSE, !.unique = FALSE] ELSE f

\* A primary key is neither null nor indexed a second time; what is unique is
\* not indexed either.
KeyRules(f) ==
  IF f.wrong THEN f
  ELSE LET k == IF f.auto \/ f.pk THEN [f EXCEPT !.pk = TRUE, !.null = FALSE, !.index = FALSE, !.unique = FALSE] ELSE f
       IN  [k EXCEPT !.index = @ /\ ~k.unique]

\* The default value: none for keys, unique columns and times; otherwise it
\* has to be one of the type's.
Initial(f) ==
  IF f.wrong THEN f
  ELSE LET none == f.auto \/ f.pk \/ f.unique \/ f.kind \in Timed
           i == IF none THEN "none" ELSE f.initial
       IN  IF i = "wrong" /\ f.kind \in {"int", "float", "bool"} THEN Wrong ELSE [f EXCEPT !.initial = i]

NewFieldInfo(t) == Initial(KeyRules(TypeRules(CheckOnDelete(Flags(t), t), t)))

-----------------------------------------------------------------------------
(* AddModelFields, one field at a time, and the end of Register.           *)

Init ==
  /\ \E t \in Tags, u \in {Plain("Id", "int"), Plain("Id", "varchar"), [Plain("Y", "int") EXCEPT !.pk = TRUE],
                           Plain("X", "bool"), [Plain("Y", "varchar") EXCEPT !.bad = TRUE]} :
       struct \in {<<t, u>>, <<u, t>>}
  /\ fields = <<>> /\ pk = 0 /\ state = "add"

\* Fields.Add takes no name and no column twice.
Taken(f) == \E i \in DOMAIN fields : fields[i].name = f.name \/ fields[i].column = f.column

\* Mutant: the last primary key counts.
AddFieldLastKey ==
  /\ state = "add" /\ struct # <<>>
  /\ LET f == NewFieldInfo(Head(struct)) IN
     IF f.wrong \/ Taken(f)
     THEN state' = "exit" /\ UNCHANGED <<fields, pk>>
     ELSE fields' = Append(fields, f) /\ pk' = (IF f.pk THEN Len(fields) + 1 ELSE pk) /\ UNCHANGED state
  /\ struct' = Tail(struct)

AddField ==
  /\ state = "add" /\ struct # <<>>
  /\ LET f == NewFieldInfo(Head(struct)) IN
     IF f.wrong \/ Taken(f) \/ (f.pk /\ pk # 0)
     THEN state' = "exit" /\ UNCHANGED <<fields, pk>>
     ELSE fields' = Append(fields, f) /\ pk' = (IF f.pk THEN Len(fields) + 1 ELSE pk) /\ UNCHANGED state
  /\ struct' = Tail(struct)

\* Without a primary key, the integer called Id becomes one that counts up.
DefaultKey ==
  /\ state = "add" /\ struct = <<>>
  /\ LET ids == {i \in DOMAIN fields : fields[i].name = "Id" /\ fields[i].kind \in Integer} IN
     IF pk = 0 /\ ids # {}
     THEN LET i == CHOOSE j \in ids : TRUE IN
          pk' = i /\ fields' = [fields EXCEPT ![i].auto = TRUE, ![i].pk = TRUE]
     ELSE UNCHANGED <<pk, fields>>
  /\ state' = "ready" /\ UNCHANGED struct

Next == AddField \/ DefaultKey

Spec == Init /\ [][Next]_ormFieldVars

-----------------------------------------------------------------------------
(* Properties.                                                             *)

\* Whatever tags were combined, the column that comes out is one the database
\* can have: a key is not null, not indexed twice, and counts up only if it is
\* an integer; a text is not indexed; a relation without a column has none of
\* these.  (An Id that becomes the key in the end keeps the flags it was given.)
ColumnSane ==
  \A i \in DOMAIN fields : LET f == fields[i] IN
    /\ f.pk /\ state = "add" => f.dbcol /\ ~f.null /\ ~f.index /\ ~f.unique
    /\ f.auto => f.pk /\ f.kind \in Integer
    /\ ~(f.unique /\ f.index)
    /\ f.kind = "text" => ~f.index /\ ~f.unique
    /\ ~f.dbcol => ~f.unique /\ ~f.index /\ ~f.null /\ f.onDelete = ""

\* A model that is ready has one primary key at most, and it is the one the
\* model knows.
OneKey == state = "ready" => \A i \in DOMAIN fields : fields[i].pk <=> i = pk

\* What is to be set when the other end is deleted can be set: "on_delete: set_default need set field a default value" and
\* "set_null need set field null" (models_info_f.go).
OnDeletePossible ==
  \A i \in DOMAIN fields : LET f == fields[i] IN
    /\ f.onDelete = "set_default" => f.initial # "none"
    /\ f.onDelete = "set_null" => f.null

\* Every model that is accepted has one key and columns a table can be made of.
FieldsSound == ColumnSane /\ OneKey

=============================================================================
