------------------------------ MODULE OrmQuery -------------------------------
(***************************************************************************)
(* The ORM's reading side (client/orm: orm_conds.go, orm_queryset.go,      *)
(* db_tables.go, db.go).  Conditions are built one from another and share  *)
(* the arrays Go's append gives them; getCondSQL writes them as one flat   *)
(* text, in which AND binds tighter than OR and only sub-conditions stand  *)
(* in parentheses; a table reached by an expression is joined; the limit   *)
(* and the offset cut what All, One, Count and Exist see.  The database is *)
(* external: it evaluates the text over the rows it has.                   *)
(***************************************************************************)
EXTENDS Integers, Sequences, FiniteSetsExt

CONSTANTS MaxConds,      \* conditions that may be built: a bound
          BaseLen,       \* expressions of the condition they begin with: a bound
          DefaultRows    \* DefaultRowsLimit

\* Columns of the table and of a related one.
Atoms == {"own", "far"}
Rels == {"fk", "nullFk", "reverse"}

\* The truth values of SQL: AND is the least, OR the greatest, NOT v is 2 - v.
False == 0
Unknown == 1
True == 2

\* What may be stored: the value of each condition on a row, which is unknown
\* where the row has no related one.  Rows come in this order.
TableOf(rel) ==
  LET all == << [own |-> True,  far |-> True,    has |-> TRUE],
                [own |-> True,  far |-> False,   has |-> TRUE],
                [own |-> False, far |-> True,    has |-> TRUE],
                [own |-> True,  far |-> Unknown, has |-> FALSE],
                [own |-> False, far |-> Unknown, has |-> FALSE] >>
  IN  SelectSeq(all, LAMBDA r : rel = "fk" => r.has)

VARIABLES
  rel,     \* how the far table is reached: a foreign key, NULL or not, or back
  arr,     \* arrays: a sequence of their slots, as many as their capacity
  conds,   \* conditions: their array and their length
  ideal,   \* history: the expressions each condition was built of
  forked,  \* history: arrays extended in place twice from one place, and their copies
  question, answer  \* the last query and what it returned

vars == <<rel, arr, conds, ideal, forked, question, answer>>

Blank == [not |-> FALSE, or |-> FALSE, on |-> "blank", sub |-> 0]
None == [form |-> "none", cond |-> 0, limit |-> 0, offset |-> 0]

-----------------------------------------------------------------------------
(* Building.                                                               *)

Params(c) == IF conds[c].n = 0 THEN <<>> ELSE SubSeq(arr[conds[c].a], 1, conds[c].n)

\* append: into the array while it has room, whoever else uses that slot;
\* otherwise into a copy of twice the size.
Capacity(n) == IF n = 0 THEN 1 ELSE 2 * n
Grown(old, new) ==
  Append(old, new) \o [i \in 1 .. (Capacity(Len(old)) - Len(old) - 1) |-> Blank]

\* A copy has what the fork left in the array it is made of.
CopyForked(c) ==
  forked' = IF conds[c].a \in forked THEN forked \cup {Len(arr) + 1} ELSE forked

Fits(c) == conds[c].n > 0 /\ conds[c].n < Len(arr[conds[c].a])

New(c, p) ==
  /\ ideal' = Append(ideal, Append(ideal[c], p))
  /\ question' = None /\ answer' = <<>> /\ UNCHANGED rel

\* And, AndNot, Or, OrNot, Raw; Filter, Exclude and FilterRaw of a QuerySeter.
\* The receiver is a copy of the condition, the array is not.
Extend(c, p) ==
  /\ \/ /\ Fits(c)
        /\ arr' = [arr EXCEPT ![conds[c].a][conds[c].n + 1] = p]
        /\ conds' = Append(conds, [a |-> conds[c].a, n |-> conds[c].n + 1])
        /\ forked' = IF \E d \in DOMAIN conds : d # c /\ conds[d].a = conds[c].a /\ conds[d].n > conds[c].n
                     THEN forked \cup {conds[c].a} ELSE forked
     \/ /\ ~Fits(c)
        /\ arr' = Append(arr, Grown(Params(c), p))
        /\ conds' = Append(conds, [a |-> Len(arr) + 1, n |-> conds[c].n + 1])
        /\ CopyForked(c)
  /\ New(c, p)

\* Mutant: the sub-condition is appended to the array of the receiver.
CombineInPlace(c, p) ==
  /\ Fits(c)
  /\ arr' = [arr EXCEPT ![conds[c].a][conds[c].n + 1] = p]
  /\ conds' = Append(conds, [a |-> conds[c].a, n |-> conds[c].n + 1])
  /\ UNCHANGED forked
  /\ New(c, p)

\* AndCond, AndNotCond, OrCond, OrNotCond: on a clone.
Combine(c, p) ==
  /\ arr' = Append(arr, Grown(Params(c), p))
  /\ conds' = Append(conds, [a |-> Len(arr) + 1, n |-> conds[c].n + 1])
  /\ CopyForked(c)
  /\ New(c, p)

\* The empty condition and one that was built before, link by link.
Init ==
  /\ rel \in Rels
  /\ \E ps \in [1 .. BaseLen -> [not : {FALSE}, or : BOOLEAN, on : Atoms, sub : {0}]] :
         /\ ~ps[1].or /\ ps[1].on = "own"
         /\ arr = <<Grown(SubSeq(ps, 1, BaseLen - 1), ps[BaseLen])>>
         /\ conds = <<[a |-> 0, n |-> 0], [a |-> 1, n |-> BaseLen]>> /\ ideal = << <<>>, ps >>
  /\ forked = {} /\ question = None /\ answer = <<>>

Build ==
  /\ Len(conds) < MaxConds
  /\ \E c \in DOMAIN conds, how \in {<<FALSE, FALSE>>, <<FALSE, TRUE>>, <<TRUE, FALSE>>} :
       \/ \E a \in Atoms : Extend(c, [not |-> how[1], or |-> how[2], on |-> a, sub |-> 0])
       \/ \E d \in DOMAIN conds \ {c} :
            Combine(c, [not |-> how[1], or |-> how[2], on |-> "sub", sub |-> d])

-----------------------------------------------------------------------------
(* Reading.                                                                *)

\* A join is inner unless the relation may be NULL, or (skipEnd) the query
\* deletes.  A relation followed backwards is never NULL by its FieldInfo.
InnerJoin(skipEnd) == rel # "nullFk" /\ ~skipEnd

\* getCondSQL: the text of a list of expressions, a disjunction of groups.
Flat(ps, holds) ==
  LET firsts == {i \in DOMAIN ps : i = 1 \/ ps[i].or}
      group(i) == {j \in i .. Len(ps) : i + 1 .. j \cap firsts = {}}
  IN  IF ps = <<>> THEN True ELSE Max({Min({holds[j] : j \in group(i)}) : i \in firsts})

\* The value of every condition on a row, its expressions given by what;
\* sub-conditions were built earlier, whichever slot they are in.
HoldsIn(what, row) ==
  LET val[c \in 0 .. Len(conds)] ==
        IF c = 0 THEN False
        ELSE Flat(what[c], [i \in DOMAIN what[c] |->
               LET p == what[c][i]
                   v == IF p.on = "sub" THEN val[p.sub] ELSE row[p.on]
               IN  IF p.not THEN 2 - v ELSE v])
  IN  val

Texts == [c \in DOMAIN conds |-> Params(c)]

\* Expressions of a condition and of its sub-conditions.
Uses(c) ==
  LET u[d \in 0 .. Len(conds)] ==
        IF d = 0 THEN {} ELSE {Params(d)[i].on : i \in 1 .. conds[d].n} \cup
                              UNION {u[Params(d)[i].sub] : i \in 1 .. conds[d].n}
  IN  u[c]

\* A sub-condition without expressions leaves a text that is no SQL.
Malformed(c) ==
  LET bad[d \in 0 .. Len(conds)] ==
        d > 0 /\ \E i \in 1 .. conds[d].n :
          Params(d)[i].on = "sub" /\ (conds[Params(d)[i].sub].n = 0 \/ bad[Params(d)[i].sub])
  IN  bad[c]

\* The rows readSQL selects, before the limit.
Matching(c, skipEnd) ==
  SelectSeq(TableOf(rel),
    LAMBDA row : /\ "far" \in Uses(c) /\ InnerJoin(skipEnd) => row.has
                 /\ HoldsIn(Texts, row)[c] = True)

\* getLimitSQL: 0 is the default limit, less than 0 no limit.
Cut(s, limit, offset) ==
  LET asked == IF limit = 0 THEN DefaultRows ELSE limit
      most == IF asked < 0 THEN Len(s) ELSE asked
      skip == IF offset > 0 THEN offset ELSE 0
  IN  SubSeq(s, skip + 1, IF skip + most < Len(s) THEN skip + most ELSE Len(s))

\* All; One, which reads one row.
All(c, limit, offset) == [err |-> "nil", rows |-> Cut(Matching(c, FALSE), limit, offset), n |-> 0]
One(c, limit, offset) ==
  LET s == Cut(Matching(c, FALSE), 1, offset) IN
  [err |-> IF s = <<>> THEN "noRows" ELSE "nil", rows |-> s, n |-> Len(s)]

\* SELECT COUNT(*) is one row, and the limit and the offset are of that row.
Count(c, limit, offset) ==
  LET s == Cut(<<Len(Matching(c, FALSE))>>, limit, offset) IN
  [err |-> IF s = <<>> THEN "noRows" ELSE "nil", rows |-> <<>>, n |-> IF s = <<>> THEN 0 ELSE s[1]]

\* The keys DeleteBatch selects, without a limit.
Victims(c, limit, offset) ==
  [err |-> "nil", rows |-> Matching(c, TRUE), n |-> Len(Matching(c, TRUE))]

Ask ==
  /\ question = None
  /\ \E form \in {"all", "one", "count", "delete"}, limit \in {-1, 0, 1}, offset \in {0, 1} :
       LET c == Len(conds) IN
       /\ form # "all" => limit = 0
       /\ offset = 1 => form # "delete" /\ limit = 0
       /\ question' = [form |-> form, cond |-> c, limit |-> limit, offset |-> offset]
       /\ answer' = IF Malformed(c) THEN [err |-> "sqlError", rows |-> <<>>, n |-> 0]
                    ELSE CASE form = "all" -> All(c, limit, offset)
                           [] form = "one" -> One(c, limit, offset)
                           [] form = "count" -> Count(c, limit, offset)
                           [] form = "delete" -> IF conds[c].n = 0
                                THEN [err |-> "panic", rows |-> <<>>, n |-> 0]
                                ELSE Victims(c, limit, offset)
  /\ UNCHANGED <<rel, arr, conds, ideal, forked>>

Next == Build \/ Ask

Spec == Init /\ [][Next]_vars

-----------------------------------------------------------------------------
(* Properties.                                                             *)

\* A condition keeps the expressions it was built of as long as no condition
\* that shares its array, or the one that array was copied from, was extended
\* in place a second time.
LinearStable ==
  \A c \in DOMAIN conds : conds[c].n > 0 /\ conds[c].a \notin forked => Params(c) = ideal[c]

\* What a chain of Filter and Exclude asks for, when the conditions used are
\* as they were built: every expression holds, each sub-condition as a whole.
Wanted(c) ==
  SelectSeq(TableOf(rel), LAMBDA row : HoldsIn(ideal, row)[c] = True)

OrFree(c) == \A i \in DOMAIN ideal[c] : i > 1 => ~ideal[c][i].or

\* Without OR on its own level a condition holds where all its expressions do,
\* also when a sub-condition has ORs: Filter narrows what was there before.
FilterNarrows ==
  question # None /\ forked = {} /\ OrFree(question.cond) =>
    \A r \in 1 .. Len(TableOf(rel)) :
      LET row == TableOf(rel)[r] IN
        HoldsIn(Texts, row)[question.cond] = True <=>
          \A i \in DOMAIN ideal[question.cond] :
            LET p == ideal[question.cond][i] IN
              (IF p.on = "sub" THEN HoldsIn(ideal, row)[p.sub] ELSE row[p.on])
                = IF p.not THEN False ELSE True

\* Joining a table never takes rows away, unless the relation is followed
\* backwards by a query that does not delete.
JoinKeepsRows ==
  (question.form = "delete" \/ (question.form = "all" /\ question.limit < 0 /\ question.offset = 0)) /\ answer.err = "nil"
    /\ forked = {} /\ (rel # "reverse" \/ question.form = "delete") =>
    answer.rows = Wanted(question.cond)

\* Without an offset Count counts the rows that All reads without a limit, and
\* One finds a row exactly when there is one.
CountAgrees ==
  question.form \in {"one", "count"} /\ question.offset = 0 /\ answer.err # "sqlError" =>
    LET n == Len(Matching(question.cond, FALSE)) IN
      IF question.form = "count" THEN answer.err = "nil" /\ answer.n = n
      ELSE (answer.err = "nil") = (n > 0)

\* Conditions built step by step select what their text says, and the joins,
\* Count and All agree on it.
QuerySound == LinearStable /\ FilterNarrows /\ JoinKeepsRows /\ CountAgrees

=============================================================================
