----------------------------- MODULE OrmRegistry -----------------------------
(***************************************************************************)
(* The registry of models (client/orm/internal/models/models.go, with      *)
(* NewM2MModelInfo of models_info_m.go and models_boot.go): models are     *)
(* registered, and one bootstrap in four rounds connects their relations,  *)
(* going through the map of models in any order.                           *)
(* A name is a tuple: <<"A">> is a model, <<"A", "B">> the model of the    *)
(* table between A and B, <<"A", "0">> the name A with a number.           *)
(***************************************************************************)
EXTENDS Integers, Sequences, FiniteSets, SequencesExt

VARIABLES decl,    \* the structs: the relations each model declares
          orders,  \* orders: the models in the order of their tables
          info,    \* ModelInfo: the fields of each registered model
          round,   \* of bootstrap: 0 before it, 1 .. 4, 5 after it
          left,    \* the models this round has still to visit
          err,     \* bootstrap printed an error and stopped
          linked   \* history: the models bootstrap found

ormRegistryVars == <<decl, orders, info, round, left, err, linked>>

A == <<"A">>
B == <<"B">>
None == <<>>
Field(name, kind, to) == [name |-> name, kind |-> kind, to |-> to, through |-> None, back |-> None, two |-> None, own |-> FALSE]
OfA == {Field(<<"b1">>, "fk", B), Field(<<"b2">>, "fk", B), Field(<<"one">>, "one", B), Field(<<"bs">>, "m2m", B),
        Field(<<"cs">>, "m2m", B), Field(<<"up">>, "fk", A), Field(<<"peers">>, "m2m", A)}
OfB == {Field(<<"as">>, "reverseMany", A), Field(<<"a">>, "reverseOne", A), Field(A, "fk", A)}

IsRel(f) == f.kind \in {"fk", "one", "m2m"}
IsReverse(f) == f.kind \in {"reverseOne", "reverseMany"}
Registered == DOMAIN info
With(f, x, v) == [y \in DOMAIN f \cup {x} |-> IF y = x THEN v ELSE f[y]]

\* Fields.Add: nothing happens if the name is taken.
Has(fs, name) == \E i \in DOMAIN fs : fs[i].name = name
Add(fs, f) == IF Has(fs, f.name) THEN fs ELSE Append(fs, f)

\* Structs with up to n of these fields, in any order.
Structs(fs, n) == {s \in UNION {[1 .. k -> fs] : k \in 0 .. n} : Cardinality(Range(s)) = Len(s)}

Init ==
  /\ \E a \in Structs(OfA, 3), b \in Structs(OfB, 2) : decl = [m \in {A, B} |-> IF m = A THEN a ELSE b]
  /\ orders = <<>> /\ info = <<>> /\ round = 0 /\ left = {} /\ err = FALSE /\ linked = {}

-----------------------------------------------------------------------------
(* Register.                                                               *)

\* A model is registered once; a second time is refused with a panic.  After
\* the bootstrap it is registered, and its relations stay as they are.
Register ==
  \E m \in DOMAIN decl :
    /\ round \in {0, 5} /\ m \notin Registered
    /\ orders' = Append(orders, m) /\ info' = With(info, m, decl[m])
    /\ UNCHANGED <<decl, round, left, err, linked>>

-----------------------------------------------------------------------------
(* Bootstrap.                                                              *)

Bootstrap ==
  /\ round = 0 /\ round' = 1 /\ left' = Registered /\ linked' = Registered
  /\ UNCHANGED <<decl, orders, info, err>>

\* newM2MModelInfo: two foreign keys, which have one name if a model is
\* related to itself.
NewM2M(m1, m2) == Add(<<Field(m1, "fk", m1)>>, Field(m2, "fk", m2))

Fail == err' = TRUE /\ round' = 5 /\ left' = {} /\ UNCHANGED <<decl, linked>>

\* First round, the columns of a model: the other model must be there; a
\* many-to-many relation gets its table, which takes the place of another one
\* of that name before this is found to be an error.
FindAll(m) ==
  FoldLeft(LAMBDA s, i :
             LET f == s.info[m][i]
                 t == m \o f.to
             IN  IF ~s.ok \/ ~(IsRel(f) \/ IsReverse(f)) THEN s
                 ELSE IF f.to \notin DOMAIN s.info THEN [s EXCEPT !.ok = FALSE]
                 ELSE IF f.kind # "m2m" THEN s
                 ELSE [ok |-> t \notin DOMAIN s.info, new |-> IF t \in DOMAIN s.info THEN s.new ELSE Append(s.new, t),
                       info |-> With([s.info EXCEPT ![m][i].through = t], t, NewM2M(m, f.to))],
           [ok |-> TRUE, info |-> info, new |-> <<>>], [i \in DOMAIN info[m] |-> i])

FindRels ==
  \E m \in left :
    LET s == FindAll(m) IN
    /\ round = 1 /\ info' = s.info /\ orders' = orders \o s.new
    /\ IF s.ok THEN left' = left \ {m} /\ UNCHANGED <<decl, round, err, linked>> ELSE Fail

\* Whether the other model has no field that leads back to m.
NeedsReverse(fs, m) == ~\E i \in DOMAIN fs : IsReverse(fs[i]) /\ fs[i].to = m

\* The name of a reverse field: the model's, or the first free with a number.
ReverseName(fs, m) ==
  IF ~Has(fs, m) THEN m
  ELSE LET n == CHOOSE k \in 0 .. 4 : /\ ~Has(fs, Append(m, ToString(k)))
                                      /\ \A j \in 0 .. k - 1 : Has(fs, Append(m, ToString(j)))
       IN  Append(m, ToString(n))

\* Second round: reverse fields that nobody declared.
AddReverse ==
  \E m \in left :
    /\ round = 2
    /\ info' = FoldLeft(LAMBDA s, f :
                          IF IsRel(f) /\ NeedsReverse(s[f.to], m)
                          THEN [s EXCEPT ![f.to] = Append(@, [Field(ReverseName(@, m), IF f.kind = "one" THEN "reverseOne" ELSE "reverseMany", m)
                                                              EXCEPT !.own = TRUE])]
                          ELSE s, info, info[m])
    /\ left' = left \ {m} /\ UNCHANGED <<decl, orders, round, err, linked>>

\* The last of the fields fs that leads to m.
LastTo(fs, m) ==
  LET to == {i \in DOMAIN fs : fs[i].kind \in {"fk", "one"} /\ fs[i].to = m} IN
  IF to = {} THEN None ELSE fs[CHOOSE i \in to : \A j \in to : j <= i].name

\* Third round: the two ends of a many-to-many relation.
FindEnds ==
  \E m \in left :
    LET ends(f) == [f EXCEPT !.two = LastTo(info[f.through], f.to), !.back = LastTo(info[f.through], m)] IN
    /\ round = 3
    /\ info' = [info EXCEPT ![m] = [i \in DOMAIN @ |-> IF @[i].kind = "m2m" THEN ends(@[i]) ELSE @[i]]]
    /\ left' = left \ {m} /\ UNCHANGED <<decl, orders, round, err, linked>>

\* Mutant: any relation of the kind.
MateAny(fs, kind, m) == SelectInSeq(fs, LAMBDA f : f.kind = kind)

\* The first relation of this kind that leads to m, 0 if there is none.
Mate(fs, kind, m) == SelectInSeq(fs, LAMBDA f : f.kind = kind /\ f.to = m)

\* Fourth round: each reverse field and the relation it belongs to, first the
\* foreign keys, then the many-to-many relations.
LinkOne(s, m, i) ==
  LET r == s[m][i]
      j == Mate(s[r.to], IF r.kind = "reverseOne" THEN "one" ELSE "fk", m)
      k == IF r.kind = "reverseOne" THEN 0 ELSE Mate(s[r.to], "m2m", m)
  IN  CASE j # 0 -> [[s EXCEPT ![m][i].back = s[r.to][j].name] EXCEPT ![r.to][j].back = r.name]
        [] j = 0 /\ k # 0 -> [s EXCEPT ![m][i].back = s[r.to][k].two, ![m][i].two = s[r.to][k].back, ![m][i].through = s[r.to][k].through]
        [] OTHER -> s

LinkReverse ==
  \E m \in left :
    LET is == SelectSeq([i \in DOMAIN info[m] |-> i], LAMBDA i : IsReverse(info[m][i]))
        s == FoldLeft(LAMBDA t, i : LinkOne(t, m, i), info, is)
    IN  /\ round = 4 /\ info' = s /\ UNCHANGED orders
        /\ IF \A k \in DOMAIN is : s[m][is[k]].back # None
           THEN left' = left \ {m} /\ UNCHANGED <<decl, round, err, linked>>
           ELSE Fail

NextRound ==
  /\ round \in 1 .. 4 /\ left = {}
  /\ round' = round + 1 /\ left' = IF round < 4 THEN Range(orders) ELSE {}
  /\ UNCHANGED <<decl, orders, info, err, linked>>

Next == Register \/ Bootstrap \/ FindRels \/ AddReverse \/ FindEnds \/ LinkReverse \/ NextRound

Spec == Init /\ [][Next]_ormRegistryVars

-----------------------------------------------------------------------------
(* Properties.                                                             *)

Done == round = 5 /\ ~err
Known == linked \cup {m \in Registered : Len(m) = 2}
LeadsTo(owner, name, m) == \E i \in DOMAIN info[owner] : info[owner][i].name = name /\ info[owner][i].kind \in {"fk", "one"} /\ info[owner][i].to = m

\* After a bootstrap without errors, in whatever order it came by the models:
\* a reverse field belongs to a column of the other model that leads back to
\* its own, and the ends of a many-to-many relation, seen from either side,
\* are the columns of the table between that lead to the two models.
LinksRight ==
  Done => \A m \in Known : \A i \in DOMAIN info[m] :
    LET f == info[m][i] IN
      /\ f.through # None => LeadsTo(f.through, f.back, m) /\ LeadsTo(f.through, f.two, f.to)
      /\ f.kind = "m2m" => f.through # None
      /\ IsReverse(f) /\ f.through = None => LeadsTo(f.to, f.back, m)

\* Every relation has a field on the other side, and two relations of the same
\* models do not get two, whichever was seen first.
OneReverse ==
  Done => \A m \in Known : \A i \in DOMAIN info[m] : IsRel(info[m][i]) =>
    LET other == info[info[m][i].to]
        back == {j \in DOMAIN other : IsReverse(other[j]) /\ other[j].to = m}
    IN  /\ back # {} /\ Cardinality({j \in back : other[j].own}) <= 1
        /\ \A j \in back : other[j].own => back = {j} /\ (other[j].name # m => \E k \in DOMAIN other : k < j /\ other[k].name = m)

\* After bootstrap every relation has its other side, and only one.
LinksSound == LinksRight /\ OneReverse

=============================================================================
