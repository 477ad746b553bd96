----------------------------- MODULE TreeConfig ------------------------------
(***************************************************************************)
(* Nested configurations (core/config/json, yaml, xml and toml): maps in   *)
(* maps, read with keys of several segments, written with Set, and cut     *)
(* into sub-configurations that share the maps of their parent.  Parsing   *)
(* and writing the text is done by external packages.  A key is a sequence *)
(* of segments; taken as one name, <<"a", "b">> is "ab".                   *)
(***************************************************************************)
EXTENDS Integers, Sequences, SequencesExt

CONSTANT MaxCalls    \* calls of Set and Sub: a bound

VARIABLES format,   \* the adapter
          heap,     \* the maps: "m1" is the root
          held,     \* the containers the program has, by their map
          calls,    \* calls so far
          prior,    \* history: the heap before the last call
          wrote     \* history: the container and key of the last Set

treeConfigVars == <<format, heap, held, calls, prior, wrote>>

None == "none"
Maps == {"m2", "m3"}
Names == {"a", "b", "ab"}
KeyPaths == UNION {[1 .. n -> {"a", "b"}] : n \in 1 .. 2}
IsMap(x) == x \in Maps
Name(key) == IF key = <<"a", "b">> THEN "ab" ELSE key[1]   \* for keys that can be one name
IsName(key) == Len(key) = 1 \/ key = <<"a", "b">>

\* A map read from a file: x2j gives strings, the others typed values.
ParseData(f) ==
  LET scalar == IF f = "xml" THEN {"str", "numstr"} ELSE {"num", "bool", "numstr"}
      map(A, B, AB) == {[n \in Names |-> CASE n = "a" -> a [] n = "b" -> b [] n = "ab" -> ab] : a \in A, b \in B, ab \in AB}
  IN  {[m1 |-> r, m2 |-> m, m3 |-> l] :
         r \in map({None, "numstr", "m2"}, {None, "m3"} \cup scalar, {None, "numstr"}),
         m \in map({None} \cup scalar, {None, "m3"}, {None}), l \in map({None, "numstr"}, {"str"}, {None})}

Init ==
  /\ format \in {"json", "yaml", "xml", "toml"}
  /\ heap \in {h \in ParseData(format) : h.m1["b"] # "m3" \/ h.m2["b"] # "m3"}
  /\ held = {"m1"} /\ calls = 0 /\ prior = heap /\ wrote = <<>>

-----------------------------------------------------------------------------
(* Looking a key up: what is found from the map c on.                      *)

\* json: a scalar on the way is the answer.
JsonWalk(h, c, key) ==
  FoldLeft(LAMBDA v, k : IF IsMap(v) THEN h[v][k] ELSE v, h[c][Head(key)], Tail(key))

\* Mutant: a segment that is missing ends the search.
YamlStrict(h, c, key) ==
  FoldLeft(LAMBDA v, k : IF IsMap(v) THEN h[v][k] ELSE v, h[c][Head(key)], Tail(key))

\* yaml: a missing segment is passed over, a scalar is the answer at once, and
\* a map is one if the last segment named it.
YamlWalk(h, c, key) ==
  FoldLeft(LAMBDA s, k :
             IF ~s.on THEN s
             ELSE CASE h[s.map][k] = None -> [s EXCEPT !.found = None]
                    [] IsMap(h[s.map][k]) -> [on |-> TRUE, map |-> h[s.map][k], found |-> h[s.map][k]]
                    [] OTHER -> [s EXCEPT !.on = FALSE, !.found = h[s.map][k]],
           [on |-> TRUE, map |-> c, found |-> None], key).found

\* toml: subTree; every segment in front of the last must be a tree.
SubTree(h, c, path) ==
  FoldLeft(LAMBDA v, k : IF v # None /\ IsMap(h[v][k]) THEN h[v][k] ELSE None, c, path)
TomlWalk(h, c, key) ==
  LET t == SubTree(h, c, Front(key)) IN IF t = None THEN None ELSE h[t][Last(key)]

GetData(h, c, key) ==
  CASE format = "json" -> JsonWalk(h, c, key)
    [] format = "yaml" -> YamlWalk(h, c, key)
    [] format = "toml" -> TomlWalk(h, c, key)
    [] format = "xml" -> IF IsName(key) THEN h[c][Name(key)] ELSE None

-----------------------------------------------------------------------------
(* Typed values: what DefaultString and the others give, "value",         *)
(* "default", or "panic".  Strings that are numbers are read as such by    *)
(* some; "str" stands for the others.                                      *)

\* ParseBool: the value 1, written as a number or a string, is true.
ParseBool(v) == v \in {"bool", "numstr", "num"}
Value(ok) == IF ok THEN "value" ELSE "default"

DefaultJson(kind, v) ==
  Value(CASE kind = "String" -> v \in {"str", "numstr"} [] kind = "Bool" -> ParseBool(v)
          [] kind = "Int" -> v \in {"num", "numstr"} [] kind = "Float" -> v = "num")

\* A number here is an int, which ParseBool does not take.
DefaultYaml(kind, v) ==
  Value(CASE kind = "String" -> v \in {"str", "numstr"} [] kind = "Bool" -> v # "num" /\ ParseBool(v)
          [] kind = "Int" -> v = "num" [] kind = "Float" -> v = "num")

DefaultToml(kind, v) ==
  Value(CASE kind = "String" -> v \in {"str", "numstr"} [] kind = "Bool" -> v = "bool"
          [] kind = "Int" -> v = "num" [] kind = "Float" -> FALSE)

\* xml takes a string for granted.
DefaultXml(kind, v) ==
  CASE kind = "String" -> Value(v \in {"str", "numstr"}) [] kind = "Bool" -> Value(ParseBool(v))
    [] kind \in {"Int", "Float"} -> IF v \in {"str", "numstr"} THEN Value(v = "numstr") ELSE "panic"

Default(kind, h, c, key) ==
  LET v == GetData(h, c, key) IN
  CASE format = "json" -> DefaultJson(kind, v) [] format = "yaml" -> DefaultYaml(kind, v)
    [] format = "toml" -> DefaultToml(kind, v) [] format = "xml" -> DefaultXml(kind, v)

-----------------------------------------------------------------------------
(* Calls.                                                                  *)

\* yaml's subMap: the maps the segments name, as far as there are any; None at
\* a scalar.
SubMap(h, c, key) ==
  FoldLeft(LAMBDA v, k : CASE v = None -> None [] v # None /\ h[v][k] = None -> v [] v # None /\ IsMap(h[v][k]) -> h[v][k] [] OTHER -> None, c, key)

\* sub of json and xml: one name.
SubName(h, c, key) == IF IsName(key) /\ IsMap(h[c][Name(key)]) THEN h[c][Name(key)] ELSE None

SubOf(h, c, key) ==
  CASE format = "yaml" -> SubMap(h, c, key) [] format = "toml" -> SubTree(h, c, key) [] OTHER -> SubName(h, c, key)

Sub ==
  \E c \in held, key \in KeyPaths :
    /\ SubOf(heap, c, key) # None
    /\ held' = held \cup {SubOf(heap, c, key)}
    /\ calls < MaxCalls /\ calls' = calls + 1
    /\ prior' = heap /\ wrote' = <<>> /\ UNCHANGED <<format, heap>>

\* Set of toml goes where the key leads.
SetTree(c, key) ==
  LET t == SubTree(heap, c, Front(key)) IN
  IF t = None THEN UNCHANGED heap ELSE heap' = [heap EXCEPT ![t][Last(key)] = "str"]

\* The others take the key for one name.
SetName(c, key) == heap' = [heap EXCEPT ![c][Name(key)] = "str"]

Set ==
  \E c \in held, key \in KeyPaths :
    /\ IF format = "toml" THEN SetTree(c, key) ELSE IsName(key) /\ SetName(c, key)
    /\ calls < MaxCalls /\ calls' = calls + 1
    /\ prior' = heap /\ wrote' = <<c, key>> /\ UNCHANGED <<format, held>>

Next == Sub \/ Set

Spec == Init /\ [][Next]_treeConfigVars

-----------------------------------------------------------------------------
(* Properties.                                                             *)

Kinds == {"String", "Bool", "Int", "Float"}
Nested == {"json", "yaml", "toml"}

\* What a sub-configuration says of a key is what its parent says of the two
\* keys together, also after values were set through either of them.  (The
\* keys of xml are names.)
SubConsistent ==
  format \in Nested =>
    \A c \in held, p \in KeyPaths :
      (format = "json" => Len(p) = 1) /\ SubOf(heap, c, p) # None =>
        \A q \in KeyPaths, kind \in Kinds :
          Default(kind, heap, SubOf(heap, c, p), q) = Default(kind, heap, c, p \o q)

\* Set changes what is read with its own key, with keys that go on from it,
\* and nothing else that is read from the same container.  Keys of yaml also get
\* to it past segments that do not exist: there Set("a") changes "b.a".
SetFrame ==
  LET past(key, i) == \A j \in 1 .. i - 1 : prior[wrote[1]][key[j]] = None
      own(key) == CASE format = "toml" -> IsPrefix(wrote[2], key)
                    [] format = "json" -> IsPrefix(<<Name(wrote[2])>>, key)
                    [] format = "yaml" -> \E i \in DOMAIN key : key[i] = Name(wrote[2]) /\ past(key, i)
                    [] format = "xml" -> key = wrote[2]
  IN  wrote # <<>> =>
        \A key \in KeyPaths : own(key) \/ GetData(heap, wrote[1], key) = GetData(prior, wrote[1], key)

\* "DefaultInt returns the integer value for a given key. if err != nil return
\* defaultVal" (each of the adapters).
DefaultsAnswer == \A c \in held, key \in KeyPaths, kind \in Kinds : Default(kind, heap, c, key) # "panic"

\* A sub-configuration and its root agree, and Set changes one key.
TreeSound == SubConsistent /\ SetFrame

=============================================================================
