------------------------------ MODULE IniConfig ------------------------------
(***************************************************************************)
(* Ini configurations (core/config/ini.go; config.go for environment       *)
(* variables and defaults): a file is parsed line by line, values are set, *)
(* the configuration is saved and parsed again.  Names are written in      *)
(* upper or lower case.  A value is named by how it is written: plain ("v",*)
(* "w"), in quotes ("qv"), in quotes with a blank ("qsv"), with a blank    *)
(* ("sv"), as an environment variable ("env").                             *)
(***************************************************************************)
EXTENDS Integers, Sequences, SequencesExt

CONSTANTS MaxLines,   \* lines of the first file: a bound
          MaxSets     \* calls of Set: a bound

VARIABLES ini,      \* IniConfigContainer
          lines,    \* the file
          pos, section, comment,   \* of parseData: where it is, the section, comments not yet given away
          mode,     \* "parse", "ready", "failed"
          sets,     \* calls of Set so far
          saved,    \* history: what was saved, if anything was
          over      \* history: it was saved over a longer file

iniVars == <<ini, lines, pos, section, comment, mode, sets, saved, over>>

Sections == {"default", "s"}
KeyNames == {"k", "l"}
Values == {"v", "w", "qv", "qsv", "sv", "env"}
Plain == {"v", "w"}
None == "none"
ToLower(x) == CASE x = "K" -> "k" [] x = "S" -> "s" [] x = "Default" -> "default" [] OTHER -> x

Empty == [secs |-> {}, data |-> [s \in Sections |-> [k \in KeyNames |-> None]],
          keyComment |-> [s \in Sections |-> [k \in KeyNames |-> <<>>]],
          sectionComment |-> [s \in Sections |-> <<>>]]

Line(t, a, v) == [t |-> t, a |-> a, v |-> v]
Lines == {Line("comment", "c1", ""), Line("comment", "c2", ""), Line("section", "S", ""),
          Line("section", "Default", ""), Line("include", "", ""), Line("junk", "", "")}
         \cup {Line("pair", "K", v) : v \in Values \ {"sv", "w"}} \cup {Line("pair", "l", "qsv")}

Init ==
  /\ lines \in UNION {[1 .. n -> Lines] : n \in 0 .. MaxLines}
  /\ ini = Empty /\ pos = 1 /\ section = "default" /\ comment = <<>> /\ mode = "parse"
  /\ sets = 0 /\ saved = <<>> /\ over = FALSE

-----------------------------------------------------------------------------
(* Parsing.                                                                *)

\* ExpandValueEnv: the variable's value, or the default behind "||".
ExpandValueEnv(v) == IF v = "env" THEN "v" ELSE v

\* A value as it is read: trimmed, without its quotes, expanded.
Read(v) == ExpandValueEnv(CASE v = "qv" -> "v" [] v = "qsv" -> "sv" [] v = "sv" -> "v" [] OTHER -> v)

\* A key and its value; comments in front of it are its own.
ParsePair(k, v) ==
  /\ ini' = [ini EXCEPT !.secs = @ \cup {section}, !.data[section][k] = Read(v),
                        !.keyComment[section][k] = IF comment = <<>> THEN @ ELSE comment]
  /\ comment' = <<>> /\ UNCHANGED <<section, mode>>

ParseSection(s) ==
  /\ section' = s /\ comment' = <<>> /\ UNCHANGED mode
  /\ ini' = [ini EXCEPT !.secs = @ \cup {s}, !.sectionComment[s] = IF comment = <<>> THEN @ ELSE comment]

\* The included file has k = w in its default section.  Comments go on.
Include ==
  \/ /\ ini' = [ini EXCEPT !.secs = @ \cup {section, "default"}, !.data["default"]["k"] = "w"]
     /\ UNCHANGED <<section, comment, mode>>
  \/ mode' = "failed" /\ UNCHANGED <<ini, section, comment>>

\* One line of parseData.
ParseLine ==
  /\ mode = "parse" /\ pos <= Len(lines)
  /\ LET l == lines[pos] IN
       CASE l.t = "comment" -> comment' = Append(comment, l.a) /\ UNCHANGED <<ini, section, mode>>
         [] l.t = "section" -> ParseSection(ToLower(l.a))
         [] l.t = "pair" -> ParsePair(ToLower(l.a), l.v)
         [] l.t = "include" -> Include
         [] l.t = "junk" -> mode' = "failed" /\ UNCHANGED <<ini, section, comment>>
  /\ pos' = pos + 1 /\ UNCHANGED <<lines, sets, saved, over>>

ParseEnd ==
  /\ mode = "parse" /\ pos > Len(lines)
  /\ mode' = "ready" /\ UNCHANGED <<ini, lines, pos, section, comment, sets, saved, over>>

-----------------------------------------------------------------------------
(* Use.                                                                    *)

\* getdata; DefaultString and the others give the default for None.
GetData(c, s, k) == IF ToLower(s) \in c.secs THEN c.data[ToLower(s)][ToLower(k)] ELSE None

\* Set.
SetKey(s, k, v) == ini' = [ini EXCEPT !.secs = @ \cup {ToLower(s)}, !.data[ToLower(s)][ToLower(k)] = v]

Set ==
  /\ mode = "ready" /\ saved = <<>> /\ sets < MaxSets
  /\ \E s \in {"default", "S"}, k \in {"K"}, v \in {"w", "qv"} : SetKey(s, k, v)
  /\ sets' = sets + 1 /\ UNCHANGED <<lines, pos, section, comment, mode, saved, over>>

\* The lines of a comment, of a section's keys in the order ks, of sections.
CommentLines(cs) == [i \in DOMAIN cs |-> Line("comment", cs[i], "")]
KeyLines(s, ks) ==
  LET of(k) == IF ini.data[s][k] = None THEN <<>>
               ELSE CommentLines(ini.keyComment[s][k]) \o <<Line("pair", k, ini.data[s][k])>>
  IN  of(ks[1]) \o of(ks[2])

\* SaveConfigFile: the keys of the default section, neither its name nor its
\* comment, then the other sections.
SaveLines(ks) ==
  KeyLines("default", ks) \o
  (IF "s" \in ini.secs THEN CommentLines(ini.sectionComment["s"]) \o <<Line("section", "s", "")>> \o KeyLines("s", ks)
   ELSE <<>>)

\* Into a new file, or over the old one: what is longer there stays.  Then
\* the file is parsed again.
Save ==
  /\ mode = "ready" /\ saved = <<>>
  /\ \E ks \in {<<"k", "l">>, <<"l", "k">>}, fresh \in BOOLEAN :
       LET new == SaveLines(ks) IN
       /\ lines' = IF fresh THEN new ELSE new \o SubSeq(lines, Len(new) + 1, Len(lines))
       /\ over' = (~fresh /\ Len(new) < Len(lines))
  /\ saved' = <<ini>> /\ ini' = Empty /\ pos' = 1 /\ section' = "default" /\ comment' = <<>>
  /\ mode' = "parse" /\ UNCHANGED sets

Next == ParseLine \/ ParseEnd \/ Set \/ Save

Spec == Init /\ [][Next]_iniVars

-----------------------------------------------------------------------------
(* Properties.                                                             *)

Again == saved # <<>> /\ mode = "ready"

\* A configuration saved to a new file is parsed to the same keys in the same
\* sections, and plain values are the same, whatever order the maps were
\* written in, and whether keys came from the file, an include or Set.
RoundTrip ==
  Again /\ ~over =>
    \A s \in Sections, k \in KeyNames :
      LET was == GetData(saved[1], s, k) is == GetData(ini, s, k)
      IN  (was = None <=> is = None) /\ (was \in Plain => is = was)

\* So are the comments of keys and of sections that are written with their name;
\* the comment of a section called "default" is never written.
CommentsKept ==
  Again /\ ~over =>
    /\ \A s \in Sections, k \in KeyNames : saved[1].data[s][k] # None => ini.keyComment[s][k] = saved[1].keyComment[s][k]
    /\ \A s \in Sections : ini.sectionComment[s] = IF s = "default" THEN <<>> ELSE saved[1].sectionComment[s]

\* "save the config into file" (ini.go), "create or override the file"
\* (toml.go): also when the file was longer before.
OverwriteRight ==
  Again => \A s \in Sections, k \in KeyNames : GetData(saved[1], s, k) \in Plain => GetData(ini, s, k) = GetData(saved[1], s, k)

\* A file that is saved anew and parsed again has the values and the comments.
IniSound == RoundTrip /\ CommentsKept

=============================================================================
