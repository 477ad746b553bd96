----------------------------- MODULE SessionApi ------------------------------
(***************************************************************************)
(* What the session package promises, whatever provider stores the         *)
(* sessions (server/web/session: the Store and Provider interfaces): an id *)
(* is issued to one browser, a session holds nothing but what that browser *)
(* put there, and it moves to a new id in one step, from one id of the     *)
(* browser to another.                                                     *)
(***************************************************************************)
EXTENDS Naturals

CONSTANTS Browsers, Sids

VARIABLES live,    \* what is stored under an id
          owner    \* the browser an id was issued to

Absent == "absent"
Nobody == "nobody"

Own(b) == {"raw", "empty", b}   \* nothing yet, no values, or the browser's

Init == live = [s \in Sids |-> Absent] /\ owner = [s \in Sids |-> Nobody]

Issue(s, b) ==
  /\ owner[s] = Nobody /\ owner' = [owner EXCEPT ![s] = b]
  /\ live' \in {live} \cup {[live EXCEPT ![s] = d] : d \in Own(b)}

Write(s) ==
  /\ owner[s] # Nobody /\ UNCHANGED owner
  /\ \E d \in Own(owner[s]) : live' = [live EXCEPT ![s] = d]

Drop(s) == live' = [live EXCEPT ![s] = Absent] /\ UNCHANGED owner

\* With the values the session has, or had a moment ago: a save by another
\* request of the browser may be lost.
Move(s, t) ==
  /\ owner[s] = owner[t] /\ owner[s] # Nobody /\ UNCHANGED owner
  /\ \E d \in Own(owner[s]) : live' = [live EXCEPT ![s] = Absent, ![t] = d]

Next ==
  \E s \in Sids : \/ \E b \in Browsers : Issue(s, b)
                  \/ Write(s) \/ Drop(s)
                  \/ \E t \in Sids \ {s} : Move(s, t)

Spec == Init /\ [][Next]_<<live, owner>>
=============================================================================
