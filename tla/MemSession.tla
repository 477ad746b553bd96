----------------------------- MODULE MemSession ------------------------------
(***************************************************************************)
(* The in-memory session provider (server/web/session/sess_mem.go): a map  *)
(* from session ids to the elements of a list that is kept in order of the *)
(* last access, for the garbage collector to take expired sessions from    *)
(* its end.  A read lock is given up and the write lock taken in the       *)
(* middle of SessionRead, SessionRegenerate and SessionGC, and SessionRead *)
(* leaves a goroutine behind that refreshes the session later.             *)
(***************************************************************************)
EXTENDS Integers, Sequences, FiniteSets, SequencesExt

CONSTANTS Clients,     \* request goroutines
          Sids,        \* session ids, in cookies or generated
          Elems,       \* list elements that may be created: a bound
          Ops,         \* provider calls made: of "read", "destroy", "regenerate"
          Lifetime,    \* maxlifetime
          MaxTime,     \* the bound on the clock
          NoElem       \* absent

ASSUME MemAssumption ==
  /\ Lifetime \in Nat /\ MaxTime \in Nat /\ NoElem \notin Elems /\ Sids # {}
  /\ Ops \subseteq {"read", "destroy", "regenerate"}

VARIABLES
  sessions,   \* pder.sessions
  list,       \* pder.list, front first
  sid,        \* MemSessionStore.sid of an element
  accessed,   \* MemSessionStore.timeAccessed
  created,    \* elements that exist
  clock,      \* time.Now()
  pc,         \* where a client's provider call is
  elem,       \* its local element
  key,        \* the sid it works on
  new,        \* the sid SessionRegenerate gives
  updates,    \* sids for which a SessionUpdate goroutine is pending
  gc,         \* where SessionGC is
  victim,     \* its local element
  renamed     \* history: elements that SessionRegenerate gave a new id

storeVars  == <<sessions, list, sid, accessed, created>>
clientVars == <<pc, elem, key, new>>
gcVars     == <<gc, victim>>
vars == <<storeVars, clock, clientVars, updates, gcVars, renamed>>

Expired(e) == accessed[e] + Lifetime < clock

InList(e) == e \in ToSet(list)

\* list.Remove unlinks an element; nothing happens to one that is no longer in
\* the list.
Place(e)   == CHOOSE i \in DOMAIN list : list[i] = e
Without(e) == IF InList(e) THEN RemoveAt(list, Place(e)) ELSE list

AnySid == CHOOSE s \in Sids : TRUE

Init ==
  /\ sessions = [s \in Sids |-> NoElem] /\ list = <<>>
  /\ sid = [e \in Elems |-> AnySid] /\ accessed = [e \in Elems |-> 0]
  /\ created = {} /\ clock = 0
  /\ pc = [c \in Clients |-> "idle"] /\ elem = [c \in Clients |-> NoElem]
  /\ key = [c \in Clients |-> AnySid] /\ new = [c \in Clients |-> AnySid]
  /\ updates = {} /\ gc = "idle" /\ victim = NoElem /\ renamed = {}

Tick ==
  /\ clock < MaxTime
  /\ clock' = clock + 1
  /\ UNCHANGED <<storeVars, clientVars, updates, gcVars, renamed>>

-----------------------------------------------------------------------------

\* SessionRead under the read lock.  A hit starts SessionUpdate and returns
\* the store; a miss gives up the lock and goes on to create one.
SessionRead(c, s) ==
  /\ "read" \in Ops /\ pc[c] = "idle"
  /\ \/ /\ sessions[s] # NoElem
        /\ updates' = updates \cup {s}
        /\ UNCHANGED <<pc, new>>
     \/ /\ sessions[s] = NoElem
        /\ pc' = [pc EXCEPT ![c] = "create"]
        /\ new' = [new EXCEPT ![c] = s]
        /\ UNCHANGED updates
  /\ UNCHANGED <<storeVars, clock, elem, key, gcVars, renamed>>

\* The second half of SessionRead and of SessionRegenerate on a miss, under
\* the write lock and without looking again.
Create(c) ==
  /\ pc[c] = "create" /\ created # Elems
  /\ LET e == CHOOSE x \in Elems \ created : TRUE IN
       /\ created' = created \cup {e}
       /\ sid' = [sid EXCEPT ![e] = new[c]]
       /\ accessed' = [accessed EXCEPT ![e] = clock]
       /\ list' = <<e>> \o list
       /\ sessions' = [sessions EXCEPT ![new[c]] = e]
  /\ pc' = [pc EXCEPT ![c] = "idle"]
  /\ new' = [new EXCEPT ![c] = AnySid]
  /\ UNCHANGED <<clock, elem, key, updates, gcVars, renamed>>

\* A generated session id is one that nobody has used.
Fresh(n) ==
  /\ sessions[n] = NoElem
  /\ \A e \in created : sid[e] # n
  /\ \A c \in Clients : pc[c] # "idle" => new[c] # n
  /\ n \notin updates

\* SessionRegenerate(old, n) under the read lock.
SessionRegenerate(c, old, n) ==
  /\ "regenerate" \in Ops /\ pc[c] = "idle"
  /\ Fresh(n) /\ n # old
  /\ new' = [new EXCEPT ![c] = n]
  /\ \/ /\ sessions[old] # NoElem
        /\ updates' = updates \cup {old}
        /\ elem' = [elem EXCEPT ![c] = sessions[old]]
        /\ key' = [key EXCEPT ![c] = old]
        /\ pc' = [pc EXCEPT ![c] = "swap"]
     \/ /\ sessions[old] = NoElem
        /\ pc' = [pc EXCEPT ![c] = "create"]
        /\ UNCHANGED <<updates, elem, key>>
  /\ UNCHANGED <<storeVars, clock, gcVars, renamed>>

\* Its second half under the write lock: the element gets the new id.
Swap(c) ==
  /\ pc[c] = "swap"
  /\ sid' = [sid EXCEPT ![elem[c]] = new[c]]
  /\ sessions' = [sessions EXCEPT ![new[c]] = elem[c], ![key[c]] = NoElem]
  /\ pc' = [pc EXCEPT ![c] = "idle"]
  /\ elem' = [elem EXCEPT ![c] = NoElem]
  /\ key' = [key EXCEPT ![c] = AnySid] /\ new' = [new EXCEPT ![c] = AnySid]
  /\ renamed' = renamed \cup {elem[c]}
  /\ UNCHANGED <<list, accessed, created, clock, updates, gcVars>>

\* Mutant: the map keeps the destroyed session.
DestroyListOnly(s) ==
  /\ "destroy" \in Ops /\ sessions[s] # NoElem
  /\ list' = Without(sessions[s])
  /\ UNCHANGED <<sessions, sid, accessed, created, clock, clientVars, updates, gcVars, renamed>>

SessionDestroy(s) ==
  /\ "destroy" \in Ops /\ sessions[s] # NoElem
  /\ sessions' = [sessions EXCEPT ![s] = NoElem]
  /\ list' = Without(sessions[s])
  /\ UNCHANGED <<sid, accessed, created, clock, clientVars, updates, gcVars, renamed>>

\* The goroutine that SessionRead started.  MoveToFront of an element that is
\* not in the list does nothing.
SessionUpdate(s) ==
  /\ s \in updates
  /\ updates' = updates \ {s}
  /\ \/ /\ sessions[s] # NoElem
        /\ accessed' = [accessed EXCEPT ![sessions[s]] = clock]
        /\ list' = IF InList(sessions[s]) THEN <<sessions[s]>> \o Without(sessions[s]) ELSE list
     \/ sessions[s] = NoElem /\ UNCHANGED <<accessed, list>>
  /\ UNCHANGED <<sessions, sid, created, clock, clientVars, gcVars, renamed>>

\* SessionGC, under the read lock, finds the last element expired ...
GcLook ==
  /\ gc = "idle" /\ list # <<>> /\ Expired(Last(list))
  /\ victim' = Last(list)
  /\ gc' = "remove"
  /\ UNCHANGED <<storeVars, clock, clientVars, updates, renamed>>

\* Mutant: only the map entry goes.
GcRemoveMapOnly ==
  /\ gc = "remove"
  /\ sessions' = [sessions EXCEPT ![sid[victim]] = NoElem]
  /\ gc' = "idle" /\ victim' = NoElem
  /\ UNCHANGED <<list, sid, accessed, created, clock, clientVars, updates, renamed>>

\* ... and removes it under the write lock, from the list, and from the map
\* by its session id; then it looks again.
GcRemove ==
  /\ gc = "remove"
  /\ list' = Without(victim)
  /\ sessions' = [sessions EXCEPT ![sid[victim]] = NoElem]
  /\ gc' = "idle" /\ victim' = NoElem
  /\ UNCHANGED <<sid, accessed, created, clock, clientVars, updates, renamed>>

Next ==
  \/ Tick
  \/ \E c \in Clients :
       \/ \E s \in Sids : SessionRead(c, s)
       \/ \E old, n \in Sids : SessionRegenerate(c, old, n)
       \/ Create(c) \/ Swap(c)
  \/ \E s \in Sids : SessionDestroy(s) \/ SessionUpdate(s)
  \/ GcLook \/ GcRemove

\* The manager runs the collector again and again.
Fairness == WF_vars(GcLook) /\ WF_vars(GcRemove)

Spec == Init /\ [][Next]_vars
FairSpec == Spec /\ Fairness

-----------------------------------------------------------------------------
(* Properties.                                                             *)

\* Every variable has its type, and no element is twice in the list.
TypeOK ==
  /\ sessions \in [Sids -> Elems \cup {NoElem}]
  /\ ToSet(list) \subseteq created /\ created \subseteq Elems
  /\ Cardinality(ToSet(list)) = Len(list)
  /\ sid \in [Elems -> Sids] /\ accessed \in [Elems -> 0 .. MaxTime]
  /\ clock \in 0 .. MaxTime
  /\ pc \in [Clients -> {"idle", "create", "swap"}]
  /\ elem \in [Clients -> Elems \cup {NoElem}]
  /\ key \in [Clients -> Sids] /\ new \in [Clients -> Sids]
  /\ updates \subseteq Sids
  /\ gc \in {"idle", "remove"} /\ victim \in Elems \cup {NoElem}
  /\ renamed \subseteq created

\* The list is in order of the last access, which is why the collector may
\* stop at the first session that has not expired.
ListByAge ==
  \A i, j \in 1 .. Len(list) : i < j => accessed[list[i]] >= accessed[list[j]]

\* Comment on SessionGC: "clean expired session stores in memory session".  The
\* collector sees the list only, so every session of the map must be in it.
MapInList == \A s \in Sids : sessions[s] # NoElem => InList(sessions[s])

\* Every session of the map that never got a new id is in the list: creating
\* one id twice, a late refresh, a destroy and the collector lose none.
KeptUnlessRenamed ==
  \A s \in Sids : sessions[s] \notin renamed \cup {NoElem} => InList(sessions[s])

\* An expired session is collected, or was used again, in the end.
ExpiredIsCollected ==
  \A e \in Elems : (InList(e) /\ Expired(e)) ~> (~InList(e) \/ ~Expired(e))

\* The list the collector relies on: by age, and with every session of the map
\* that kept its id.
ListSound == TypeOK /\ ListByAge /\ KeptUnlessRenamed

=============================================================================
