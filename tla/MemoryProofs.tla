----------------------------- MODULE MemoryProofs -----------------------------
(***************************************************************************)
(* What djanGO keeps in memory behind a lock or two: the list of the       *)
(* memory session provider, and the cache decorators over the memory       *)
(* cache, for any number of clients, readers, writers, sessions, values    *)
(* and ticks.                                                              *)
(*                                                                         *)
(* The session list stays in order of the last access and keeps every      *)
(* session of the map that kept its id.  KeptUnlessRenamed is not          *)
(* inductive: Destroy and the collector take an element out of the list    *)
(* and one entry out of the map, and no other entry may lead to that       *)
(* element.  RefInv adds why none does: an element that was never renamed  *)
(* is in the map under its own id only.                                    *)
(*                                                                         *)
(* Of the decorators, SingleLoad needs to know that flight says whether a  *)
(* load is under way (part of PatternTypeOK).  CachedWasStored needs the   *)
(* same of the values that are on their way into the cache (StoredInv).    *)
(* DeleteHeals needs to know which steps a write decorator takes           *)
(* (StepInv), and looks at the stale loads as well as at the item; for the *)
(* double delete what is still owed is the second delete alone, because    *)
(* the timer may fire before the first (HealInv).                          *)
(***************************************************************************)
EXTENDS MemSession, CachePatterns, SequenceTheorems, FiniteSetTheorems, TLAPS

-----------------------------------------------------------------------------
(* The memory session provider.                                            *)

\* The types of all variables but the list.
Types ==
  /\ sessions \in [Sids -> Elems \cup {NoElem}] /\ created \subseteq Elems
  /\ sid \in [Elems -> Sids] /\ accessed \in [Elems -> 0 .. MaxTime]
  /\ clock \in 0 .. MaxTime
  /\ pc \in [Clients -> {"idle", "create", "swap"}]
  /\ elem \in [Clients -> Elems \cup {NoElem}]
  /\ key \in [Clients -> Sids] /\ new \in [Clients -> Sids]
  /\ updates \subseteq Sids
  /\ gc \in {"idle", "remove"} /\ victim \in Elems \cup {NoElem}
  /\ renamed \subseteq created

NoRepeat(l) == \A i, j \in 1 .. Len(l) : l[i] = l[j] => i = j

ListInv ==
  /\ list \in Seq(Elems) /\ ToSet(list) \subseteq created
  /\ NoRepeat(list)

\* Nothing was accessed in the future.
AgeInv == \A e \in Elems : accessed[e] <= clock

\* What the map and the calls in progress refer to exists; an element that was
\* never renamed has one entry in the map at most, the one of its id.
RefInv ==
  /\ \A s \in Sids : sessions[s] \in created \cup {NoElem}
  /\ \A c \in Clients : pc[c] = "swap" => elem[c] \in created
  /\ gc = "remove" => victim \in created
  /\ \A s \in Sids : sessions[s] \notin renamed \cup {NoElem} => sid[sessions[s]] = s

IInv == Types /\ ListInv /\ AgeInv /\ RefInv /\ ListByAge /\ KeptUnlessRenamed

-----------------------------------------------------------------------------
(* The list operators.                                                     *)

\* RemoveAt closes the gap.
LEMMA RemoveAtProperties ==
  ASSUME NEW S, NEW l \in Seq(S), NEW n \in 1 .. Len(l)
  PROVE  /\ RemoveAt(l, n) \in Seq(S)
         /\ Len(RemoveAt(l, n)) = Len(l) - 1
         /\ \A i \in 1 .. Len(l) - 1 : RemoveAt(l, n)[i] = l[IF i < n THEN i ELSE i + 1]
<1> DEFINE a == SubSeq(l, 1, n - 1)
           b == SubSeq(l, n + 1, Len(l))
<1>0. Len(l) \in Nat /\ \A i \in 1 .. Len(l) : l[i] \in S BY LenProperties, ElementOfSeq
<1>1. a \in Seq(S) /\ Len(a) = n - 1 /\ \A i \in 1 .. n - 1 : a[i] = l[i]
  <2>1. \A i \in 1 .. n - 1 : l[i] \in S BY <1>0
  <2> QED BY <1>0, <2>1, SubSeqProperties
<1>2. b \in Seq(S) /\ Len(b) = Len(l) - n /\ \A i \in 1 .. Len(l) - n : b[i] = l[n + i]
  <2>1. \A i \in n + 1 .. Len(l) : l[i] \in S BY <1>0
  <2>2. /\ SubSeq(l, n + 1, Len(l)) \in Seq(S)
        /\ Len(SubSeq(l, n + 1, Len(l))) = IF n + 1 <= Len(l) THEN Len(l) - (n + 1) + 1 ELSE 0
        /\ \A i \in 1 .. Len(l) - (n + 1) + 1 : SubSeq(l, n + 1, Len(l))[i] = l[(n + 1) + i - 1]
    BY <1>0, <2>1, SubSeqProperties
  <2> QED BY <1>0, <2>2
<1>3. RemoveAt(l, n) = a \o b BY DEF RemoveAt
<1> HIDE DEF a, b
<1>4. /\ a \o b \in Seq(S) /\ Len(a \o b) = Len(a) + Len(b)
      /\ \A i \in 1 .. Len(a) + Len(b) : (a \o b)[i] = IF i <= Len(a) THEN a[i] ELSE b[i - Len(a)]
  BY <1>1, <1>2, ConcatProperties
<1>5. Len(a) + Len(b) = Len(l) - 1 BY <1>0, <1>1, <1>2
<1>6. ASSUME NEW i \in 1 .. Len(l) - 1 PROVE (a \o b)[i] = l[IF i < n THEN i ELSE i + 1]
  <2>1. CASE i < n
    <3>1. i \in 1 .. n - 1 /\ i <= Len(a) BY <1>0, <1>1, <2>1
    <3> QED BY <1>1, <1>4, <1>5, <2>1, <3>1
  <2>2. CASE ~(i < n)
    <3>1. i - Len(a) \in 1 .. Len(l) - n /\ ~(i <= Len(a)) /\ n + (i - Len(a)) = i + 1
      BY <1>0, <1>1, <2>2
    <3> QED BY <1>2, <1>4, <1>5, <2>2, <3>1
  <2> QED BY <2>1, <2>2
<1> QED BY <1>3, <1>4, <1>5, <1>6

\* What list.Remove leaves: the others, each once and in the same order.
LEMMA WithoutProperties ==
  ASSUME list \in Seq(Elems), NoRepeat(list), NEW e
  PROVE  /\ Without(e) \in Seq(Elems) /\ NoRepeat(Without(e))
         /\ ToSet(Without(e)) = ToSet(list) \ {e}
         /\ \A i, j \in 1 .. Len(Without(e)) : i < j =>
              \E k, m \in 1 .. Len(list) : k < m /\ Without(e)[i] = list[k] /\ Without(e)[j] = list[m]
<1>0. Len(list) \in Nat /\ DOMAIN list = 1 .. Len(list) BY LenProperties
<1>1. CASE ~InList(e)
  BY <1>0, <1>1 DEF Without, InList, ToSet
<1>2. CASE InList(e)
  <2> DEFINE n == Place(e)
             w == RemoveAt(list, n)
  <2>1. n \in 1 .. Len(list) /\ list[n] = e
    <3>1. \E i \in DOMAIN list : list[i] = e BY <1>2 DEF InList, ToSet
    <3> QED BY <1>0, <3>1 DEF Place
  <2>2. Without(e) = w BY <1>2 DEF Without
  <2> HIDE DEF n
  <2>3. /\ w \in Seq(Elems) /\ Len(w) = Len(list) - 1
        /\ \A i \in 1 .. Len(list) - 1 : w[i] = list[IF i < n THEN i ELSE i + 1]
    BY <2>1, RemoveAtProperties
  <2> HIDE DEF w
  <2>4. DOMAIN w = 1 .. Len(list) - 1 BY <2>3, LenProperties
  <2>5. NoRepeat(w)
    <3> SUFFICES ASSUME NEW i \in 1 .. Len(w), NEW j \in 1 .. Len(w), w[i] = w[j] PROVE i = j
      BY DEF NoRepeat
    <3> DEFINE k == IF i < n THEN i ELSE i + 1
               m == IF j < n THEN j ELSE j + 1
    <3>1. k \in 1 .. Len(list) /\ m \in 1 .. Len(list) /\ list[k] = list[m] BY <1>0, <2>1, <2>3
    <3>2. k = m BY <3>1 DEF NoRepeat
    <3> QED BY <1>0, <2>1, <2>3, <3>2
  <2>6. ToSet(w) = ToSet(list) \ {e}
    <3>1. ASSUME NEW i \in 1 .. Len(w) PROVE w[i] \in ToSet(list) \ {e}
      <4> DEFINE k == IF i < n THEN i ELSE i + 1
      <4>1. k \in 1 .. Len(list) /\ w[i] = list[k] /\ k # n BY <1>0, <2>1, <2>3
      <4>2. list[k] # list[n] BY <2>1, <4>1 DEF NoRepeat
      <4> QED BY <1>0, <2>1, <4>1, <4>2 DEF ToSet
    <3>2. ASSUME NEW k \in 1 .. Len(list), list[k] # e PROVE list[k] \in ToSet(w)
      <4> DEFINE i == IF k < n THEN k ELSE k - 1
      <4>1. k # n BY <2>1, <3>2
      <4>2. i \in 1 .. Len(w) /\ w[i] = list[k] BY <1>0, <2>1, <2>3, <4>1
      <4> QED BY <2>3, <2>4, <4>2 DEF ToSet
    <3> QED BY <1>0, <2>3, <2>4, <3>1, <3>2 DEF ToSet
  <2>7. ASSUME NEW i \in 1 .. Len(w), NEW j \in 1 .. Len(w), i < j
        PROVE  \E k, m \in 1 .. Len(list) : k < m /\ w[i] = list[k] /\ w[j] = list[m]
    <3> DEFINE k == IF i < n THEN i ELSE i + 1
               m == IF j < n THEN j ELSE j + 1
    <3>1. k \in 1 .. Len(list) /\ m \in 1 .. Len(list) /\ k < m /\ w[i] = list[k] /\ w[j] = list[m]
      BY <1>0, <2>1, <2>3, <2>7
    <3> QED BY <3>1
  <2> QED BY <2>2, <2>3, <2>5, <2>6, <2>7
<1> QED BY <1>1, <1>2

\* PushFront of an element that is not in the list.
LEMMA PushProperties ==
  ASSUME NEW l \in Seq(Elems), NoRepeat(l), NEW e \in Elems, e \notin ToSet(l), NEW w, w = Cons(e, l)
  PROVE  /\ w \in Seq(Elems) /\ NoRepeat(w) /\ ToSet(w) = ToSet(l) \cup {e}
         /\ \A i, j \in 1 .. Len(w) : i < j =>
              /\ w[j] \in ToSet(l)
              /\ w[i] = e \/ \E k, m \in 1 .. Len(l) : k < m /\ w[i] = l[k] /\ w[j] = l[m]
<1>0. Len(l) \in Nat /\ DOMAIN l = 1 .. Len(l) BY LenProperties
<1>1. /\ w \in Seq(Elems) /\ Len(w) = Len(l) + 1
      /\ \A i \in 1 .. Len(l) + 1 : w[i] = IF i = 1 THEN e ELSE l[i - 1]
  <2>1. <<e>> \in Seq(Elems) /\ Len(<<e>>) = 1 /\ <<e>>[1] = e OBVIOUS
  <2>2. /\ w \in Seq(Elems) /\ Len(w) = Len(<<e>>) + Len(l)
        /\ \A i \in 1 .. Len(<<e>>) + Len(l) :
             w[i] = IF i <= Len(<<e>>) THEN <<e>>[i] ELSE l[i - Len(<<e>>)]
    BY <2>1, ConcatProperties DEF Cons
  <2> QED BY <1>0, <2>1, <2>2
<1>2. DOMAIN w = 1 .. Len(l) + 1 BY <1>1, LenProperties
<1>3. \A i \in 1 .. Len(l) : l[i] \in ToSet(l) /\ l[i] # e BY <1>0 DEF ToSet
<1>4. NoRepeat(w) 
  <2> SUFFICES ASSUME NEW i \in 1 .. Len(w), NEW j \in 1 .. Len(w), w[i] = w[j] PROVE i = j
    BY DEF NoRepeat
  <2>1. CASE i = 1 /\ j = 1 BY <2>1
  <2>2. CASE i # 1 /\ j # 1
    <3>1. i - 1 \in 1 .. Len(l) /\ j - 1 \in 1 .. Len(l) /\ l[i - 1] = l[j - 1]
      BY <1>0, <1>1, <2>2
    <3>2. i - 1 = j - 1 BY <3>1 DEF NoRepeat
    <3> QED BY <1>0, <1>1, <3>2
  <2>3. CASE (i = 1) # (j = 1) BY <1>0, <1>1, <1>3, <2>3
  <2> QED BY <2>1, <2>2, <2>3
<1>5. ToSet(w) = ToSet(l) \cup {e}
  <2>1. ASSUME NEW i \in 1 .. Len(w) PROVE w[i] \in ToSet(l) \cup {e}
    BY <1>0, <1>1, <1>3
  <2>2. ASSUME NEW k \in 1 .. Len(l) PROVE l[k] \in ToSet(w)
    <3>1. k + 1 \in DOMAIN w /\ w[k + 1] = l[k] BY <1>0, <1>1, <1>2
    <3> QED BY <3>1 DEF ToSet
  <2>3. e \in ToSet(w)
    <3>1. 1 \in DOMAIN w /\ w[1] = e BY <1>0, <1>1, <1>2
    <3> QED BY <3>1 DEF ToSet
  <2>4. \A x \in ToSet(w) : \E i \in 1 .. Len(w) : x = w[i] BY <1>1, <1>2 DEF ToSet
  <2>5. \A x \in ToSet(l) : \E i \in 1 .. Len(l) : x = l[i] BY <1>0 DEF ToSet
  <2>6. ToSet(w) \subseteq ToSet(l) \cup {e} BY <2>1, <2>4
  <2>7. ToSet(l) \cup {e} \subseteq ToSet(w) BY <2>2, <2>3, <2>5
  <2> QED BY <2>6, <2>7
<1>6. ASSUME NEW i \in 1 .. Len(w), NEW j \in 1 .. Len(w), i < j
      PROVE  /\ w[j] \in ToSet(l)
             /\ \/ w[i] = e
                \/ \E k, m \in 1 .. Len(l) : k < m /\ w[i] = l[k] /\ w[j] = l[m]
  <2>1. j - 1 \in 1 .. Len(l) /\ w[j] = l[j - 1] BY <1>0, <1>1, <1>6
  <2>2. CASE i = 1 BY <1>1, <1>3, <2>1, <2>2
  <2>3. CASE i # 1
    <3>1. i - 1 \in 1 .. Len(l) /\ i - 1 < j - 1 /\ w[i] = l[i - 1] BY <1>0, <1>1, <1>6, <2>3
    <3> QED BY <1>3, <2>1, <3>1
  <2> QED BY <2>2, <2>3
<1> QED BY <1>1, <1>4, <1>5, <1>6

\* An element is as often in the list as it should be.
LEMMA ListType == Types /\ ListInv => TypeOK
<1> SUFFICES ASSUME Types, ListInv PROVE TypeOK OBVIOUS
<1>1. Len(list) \in Nat /\ DOMAIN list = 1 .. Len(list) BY LenProperties DEF ListInv
<1>2. ExistsBijection(1 .. Len(list), ToSet(list))
  <2>1. list \in Bijection(1 .. Len(list), ToSet(list))
    <3>1. list \in [1 .. Len(list) -> ToSet(list)]
      <4>1. list \in [1 .. Len(list) -> Elems] BY LenProperties DEF ListInv
      <4> QED BY <1>1, <4>1 DEF ToSet
    <3> QED BY <1>1, <3>1 DEF Bijection, Injection, Surjection, IsInjective, ToSet, ListInv, NoRepeat
  <2> QED BY <2>1 DEF ExistsBijection
<1>3. Cardinality(ToSet(list)) = Len(list) BY <1>1, <1>2, FS_CountingElements
<1> QED BY <1>3 DEF Types, ListInv, TypeOK

-----------------------------------------------------------------------------
(* The steps.                                                              *)

\* At the start there is nothing.
LEMMA InitInv == Init => IInv
<1> SUFFICES ASSUME Init PROVE IInv OBVIOUS
<1> USE MemAssumption DEF MemAssumption, Init
<1>1. Types BY DEF Types, AnySid
<1>2. ListInv BY DEF ListInv, NoRepeat, ToSet
<1>3. AgeInv /\ RefInv BY DEF AgeInv, RefInv
<1>4. ListByAge /\ KeptUnlessRenamed BY DEF ListByAge, KeptUnlessRenamed
<1> QED BY <1>1, <1>2, <1>3, <1>4 DEF IInv

\* Steps that leave the store alone: the clock and the first halves of the
\* calls.
LEMMA QuietInv ==
  ASSUME IInv,
         \/ Tick \/ GcLook
         \/ \E c \in Clients, s \in Sids : SessionRead(c, s)
         \/ \E c \in Clients, old, n \in Sids : SessionRegenerate(c, old, n)
  PROVE  IInv'
<1> USE MemAssumption DEF MemAssumption, IInv, storeVars, clientVars, gcVars
<1>1. UNCHANGED <<storeVars, renamed>> BY DEF Tick, GcLook, SessionRead, SessionRegenerate
<1>2. ListInv' /\ ListByAge' /\ KeptUnlessRenamed'
  BY <1>1 DEF ListInv, NoRepeat, ListByAge, KeptUnlessRenamed, InList
<1>3. CASE Tick
  BY <1>2, <1>3 DEF Tick, Types, AgeInv, RefInv
<1>4. CASE GcLook
  <2>1. Last(list) \in created
    <3>1. Len(list) \in Nat /\ Len(list) # 0 /\ DOMAIN list = 1 .. Len(list)
      BY <1>4, LenProperties, EmptySeq DEF GcLook, ListInv
    <3>2. Len(list) \in DOMAIN list BY <3>1
    <3> QED BY <3>2 DEF Last, ListInv, ToSet
  <2> QED BY <1>2, <1>4, <2>1 DEF GcLook, Types, AgeInv, RefInv
<1>5. ASSUME NEW c \in Clients, NEW s \in Sids, SessionRead(c, s) PROVE IInv'
  BY <1>2, <1>5 DEF SessionRead, Types, AgeInv, RefInv
<1>6. ASSUME NEW c \in Clients, NEW old \in Sids, NEW n \in Sids, SessionRegenerate(c, old, n)
      PROVE  IInv'
  BY <1>2, <1>6 DEF SessionRegenerate, Types, AgeInv, RefInv
<1> QED BY <1>3, <1>4, <1>5, <1>6

\* A new element goes to the front, the youngest of all; a second Create of an
\* id takes the first one's place in the map and leaves it in the list.
LEMMA CreateInv ==
  ASSUME IInv, NEW c \in Clients, Create(c)
  PROVE  IInv'
<1> USE MemAssumption DEF MemAssumption, IInv
<1> DEFINE e == CHOOSE x \in Elems \ created : TRUE
<1>1. e \in Elems \ created BY DEF Create, Types
<1>2. /\ created' = created \cup {e}
      /\ sid' = [sid EXCEPT ![e] = new[c]]
      /\ accessed' = [accessed EXCEPT ![e] = clock]
      /\ list' = <<e>> \o list
      /\ sessions' = [sessions EXCEPT ![new[c]] = e]
      /\ pc' = [pc EXCEPT ![c] = "idle"]
      /\ new' = [new EXCEPT ![c] = AnySid]
      /\ UNCHANGED <<clock, elem, key, updates, gc, victim, renamed>>
  BY DEF Create, gcVars
<1> HIDE DEF e
<1>2a. list' = Cons(e, list) BY <1>2 DEF Cons
<1>3. AnySid \in Sids BY DEF AnySid
<1>4. e \in Elems /\ e \notin ToSet(list) /\ list \in Seq(Elems) /\ NoRepeat(list) BY <1>1 DEF ListInv
<1>5. /\ list' \in Seq(Elems) /\ NoRepeat(list') /\ ToSet(list') = ToSet(list) \cup {e}
      /\ \A i, j \in 1 .. Len(list') : i < j =>
           /\ list'[j] \in ToSet(list)
           /\ list'[i] = e \/ \E k, m \in 1 .. Len(list) : k < m /\ list'[i] = list[k] /\ list'[j] = list[m]
  BY <1>2a, <1>4, PushProperties
<1>6. Types' BY <1>1, <1>2, <1>3 DEF Types
<1>7. ListInv' BY <1>1, <1>2, <1>5 DEF ListInv
<1>8. AgeInv' BY <1>1, <1>2 DEF AgeInv, Types
<1>9. RefInv' BY <1>1, <1>2 DEF RefInv, Types
<1>10. ListByAge'
  <2> SUFFICES ASSUME NEW i \in 1 .. Len(list'), NEW j \in 1 .. Len(list'), i < j
               PROVE  accessed'[list'[i]] >= accessed'[list'[j]]
    BY DEF ListByAge
  <2>1. list'[j] \in ToSet(list) BY <1>5
  <2>2. list'[j] \in Elems /\ list'[j] # e BY <1>1, <2>1 DEF ListInv, Types
  <2>3. accessed'[list'[j]] = accessed[list'[j]] BY <1>2, <2>2 DEF Types
  <2>4. CASE list'[i] = e
    BY <1>1, <1>2, <2>2, <2>3, <2>4 DEF AgeInv, Types
  <2>5. CASE list'[i] # e
    <3>1. PICK k, m \in 1 .. Len(list) : k < m /\ list'[i] = list[k] /\ list'[j] = list[m]
      BY <1>5, <2>5
    <3>2. list[k] \in Elems BY ElementOfSeq DEF ListInv
    <3>3. accessed'[list'[i]] = accessed[list'[i]] BY <1>2, <2>5, <3>1, <3>2 DEF Types
    <3> QED BY <2>3, <3>1, <3>3 DEF ListByAge
  <2> QED BY <2>4, <2>5
<1>11. KeptUnlessRenamed' BY <1>1, <1>2, <1>5 DEF KeptUnlessRenamed, InList, Types
<1> QED BY <1>6, <1>7, <1>8, <1>9, <1>10, <1>11

\* SessionRegenerate's second half: the element counts as renamed, whatever
\* has happened to it since it was looked up.
LEMMA SwapInv ==
  ASSUME IInv, NEW c \in Clients, Swap(c)
  PROVE  IInv'
<1> USE MemAssumption DEF MemAssumption, IInv, Swap, gcVars
<1>1. AnySid \in Sids /\ elem[c] \in created BY DEF AnySid, RefInv
<1>2. Types' BY <1>1 DEF Types
<1>3. ListInv' /\ ListByAge' /\ AgeInv' BY DEF ListInv, NoRepeat, ListByAge, AgeInv
<1>4. RefInv' BY <1>1 DEF RefInv, Types
<1>5. KeptUnlessRenamed' BY <1>1 DEF KeptUnlessRenamed, InList, Types
<1> QED BY <1>2, <1>3, <1>4, <1>5

\* Taking an element out of the list, and its entry out of the map.
LEMMA RemoveInv ==
  ASSUME IInv, NEW e \in created, NEW s \in Sids, list' = Without(e),
         e \notin renamed /\ (\E r \in Sids : sessions[r] = e) => sid[e] = s,
         sessions' = [sessions EXCEPT ![s] = NoElem],
         UNCHANGED <<sid, accessed, created, clock, renamed>>
  PROVE  ListInv' /\ AgeInv' /\ ListByAge' /\ KeptUnlessRenamed'
<1> USE MemAssumption DEF MemAssumption, IInv
<1>1. /\ list' \in Seq(Elems) /\ NoRepeat(list') /\ ToSet(list') = ToSet(list) \ {e}
      /\ \A i, j \in 1 .. Len(list') : i < j =>
           \E k, m \in 1 .. Len(list) : k < m /\ list'[i] = list[k] /\ list'[j] = list[m]
  BY WithoutProperties DEF ListInv
<1>2. ListInv' BY <1>1 DEF ListInv
<1>3. AgeInv' BY DEF AgeInv
<1>4. ListByAge' BY <1>1 DEF ListByAge
<1>5. KeptUnlessRenamed'
  <2> SUFFICES ASSUME NEW r \in Sids, sessions'[r] \notin renamed \cup {NoElem}
               PROVE  sessions'[r] \in ToSet(list')
    BY DEF KeptUnlessRenamed, InList
  <2>1. r # s /\ sessions'[r] = sessions[r] BY DEF Types
  <2>2. sessions[r] \in ToSet(list) BY <2>1 DEF KeptUnlessRenamed, InList
  <2>3. sid[sessions[r]] = r BY <2>1 DEF RefInv
  <2>4. sessions[r] # e BY <2>1, <2>3
  <2> QED BY <1>1, <2>1, <2>2, <2>4
<1> QED BY <1>2, <1>3, <1>4, <1>5

\* SessionDestroy takes the element out under the id it is known by.
LEMMA DestroyInv ==
  ASSUME IInv, NEW s \in Sids, SessionDestroy(s)
  PROVE  IInv'
<1> USE MemAssumption DEF MemAssumption, IInv, SessionDestroy, gcVars, clientVars
<1>1. sessions[s] \in created BY DEF RefInv
<1>2. sessions[s] \notin renamed => sid[sessions[s]] = s BY DEF RefInv
<1>3. ListInv' /\ AgeInv' /\ ListByAge' /\ KeptUnlessRenamed' BY <1>1, <1>2, RemoveInv
<1>4. Types' BY DEF Types
<1>5. RefInv' BY DEF RefInv, Types
<1> QED BY <1>3, <1>4, <1>5

\* The collector's second half takes its victim out under the id it has now.
LEMMA GcRemoveInv ==
  ASSUME IInv, GcRemove
  PROVE  IInv'
<1> USE MemAssumption DEF MemAssumption, IInv, GcRemove, clientVars
<1>1. victim \in created /\ sid[victim] \in Sids BY DEF RefInv, Types
<1>2. ListInv' /\ AgeInv' /\ ListByAge' /\ KeptUnlessRenamed' BY <1>1, RemoveInv
<1>3. Types' BY DEF Types
<1>4. RefInv' BY <1>1 DEF RefInv, Types
<1> QED BY <1>2, <1>3, <1>4

\* A late SessionUpdate moves what it finds under the id to the front.
LEMMA UpdateInv ==
  ASSUME IInv, NEW s \in Sids, SessionUpdate(s)
  PROVE  IInv'
<1> USE MemAssumption DEF MemAssumption, IInv
<1>0. UNCHANGED <<sessions, sid, created, clock, pc, elem, key, new, gc, victim, renamed>>
      /\ updates' \subseteq Sids
  BY DEF SessionUpdate, clientVars, gcVars, Types
<1>1. CASE sessions[s] = NoElem
  <2>1. UNCHANGED <<accessed, list>> BY <1>1 DEF SessionUpdate
  <2> QED BY <1>0, <2>1 DEF Types, ListInv, NoRepeat, AgeInv, RefInv, ListByAge, KeptUnlessRenamed, InList
<1>2. CASE sessions[s] # NoElem
  <2> DEFINE e == sessions[s]
  <2>1. /\ accessed' = [accessed EXCEPT ![e] = clock]
        /\ list' = IF InList(e) THEN <<e>> \o Without(e) ELSE list
    BY <1>2 DEF SessionUpdate
  <2>2. e \in created /\ e \in Elems BY <1>2 DEF RefInv, Types
  <2> HIDE DEF e
  <2>3. Types' BY <1>0, <2>1, <2>2 DEF Types
  <2>4. AgeInv' BY <1>0, <2>1, <2>2 DEF AgeInv, Types
  <2>5. RefInv' BY <1>0 DEF RefInv
  <2>6. CASE ~InList(e)
    <3>1. list' = list BY <2>1, <2>6
    <3>2. ListInv' /\ KeptUnlessRenamed' BY <1>0, <3>1 DEF ListInv, NoRepeat, KeptUnlessRenamed, InList
    <3>3. ASSUME NEW i \in 1 .. Len(list) PROVE accessed'[list[i]] = accessed[list[i]]
      <4>1. list[i] \in ToSet(list) /\ list[i] \in Elems
        BY ElementOfSeq, LenProperties DEF ToSet, ListInv
      <4> QED BY <2>1, <2>6, <4>1 DEF InList, Types
    <3>4. ListByAge' BY <3>1, <3>3 DEF ListByAge
    <3> QED BY <2>3, <2>4, <2>5, <3>2, <3>4
  <2>7. CASE InList(e)
    <3> DEFINE w == Without(e)
    <3>1. /\ w \in Seq(Elems) /\ NoRepeat(w) /\ ToSet(w) = ToSet(list) \ {e}
          /\ \A i, j \in 1 .. Len(w) : i < j =>
               \E k, m \in 1 .. Len(list) : k < m /\ w[i] = list[k] /\ w[j] = list[m]
      BY WithoutProperties DEF ListInv
    <3>2. list' = Cons(e, w) BY <2>1, <2>7 DEF Cons
    <3> HIDE DEF w
    <3>1a. w \in Seq(Elems) /\ NoRepeat(w) /\ e \notin ToSet(w) BY <3>1
    <3>3. /\ list' \in Seq(Elems) /\ NoRepeat(list') /\ ToSet(list') = ToSet(w) \cup {e}
          /\ \A i, j \in 1 .. Len(list') : i < j =>
               /\ list'[j] \in ToSet(w)
               /\ list'[i] = e \/ \E k, m \in 1 .. Len(w) : k < m /\ list'[i] = w[k] /\ list'[j] = w[m]
      BY <2>2, <3>1a, <3>2, PushProperties
    <3>4. ToSet(list') = ToSet(list) BY <2>7, <3>1, <3>3 DEF InList
    <3>5. ListInv' BY <1>0, <3>3, <3>4 DEF ListInv
    <3>6. KeptUnlessRenamed' BY <1>0, <3>4 DEF KeptUnlessRenamed, InList
    <3>7. ListByAge'
      <4> SUFFICES ASSUME NEW i \in 1 .. Len(list'), NEW j \in 1 .. Len(list'), i < j
                   PROVE  accessed'[list'[i]] >= accessed'[list'[j]]
        BY DEF ListByAge
      <4>1. list'[j] \in ToSet(w) BY <3>3
      <4>2. list'[j] # e /\ list'[j] \in Elems BY <3>1, <4>1 DEF ListInv, Types
      <4>3. accessed'[list'[j]] = accessed[list'[j]] BY <2>1, <4>2 DEF Types
      <4>4. CASE list'[i] = e BY <2>1, <2>2, <4>2, <4>3, <4>4 DEF AgeInv, Types
      <4>5. CASE list'[i] # e
        <5>1. PICK k, m \in 1 .. Len(w) : k < m /\ list'[i] = w[k] /\ list'[j] = w[m]
          BY <3>3, <4>5
        <5>2. PICK a, b \in 1 .. Len(list) : a < b /\ w[k] = list[a] /\ w[m] = list[b]
          BY <3>1, <5>1
        <5>3. list[a] \in Elems BY ElementOfSeq DEF ListInv
        <5>4. accessed'[list'[i]] = accessed[list'[i]] BY <2>1, <4>5, <5>1, <5>2, <5>3 DEF Types
        <5> QED BY <4>3, <5>1, <5>2, <5>4 DEF ListByAge
      <4> QED BY <4>4, <4>5
    <3> QED BY <2>3, <2>4, <2>5, <3>5, <3>6, <3>7
  <2> QED BY <2>6, <2>7
<1> QED BY <1>1, <1>2

\* The inductive invariant holds in every reachable state.
THEOREM Invariance == Spec => []IInv
<1>1. IInv /\ [Next]_vars => IInv'
  <2> SUFFICES ASSUME IInv, [Next]_vars PROVE IInv' OBVIOUS
  <2>1. CASE UNCHANGED vars
    BY <2>1 DEF vars, storeVars, clientVars, gcVars, IInv, Types, ListInv, NoRepeat, AgeInv, RefInv,
                ListByAge, KeptUnlessRenamed, InList
  <2>2. CASE Next
    <3>1. ASSUME NEW c \in Clients, Create(c) \/ Swap(c) PROVE IInv'
      BY <3>1, CreateInv, SwapInv
    <3>2. ASSUME NEW s \in Sids, SessionDestroy(s) \/ SessionUpdate(s) PROVE IInv'
      BY <3>2, DestroyInv, UpdateInv
    <3> QED BY <2>2, <3>1, <3>2, QuietInv, GcRemoveInv DEF Next
  <2> QED BY <2>1, <2>2
<1> QED BY <1>1, InitInv, PTL DEF Spec

\* The list is always in order of the last access, and every session of the
\* map that never got a new id is in it: for any number of clients and ids, a
\* late refresh, a creation of one id twice, a destroy and the collector
\* neither lose a session nor let one hide behind a younger one.
THEOREM ListCorrect == Spec => []ListSound
<1>1. IInv => ListSound BY ListType DEF IInv, ListSound
<1> QED BY <1>1, Invariance, PTL

-----------------------------------------------------------------------------
(* The cache decorators.                                                   *)

\* What is, or is about to be, in the cache was in the database.
StoredInv ==
  /\ db \in held
  /\ item # NoItem => item.val \in held
  /\ \A r \in Readers : rpc[r] = "put" => loaded[r] \in held
  /\ \A w \in Writers : wpc[w] = "put" => val[w] \in held

\* Each write decorator takes its own steps after storeFunc, and single flight
\* its own before the load.
StepInv ==
  /\ \A w \in Writers :
       /\ wpc[w] = "put" => wr = "through"
       /\ wpc[w] = "arm" => wr = "double"
       /\ wpc[w] = "delete" => wr # "through"
  /\ \A r \in Readers : rpc[r] = "do" => rd = "flight"

\* An old value is in the cache, expired or not, or on its way there.
OldItem == item # NoItem /\ item.val # db
OldLoad(r) == rpc[r] = "put" /\ loaded[r] # db
Old == OldItem \/ \E r \in Readers : OldLoad(r)

\* An old value is followed by a delete, unless the last one has passed it.
HealInv ==
  /\ wr = "delete" /\ Old => crossed \/ \E w \in Writers : wpc[w] = "delete"
  /\ wr = "double" /\ Old => crossed \/ timers > 0 \/ \E w \in Writers : wpc[w] = "arm"

PatternInv == PatternTypeOK /\ SingleLoad /\ StoredInv /\ StepInv /\ HealInv

-----------------------------------------------------------------------------
\* The chosen value is one of the values, which are not none.
LEMMA AnyValType == AnyVal \in Vals
BY CacheAssumption DEF CacheAssumption, AnyVal

\* What the adapter is given has a lifespan, with or without the offset.
LEMMA PutType ==
  ASSUME NEW v \in Vals, PutRandomExpire(v)
  PROVE  item' \in Items
<1>1. PICK o \in Nat : item' = [val |-> v, age |-> 0, lifespan |-> expiration + o]
  <2>1. CASE random BY <2>1, PatternAssumption DEF PatternAssumption, PutRandomExpire, Put
  <2>2. CASE ~random BY <2>2 DEF PutRandomExpire, Put
  <2> QED BY <2>1, <2>2
<1>2. expiration + o \in Nat BY PatternAssumption DEF PatternAssumption
<1> QED BY <1>1, <1>2 DEF Items

\* Nothing is cached and nobody loads in an initial state.
LEMMA PatternInitInv == PatternInit => PatternInv
<1> SUFFICES ASSUME PatternInit PROVE PatternInv OBVIOUS
<1> USE AnyValType, PatternAssumption DEF PatternAssumption, PatternInit, CacheInit
<1>1. PatternTypeOK
  <2>1. CacheTypeOK BY DEF CacheTypeOK
  <2>2. flight <=> (rd = "flight" /\ \E r \in Readers : rpc[r] \in {"load", "put"}) OBVIOUS
  <2>3. timers \in 0 .. MaxTimers OBVIOUS
  <2>4. random \in BOOLEAN /\ flight \in BOOLEAN /\ crossed \in BOOLEAN OBVIOUS
  <2>5. /\ rpc \in [Readers -> {"idle", "do", "load", "join", "put"}] /\ loaded \in [Readers -> Vals]
        /\ wpc \in [Writers -> {"idle", "arm", "delete", "put"}] /\ val \in [Writers -> Vals]
        /\ rd \in ReadBy /\ wr \in WriteBy /\ db \in Vals /\ held \subseteq Vals
    OBVIOUS
  <2> QED BY <2>1, <2>2, <2>3, <2>4, <2>5 DEF PatternTypeOK
<1>2. SingleLoad BY DEF SingleLoad
<1>3. StoredInv /\ StepInv BY DEF StoredInv, StepInv
<1>4. HealInv BY DEF HealInv, Old, OldItem, OldLoad
<1> QED BY <1>1, <1>2, <1>3, <1>4 DEF PatternInv

\* MemoryItem.isExpire: time passing changes no value.
LEMMA AgingInv ==
  ASSUME PatternInv, Cache /\ Age
  PROVE  PatternInv'
<1> USE AnyValType, PatternAssumption DEF PatternAssumption, PatternInv, PatternTypeOK, Cache, Age, config, cacheVars, readVars, writeVars
<1>1. PatternTypeOK' BY DEF CacheTypeOK, Items, Put, Delete, SingleLoad
<1>2. SingleLoad' BY DEF SingleLoad
<1>3. StoredInv' BY DEF StoredInv, CacheTypeOK, Items, Put, Delete
<1>4. StepInv' BY DEF StepInv
<1>5. HealInv' BY DEF StepInv, HealInv, Old, OldItem, OldLoad, StaleLoad, CacheTypeOK, Items, Put, Delete
<1> QED BY <1>1, <1>2, <1>3, <1>4, <1>5 DEF PatternInv

\* expiredKeys only remembers what it found.
LEMMA ScanInv ==
  ASSUME PatternInv, Cache /\ expiredKeys
  PROVE  PatternInv'
<1> USE AnyValType, PatternAssumption DEF PatternAssumption, PatternInv, PatternTypeOK, Cache, expiredKeys, config, cacheVars, readVars, writeVars
<1>1. PatternTypeOK' BY DEF CacheTypeOK, Items, Put, Delete, SingleLoad
<1>2. SingleLoad' BY DEF SingleLoad
<1>3. StoredInv' BY DEF StoredInv, CacheTypeOK, Items, Put, Delete
<1>4. StepInv' BY DEF StepInv
<1>5. HealInv' BY DEF StepInv, HealInv, Old, OldItem, OldLoad, StaleLoad, CacheTypeOK, Items, Put, Delete
<1> QED BY <1>1, <1>2, <1>3, <1>4, <1>5 DEF PatternInv

\* clearItems deletes the item, which can only help.
LEMMA ClearInv ==
  ASSUME PatternInv, Cache /\ clearItems
  PROVE  PatternInv'
<1> USE AnyValType, PatternAssumption DEF PatternAssumption, PatternInv, PatternTypeOK, Cache, clearItems, config, cacheVars, readVars, writeVars
<1>1. PatternTypeOK' BY DEF CacheTypeOK, Items, Put, Delete, SingleLoad
<1>2. SingleLoad' BY DEF SingleLoad
<1>3. StoredInv' BY DEF StoredInv, CacheTypeOK, Items, Put, Delete
<1>4. StepInv' BY DEF StepInv
<1>5. HealInv' BY DEF StepInv, HealInv, Old, OldItem, OldLoad, StaleLoad, CacheTypeOK, Items, Put, Delete
<1> QED BY <1>1, <1>2, <1>3, <1>4, <1>5 DEF PatternInv

\* ClearAll and Delete called from outside take the item away.
LEMMA ClearAllInv ==
  ASSUME PatternInv, ClearAll
  PROVE  PatternInv'
<1> USE AnyValType, PatternAssumption DEF PatternAssumption, PatternInv, PatternTypeOK, ClearAll, config, cacheVars, readVars, writeVars
<1>1. PatternTypeOK' BY DEF CacheTypeOK, Items, Put, Delete, SingleLoad
<1>2. SingleLoad' BY DEF SingleLoad
<1>3. StoredInv' BY DEF StoredInv, CacheTypeOK, Items, Put, Delete
<1>4. StepInv' BY DEF StepInv
<1>5. HealInv' BY DEF StepInv, HealInv, Old, OldItem, OldLoad, StaleLoad, CacheTypeOK, Items, Put, Delete
<1> QED BY <1>1, <1>2, <1>3, <1>4, <1>5 DEF PatternInv

\* The timer's delete: what it leaves behind is marked in crossed.
LEMMA DeleteAgainInv ==
  ASSUME PatternInv, DeleteAgain
  PROVE  PatternInv'
<1> USE AnyValType, PatternAssumption DEF PatternAssumption, PatternInv, PatternTypeOK, DeleteAgain, config, cacheVars, readVars, writeVars
<1>1. PatternTypeOK'
  <2>1. crossed' \in BOOLEAN BY DEF StaleLoad
  <2> QED BY <2>1 DEF CacheTypeOK, Delete
<1>2. SingleLoad' BY DEF SingleLoad
<1>3. StoredInv' BY DEF StoredInv, CacheTypeOK, Items, Put, Delete
<1>4. StepInv' BY DEF StepInv
<1>5. HealInv' BY DEF StepInv, HealInv, Old, OldItem, OldLoad, StaleLoad, CacheTypeOK, Items, Put, Delete
<1> QED BY <1>1, <1>2, <1>3, <1>4, <1>5 DEF PatternInv

\* The lookup of single flight is followed by group.Do.
LEMMA GetInv ==
  ASSUME PatternInv, NEW r \in Readers, Get(r)
  PROVE  PatternInv'
<1> USE AnyValType, PatternAssumption DEF PatternAssumption, PatternInv, PatternTypeOK, Get, config, cacheVars, readVars, writeVars
<1>1. PatternTypeOK' BY DEF CacheTypeOK, Items, Put, Delete, SingleLoad
<1>2. SingleLoad' BY DEF SingleLoad
<1>3. StoredInv' BY DEF StoredInv, CacheTypeOK, Items, Put, Delete
<1>4. StepInv' BY DEF StepInv
<1>5. HealInv' BY DEF StepInv, HealInv, Old, OldItem, OldLoad, StaleLoad, CacheTypeOK, Items, Put, Delete
<1> QED BY <1>1, <1>2, <1>3, <1>4, <1>5 DEF PatternInv

\* group.Do registers a flight exactly when it is going to load.
LEMMA DoInv ==
  ASSUME PatternInv, NEW r \in Readers, Do(r)
  PROVE  PatternInv'
<1> USE AnyValType, PatternAssumption DEF PatternAssumption, PatternInv, PatternTypeOK, Do, config, cacheVars, readVars, writeVars
<1>1. PatternTypeOK' BY DEF CacheTypeOK, Items, Put, Delete, SingleLoad, StepInv
<1>2. SingleLoad' BY DEF SingleLoad, StepInv
<1>3. StoredInv' BY DEF StoredInv, CacheTypeOK, Items, Put, Delete
<1>4. StepInv' BY DEF StepInv
<1>5. HealInv' BY DEF StepInv, HealInv, Old, OldItem, OldLoad, StaleLoad, CacheTypeOK, Items, Put, Delete
<1> QED BY <1>1, <1>2, <1>3, <1>4, <1>5 DEF PatternInv

\* A load that fails takes the flight, and all who joined it, with it.
LEMMA LoadFailsInv ==
  ASSUME PatternInv, NEW r \in Readers, LoadFails(r)
  PROVE  PatternInv'
<1> USE AnyValType, PatternAssumption DEF PatternAssumption, PatternInv, PatternTypeOK, LoadFails, Return, config, cacheVars, readVars, writeVars
<1>1. PatternTypeOK' BY DEF CacheTypeOK, Items, Put, Delete, SingleLoad
<1>2. SingleLoad' BY DEF SingleLoad
<1>3. StoredInv' BY DEF StoredInv, CacheTypeOK, Items, Put, Delete
<1>4. StepInv' BY DEF StepInv
<1>5. HealInv' BY DEF StepInv, HealInv, Old, OldItem, OldLoad, StaleLoad, CacheTypeOK, Items, Put, Delete
<1> QED BY <1>1, <1>2, <1>3, <1>4, <1>5 DEF PatternInv

\* loadFunc returns what the database holds.
LEMMA LoadInv ==
  ASSUME PatternInv, NEW r \in Readers, Load(r)
  PROVE  PatternInv'
<1> USE AnyValType, PatternAssumption DEF PatternAssumption, PatternInv, PatternTypeOK, Load, config, cacheVars, readVars, writeVars
<1>1. PatternTypeOK' BY DEF CacheTypeOK, Items, Put, Delete, SingleLoad
<1>2. SingleLoad' BY DEF SingleLoad
<1>3. StoredInv' BY DEF StoredInv, CacheTypeOK, Items, Put, Delete
<1>4. StepInv' BY DEF StepInv
<1>5. HealInv' BY DEF StepInv, HealInv, Old, OldItem, OldLoad, StaleLoad, CacheTypeOK, Items, Put, Delete
<1> QED BY <1>1, <1>2, <1>3, <1>4, <1>5 DEF PatternInv

\* The value put was in the database when it was loaded.
LEMMA PutLoadedInv ==
  ASSUME PatternInv, NEW r \in Readers, PutLoaded(r)
  PROVE  PatternInv'
<1> USE AnyValType, PatternAssumption DEF PatternAssumption, PatternInv, PatternTypeOK, PutLoaded, Return, PutRandomExpire, config, cacheVars, readVars, writeVars
<1>1. PatternTypeOK'
  <2>1. item' \in Items BY PutType
  <2>2. flight' <=> (rd' = "flight" /\ \E q \in Readers : rpc'[q] \in {"load", "put"})
    BY DEF SingleLoad
  <2> QED BY <2>1, <2>2 DEF CacheTypeOK
<1>2. SingleLoad' BY DEF SingleLoad
<1>3. StoredInv' BY DEF StoredInv, CacheTypeOK, Items, Put, Delete
<1>4. StepInv' BY DEF StepInv
<1>5. HealInv' BY DEF StepInv, HealInv, Old, OldItem, OldLoad, StaleLoad, CacheTypeOK, Items, Put, Delete
<1> QED BY <1>1, <1>2, <1>3, <1>4, <1>5 DEF PatternInv

\* storeFunc: the item may be stale from here, and a delete is owed.
LEMMA SetInv ==
  ASSUME PatternInv, NEW w \in Writers, Set(w)
  PROVE  PatternInv'
<1> USE AnyValType, PatternAssumption DEF PatternAssumption, PatternInv, PatternTypeOK, Set, Stored, AfterStore, config, cacheVars, readVars, writeVars
<1>1. PatternTypeOK' BY DEF CacheTypeOK, Items, Put, Delete, SingleLoad
<1>2. SingleLoad' BY DEF SingleLoad
<1>3. StoredInv' BY DEF StoredInv, CacheTypeOK, Items, Put, Delete
<1>4. StepInv' BY DEF StepInv
<1>5. HealInv' BY DEF StepInv, HealInv, Old, OldItem, OldLoad, StaleLoad, CacheTypeOK, Items, Put, Delete
<1> QED BY <1>1, <1>2, <1>3, <1>4, <1>5 DEF PatternInv

\* A failed storeFunc leaves everything as it was.
LEMMA StoreFailsInv ==
  ASSUME PatternInv, NEW w \in Writers, StoreFails(w)
  PROVE  PatternInv'
<1> USE AnyValType, PatternAssumption DEF PatternAssumption, PatternInv, PatternTypeOK, StoreFails, patternVars, config, cacheVars, readVars, writeVars
<1>1. PatternTypeOK' BY DEF CacheTypeOK, Items, Put, Delete, SingleLoad
<1>2. SingleLoad' BY DEF SingleLoad
<1>3. StoredInv' BY DEF StoredInv, CacheTypeOK, Items, Put, Delete
<1>4. StepInv' BY DEF StepInv
<1>5. HealInv' BY DEF StepInv, HealInv, Old, OldItem, OldLoad, StaleLoad, CacheTypeOK, Items, Put, Delete
<1> QED BY <1>1, <1>2, <1>3, <1>4, <1>5 DEF PatternInv

\* After a timeout the deleting decorators owe the delete all the same.
LEMMA StoreTimesOutInv ==
  ASSUME PatternInv, NEW w \in Writers, StoreTimesOut(w)
  PROVE  PatternInv'
<1> USE AnyValType, PatternAssumption DEF PatternAssumption, PatternInv, PatternTypeOK, StoreTimesOut, Overdue, Stored, AfterStore, config, cacheVars, readVars, writeVars
<1>1. PatternTypeOK' BY DEF CacheTypeOK, Items, Put, Delete, SingleLoad
<1>2. SingleLoad' BY DEF SingleLoad
<1>3. StoredInv' BY DEF StoredInv, CacheTypeOK, Items, Put, Delete
<1>4. StepInv' BY DEF StepInv
<1>5. HealInv' BY DEF StepInv, HealInv, Old, OldItem, OldLoad, StaleLoad, CacheTypeOK, Items, Put, Delete
<1> QED BY <1>1, <1>2, <1>3, <1>4, <1>5 DEF PatternInv

\* A store that takes effect late is followed by a delete, or marked in crossed.
LEMMA StoreLateInv ==
  ASSUME PatternInv, StoreLate
  PROVE  PatternInv'
<1> USE AnyValType, PatternAssumption DEF PatternAssumption, PatternInv, PatternTypeOK, StoreLate, Stored, config, cacheVars, readVars, writeVars
<1>1. PatternTypeOK' BY DEF CacheTypeOK, Items, Put, Delete, SingleLoad
<1>2. SingleLoad' BY DEF SingleLoad
<1>3. StoredInv' BY DEF StoredInv, CacheTypeOK, Items, Put, Delete
<1>4. StepInv' BY DEF StepInv
<1>5. HealInv' BY DEF StepInv, HealInv, LastOwed
<1> QED BY <1>1, <1>2, <1>3, <1>4, <1>5 DEF PatternInv

\* The timer takes over what the arming Set owed.
LEMMA ArmInv ==
  ASSUME PatternInv, NEW w \in Writers, Arm(w)
  PROVE  PatternInv'
<1> USE AnyValType, PatternAssumption DEF PatternAssumption, PatternInv, PatternTypeOK, Arm, config, cacheVars, readVars, writeVars
<1>1. PatternTypeOK' BY DEF CacheTypeOK, Items, Put, Delete, SingleLoad
<1>2. SingleLoad' BY DEF SingleLoad
<1>3. StoredInv' BY DEF StoredInv, CacheTypeOK, Items, Put, Delete
<1>4. StepInv' BY DEF StepInv
<1>5. HealInv' BY DEF StepInv, HealInv, Old, OldItem, OldLoad, StaleLoad, CacheTypeOK, Items, Put, Delete
<1> QED BY <1>1, <1>2, <1>3, <1>4, <1>5 DEF PatternInv

\* Write through puts what it stored; the others delete.
LEMMA FinishInv ==
  ASSUME PatternInv, NEW w \in Writers, Finish(w)
  PROVE  PatternInv'
<1> USE AnyValType, PatternAssumption DEF PatternAssumption, PatternInv, PatternTypeOK, Finish, PutRandomExpire, config, cacheVars, readVars, writeVars
<1>1. PatternTypeOK'
  <2>1. CacheTypeOK' BY PutType DEF CacheTypeOK, Delete
  <2> QED BY <2>1
<1>2. SingleLoad' BY DEF SingleLoad
<1>3. StoredInv' BY DEF StoredInv, CacheTypeOK, Items, Put, Delete
<1>4. StepInv' BY DEF StepInv
<1>5. HealInv' BY DEF StepInv, HealInv, Old, OldItem, OldLoad, StaleLoad, CacheTypeOK, Items, Put, Delete
<1> QED BY <1>1, <1>2, <1>3, <1>4, <1>5 DEF PatternInv

\* Every step preserves the inductive invariant.
LEMMA PatternNextInv == PatternInv /\ [PatternNext]_patternVars => PatternInv'
<1> SUFFICES ASSUME PatternInv, [PatternNext]_patternVars PROVE PatternInv' OBVIOUS
<1>1. CASE Cache /\ Age BY <1>1, AgingInv
<1>2. CASE Cache /\ expiredKeys BY <1>2, ScanInv
<1>3. CASE Cache /\ clearItems BY <1>3, ClearInv
<1>4. CASE ClearAll BY <1>4, ClearAllInv
<1>5. CASE DeleteAgain BY <1>5, DeleteAgainInv
<1>6. ASSUME NEW r \in Readers, Get(r) PROVE PatternInv' BY <1>6, GetInv
<1>7. ASSUME NEW r \in Readers, LoadFails(r) PROVE PatternInv' BY <1>7, LoadFailsInv
<1>8. ASSUME NEW r \in Readers, Load(r) PROVE PatternInv' BY <1>8, LoadInv
<1>9. ASSUME NEW r \in Readers, PutLoaded(r) PROVE PatternInv' BY <1>9, PutLoadedInv
<1>10. ASSUME NEW w \in Writers, Set(w) PROVE PatternInv' BY <1>10, SetInv
<1>11. ASSUME NEW r \in Readers, Do(r) PROVE PatternInv' BY <1>11, DoInv
<1>12. ASSUME NEW w \in Writers, StoreFails(w) PROVE PatternInv' BY <1>12, StoreFailsInv
<1>13. ASSUME NEW w \in Writers, StoreTimesOut(w) PROVE PatternInv' BY <1>13, StoreTimesOutInv
<1>14. ASSUME NEW w \in Writers, Arm(w) PROVE PatternInv' BY <1>14, ArmInv
<1>15. ASSUME NEW w \in Writers, Finish(w) PROVE PatternInv' BY <1>15, FinishInv
<1>16. CASE StoreLate BY <1>16, StoreLateInv
<1>17. CASE UNCHANGED patternVars
  BY <1>17 DEF PatternInv, PatternTypeOK, CacheTypeOK, SingleLoad, StoredInv, StepInv, HealInv, Old, OldItem, OldLoad,
     patternVars, config, cacheVars, readVars, writeVars
<1> QED BY <1>1, <1>2, <1>3, <1>4, <1>5, <1>6, <1>7, <1>8, <1>9, <1>10, <1>11, <1>12, <1>13, <1>14, <1>15, <1>17, <1>16 DEF PatternNext, Read, Write, Cache

\* The inductive invariant holds in every reachable state of the decorators.
THEOREM PatternInvariance == PatternSpec => []PatternInv
BY PatternInitInv, PatternNextInv, PTL DEF PatternSpec

\* Type correctness: a reader is on the way whenever a flight is registered.
THEOREM PatternTypeCorrect == PatternSpec => []PatternTypeOK
<1>1. PatternInv => PatternTypeOK BY DEF PatternInv
<1> QED BY PatternInvariance, <1>1, PTL

\* The single-flight decorator never has two loads of a key under way.
THEOREM FlightIsSingle == PatternSpec => []SingleLoad
<1>1. PatternInv => SingleLoad BY DEF PatternInv
<1> QED BY PatternInvariance, <1>1, PTL

\* The cache never holds a value the database never had, under every decorator.
THEOREM NeverAhead == PatternSpec => []CachedWasStored
<1>1. PatternInv => CachedWasStored BY DEF PatternInv, StoredInv, CachedWasStored
<1> QED BY PatternInvariance, <1>1, PTL

\* Under the deleting decorators a stale value is met by a delete, unless the
\* last delete of a Set met a load that was older than the Set, or came before
\* a store that had timed out.
THEOREM Healing == PatternSpec => []DeleteHeals
<1>1. PatternInv => DeleteHeals
  <2> SUFFICES ASSUME PatternInv, wr # "through", Stale
               PROVE  crossed \/ timers > 0 \/ \E w \in Writers : wpc[w] \in {"arm", "delete"}
    BY DEF DeleteHeals
  <2>1. wr \in {"delete", "double"} BY PatternAssumption DEF PatternAssumption, PatternInv, PatternTypeOK
  <2>2. Old BY DEF Stale, Hit, Old, OldItem
  <2> QED BY <2>1, <2>2 DEF PatternInv, HealInv
<1> QED BY PatternInvariance, <1>1, PTL

=============================================================================
